-------------------------------- MODULE Search --------------------------------
(***************************************************************************)
(* The search page: src/handler/search.c and accountSearch of              *)
(* src/models/account.c.  Texts are sequences of bytes; the table holds    *)
(* them encoded.                                                           *)
(***************************************************************************)
EXTENDS Base64Code, FiniteSetsExt, SequencesExt

CONSTANTS
    People,         \* who may sign up: a name, an email, a username
    Queries,        \* what is asked for
    Limit,          \* of the query, 10
    MaxAccounts     \* bound

Fields == {"name", "email", "username"}

ASSUME SearchAssumption ==
    /\ People \subseteq [Fields -> Seq(Byte)]
    /\ Queries \subseteq Seq(Byte)
    /\ Limit \in Nat /\ MaxAccounts \in Nat

VARIABLES
    accounts,       \* the table: when created, the fields as stored, and as they were given
    query,
    results            \* what was answered: a page with its rows, notFound or a redirect

searchVars == <<accounts, query, results>>

---------------------------------------------------------------------------
(* accountCreate: src/models/account.c *)

\* email TEXT UNIQUE
EmailTaken(email) == \E i \in DOMAIN accounts : accounts[i].stored["email"] = Encode(email)

Signup ==
    /\ Len(accounts) < MaxAccounts
    /\ \E person \in People, later \in 0..1 :
           /\ ~EmailTaken(person["email"])
           /\ accounts' = Append(accounts,
                  [createdAt |-> later + (IF accounts = << >> THEN 0 ELSE Last(accounts).createdAt),
                   stored    |-> [f \in Fields |-> Encode(person[f])],
                   meant     |-> person])
    /\ UNCHANGED <<query, results>>

---------------------------------------------------------------------------
(* accountSearch *)

\* LIKE does not tell letters by their case.
Fold(c) == IF c \in 65..90 THEN c + 32 ELSE c

\* LIKE '%' || pattern || '%': there is neither % nor _ in a pattern of Base64.
Like(text, pattern) ==
    \E k \in 0..(Len(text) - Len(pattern)) :
        \A j \in 1..Len(pattern) : Fold(text[k + j]) = Fold(pattern[j])

\* Mutant: the query is not encoded (FoundWhenAligned).
PatternPlain(q) == q

Pattern(q) == Encode(q)

Matches(q) == {i \in DOMAIN accounts : \E f \in Fields : Like(accounts[i].stored[f], Pattern(q))}

SmallerOf(m, n) == IF m < n THEN m ELSE n

\* ORDER BY createdAt DESC, ties in any order, LIMIT.
Newest(S) ==
    {rows \in [1..SmallerOf(Limit, Cardinality(S)) -> S] :
        /\ \A j, k \in DOMAIN rows :
               j < k => rows[j] # rows[k]
                        /\ accounts[rows[j]].createdAt >= accounts[rows[k]].createdAt
        /\ \A i \in S \ {rows[j] : j \in DOMAIN rows} :
               \A j \in DOMAIN rows : accounts[i].createdAt <= accounts[rows[j]].createdAt}

---------------------------------------------------------------------------
(* The handler *)

Page(kind, rows) == [kind |-> kind, rows |-> rows]

Search(q, loggedIn) ==
    /\ query' = q
    /\ IF ~loggedIn THEN results' = Page("redirect", << >>)
       ELSE IF q = << >> THEN results' = Page("notFound", << >>)
       ELSE \E rows \in Newest(Matches(q)) : results' = Page("results", rows)
    /\ UNCHANGED accounts

---------------------------------------------------------------------------
SearchInit == accounts = << >> /\ query = << >> /\ results = Page("none", << >>)

SearchNext == Signup \/ \E q \in Queries, loggedIn \in BOOLEAN : Search(q, loggedIn)

SearchSpec == SearchInit /\ [][SearchNext]_searchVars

---------------------------------------------------------------------------
(* Properties *)

Shown == results.kind = "results"

\* The query stands in a field from a byte on whose number is a multiple of three, and its
\* length is one, or it ends with the field.
StandsAligned(q, word) ==
    \E k \in 0..(Len(word) - Len(q)) :
        /\ \A j \in 1..Len(q) : word[k + j] = q[j]
        /\ k % 3 = 0
        /\ Len(q) % 3 = 0 \/ k + Len(q) = Len(word)

\* Whoever is asked for by a whole field, or by a part of it that Base64 encodes as it
\* does in the field, is on the page, unless the page is full of others not older, who
\* signed up before the page was made.
FoundWhenAligned ==
    [][\A q \in Queries \ {<< >>} : Search(q, TRUE) =>
           \A i \in DOMAIN accounts :
               (\E f \in Fields : StandsAligned(q, accounts[i].meant[f])) =>
                   \/ \E j \in DOMAIN results'.rows : results'.rows[j] = i
                   \/ /\ Len(results'.rows) = Limit
                      /\ \A j \in 1..Limit :
                             accounts[results'.rows[j]].createdAt >= accounts[i].createdAt]_searchVars
=============================================================================
