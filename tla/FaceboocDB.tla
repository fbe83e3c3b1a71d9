----------------------------- MODULE FaceboocDB -----------------------------
(***************************************************************************)
(* The SQL statements of src/models/*.c as operators on table values.      *)
(*                                                                         *)
(* accounts, sessions and posts are sequences of rows: ids are INTEGER     *)
(* PRIMARY KEY, no statement deletes from these tables, so the id of a row *)
(* is its position.  connections and likes are bags of pairs: their ids,   *)
(* dates and the like's author column are never read back, but how many    *)
(* equal rows there are is.  Statements that read one row take the first   *)
(* one of a table scan, hence FirstRow.                                    *)
(*                                                                         *)
(* Base64 of stored text and SHA-256 of passwords are injective on the     *)
(* values compared here, so a value stands for its encoding.               *)
(*                                                                         *)
(* Here and in Facebooc an operator marked "Mutant" is the bug next door:  *)
(* the property named there fails when it takes the place of the operator  *)
(* it precedes.                                                            *)
(***************************************************************************)
EXTENDS Integers, Sequences, FiniteSets, BagsExt, FiniteSetsExt

CONSTANT PageSize               \* LIMIT of the listing queries (10 in the code)

ASSUME PageSizeAssumption == PageSize \in Nat \ {0}

NoRow == 0                      \* "no such row": ids start at 1

\* sqlite3_step once on a SELECT without ORDER BY: the lowest matching row id.
FirstRow(ids) == IF ids = {} THEN NoRow
                 ELSE CHOOSE i \in ids : \A j \in ids : i <= j

---------------------------------------------------------------------------
(* accounts *)

AccountRow(emails, usernames, passwords) ==
    [email : emails, username : usernames, password : passwords]

\* accountCheckUsername, accountCheckEmail: TRUE when no row has the value.
CheckUsername(accounts, u) == \A i \in DOMAIN accounts : accounts[i].username # u
CheckEmail(accounts, e)    == \A i \in DOMAIN accounts : accounts[i].email # e

\* account_auth: compares with the first row of that username only.
Auth(accounts, u, p) ==
    LET i == FirstRow({j \in DOMAIN accounts : accounts[j].username = u})
    IN  i # NoRow /\ accounts[i].password = p

\* accountGetById: the row, if there is one.
AccountExists(accounts, id) == id \in DOMAIN accounts

\* Mutants: without the constraint (EmailsUnique), with ON CONFLICT REPLACE (SidStable).
AccountInsertAlways(accounts, row) == Append(accounts, row)
AccountReplace(accounts, row) ==
    Append(SelectSeq(accounts, LAMBDA r : r.email # row.email), row)

\* accountCreate: the UNIQUE constraint on email refuses a second row.
AccountInsert(accounts, row) ==
    IF CheckEmail(accounts, row.email) THEN Append(accounts, row) ELSE accounts

---------------------------------------------------------------------------
(* sessions *)

\* Mutant: the query does not compare the name (LoginMatches).
PasswordAccount(accounts, u, p) == FirstRow({j \in DOMAIN accounts : accounts[j].password = p})

\* First query of sessionCreate: an account with both the name and the password.
LoginAccount(accounts, u, p) ==
    FirstRow({j \in DOMAIN accounts : accounts[j].username = u /\ accounts[j].password = p})

\* Mutant: one session per account (CookiesHonoured).
SessionReplace(sessions, row) ==
    Append(SelectSeq(sessions, LAMBDA r : r.account # row.account), row)

\* The INSERT of sessionCreate: an account may have any number of sessions.
SessionInsert(sessions, row) == Append(sessions, row)

\* sessionGetBySId, which sessionCreate also ends with.
SessionBySid(sessions, sid) ==
    FirstRow({i \in DOMAIN sessions : sessions[i].session = sid})

\* accountGetBySId: the session's account, or NoRow.
AccountBySid(accounts, sessions, sid) ==
    LET s == SessionBySid(sessions, sid)
    IN  IF s # NoRow /\ sessions[s].account \in DOMAIN accounts
        THEN sessions[s].account ELSE NoRow

---------------------------------------------------------------------------
(* likes and connections *)

\* How many rows of a bag hold this pair.
RowCount(table, pair) == IF pair \in DOMAIN table THEN table[pair] ELSE 0

\* Mutants: one row is deleted (AnswerMeansDone), anybody's like counts (SocialSpec).
LikeDeleteOne(likes, account, post)   == BagRemove(likes, <<account, post>>)
LikeLikedByAny(likes, account, post)  == \E pair \in DOMAIN likes : pair[2] = post

\* likeCreate, likeDelete, likeLiked.
LikeInsert(likes, account, post) == BagAdd(likes, <<account, post>>)
LikeDelete(likes, account, post) == BagRemoveAll(likes, <<account, post>>)
LikeLiked(likes, account, post)  == RowCount(likes, <<account, post>>) > 0

\* connectionCreate, connectionGetByAccountIds.
ConnectionInsert(connections, account1, account2) ==
    BagAdd(connections, <<account1, account2>>)
ConnectionExists(connections, account1, account2) ==
    RowCount(connections, <<account1, account2>>) > 0

---------------------------------------------------------------------------
(* posts *)

\* Mutant: postGetById's result is not looked at (NoOrphans).
PostPresumed(posts, id) == TRUE

\* postGetById: the row, if there is one.
PostExists(posts, id) == id \in DOMAIN posts

\* Mutant: ORDER BY createdAt, the oldest first (SocialSpec).
PrecedesOldest(posts, p, q) ==
    \/ posts[p].createdAt < posts[q].createdAt
    \/ posts[p].createdAt = posts[q].createdAt /\ p < q

\* ORDER BY createdAt DESC; rows of the same second stay in scan order.
Precedes(posts, p, q) ==
    \/ posts[p].createdAt > posts[q].createdAt
    \/ posts[p].createdAt = posts[q].createdAt /\ p < q

\* How many rows of a listing that yields rows[p] rows for post p come before those of p.
RowsBefore(posts, rows, p) ==
    MapThenSumSet(LAMBDA q : rows[q], {q \in DOMAIN posts : Precedes(posts, q, p)})

\* Page 0 of that listing: for each row that LIMIT lets through, the post it is of.
\* A post with several rows is there several times.
FirstPage(posts, rows) ==
    LET total     == MapThenSumSet(LAMBDA p : rows[p], DOMAIN posts)
        before(p) == RowsBefore(posts, rows, p)
    IN  [k \in 1..Min({PageSize, total}) |->
            CHOOSE p \in DOMAIN posts : before(p) < k /\ k <= before(p) + rows[p]]

\* postGetLatest: the author's posts, one row each.
LatestOf(posts, author) ==
    FirstPage(posts, [p \in DOMAIN posts |-> IF posts[p].author = author THEN 1 ELSE 0])

\* postGetLatestGraph.  The LEFT JOIN yields one row per connection that points
\* at the post's author (or a single row without any); the WHERE keeps all of
\* them when the reader is the author, else those made by the reader: a post is
\* listed once for each.
GraphRows(posts, connections, reader) ==
    LET pointingAt(a) == {c \in DOMAIN connections : c[2] = a}
        joined(a)     == MapThenSumSet(LAMBDA c : connections[c], pointingAt(a))
    IN  [p \in DOMAIN posts |->
            LET a == posts[p].author
            IN  IF a = reader THEN IF pointingAt(a) = {} THEN 1 ELSE joined(a)
                ELSE RowCount(connections, <<reader, a>>)]

LatestGraph(posts, connections, reader) ==
    FirstPage(posts, GraphRows(posts, connections, reader))
=============================================================================
