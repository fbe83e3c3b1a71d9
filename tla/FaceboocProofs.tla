--------------------------- MODULE FaceboocProofs ---------------------------
(***************************************************************************)
(* Proofs about Facebooc, for any number of browsers and tabs, any values, *)
(* any file to start from and any bounds: the types, the safety properties *)
(* of FaceboocProps, and that the site implements the social network of    *)
(* module Social.  The last two rest on one lemma, FileStep, that says all *)
(* there is to say about what a step can do to the file: tables only grow, *)
(* and what is added refers to rows that are there.                        *)
(***************************************************************************)
EXTENDS FaceboocProps, LeastNumber

---------------------------------------------------------------------------
(* Operators on tables *)

\* A scan that finds rows returns one of them, and the lowest.
LEMMA FirstRowIn ==
    ASSUME NEW ids \in SUBSET Nat, ids # {}
    PROVE  FirstRow(ids) \in ids /\ \A j \in ids : FirstRow(ids) <= j
BY LeastNat DEF FirstRow

\* A row has the type of the table's rows.
LEMMA RowType == ASSUME NEW S, NEW s \in Seq(S), NEW i \in DOMAIN s PROVE s[i] \in S
OBVIOUS

\* What lists rows of a part lists rows of the whole.
LEMMA SeqOfPart == ASSUME NEW S, NEW T \in SUBSET S, NEW s \in Seq(T) PROVE s \in Seq(S)
<1>1. s \in [1..Len(s) -> T] /\ Len(s) \in Nat
    OBVIOUS
<1>2. s \in [1..Len(s) -> S]
    BY <1>1
<1>. QED
    BY <1>1, <1>2

\* A row more makes a longer table of the same type.
LEMMA AppendRow ==
    ASSUME NEW S, NEW s \in Seq(S), NEW x \in S
    PROVE  /\ Append(s, x) \in Seq(S)
           /\ Len(Append(s, x)) = Len(s) + 1
           /\ Append(s, x)[Len(s) + 1] = x
           /\ \A i \in DOMAIN s : i \in DOMAIN Append(s, x) /\ Append(s, x)[i] = s[i]
           /\ DOMAIN Append(s, x) = DOMAIN s \cup {Len(s) + 1}
OBVIOUS

\* Inserting a pair gives a table that has the old pairs and the new one.
LEMMA BagAddTable ==
    ASSUME NEW b, IsTable(b), NEW x \in Pairs
    PROVE  IsTable(BagAdd(b, x)) /\ DOMAIN BagAdd(b, x) = DOMAIN b \cup {x}
<1>1. DOMAIN BagAdd(b, x) = DOMAIN b \cup {x}
    BY DEF BagAdd
<1>2. IsFiniteSet(DOMAIN b \cup {x})
    BY FS_AddElement DEF IsTable
<1>3. BagAdd(b, x) \in [DOMAIN b \cup {x} -> Nat \ {0}]
    BY DEF BagAdd, IsTable
<1>. QED
    BY <1>1, <1>2, <1>3 DEF IsTable

\* Deleting a pair takes all its rows.
LEMMA BagRemoveAllTable ==
    ASSUME NEW b, IsTable(b), NEW x
    PROVE  IsTable(BagRemoveAll(b, x)) /\ DOMAIN BagRemoveAll(b, x) = DOMAIN b \ {x}
BY FS_RemoveElement DEF BagRemoveAll, IsTable

\* A cookie stands for an account in the file, or for nobody.
LEMMA AccountBySidIn ==
    ASSUME NEW a, NEW s, NEW sid
    PROVE  AccountBySid(a, s, sid) \in DOMAIN a \cup {NoRow}
BY DEF AccountBySid

\* The account of a successful login has the name and the password given.
LEMMA LoginAccountMatches ==
    ASSUME NEW E, NEW U, NEW P, NEW a \in Seq(AccountRow(E, U, P)), NEW u, NEW p,
           Auth(a, u, p)
    PROVE  /\ LoginAccount(a, u, p) \in DOMAIN a
           /\ a[LoginAccount(a, u, p)].username = u
           /\ a[LoginAccount(a, u, p)].password = p
<1>. DEFINE named == {j \in DOMAIN a : a[j].username = u}
            both  == {j \in DOMAIN a : a[j].username = u /\ a[j].password = p}
<1>1. named \in SUBSET Nat /\ both \in SUBSET Nat
    OBVIOUS
<1>2. named # {} /\ a[FirstRow(named)].password = p
    BY DEF Auth, FirstRow
<1>3. FirstRow(named) \in both
    BY <1>1, <1>2, FirstRowIn
<1>4. FirstRow(both) \in both
    BY <1>1, <1>3, FirstRowIn
<1>. QED
    BY <1>4 DEF LoginAccount

---------------------------------------------------------------------------
(* The first page of a listing *)

\* The sums in the queries are sums of weights.
LEMMA ListingSum ==
    ASSUME NEW w, NEW S
    PROVE  MapThenSumSet(LAMBDA q : w[q], S) = SumOf(w, S)
BY DEF MapThenSumSet, MapThenFoldSet, SumOf, Summed, SumBody, FirstOf

\* rows tells how many rows a listing yields for each post of the table.
Listing(table, rows) == rows \in [DOMAIN table -> Nat]

Row == [author : Nat, createdAt : Nat]

Total(table, rows) == SumOf(rows, DOMAIN table)

\* Row k of the listing is one of p's.
At(table, rows, k, p) ==
    RowsBefore(table, rows, p) < k /\ k <= RowsBefore(table, rows, p) + rows[p]

\* Whatever comes before a post comes before those after it.
LEMMA PrecedesOrder ==
    ASSUME NEW table \in Seq(Row), NEW p \in DOMAIN table, NEW q \in DOMAIN table
    PROVE  /\ ~ Precedes(table, p, p)
           /\ Precedes(table, p, q) \/ p = q \/ Precedes(table, q, p)
           /\ table[q].createdAt > table[p].createdAt => Precedes(table, q, p)
           /\ Precedes(table, p, q) => table[p].createdAt >= table[q].createdAt
           /\ \A r \in DOMAIN table :
                  Precedes(table, r, p) /\ Precedes(table, p, q) => Precedes(table, r, q)
<1>1. \A r \in DOMAIN table : table[r].createdAt \in Nat /\ r \in Nat
    <2>1. \A r \in DOMAIN table : table[r] \in Row /\ r \in Nat
        BY RowType
    <2>. QED
        BY <2>1 DEF Row
<1>. QED
    BY <1>1 DEF Precedes

\* The posts that come before p, and their rows.
LEMMA BeforeIs ==
    ASSUME NEW table \in Seq(Row), NEW rows, Listing(table, rows), NEW p \in DOMAIN table
    PROVE  LET before == {q \in DOMAIN table : Precedes(table, q, p)}
           IN  /\ IsFiniteSet(DOMAIN table) /\ Weighs(rows, DOMAIN table)
               /\ IsFiniteSet(before) /\ Weighs(rows, before)
               /\ RowsBefore(table, rows, p) = SumOf(rows, before)
               /\ RowsBefore(table, rows, p) \in Nat
<1>. DEFINE before == {q \in DOMAIN table : Precedes(table, q, p)}
<1>1. IsFiniteSet(DOMAIN table)
    <2>1. DOMAIN table = 1..Len(table) /\ Len(table) \in Nat
        OBVIOUS
    <2>. QED
        BY <2>1, FS_Interval
<1>2. Weighs(rows, DOMAIN table) /\ Weighs(rows, before)
    BY DEF Weighs, Listing
<1>3. IsFiniteSet(before)
    BY <1>1, FS_Subset
<1>4. RowsBefore(table, rows, p) = SumOf(rows, before)
    BY ListingSum DEF RowsBefore
<1>. HIDE DEF before
<1>5. SumOf(rows, before) \in Nat
    BY <1>2, <1>3, SumOfPart
<1>. QED
    BY <1>1, <1>2, <1>3, <1>4, <1>5 DEF before

\* The rows of a post come before those of the posts after it.
LEMMA RowsInOrder ==
    ASSUME NEW table \in Seq(Row), NEW rows, Listing(table, rows),
           NEW p \in DOMAIN table, NEW q \in DOMAIN table, Precedes(table, p, q)
    PROVE  RowsBefore(table, rows, p) + rows[p] <= RowsBefore(table, rows, q)
<1>. DEFINE bp == {r \in DOMAIN table : Precedes(table, r, p)}
            bq == {r \in DOMAIN table : Precedes(table, r, q)}
<1>1. /\ RowsBefore(table, rows, p) = SumOf(rows, bp)
      /\ RowsBefore(table, rows, q) = SumOf(rows, bq)
      /\ IsFiniteSet(bq) /\ Weighs(rows, bq)
    BY BeforeIs
<1>2. p \in bq /\ bp \subseteq bq \ {p}
    BY PrecedesOrder
<1>. HIDE DEF bp, bq
<1>3. SumOf(rows, bq) = rows[p] + SumOf(rows, bq \ {p})
    BY <1>1, <1>2, SumOfWith
<1>4. IsFiniteSet(bq \ {p}) /\ Weighs(rows, bq \ {p})
    BY <1>1, FS_RemoveElement DEF Weighs
<1>5. /\ SumOf(rows, bp) <= SumOf(rows, bq \ {p})
      /\ SumOf(rows, bp) \in Nat /\ SumOf(rows, bq \ {p}) \in Nat
    BY <1>2, <1>4, SumOfPart
<1>6. rows[p] \in Nat
    BY DEF Listing
<1>. QED
    BY <1>1, <1>3, <1>5, <1>6

\* A set of posts has one that comes before all others, and one that comes after.
LEMMA FirstAndLastPost ==
    ASSUME NEW table \in Seq(Row), NEW S, S \subseteq DOMAIN table, S # {}
    PROVE  /\ \E p \in S : \A q \in S : ~ Precedes(table, q, p)
           /\ \E p \in S : \A q \in S : ~ Precedes(table, p, q)
<1>1. IsFiniteSet(S)
    <2>1. DOMAIN table = 1..Len(table) /\ Len(table) \in Nat
        OBVIOUS
    <2>2. IsFiniteSet(DOMAIN table)
        BY <2>1, FS_Interval
    <2>. QED
        BY <2>2, FS_Subset
<1>. DEFINE D     == DOMAIN table
            early == {x \in D \X D : Precedes(table, x[1], x[2])}
            late  == {x \in D \X D : Precedes(table, x[2], x[1])}
<1>2. \A p, q \in S : /\ <<p, q>> \in early <=> Precedes(table, p, q)
                      /\ <<p, q>> \in late <=> Precedes(table, q, p)
    OBVIOUS
<1>. HIDE DEF early, late
<1>3. \E p \in S : \A q \in S : <<q, p>> \notin early
    <2>1. /\ \A p \in S : <<p, p>> \notin early
          /\ \A p, q, r \in S : <<p, q>> \in early /\ <<q, r>> \in early => <<p, r>> \in early
        BY <1>2, PrecedesOrder
    <2>. QED
        BY <1>1, <2>1, FirstInOrder
<1>4. \E p \in S : \A q \in S : <<q, p>> \notin late
    <2>1. /\ \A p \in S : <<p, p>> \notin late
          /\ \A p, q, r \in S : <<p, q>> \in late /\ <<q, r>> \in late => <<p, r>> \in late
        BY <1>2, PrecedesOrder
    <2>. QED
        BY <1>1, <2>1, FirstInOrder
<1>. QED
    BY <1>2, <1>3, <1>4

\* Every row is some post's: the last one with fewer rows before it.
LEMMA RowPlace ==
    ASSUME NEW table \in Seq(Row), NEW rows, Listing(table, rows),
           NEW k \in 1..Total(table, rows)
    PROVE  \E p \in DOMAIN table : At(table, rows, k, p)
<1>. DEFINE D         == DOMAIN table
            before(p) == {q \in D : Precedes(table, q, p)}
            started   == {p \in D : RowsBefore(table, rows, p) < k}
<1>1. IsFiniteSet(D) /\ Weighs(rows, D) /\ Total(table, rows) \in Nat /\ D # {} /\ k \in Nat
    <2>1. IsFiniteSet(D) /\ Weighs(rows, D)
        <3>1. D = 1..Len(table) /\ Len(table) \in Nat
            OBVIOUS
        <3>. QED
            BY <3>1, FS_Interval DEF Weighs, Listing
    <2>2. Total(table, rows) \in Nat /\ (D = {} => Total(table, rows) = 0)
        BY <2>1, SumOfPart DEF Total
    <2>3. k \in Nat /\ Total(table, rows) >= 1
        BY <2>2
    <2>. HIDE DEF D
    <2>. QED
        BY <2>1, <2>2, <2>3
<1>2. started # {}
    <2>1. PICK p \in D : \A q \in D : ~ Precedes(table, q, p)
        BY <1>1, FirstAndLastPost
    <2>2. before(p) = {}
        BY <2>1
    <2>3. RowsBefore(table, rows, p) = SumOf(rows, {})
        BY <2>2, BeforeIs
    <2>4. SumOf(rows, {}) = 0
        BY <1>1, SumOfPart
    <2>. QED
        BY <2>3, <2>4
<1>3. PICK p \in started : \A q \in started : ~ Precedes(table, p, q)
    BY <1>2, FirstAndLastPost
<1>4. SUFFICES ASSUME ~ k <= RowsBefore(table, rows, p) + rows[p] PROVE FALSE
    BY <1>3 DEF At
<1>5. /\ RowsBefore(table, rows, p) \in Nat /\ rows[p] \in Nat
      /\ RowsBefore(table, rows, p) = SumOf(rows, before(p))
    BY <1>3, BeforeIs DEF Listing
<1>6. p \notin before(p)
    BY <1>3, PrecedesOrder
<1>7. ASSUME NEW S, S \subseteq D, p \in S, S \ {p} = before(p)
      PROVE  SumOf(rows, S) < k
    <2>1. IsFiniteSet(S) /\ Weighs(rows, S)
        BY <1>1, <1>7, FS_Subset DEF Weighs
    <2>2. SumOf(rows, S) = rows[p] + SumOf(rows, before(p))
        BY <1>7, <2>1, SumOfWith
    <2>. HIDE DEF before
    <2>. QED
        BY <1>1, <1>4, <1>5, <2>2
<1>. DEFINE after == {q \in D : Precedes(table, p, q)}
<1>8. CASE after = {}
    <2>1. D \ {p} = before(p) /\ p \in D
        BY <1>3, <1>6, <1>8, PrecedesOrder
    <2>2. Total(table, rows) < k
        BY <1>7, <2>1 DEF Total
    <2>. QED
        BY <1>1, <2>2
<1>9. CASE after # {}
    <2>1. PICK r \in after : \A q \in after : ~ Precedes(table, q, r)
        BY <1>9, FirstAndLastPost
    <2>2. before(r) \ {p} = before(p) /\ p \in before(r) /\ before(r) \subseteq D
        BY <1>3, <1>6, <2>1, PrecedesOrder
    <2>3. SumOf(rows, before(r)) < k
        <3>. HIDE DEF before
        <3>. QED
            BY <1>7, <2>2
    <2>4. r \in started
        BY <2>1, <2>3, BeforeIs
    <2>. QED
        BY <1>3, <2>1, <2>4
<1>. QED
    BY <1>8, <1>9

\* It is no other post's, and what comes after p has later rows.
LEMMA RowPlaces ==
    ASSUME NEW table \in Seq(Row), NEW rows, Listing(table, rows),
           NEW p \in DOMAIN table, NEW q \in DOMAIN table, NEW j \in Nat, NEW k \in Nat,
           At(table, rows, j, p), At(table, rows, k, q), j <= k
    PROVE  p = q \/ Precedes(table, p, q)
<1>1. /\ RowsBefore(table, rows, p) \in Nat /\ rows[p] \in Nat
      /\ RowsBefore(table, rows, q) \in Nat /\ rows[q] \in Nat
    BY BeforeIs DEF Listing
<1>2. ASSUME Precedes(table, q, p) PROVE FALSE
    BY <1>1, <1>2, RowsInOrder DEF At
<1>. QED
    BY <1>2, PrecedesOrder

\* What a first page lists of the posts with rows: at least one if there are any, and
\* with each post all that are newer; the newest first, the rows of a post in a row,
\* and only a post with several rows more than once.
FairPage(table, rows, page) ==
    LET visible == {p \in DOMAIN table : rows[p] > 0}
        shown   == {page[k] : k \in DOMAIN page}
    IN  /\ page \in Seq(visible)
        /\ visible # {} => shown # {}
        /\ \A p \in shown, q \in visible :
               table[q].createdAt > table[p].createdAt => q \in shown
        /\ \A j, k \in DOMAIN page :
               j < k => /\ table[page[j]].createdAt >= table[page[k]].createdAt
                        /\ page[j] = page[k] => \A i \in j..k : page[i] = page[j]
        /\ \A j, k \in DOMAIN page : j # k /\ page[j] = page[k] => rows[page[j]] > 1

\* A first page is fair.
LEMMA FirstPageFair ==
    ASSUME NEW table \in Seq(Row), NEW rows, Listing(table, rows)
    PROVE  FairPage(table, rows, FirstPage(table, rows))
<1>. DEFINE D       == DOMAIN table
            visible == {p \in D : rows[p] > 0}
            page    == FirstPage(table, rows)
            n       == Min({PageSize, Total(table, rows)})
<1>1. IsFiniteSet(D) /\ Weighs(rows, D) /\ Total(table, rows) \in Nat
    <2>1. IsFiniteSet(D) /\ Weighs(rows, D)
        <3>1. D = 1..Len(table) /\ Len(table) \in Nat
            OBVIOUS
        <3>. QED
            BY <3>1, FS_Interval DEF Weighs, Listing
    <2>. QED
        BY <2>1, SumOfPart DEF Total
<1>2. n \in Nat /\ n <= PageSize /\ n <= Total(table, rows) /\ n \in {PageSize, Total(table, rows)}
    <2>. DEFINE both == {PageSize, Total(table, rows)}
    <2>1. \E x \in both : \A y \in both : x <= y
        BY <1>1, PageSizeAssumption
    <2>2. n \in both /\ \A y \in both : n <= y
        <3>. HIDE DEF both
        <3>. QED
            BY <2>1 DEF Min, both
    <2>. QED
        BY <1>1, <2>2, PageSizeAssumption
<1>3. page = [k \in 1..n |-> CHOOSE p \in D : At(table, rows, k, p)]
    BY ListingSum DEF FirstPage, At, Total
<1>. HIDE DEF n, page
<1>4. DOMAIN page = 1..n /\ \A k \in 1..n : page[k] \in D /\ At(table, rows, k, page[k])
    <2>1. \A k \in 1..n : \E p \in D : At(table, rows, k, p)
        <3>1. \A k \in 1..n : k \in 1..Total(table, rows)
            BY <1>1, <1>2
        <3>. QED
            BY <3>1, RowPlace
    <2>. HIDE DEF D
    <2>. QED
        BY <1>3, <2>1
<1>5. \A p \in D : RowsBefore(table, rows, p) \in Nat /\ rows[p] \in Nat
    BY BeforeIs DEF Listing
<1>6. \A j, k \in 1..n : j <= k => page[j] = page[k] \/ Precedes(table, page[j], page[k])
    <2>. SUFFICES ASSUME NEW j \in 1..n, NEW k \in 1..n, j <= k
                  PROVE  page[j] = page[k] \/ Precedes(table, page[j], page[k])
        OBVIOUS
    <2>1. j \in Nat /\ k \in Nat
        BY <1>2
    <2>. QED
        BY <1>4, <2>1, RowPlaces
<1>7. \A k \in 1..n : page[k] \in visible
    BY <1>2, <1>4, <1>5 DEF At
<1>8. page \in Seq(visible)
    <2>1. page = [k \in 1..n |-> page[k]]
        BY <1>3, <1>4
    <2>. HIDE DEF visible
    <2>2. page \in [1..n -> visible]
        BY <1>7, <2>1
    <2>. QED
        BY <1>2, <2>2
<1>9. ASSUME visible # {} PROVE \E k \in DOMAIN page : TRUE
    <2>1. PICK p \in visible : TRUE
        BY <1>9
    <2>2. rows[p] <= Total(table, rows) /\ rows[p] \in Nat \ {0}
        BY <1>1, <1>5, SumOfPart DEF Total
    <2>3. n >= 1
        BY <1>1, <1>2, <2>2, PageSizeAssumption
    <2>4. 1 \in 1..n
        BY <1>2, <2>3
    <2>. QED
        BY <1>4, <2>4
<1>10. ASSUME NEW k \in 1..n, NEW q \in visible, table[q].createdAt > table[page[k]].createdAt
       PROVE  \E j \in 1..n : page[j] = q
    <2>. DEFINE j == RowsBefore(table, rows, q) + 1
    <2>1. Precedes(table, q, page[k])
        BY <1>4, <1>10, PrecedesOrder
    <2>2. RowsBefore(table, rows, q) + rows[q] <= RowsBefore(table, rows, page[k])
        BY <1>4, <2>1, RowsInOrder
    <2>3. j \in 1..n
        <3>1. RowsBefore(table, rows, page[k]) < k
            BY <1>4 DEF At
        <3>2. /\ RowsBefore(table, rows, q) \in Nat /\ rows[q] \in Nat \ {0}
              /\ RowsBefore(table, rows, page[k]) \in Nat /\ k \in Nat /\ k <= n
            BY <1>2, <1>4, <1>5
        <3>. QED
            BY <1>2, <2>2, <3>1, <3>2
    <2>4. At(table, rows, j, q)
        BY <1>5 DEF At
    <2>5. j \in Nat /\ page[j] \in D /\ At(table, rows, j, page[j])
        BY <1>2, <1>4, <2>3
    <2>. HIDE DEF j
    <2>6. page[j] = q \/ Precedes(table, page[j], q)
        BY <2>4, <2>5, RowPlaces
    <2>7. page[j] = q \/ Precedes(table, q, page[j])
        BY <2>4, <2>5, RowPlaces
    <2>8. page[j] = q
        BY <2>5, <2>6, <2>7, PrecedesOrder
    <2>. QED
        BY <2>3, <2>8
<1>11. ASSUME NEW j \in 1..n, NEW k \in 1..n, j < k
       PROVE  /\ table[page[j]].createdAt >= table[page[k]].createdAt
              /\ page[j] = page[k] => \A i \in j..k : page[i] = page[j]
              /\ page[j] = page[k] => rows[page[j]] > 1
    <2>1. page[j] = page[k] \/ Precedes(table, page[j], page[k])
        BY <1>2, <1>6, <1>11
    <2>2. \A p \in D : table[p].createdAt \in Nat
        <3>1. \A p \in D : table[p] \in Row
            BY RowType
        <3>. QED
            BY <3>1 DEF Row
    <2>3. table[page[j]].createdAt >= table[page[k]].createdAt
        BY <1>4, <2>1, <2>2, PrecedesOrder
    <2>4. ASSUME page[j] = page[k], NEW i \in j..k PROVE page[i] = page[j]
        <3>1. i \in 1..n /\ j <= i /\ i <= k
            BY <1>2, <2>4
        <3>2. page[j] = page[i] \/ Precedes(table, page[j], page[i])
            BY <1>6, <3>1
        <3>3. page[i] = page[j] \/ Precedes(table, page[i], page[j])
            BY <1>6, <2>4, <3>1
        <3>. QED
            BY <1>4, <3>1, <3>2, <3>3, PrecedesOrder
    <2>5. ASSUME page[j] = page[k] PROVE rows[page[j]] > 1
        <3>. DEFINE before == RowsBefore(table, rows, page[j])
        <3>1. before < j /\ k <= before + rows[page[j]]
            BY <1>4, <2>5 DEF At
        <3>2. before \in Nat /\ rows[page[j]] \in Nat /\ j \in Nat /\ k \in Nat
            BY <1>2, <1>4, <1>5
        <3>. HIDE DEF before
        <3>. QED
            BY <1>11, <3>1, <3>2
    <2>. QED
        BY <2>3, <2>4, <2>5
<1>12. \A j, k \in 1..n : j # k /\ page[j] = page[k] => rows[page[j]] > 1
    BY <1>2, <1>11
<1>13. FairPage(table, rows, page)
    <2>. HIDE DEF D, visible
    <2>1. visible = {p \in DOMAIN table : rows[p] > 0}
        BY DEF D, visible
    <2>. DEFINE shown == {page[k] : k \in DOMAIN page}
    <2>2. visible # {} => shown # {}
        BY <1>9
    <2>3. \A p \in shown, q \in visible : table[q].createdAt > table[p].createdAt => q \in shown
        BY <1>4, <1>10
    <2>4. \A j, k \in DOMAIN page :
              j < k => /\ table[page[j]].createdAt >= table[page[k]].createdAt
                       /\ page[j] = page[k] => \A i \in j..k : page[i] = page[j]
        BY <1>4, <1>11
    <2>5. \A j, k \in DOMAIN page : j # k /\ page[j] = page[k] => rows[page[j]] > 1
        BY <1>4, <1>12
    <2>. QED
        BY <1>8, <2>1, <2>2, <2>3, <2>4, <2>5, Zenon DEF FairPage
<1>. QED
    BY <1>13 DEF page

\* The listings of a profile and of a dashboard; the latter lists a post several times
\* only if somebody connected to its author.
LEMMA Listings ==
    ASSUME FileOK
    PROVE  /\ posts \in Seq(Row)
           /\ \A author :
                  Listing(posts, [p \in DOMAIN posts |-> IF posts[p].author = author THEN 1 ELSE 0])
           /\ \A me : /\ Listing(posts, GraphRows(posts, connections, me))
                      /\ \A p \in DOMAIN posts :
                            GraphRows(posts, connections, me)[p] > 1 =>
                               \E c \in DOMAIN connections : c[2] = posts[p].author
<1>. DEFINE D == DOMAIN connections
            pointingAt(a) == {c \in D : c[2] = a}
            joined(a) == MapThenSumSet(LAMBDA c : connections[c], pointingAt(a))
<1>1. posts \in Seq(Row)
    BY DEF FileOK, Row
<1>2. IsFiniteSet(D) /\ Weighs(connections, D) /\ \A c \in D : connections[c] > 0
    <2>1. \A c \in D : connections[c] \in Nat \ {0}
        BY DEF FileOK, IsTable
    <2>. QED
        BY <2>1 DEF Weighs, FileOK, IsTable
<1>3. \A a : joined(a) \in Nat
    <2>. SUFFICES ASSUME NEW a PROVE joined(a) \in Nat
        OBVIOUS
    <2>1. joined(a) = SumOf(connections, pointingAt(a))
        BY ListingSum
    <2>. HIDE DEF joined
    <2>2. IsFiniteSet(pointingAt(a)) /\ Weighs(connections, pointingAt(a))
        BY <1>2, FS_Subset DEF Weighs
    <2>. HIDE DEF pointingAt
    <2>. QED
        BY <2>1, <2>2, SumOfPart
<1>4. \A a, b : RowCount(connections, <<a, b>>) \in Nat
    BY <1>2 DEF RowCount, Weighs
<1>. HIDE DEF joined
<1>5. ASSUME NEW me, NEW p \in DOMAIN posts
      PROVE  /\ GraphRows(posts, connections, me)[p] \in Nat
             /\ GraphRows(posts, connections, me)[p] > 1 =>
                    \E c \in D : c[2] = posts[p].author
    <2>. DEFINE a == posts[p].author
    <2>1. GraphRows(posts, connections, me)[p] =
              IF a = me THEN IF pointingAt(a) = {} THEN 1 ELSE joined(a)
              ELSE RowCount(connections, <<me, a>>)
        BY DEF GraphRows, joined
    <2>2. RowCount(connections, <<me, a>>) > 1 => <<me, a>> \in D
        BY DEF RowCount
    <2>3. <<me, a>>[2] = a
        OBVIOUS
    <2>4. pointingAt(a) # {} => \E c \in D : c[2] = a
        OBVIOUS
    <2>. HIDE DEF a, pointingAt
    <2>5. GraphRows(posts, connections, me)[p] \in Nat
        BY <1>3, <1>4, <2>1
    <2>6. ASSUME GraphRows(posts, connections, me)[p] > 1 PROVE \E c \in D : c[2] = a
        BY <2>1, <2>2, <2>3, <2>4, <2>6
    <2>. QED
        BY <2>5, <2>6 DEF a
<1>6. \A me : GraphRows(posts, connections, me) =
                  [p \in DOMAIN posts |-> GraphRows(posts, connections, me)[p]]
    BY DEF GraphRows
<1>7. \A me : Listing(posts, GraphRows(posts, connections, me))
    BY <1>5, <1>6 DEF Listing
<1>8. \A author :
          Listing(posts, [p \in DOMAIN posts |-> IF posts[p].author = author THEN 1 ELSE 0])
    BY DEF Listing
<1>. QED
    BY <1>1, <1>5, <1>7, <1>8

---------------------------------------------------------------------------
(* Types *)

\* The replies handlers send are replies.
LEMMA ReplyTypes ==
    /\ \A status \in Statuses : Plain(status) \in Replies
    /\ \A sid \in Sids \cup {NoSid} : SetCookie(sid) \in Replies
    /\ \A v \in Views : Rendered(v) \in Replies
<1>1. \A status \in Statuses, b \in BOOLEAN, sid \in Sids \cup {NoSid}, v \in Views :
          ReplyWith(status, b, sid, v) \in Replies
    BY DEF ReplyWith, Replies
<1>2. NoView \in Views
    BY DEF NoView, Views
<1>3. 200 \in Statuses /\ 302 \in Statuses
    BY DEF Statuses
<1>4. TRUE \in BOOLEAN /\ FALSE \in BOOLEAN /\ NoSid \in Sids \cup {NoSid}
    OBVIOUS
<1>. QED
    BY <1>1, <1>2, <1>3, <1>4, Zenon DEF Plain, SetCookie, Rendered

\* An idle tab is well formed.
LEMMA IdleOK == TabOK(Idle)
<1>1. NoReply \in Replies
    BY ReplyTypes DEF NoReply, Statuses
<1>. QED
    BY <1>1 DEF TabOK, Idle, TabState

\* Answering leaves one tab changed, and well formed.
LEMMA AnswerOK ==
    ASSUME BrowsersOK, NEW t \in Tabs, tab[t].st \in {"sent", "abandoned"},
           NEW reply \in Replies, Answer(t, reply), UNCHANGED <<jar, issued>>
    PROVE  BrowsersOK'
<1>1. TabOK(tab'[t]) /\ tab' \in [Tabs -> TabState]
    <2>1. CASE tab[t].st = "sent"
        <3>1. tab'[t] = [tab[t] EXCEPT !.st = "replied", !.reply = reply]
            BY <2>1 DEF Answer, BrowsersOK
        <3>2. tab'[t] \in TabState /\ tab'[t].st = "replied" /\ tab'[t].req = tab[t].req
            BY <3>1 DEF BrowsersOK, TabOK, TabState
        <3>3. tab[t].req \in Requests
            BY <2>1 DEF BrowsersOK, TabOK
        <3>. QED
            BY <2>1, <3>1, <3>2, <3>3 DEF Answer, BrowsersOK, TabOK
    <2>2. CASE tab[t].st = "abandoned"
        BY <2>2, IdleOK DEF Answer, BrowsersOK, TabOK
    <2>. QED
        BY <2>1, <2>2
<1>2. \A u \in Tabs : u # t => tab'[u] = tab[u]
    BY DEF Answer, BrowsersOK
<1>. QED
    BY <1>1, <1>2 DEF BrowsersOK

\* When the process ends every tab stays well formed.
LEMMA DieOK ==
    ASSUME BrowsersOK, NEW how, Die(how), UNCHANGED <<jar, issued>>
    PROVE  BrowsersOK'
<1>1. ASSUME NEW t \in Tabs PROVE TabOK(tab'[t])
    <2>1. CASE tab[t].st = "sent"
        <3>1. tab'[t] = [tab[t] EXCEPT !.st = "lost"]
            BY <2>1 DEF Die
        <3>. QED
            BY <2>1, <3>1 DEF BrowsersOK, TabOK, TabState
    <2>2. CASE tab[t].st = "abandoned"
        BY <2>2, IdleOK DEF Die
    <2>3. CASE tab[t].st \notin {"sent", "abandoned"}
        BY <2>3 DEF Die, BrowsersOK
    <2>. QED
        BY <2>1, <2>2, <2>3
<1>2. tab' = [t \in Tabs |-> tab'[t]]
    BY DEF Die
<1>. QED
    BY <1>1, <1>2 DEF BrowsersOK, TabOK

\* So they do whether the reply or a signal comes first.
LEMMA ReplyOK ==
    ASSUME BrowsersOK, NEW t \in Tabs, tab[t].st \in {"sent", "abandoned"},
           NEW reply \in Replies, Reply(t, reply), UNCHANGED <<jar, issued>>,
           server \in {"up", "stopped", "aborted"}
    PROVE  BrowsersOK' /\ server' \in {"up", "stopped", "aborted"}
BY AnswerOK, DieOK DEF Reply, Answer, Die

\* A request of one kind has the fields of that kind.
LEMMA RequestFields ==
    ASSUME BrowsersOK, NEW t \in Tabs, NEW op, Pending(t, op)
    PROVE  /\ tab[t].req \in Requests /\ tab[t].st \in {"sent", "abandoned"}
           /\ op = "login" => tab[t].req \in LoginRequest
           /\ op = "signup" => tab[t].req \in SignupRequest
           /\ op \in {"like", "unlike", "connect", "profile"} => tab[t].req \in IdRequest
<1>1. tab[t].req \in Requests /\ tab[t].req.op = op /\ tab[t].st \in {"sent", "abandoned"}
    BY DEF Pending, BrowsersOK, TabOK
<1>. QED
    BY <1>1 DEF Requests, PageRequest, LoginRequest, SignupRequest, PostRequest, IdRequest

\* A request acts for an account in the file or for nobody.
LEMMA MeIn ==
    ASSUME NEW t \in Tabs
    PROVE  /\ Me(t) \in DOMAIN accounts \cup {NoRow}
           /\ SignedIn(t) => Me(t) \in DOMAIN accounts
BY AccountBySidIn DEF Me, SignedIn

\* A handler that leaves the file well formed leaves everything well formed.
LEMMA HandlerOK ==
    ASSUME TypeOK, NEW t \in Tabs, NEW op, Pending(t, op), NEW reply \in Replies,
           Reply(t, reply) \/ Die("aborted"),
           FileOK', base' = base, counter' \in Nat, UNCHANGED <<clock, jar, issued>>
    PROVE  TypeOK'
<1>1. BrowsersOK' /\ server' \in {"up", "stopped", "aborted"}
    BY RequestFields, ReplyOK, DieOK DEF TypeOK, ServerOK, Die
<1>. QED
    BY <1>1 DEF TypeOK, ServerOK

\* Pages list posts by number.
LEMMA EntriesType ==
    ASSUME FileOK, NEW listed \in Seq(Nat), NEW me
    PROVE  Entries(listed, me) \in Seq([post : Nat, liked : BOOLEAN])
<1>1. \A p : LikeLiked(likes, me, p) \in BOOLEAN
    BY DEF LikeLiked
<1>2. \A p \in Nat, b \in BOOLEAN : [post |-> p, liked |-> b] \in [post : Nat, liked : BOOLEAN]
    OBVIOUS
<1>3. \A k \in DOMAIN listed : [post |-> listed[k], liked |-> LikeLiked(likes, me, listed[k])]
                                 \in [post : Nat, liked : BOOLEAN]
    BY <1>1, <1>2, RowType, Zenon
<1>4. DOMAIN listed = 1..Len(listed) /\ Len(listed) \in Nat
    OBVIOUS
<1>5. Entries(listed, me) \in [1..Len(listed) -> [post : Nat, liked : BOOLEAN]]
    BY <1>3, <1>4 DEF Entries
<1>. DEFINE entry == [post : Nat, liked : BOOLEAN]
<1>6. Entries(listed, me) \in [1..Len(listed) -> entry]
    BY <1>5
<1>. HIDE DEF entry
<1>7. Entries(listed, me) \in Seq(entry)
    BY <1>4, <1>6
<1>. QED
    BY <1>7 DEF entry

\* The posts of a page are rows of the table.
LEMMA PageTypes ==
    ASSUME FileOK
    PROVE  /\ \A me : LatestGraph(posts, connections, me) \in Seq(Nat)
           /\ \A author : LatestOf(posts, author) \in Seq(Nat)
<1>1. ASSUME NEW rows, Listing(posts, rows) PROVE FirstPage(posts, rows) \in Seq(Nat)
    <2>. DEFINE visible == {p \in DOMAIN posts : rows[p] > 0}
    <2>1. FirstPage(posts, rows) \in Seq(visible)
        <3>1. FairPage(posts, rows, FirstPage(posts, rows))
            BY <1>1, Listings, FirstPageFair
        <3>. QED
            BY <3>1 DEF FairPage
    <2>2. visible \subseteq Nat
        BY Listings
    <2>. HIDE DEF visible
    <2>. QED
        BY <2>1, <2>2, SeqOfPart
<1>2. ASSUME NEW author PROVE LatestOf(posts, author) \in Seq(Nat)
    BY <1>1, Listings DEF LatestOf
<1>3. ASSUME NEW me PROVE LatestGraph(posts, connections, me) \in Seq(Nat)
    BY <1>1, Listings DEF LatestGraph
<1>. QED
    BY <1>2, <1>3

---------------------------------------------------------------------------
(* Every handler keeps the types *)

\* Handlers that only read.
LEMMA ReadersOK ==
    ASSUME TypeOK, NEW t \in Tabs, UNCHANGED <<clock, jar, issued>>,
           Home(t) \/ LoginPage(t) \/ SignupPage(t) \/ NotFound(t) \/ Logout(t)
             \/ Dashboard(t) \/ Profile(t)
    PROVE  TypeOK'
<1>1. UNCHANGED file => FileOK'
    BY DEF TypeOK, FileOK, file, IsTable
<1>2. UNCHANGED <<file, memory>> => FileOK' /\ base' = base /\ counter' \in Nat
    BY <1>1 DEF TypeOK, ServerOK, memory
<1>3. Plain(200) \in Replies /\ Plain(302) \in Replies /\ Plain(404) \in Replies
    BY ReplyTypes DEF Statuses
<1>4. CASE \E op : EntryPage(t, op)
    <2>1. PICK op : EntryPage(t, op)
        BY <1>4
    <2>2. (IF SignedIn(t) THEN Plain(302) ELSE Plain(200)) \in Replies
        BY <1>3
    <2>. QED
        BY <1>2, <2>1, <2>2, HandlerOK DEF EntryPage
<1>5. CASE NotFound(t)
    BY <1>2, <1>3, <1>5, HandlerOK DEF NotFound
<1>6. CASE Logout(t)
    <2>1. (IF SignedIn(t) THEN SetCookie(NoSid) ELSE Plain(302)) \in Replies
        BY <1>3, ReplyTypes
    <2>. QED
        BY <1>2, <1>6, <2>1, HandlerOK DEF Logout
<1>7. CASE Dashboard(t)
    <2>. DEFINE shown == LatestGraph(posts, connections, Me(t))
                view  == [NoView EXCEPT !.shown = Entries(shown, Me(t))]
    <2>1. Entries(shown, Me(t)) \in Seq([post : Nat, liked : BOOLEAN])
        BY EntriesType, PageTypes DEF TypeOK
    <2>2. view \in Views
        BY <2>1 DEF NoView, Views
    <2>3. Rendered(view) \in Replies
        BY <2>2, ReplyTypes
    <2>4. \E reply \in Replies : Reply(t, reply) \/ Die("aborted")
        BY <1>3, <1>7, <2>3 DEF Dashboard
    <2>. QED
        BY <1>2, <1>7, <2>4, HandlerOK DEF Dashboard
<1>8. CASE Profile(t)
    <2>. DEFINE id == tab[t].req.id
                view == [shown     |-> Entries(LatestOf(posts, id), Me(t)),
                         connected |-> {c \in {id} : ConnectionExists(connections, Me(t), c)}]
    <2>1. Entries(LatestOf(posts, id), Me(t)) \in Seq([post : Nat, liked : BOOLEAN])
        BY EntriesType, PageTypes DEF TypeOK
    <2>2. id \in Nat
        BY <1>8, RequestFields, ConstantsAssumption DEF TypeOK, Profile, IdRequest
    <2>3. view \in Views
        BY <2>1, <2>2 DEF Views
    <2>4. Rendered(view) \in Replies
        BY <2>3, ReplyTypes
    <2>5. \E reply \in Replies : Reply(t, reply)
        BY <1>3, <1>8, <2>4 DEF Profile
    <2>. QED
        BY <1>2, <1>8, <2>5, HandlerOK DEF Profile
<1>. QED
    BY <1>4, <1>5, <1>6, <1>7, <1>8 DEF Home, LoginPage, SignupPage

\* Session ids are strings of the table's letters.
LEMMA SidType ==
    ASSUME NEW magic \in Nat \ {0}, NEW n \in Nat
    PROVE  RandomString(magic, n) \in Sids
<1>1. \A c \in Nat : magic * magic * c \in Nat
    OBVIOUS
<1>2. \A c \in Nat : GetRand(magic, c) \in Nat
    BY <1>1, UtilityAssumption DEF GetRand
<1>3. \A i \in 1..SidLength : GetRand(magic, n + i) % TableSize \in 0..(TableSize - 1)
    BY <1>2, UtilityAssumption
<1>. QED
    BY <1>3 DEF RandomString, Sids

\* Signup adds at most one row, made of the form's values.
LEMMA SignupOK ==
    ASSUME TypeOK, NEW t \in Tabs, UNCHANGED <<clock, jar, issued>>, Signup(t)
    PROVE  TypeOK'
<1>. DEFINE q   == tab[t].req
            row == [email |-> q.email, username |-> q.username, password |-> q.password]
<1>1. Plain(200) \in Replies /\ Plain(302) \in Replies
    BY ReplyTypes DEF Statuses
<1>2. \E reply \in Replies : Reply(t, reply)
    BY <1>1 DEF Signup
<1>3. q \in SignupRequest
    BY RequestFields DEF TypeOK, Signup
<1>4. row \in AccountRow(Emails, Usernames, Passwords)
    BY <1>3 DEF SignupRequest, AccountRow
<1>5. accounts' \in Seq(AccountRow(Emails, Usernames, Passwords))
    <2>1. accounts' = accounts \/ accounts' = Append(accounts, row)
        BY DEF Signup, AccountInsert
    <2>2. accounts \in Seq(AccountRow(Emails, Usernames, Passwords))
        BY DEF TypeOK, FileOK
    <2>. QED
        BY <1>4, <2>1, <2>2, AppendRow
<1>6. FileOK' /\ base' = base /\ counter' \in Nat
    BY <1>5 DEF Signup, TypeOK, FileOK, ServerOK, IsTable, memory
<1>. QED
    BY <1>2, <1>6, HandlerOK DEF Signup

\* Login adds at most one row, for an account in the file and with a new sid.
LEMMA LoginOK ==
    ASSUME TypeOK, NEW t \in Tabs, UNCHANGED <<clock, jar, issued>>, Login(t)
    PROVE  TypeOK'
<1>. DEFINE q   == tab[t].req
            sid == RandomString(base, counter)
            row == [account |-> LoginAccount(accounts, q.username, q.password),
                    session |-> sid]
<1>1. Plain(200) \in Replies /\ Plain(302) \in Replies
    BY ReplyTypes DEF Statuses
<1>2. sid \in Sids
    BY SidType, ConstantsAssumption DEF TypeOK, ServerOK
<1>3. SetCookie(sid) \in Replies
    BY <1>2, ReplyTypes
<1>4. \E reply \in Replies : Reply(t, reply) \/ Die("aborted")
    BY <1>1, <1>3 DEF Login, OpenSession
<1>5. counter' \in Nat
    BY UtilityAssumption DEF Login, OpenSession, TypeOK, ServerOK
<1>6. ASSUME OpenSession(t), Auth(accounts, q.username, q.password)
      PROVE  sessions' \in Seq([account : Nat, session : Sids])
    <2>1. LoginAccount(accounts, q.username, q.password) \in Nat
        BY <1>6, LoginAccountMatches DEF TypeOK, FileOK
    <2>2. row \in [account : Nat, session : Sids]
        BY <1>2, <2>1
    <2>3. sessions' = Append(sessions, row) \/ sessions' = sessions
        BY <1>6 DEF OpenSession, SessionInsert
    <2>4. sessions \in Seq([account : Nat, session : Sids])
        BY DEF TypeOK, FileOK
    <2>. HIDE DEF row
    <2>5. Append(sessions, row) \in Seq([account : Nat, session : Sids])
        BY <2>2, <2>4, AppendRow
    <2>. QED
        BY <2>3, <2>4, <2>5
<1>7. sessions' \in Seq([account : Nat, session : Sids])
    BY <1>6 DEF Login, TypeOK, FileOK
<1>8. FileOK' /\ base' = base
    BY <1>7 DEF Login, TypeOK, FileOK, IsTable
<1>. QED
    BY <1>4, <1>5, <1>8, HandlerOK DEF Login

\* Post adds at most one row, by a member.
LEMMA PostOK ==
    ASSUME TypeOK, NEW t \in Tabs, UNCHANGED <<clock, jar, issued>>, Post(t)
    PROVE  TypeOK'
<1>. DEFINE row == [author |-> Me(t), createdAt |-> clock]
<1>1. Plain(302) \in Replies
    BY ReplyTypes DEF Statuses
<1>2. posts' \in Seq([author : Nat, createdAt : Nat])
    <2>1. posts \in Seq([author : Nat, createdAt : Nat])
        BY DEF TypeOK, FileOK
    <2>2. CASE SignedIn(t) /\ posts' = Append(posts, row)
        <3>1. Me(t) \in Nat
            <4>1. accounts \in Seq(AccountRow(Emails, Usernames, Passwords))
                BY DEF TypeOK, FileOK
            <4>. QED
                BY <2>2, <4>1, MeIn
        <3>2. clock \in Nat
            BY ConstantsAssumption DEF TypeOK, ServerOK
        <3>3. row \in [author : Nat, createdAt : Nat]
            BY <3>1, <3>2
        <3>. HIDE DEF row
        <3>. QED
            BY <2>1, <2>2, <3>3, AppendRow
    <2>3. CASE posts' = posts
        BY <2>1, <2>3
    <2>. QED
        BY <2>2, <2>3 DEF Post
<1>3. FileOK' /\ base' = base /\ counter' \in Nat
    BY <1>2 DEF Post, TypeOK, FileOK, ServerOK, IsTable, memory
<1>. QED
    BY <1>1, <1>3, HandlerOK DEF Post

\* What the handlers of links do to likes and connections leaves them tables.
LEMMA LinksOK ==
    ASSUME TypeOK, NEW t \in Tabs, UNCHANGED <<clock, jar, issued>>,
           Like(t) \/ Unlike(t) \/ Connect(t)
    PROVE  TypeOK'
<1>. DEFINE id == tab[t].req.id
<1>1. Plain(302) \in Replies
    BY ReplyTypes DEF Statuses
<1>2. id \in Nat
    BY RequestFields, ConstantsAssumption DEF TypeOK, Like, Unlike, Connect, IdRequest
<1>3. SignedIn(t) => Me(t) \in Nat
    <2>1. accounts \in Seq(AccountRow(Emails, Usernames, Passwords))
        BY DEF TypeOK, FileOK
    <2>. QED
        BY <2>1, MeIn
<1>4. IsTable(likes) /\ IsTable(connections)
    BY DEF TypeOK, FileOK
<1>5. IsTable(likes')
    <2>1. SignedIn(t) => IsTable(LikeInsert(likes, Me(t), id))
        BY <1>2, <1>3, <1>4, BagAddTable DEF LikeInsert, Pairs
    <2>2. IsTable(LikeDelete(likes, Me(t), id))
        BY <1>4, BagRemoveAllTable DEF LikeDelete
    <2>3. \/ likes' = likes
          \/ SignedIn(t) /\ likes' = LikeInsert(likes, Me(t), id)
          \/ likes' = LikeDelete(likes, Me(t), id)
        BY DEF Like, Unlike, Connect
    <2>. QED
        BY <1>4, <2>1, <2>2, <2>3
<1>6. IsTable(connections')
    <2>1. SignedIn(t) => IsTable(ConnectionInsert(connections, Me(t), id))
        BY <1>2, <1>3, <1>4, BagAddTable DEF ConnectionInsert, Pairs
    <2>2. \/ connections' = connections
          \/ SignedIn(t) /\ connections' = ConnectionInsert(connections, Me(t), id)
        BY DEF Like, Unlike, Connect
    <2>. QED
        BY <1>4, <2>1, <2>2
<1>7. FileOK' /\ base' = base /\ counter' \in Nat
    <2>1. UNCHANGED <<accounts, sessions, posts, memory>>
        BY DEF Like, Unlike, Connect
    <2>. QED
        BY <1>5, <1>6, <2>1 DEF TypeOK, FileOK, ServerOK, memory
<1>8. Reply(t, Plain(302)) /\ \E op : Pending(t, op)
    BY DEF Like, Unlike, Connect
<1>. QED
    BY <1>1, <1>7, <1>8, HandlerOK

---------------------------------------------------------------------------
(* Every other step keeps the types *)

\* The process stops and starts.
LEMMA ProcessOK ==
    ASSUME TypeOK, Stop \/ Start \/ Tick
    PROVE  TypeOK'
<1>1. UNCHANGED file /\ FileOK'
    BY DEF Stop, Start, Tick, TypeOK, FileOK, file, IsTable
<1>2. CASE Stop
    <2>1. BrowsersOK'
        BY <1>2, DieOK DEF Stop, TypeOK
    <2>. QED
        BY <1>1, <1>2, <2>1 DEF Stop, Die, TypeOK, ServerOK, memory
<1>3. CASE Start
    BY <1>1, <1>3 DEF Start, TypeOK, ServerOK, BrowsersOK, TabOK
<1>4. CASE Tick
    BY <1>1, <1>4, ConstantsAssumption DEF Tick, TypeOK, ServerOK, BrowsersOK, TabOK, memory
<1>. QED
    BY <1>2, <1>3, <1>4

\* One tab changes, into a well-formed one.
LEMMA TabChange ==
    ASSUME BrowsersOK, NEW t \in Tabs, NEW x, TabOK(x), tab' = [tab EXCEPT ![t] = x],
           jar' \in [Browsers -> Sids \cup {NoSid}], issued' \in 0..MaxRequests
    PROVE  BrowsersOK'
BY DEF BrowsersOK, TabOK

\* Browsers ask, leave, ask again and read.
LEMMA BrowserOK ==
    ASSUME TypeOK, NEW t \in Tabs,
           Submit(t) \/ Abandon(t) \/ Retry(t) \/ GiveUp(t) \/ Deliver(t)
    PROVE  TypeOK'
<1>1. FileOK' /\ ServerOK'
    BY DEF Submit, Abandon, Retry, GiveUp, Deliver, Quiet, TypeOK, FileOK, ServerOK, file,
           memory, IsTable
<1>2. /\ BrowsersOK /\ TabOK(tab[t])
      /\ jar \in [Browsers -> Sids \cup {NoSid}] /\ issued \in 0..MaxRequests
    BY DEF TypeOK, BrowsersOK
<1>3. NoReply \in Replies
    BY ReplyTypes DEF NoReply, Statuses
<1>4. \A q \in Requests : TabOK(Sent(t, q))
    <2>1. jar[BrowserOf[t]] \in Sids \cup {NoSid}
        BY <1>2, ConstantsAssumption
    <2>. QED
        BY <1>3, <2>1 DEF Sent, TabOK, TabState
<1>5. CASE Submit(t)
    <2>1. PICK q \in Requests : tab' = [tab EXCEPT ![t] = Sent(t, q)]
        BY <1>5 DEF Submit
    <2>2. issued' \in 0..MaxRequests /\ jar' = jar
        BY <1>2, <1>5, ConstantsAssumption DEF Submit
    <2>. QED
        BY <1>1, <1>2, <1>4, <2>1, <2>2, TabChange DEF TypeOK
<1>6. CASE Retry(t)
    <2>1. tab[t].req \in Requests
        BY <1>2, <1>6 DEF Retry, TabOK
    <2>2. issued' \in 0..MaxRequests /\ jar' = jar
        BY <1>2, <1>6, ConstantsAssumption DEF Retry
    <2>. QED
        BY <1>1, <1>2, <1>4, <1>6, <2>1, <2>2, TabChange DEF Retry, TypeOK
<1>7. CASE GiveUp(t)
    BY <1>1, <1>2, <1>7, IdleOK, TabChange DEF GiveUp, TypeOK
<1>8. CASE Abandon(t)
    <2>. DEFINE x == [tab[t] EXCEPT !.st = "abandoned", !.reply = NoReply]
    <2>1. CASE tab[t].st = "sent"
        <3>1. x \in TabState /\ x.st = "abandoned" /\ x.req = tab[t].req /\ x.reply = NoReply
            BY <1>2, <1>3 DEF TabOK, TabState
        <3>2. TabOK(x)
            BY <1>2, <2>1, <3>1 DEF TabOK
        <3>3. tab' = [tab EXCEPT ![t] = x]
            BY <1>2, <1>8, <2>1 DEF Abandon, BrowsersOK
        <3>. QED
            BY <1>1, <1>2, <1>8, <3>2, <3>3, TabChange DEF Abandon, TypeOK
    <2>2. CASE tab[t].st # "sent"
        BY <1>1, <1>2, <1>8, <2>2, IdleOK, TabChange DEF Abandon, TypeOK
    <2>. QED
        BY <2>1, <2>2
<1>9. CASE Deliver(t)
    <2>1. tab[t].reply.cookie \in Sids \cup {NoSid}
        BY <1>2 DEF TabOK, TabState, Replies
    <2>2. jar' \in [Browsers -> Sids \cup {NoSid}]
        BY <1>2, <1>9, <2>1 DEF Deliver
    <2>. QED
        BY <1>1, <1>2, <1>9, <2>2, IdleOK, TabChange DEF Deliver, TypeOK
<1>. QED
    BY <1>5, <1>6, <1>7, <1>8, <1>9

\* A browser loses its cookie.
LEMMA ExpiryOK ==
    ASSUME TypeOK, NEW b \in Browsers, CookieExpires(b)
    PROVE  TypeOK'
<1>1. FileOK' /\ ServerOK'
    BY DEF CookieExpires, Quiet, TypeOK, FileOK, ServerOK, file, memory, IsTable
<1>2. BrowsersOK'
    BY DEF CookieExpires, TypeOK, BrowsersOK, TabOK
<1>. QED
    BY <1>1, <1>2 DEF TypeOK

\* The first states have their types: the seed is a file of an earlier run.
LEMMA TypeInit == Init => TypeOK
<1>. SUFFICES ASSUME Init PROVE TypeOK
    OBVIOUS
<1>1. IsTable(connections)
    <2>1. DOMAIN Seed.accounts = 1..Len(Seed.accounts) /\ Len(Seed.accounts) \in Nat
        BY SeedAssumption
    <2>2. IsFiniteSet(DOMAIN Seed.accounts)
        BY <2>1, FS_Interval
    <2>3. IsFiniteSet((DOMAIN Seed.accounts) \X (DOMAIN Seed.accounts))
        BY <2>2, FS_Product
    <2>4. IsFiniteSet(DOMAIN Seed.connections)
        BY <2>3, SeedAssumption, FS_Subset
    <2>5. (DOMAIN Seed.accounts) \X (DOMAIN Seed.accounts) \subseteq Pairs
        BY <2>1 DEF Pairs
    <2>. QED
        BY <2>4, <2>5, SeedAssumption DEF Init, IsTable
<1>2. IsTable(likes)
    BY FS_EmptySet DEF Init, IsTable
<1>4. FileOK
    BY <1>1, <1>2, SeedAssumption DEF Init, FileOK
<1>5. ServerOK
    BY ConstantsAssumption DEF Init, ServerOK
<1>6. jar \in [Browsers -> Sids \cup {NoSid}]
    <2>1. \A i \in DOMAIN Seed.sessions : Seed.sessions[i] \in [account : Nat, session : Sids]
        BY RowType, SeedAssumption
    <2>4. \A i \in DOMAIN Seed.sessions : Seed.sessions[i].session \in Sids
        BY <2>1
    <2>5. {Seed.sessions[i].session : i \in DOMAIN Seed.sessions} \subseteq Sids
        BY <2>4
    <2>. QED
        BY <2>5, SeedAssumption DEF Init
<1>7. BrowsersOK
    BY <1>6, IdleOK, ConstantsAssumption DEF Init, BrowsersOK, TabOK
<1>. QED
    BY <1>4, <1>5, <1>7 DEF TypeOK

\* No step breaks the types.
LEMMA TypeStep == TypeOK /\ [Next]_vars => TypeOK'
<1>. SUFFICES ASSUME TypeOK, [Next]_vars PROVE TypeOK'
    OBVIOUS
<1>1. ASSUME NEW t \in Tabs, Handle(t) PROVE TypeOK'
    BY <1>1, ReadersOK, SignupOK, LoginOK, PostOK, LinksOK DEF Handle
<1>2. ASSUME NEW t \in Tabs, Submit(t) \/ Abandon(t) \/ Retry(t) \/ GiveUp(t) \/ Deliver(t)
      PROVE  TypeOK'
    BY <1>2, BrowserOK
<1>3. ASSUME NEW b \in Browsers, CookieExpires(b) PROVE TypeOK'
    BY <1>3, ExpiryOK
<1>4. CASE Stop \/ Start \/ Tick
    BY <1>4, ProcessOK
<1>5. CASE UNCHANGED vars
    BY <1>5 DEF vars, file, memory, TypeOK, FileOK, ServerOK, BrowsersOK, TabOK, IsTable
<1>. QED
    BY <1>1, <1>2, <1>3, <1>4, <1>5 DEF Next

\* Whatever browsers do and whenever the process dies, the file, the process and
\* the browsers keep their shape.
THEOREM TypeCorrect == Spec => []TypeOK
<1>. QED
    BY TypeInit, TypeStep, PTL DEF Spec

---------------------------------------------------------------------------
(* What a step does to the file *)

AccountsGrow ==
    \/ accounts' = accounts
    \/ \E row \in AccountRow(Emails, Usernames, Passwords) :
          CheckEmail(accounts, row.email) /\ accounts' = Append(accounts, row)

SessionsGrow ==
    \/ sessions' = sessions
    \/ \E row \in [account : Nat, session : Sids] :
          row.account \in DOMAIN accounts /\ sessions' = Append(sessions, row)

PostsGrow ==
    \/ posts' = posts
    \/ \E row \in [author : Nat, createdAt : Nat] :
          row.author \in DOMAIN accounts /\ posts' = Append(posts, row)

LinksValid ==
    /\ DOMAIN connections' \subseteq DOMAIN connections \cup ((DOMAIN accounts) \X (DOMAIN accounts))
    /\ DOMAIN likes' \subseteq DOMAIN likes \cup ((DOMAIN accounts) \X (DOMAIN posts))

\* Any step adds at most rows that refer to rows of the file.
LEMMA FileStep ==
    ASSUME TypeOK, [Next]_vars
    PROVE  AccountsGrow /\ SessionsGrow /\ PostsGrow /\ LinksValid
<1>. USE DEF AccountsGrow, SessionsGrow, PostsGrow, LinksValid
<1>1. CASE UNCHANGED file
    BY <1>1 DEF file
<1>2. ASSUME NEW t \in Tabs, Signup(t)
      PROVE  AccountsGrow /\ SessionsGrow /\ PostsGrow /\ LinksValid
    <2>. DEFINE q   == tab[t].req
                row == [email |-> q.email, username |-> q.username, password |-> q.password]
    <2>1. q \in SignupRequest
        BY <1>2, RequestFields DEF TypeOK, Signup
    <2>2. row \in AccountRow(Emails, Usernames, Passwords)
        BY <2>1 DEF SignupRequest, AccountRow
    <2>3. \/ accounts' = accounts
          \/ CheckEmail(accounts, row.email) /\ accounts' = Append(accounts, row)
        BY <1>2 DEF Signup, AccountInsert
    <2>. HIDE DEF row
    <2>. QED
        BY <1>2, <2>2, <2>3 DEF Signup
<1>3. ASSUME NEW t \in Tabs, Login(t)
      PROVE  AccountsGrow /\ SessionsGrow /\ PostsGrow /\ LinksValid
    <2>. DEFINE q   == tab[t].req
                row == [account |-> LoginAccount(accounts, q.username, q.password),
                        session |-> RandomString(base, counter)]
    <2>1. accounts \in Seq(AccountRow(Emails, Usernames, Passwords))
        BY DEF TypeOK, FileOK
    <2>2. RandomString(base, counter) \in Sids
        BY SidType, ConstantsAssumption DEF TypeOK, ServerOK
    <2>3. \/ sessions' = sessions
          \/ Auth(accounts, q.username, q.password) /\ sessions' = Append(sessions, row)
        BY <1>3 DEF Login, OpenSession, SessionInsert
    <2>4. Auth(accounts, q.username, q.password) =>
              row \in [account : Nat, session : Sids] /\ row.account \in DOMAIN accounts
        BY <2>1, <2>2, LoginAccountMatches
    <2>. HIDE DEF row
    <2>. QED
        BY <1>3, <2>3, <2>4 DEF Login
<1>4. ASSUME NEW t \in Tabs, Post(t)
      PROVE  AccountsGrow /\ SessionsGrow /\ PostsGrow /\ LinksValid
    <2>. DEFINE row == [author |-> Me(t), createdAt |-> clock]
    <2>1. accounts \in Seq(AccountRow(Emails, Usernames, Passwords))
        BY DEF TypeOK, FileOK
    <2>2. clock \in Nat
        BY ConstantsAssumption DEF TypeOK, ServerOK
    <2>3. \/ posts' = posts
          \/ SignedIn(t) /\ posts' = Append(posts, row)
        BY <1>4 DEF Post
    <2>4. SignedIn(t) => row \in [author : Nat, createdAt : Nat] /\ row.author \in DOMAIN accounts
        BY <2>1, <2>2, MeIn
    <2>. HIDE DEF row
    <2>. QED
        BY <1>4, <2>3, <2>4 DEF Post
<1>5. ASSUME NEW t \in Tabs, Like(t) \/ Unlike(t) \/ Connect(t)
      PROVE  AccountsGrow /\ SessionsGrow /\ PostsGrow /\ LinksValid
    <2>. DEFINE id == tab[t].req.id
    <2>1. id \in Nat /\ IsTable(likes) /\ IsTable(connections)
        BY <1>5, RequestFields, ConstantsAssumption
           DEF TypeOK, FileOK, Like, Unlike, Connect, IdRequest
    <2>2. SignedIn(t) => Me(t) \in Nat /\ Me(t) \in DOMAIN accounts
        <3>1. accounts \in Seq(AccountRow(Emails, Usernames, Passwords))
            BY DEF TypeOK, FileOK
        <3>. QED
            BY <3>1, MeIn
    <2>3. SignedIn(t) =>
              DOMAIN LikeInsert(likes, Me(t), id) = DOMAIN likes \cup {<<Me(t), id>>}
        BY <2>1, <2>2, BagAddTable DEF LikeInsert, Pairs
    <2>4. DOMAIN LikeDelete(likes, Me(t), id) \subseteq DOMAIN likes
        BY <2>1, BagRemoveAllTable DEF LikeDelete
    <2>5. SignedIn(t) =>
              DOMAIN ConnectionInsert(connections, Me(t), id)
                  = DOMAIN connections \cup {<<Me(t), id>>}
        BY <2>1, <2>2, BagAddTable DEF ConnectionInsert, Pairs
    <2>6. DOMAIN likes' \subseteq DOMAIN likes \cup ((DOMAIN accounts) \X (DOMAIN posts))
        <3>1. CASE Like(t)
            BY <2>2, <2>3, <3>1 DEF Like, PostExists
        <3>2. CASE Unlike(t)
            BY <2>4, <3>2 DEF Unlike
        <3>. QED
            BY <1>5, <3>1, <3>2 DEF Connect
    <2>7. DOMAIN connections' \subseteq
              DOMAIN connections \cup ((DOMAIN accounts) \X (DOMAIN accounts))
        BY <1>5, <2>2, <2>5 DEF Like, Unlike, Connect, AccountExists
    <2>8. UNCHANGED <<accounts, sessions, posts>>
        BY <1>5 DEF Like, Unlike, Connect
    <2>. QED
        BY <2>6, <2>7, <2>8
<1>6. ASSUME NEW t \in Tabs, Home(t) \/ LoginPage(t) \/ SignupPage(t) \/ NotFound(t)
                               \/ Logout(t) \/ Dashboard(t) \/ Profile(t)
      PROVE  UNCHANGED file
    BY <1>6 DEF Home, LoginPage, SignupPage, EntryPage, NotFound, Logout, Dashboard, Profile
<1>7. ASSUME NEW t \in Tabs, Submit(t) \/ Abandon(t) \/ Retry(t) \/ GiveUp(t) \/ Deliver(t)
      PROVE  UNCHANGED file
    BY <1>7 DEF Submit, Abandon, Retry, GiveUp, Deliver, Quiet
<1>8. ASSUME NEW b \in Browsers, CookieExpires(b) PROVE UNCHANGED file
    BY <1>8 DEF CookieExpires, Quiet
<1>9. CASE Stop \/ Start \/ Tick \/ UNCHANGED vars
    <2>1. UNCHANGED file
        BY <1>9 DEF Stop, Start, Tick, vars
    <2>. QED
        BY <1>1, <2>1
<1>. QED
    BY <1>1, <1>2, <1>3, <1>4, <1>5, <1>6, <1>7, <1>8, <1>9 DEF Next, Handle

---------------------------------------------------------------------------
(* NoOrphans *)

\* A table that grows by at most one row, which is in X.
LEMMA GrownTable ==
    ASSUME NEW S, NEW X \in SUBSET S, NEW old \in Seq(S), NEW new,
           new = old \/ \E row \in X : new = Append(old, row)
    PROVE  /\ DOMAIN old \subseteq DOMAIN new
           /\ \A i \in DOMAIN old : new[i] = old[i]
           /\ \A i \in DOMAIN new \ DOMAIN old : i = Len(old) + 1 /\ new[i] \in X
<1>1. CASE new = old
    BY <1>1
<1>2. ASSUME NEW row \in X, new = Append(old, row)
      PROVE  /\ DOMAIN old \subseteq DOMAIN new
             /\ \A i \in DOMAIN old : new[i] = old[i]
             /\ \A i \in DOMAIN new \ DOMAIN old : i = Len(old) + 1 /\ new[i] \in X
    <2>1. row \in S
        OBVIOUS
    <2>. QED
        BY <1>2, <2>1, AppendRow
<1>. QED
    BY <1>1, <1>2

\* What FileStep says of the three tables that are sequences, as facts about rows.
LEMMA RowsKept ==
    ASSUME TypeOK, [Next]_vars
    PROVE  /\ DOMAIN accounts \subseteq DOMAIN accounts'
           /\ \A i \in DOMAIN accounts : accounts'[i] = accounts[i]
           /\ DOMAIN posts \subseteq DOMAIN posts'
           /\ \A i \in DOMAIN posts : posts'[i] = posts[i]
           /\ DOMAIN sessions \subseteq DOMAIN sessions'
           /\ \A i \in DOMAIN sessions : sessions'[i] = sessions[i]
           /\ \A i \in DOMAIN sessions' \ DOMAIN sessions :
                  i = Len(sessions) + 1 /\ sessions'[i].account \in DOMAIN accounts
           /\ \A i \in DOMAIN posts' \ DOMAIN posts : posts'[i].author \in DOMAIN accounts
           /\ \A i \in DOMAIN accounts' \ DOMAIN accounts :
                  i = Len(accounts) + 1 /\ CheckEmail(accounts, accounts'[i].email)
<1>1. /\ accounts \in Seq(AccountRow(Emails, Usernames, Passwords))
      /\ sessions \in Seq([account : Nat, session : Sids])
      /\ posts \in Seq([author : Nat, createdAt : Nat])
    BY DEF TypeOK, FileOK
<1>2. /\ DOMAIN accounts \subseteq DOMAIN accounts'
      /\ \A i \in DOMAIN accounts : accounts'[i] = accounts[i]
      /\ \A i \in DOMAIN accounts' \ DOMAIN accounts :
             i = Len(accounts) + 1 /\ CheckEmail(accounts, accounts'[i].email)
    <2>. DEFINE S == AccountRow(Emails, Usernames, Passwords)
                X == {row \in S : CheckEmail(accounts, row.email)}
    <2>1. accounts' = accounts \/ \E row \in X : accounts' = Append(accounts, row)
        BY FileStep DEF AccountsGrow
    <2>2. X \in SUBSET S /\ accounts \in Seq(S)
        BY <1>1
    <2>3. /\ DOMAIN accounts \subseteq DOMAIN accounts'
          /\ \A i \in DOMAIN accounts : accounts'[i] = accounts[i]
          /\ \A i \in DOMAIN accounts' \ DOMAIN accounts : i = Len(accounts) + 1 /\ accounts'[i] \in X
        <3>. HIDE DEF S, X
        <3>. QED
            BY <2>1, <2>2, GrownTable
    <2>. QED
        BY <2>3
<1>3. /\ DOMAIN sessions \subseteq DOMAIN sessions'
      /\ \A i \in DOMAIN sessions : sessions'[i] = sessions[i]
      /\ \A i \in DOMAIN sessions' \ DOMAIN sessions :
             i = Len(sessions) + 1 /\ sessions'[i].account \in DOMAIN accounts
    <2>. DEFINE S == [account : Nat, session : Sids]
                X == {row \in S : row.account \in DOMAIN accounts}
    <2>1. sessions' = sessions \/ \E row \in X : sessions' = Append(sessions, row)
        BY FileStep DEF SessionsGrow
    <2>2. X \in SUBSET S /\ sessions \in Seq(S)
        BY <1>1
    <2>3. /\ DOMAIN sessions \subseteq DOMAIN sessions'
          /\ \A i \in DOMAIN sessions : sessions'[i] = sessions[i]
          /\ \A i \in DOMAIN sessions' \ DOMAIN sessions : i = Len(sessions) + 1 /\ sessions'[i] \in X
        <3>. HIDE DEF S, X
        <3>. QED
            BY <2>1, <2>2, GrownTable
    <2>. QED
        BY <2>3
<1>4. /\ DOMAIN posts \subseteq DOMAIN posts'
      /\ \A i \in DOMAIN posts : posts'[i] = posts[i]
      /\ \A i \in DOMAIN posts' \ DOMAIN posts : posts'[i].author \in DOMAIN accounts
    <2>. DEFINE S == [author : Nat, createdAt : Nat]
                X == {row \in S : row.author \in DOMAIN accounts}
    <2>1. posts' = posts \/ \E row \in X : posts' = Append(posts, row)
        BY FileStep DEF PostsGrow
    <2>2. X \in SUBSET S /\ posts \in Seq(S)
        BY <1>1
    <2>3. /\ DOMAIN posts \subseteq DOMAIN posts'
          /\ \A i \in DOMAIN posts : posts'[i] = posts[i]
          /\ \A i \in DOMAIN posts' \ DOMAIN posts : i = Len(posts) + 1 /\ posts'[i] \in X
        <3>. HIDE DEF S, X
        <3>. QED
            BY <2>1, <2>2, GrownTable
    <2>. QED
        BY <2>3
<1>. QED
    BY <1>2, <1>3, <1>4

\* A file whose rows refer to rows that exist stays one.
LEMMA NoOrphansStep == TypeOK /\ NoOrphans /\ [Next]_vars => NoOrphans'
<1>. SUFFICES ASSUME TypeOK, NoOrphans, [Next]_vars PROVE NoOrphans'
    OBVIOUS
<1>1. \A i \in DOMAIN sessions' : sessions'[i].account \in DOMAIN accounts'
    BY RowsKept DEF NoOrphans
<1>2. \A p \in DOMAIN posts' : posts'[p].author \in DOMAIN accounts'
    BY RowsKept DEF NoOrphans
<1>3. DOMAIN connections' \subseteq (DOMAIN accounts') \X (DOMAIN accounts')
    <2>1. DOMAIN connections' \subseteq (DOMAIN accounts) \X (DOMAIN accounts)
        BY FileStep DEF LinksValid, NoOrphans
    <2>. QED
        BY <2>1, RowsKept
<1>4. DOMAIN likes' \subseteq (DOMAIN accounts') \X (DOMAIN posts')
    <2>1. DOMAIN likes' \subseteq (DOMAIN accounts) \X (DOMAIN posts)
        BY FileStep DEF LinksValid, NoOrphans
    <2>. QED
        BY <2>1, RowsKept
<1>. QED
    BY <1>1, <1>2, <1>3, <1>4 DEF NoOrphans

\* Rows refer to rows that exist, without foreign keys: in particular the author
\* that dashboard.c reads is always there.
THEOREM NoOrphansHolds == Spec => []NoOrphans
<1>1. Init => NoOrphans
    BY SeedAssumption DEF Init, NoOrphans
<1>. QED
    BY <1>1, NoOrphansStep, TypeCorrect, TypeInit, TypeStep, PTL DEF Spec

---------------------------------------------------------------------------
(* EmailsUnique *)

\* No step gives two accounts the same email.
LEMMA EmailsUniqueStep == TypeOK /\ EmailsUnique /\ [Next]_vars => EmailsUnique'
<1>. SUFFICES ASSUME TypeOK, EmailsUnique, [Next]_vars,
                     NEW i \in DOMAIN accounts', NEW j \in DOMAIN accounts',
                     accounts'[i].email = accounts'[j].email
              PROVE  i = j
    BY DEF EmailsUnique
<1>1. CASE i \in DOMAIN accounts /\ j \in DOMAIN accounts
    BY <1>1, RowsKept DEF EmailsUnique
<1>2. CASE i \notin DOMAIN accounts /\ j \notin DOMAIN accounts
    BY <1>2, RowsKept
<1>3. CASE i \in DOMAIN accounts /\ j \notin DOMAIN accounts
    BY <1>3, RowsKept DEF CheckEmail
<1>4. CASE i \notin DOMAIN accounts /\ j \in DOMAIN accounts
    BY <1>4, RowsKept DEF CheckEmail
<1>. QED
    BY <1>1, <1>2, <1>3, <1>4

\* No two accounts share an email, although signup's own check of it is passed over.
THEOREM EmailsUniqueHolds == Spec => []EmailsUnique
<1>1. Init => EmailsUnique
    BY SeedAssumption DEF Init, EmailsUnique
<1>. QED
    BY <1>1, EmailsUniqueStep, TypeInit, TypeStep, PTL DEF Spec

---------------------------------------------------------------------------
(* SidStable *)

\* The first session with a stored sid stays the first, and its account the same.
LEMMA StoredSidStable ==
    ASSUME TypeOK, NoOrphans, [Next]_vars,
           NEW i \in DOMAIN sessions, NEW s, s = sessions[i].session
    PROVE  LET a == AccountBySid(accounts, sessions, s)
           IN  /\ a \in DOMAIN accounts /\ a # NoRow
               /\ AccountBySid(accounts', sessions', s) = a
               /\ accounts'[a] = accounts[a]
<1>. DEFINE old == {j \in DOMAIN sessions : sessions[j].session = s}
            new == {j \in DOMAIN sessions' : sessions'[j].session = s}
            f   == FirstRow(old)
            g   == FirstRow(new)
<1>1. /\ accounts \in Seq(AccountRow(Emails, Usernames, Passwords))
      /\ sessions \in Seq([account : Nat, session : Sids])
      /\ sessions' \in Seq([account : Nat, session : Sids])
    BY TypeStep DEF TypeOK, FileOK
<1>2. old \in SUBSET Nat /\ new \in SUBSET Nat /\ i \in old /\ i \in new
    BY <1>1, RowsKept
<1>3. f \in old /\ \A j \in old : f <= j
    BY <1>2, FirstRowIn
<1>4. g \in new /\ \A j \in new : g <= j
    BY <1>2, FirstRowIn
<1>5. g = f
    <2>1. f \in new /\ f \in 1..Len(sessions)
        BY <1>1, <1>3, RowsKept
    <2>2. g <= f
        BY <1>4, <2>1
    <2>3. g \in DOMAIN sessions
        BY <1>1, <1>2, <1>4, <2>1, <2>2, RowsKept
    <2>4. g \in old
        BY <1>4, <2>3, RowsKept
    <2>. QED
        BY <1>2, <1>3, <1>4, <2>2, <2>4
<1>6. f # NoRow /\ sessions'[f] = sessions[f] /\ sessions[f].account \in DOMAIN accounts
    BY <1>1, <1>3, RowsKept DEF NoOrphans, NoRow
<1>7. sessions[f].account # NoRow
    BY <1>1, <1>6 DEF NoRow
<1>8. AccountBySid(accounts, sessions, s) = sessions[f].account
    BY <1>6 DEF AccountBySid, SessionBySid
<1>9. AccountBySid(accounts', sessions', s) = sessions[f].account
    BY <1>5, <1>6, RowsKept DEF AccountBySid, SessionBySid
<1>. QED
    BY <1>6, <1>7, <1>8, <1>9, RowsKept

\* A request that waits in a socket, or a cookie that comes back after a restart,
\* acts for the member it was made for, though session ids are drawn again.
THEOREM SidStableHolds == Spec => SidStable
<1>1. TypeOK /\ NoOrphans /\ [Next]_vars =>
          [\A i \in DOMAIN sessions :
              LET s == sessions[i].session
                  a == AccountBySid(accounts, sessions, s)
              IN  /\ AccountBySid(accounts', sessions', s) = a
                  /\ a # NoRow => accounts'[a] = accounts[a]]_vars
    BY StoredSidStable
<1>. QED
    BY <1>1, TypeCorrect, NoOrphansHolds, PTL DEF Spec, SidStable

---------------------------------------------------------------------------
(* CookiesHonoured and LoginMatches *)

\* In this step the login of tab t succeeds, and is answered.
LoginAnswered(t) ==
    /\ tab[t].req.op = "login"
    /\ Auth(accounts, tab[t].req.username, tab[t].req.password)
    /\ sessions' = Append(sessions,
          [account |-> LoginAccount(accounts, tab[t].req.username, tab[t].req.password),
           session |-> tab'[t].reply.cookie])

\* Where the cookies of tab t come from.
TabSources(t) ==
    /\ tab'[t].sid \in {tab[t].sid, NoSid, jar[BrowserOf[t]]}
    /\ \/ tab'[t].reply.cookie = NoSid
       \/ tab'[t].reply.cookie = tab[t].reply.cookie /\ tab'[t].req = tab[t].req
       \/ tab'[t].req = tab[t].req /\ LoginAnswered(t)

\* The tabs that a step does not answer: they keep their cookies or lose them.
LEMMA DieSources ==
    ASSUME BrowsersOK, NEW how, Die(how), NEW t \in Tabs
    PROVE  TabSources(t)
<1>1. TabOK(tab[t])
    BY DEF BrowsersOK
<1>2. CASE tab[t].st = "sent"
    <2>1. tab'[t] = [tab[t] EXCEPT !.st = "lost"]
        BY <1>2 DEF Die
    <2>. QED
        BY <1>1, <2>1 DEF TabSources, TabOK, TabState
<1>3. CASE tab[t].st = "abandoned"
    BY <1>3 DEF Die, TabSources, Idle, NoReply, Plain, ReplyWith
<1>4. CASE tab[t].st \notin {"sent", "abandoned"}
    BY <1>4 DEF Die, TabSources
<1>. QED
    BY <1>2, <1>3, <1>4

\* The answered tab gets the cookie of the reply, if it is still there.
LEMMA AnswerSources ==
    ASSUME BrowsersOK, NEW u \in Tabs, tab[u].st \in {"sent", "abandoned"}, NEW reply,
           Answer(u, reply), NEW t \in Tabs,
           \/ reply.cookie = NoSid
           \/ /\ tab[u].req.op = "login"
              /\ Auth(accounts, tab[u].req.username, tab[u].req.password)
              /\ sessions' = Append(sessions,
                    [account |-> LoginAccount(accounts, tab[u].req.username, tab[u].req.password),
                     session |-> reply.cookie])
    PROVE  TabSources(t)
<1>1. CASE t # u
    <2>1. tab'[t] = tab[t]
        BY <1>1 DEF Answer, BrowsersOK
    <2>. QED
        BY <2>1 DEF TabSources
<1>2. CASE t = u /\ tab[u].st = "sent"
    <2>1. tab'[t] = [tab[t] EXCEPT !.st = "replied", !.reply = reply]
        BY <1>2 DEF Answer, BrowsersOK
    <2>2. tab[t] \in TabState
        BY DEF BrowsersOK
    <2>3. tab'[t].sid = tab[t].sid /\ tab'[t].req = tab[t].req /\ tab'[t].reply = reply
        BY <2>1, <2>2 DEF TabState
    <2>. QED
        BY <1>2, <2>3 DEF TabSources, LoginAnswered
<1>3. CASE t = u /\ tab[u].st = "abandoned"
    <2>1. tab'[t] = Idle
        BY <1>3 DEF Answer, BrowsersOK
    <2>. QED
        BY <2>1 DEF TabSources, Idle, NoReply, Plain, ReplyWith
<1>. QED
    BY <1>1, <1>2, <1>3

\* No handler but Login gives a cookie.
LEMMA HandlerSources ==
    ASSUME TypeOK, NEW u \in Tabs, Handle(u), NEW t \in Tabs
    PROVE  TabSources(t)
<1>1. /\ BrowsersOK
      /\ Plain(200).cookie = NoSid /\ Plain(302).cookie = NoSid /\ Plain(404).cookie = NoSid
      /\ \A view : Rendered(view).cookie = NoSid
      /\ \A sid : SetCookie(sid).cookie = sid
    BY DEF TypeOK, Plain, Rendered, SetCookie, ReplyWith
<1>2. tab[u].st \in {"sent", "abandoned"}
    BY DEF Handle, Home, LoginPage, SignupPage, EntryPage, NotFound, Signup, Login, Logout,
           Post, Like, Unlike, Connect, Dashboard, Profile, Pending
<1>3. ASSUME NEW reply, reply.cookie = NoSid, Reply(u, reply) \/ Die("aborted")
      PROVE  TabSources(t)
    <2>1. CASE Answer(u, reply)
        BY <1>1, <1>2, <1>3, <2>1, AnswerSources
    <2>2. CASE \E how : Die(how)
        BY <1>1, <2>2, DieSources
    <2>. QED
        BY <1>3, <2>1, <2>2 DEF Reply
<1>4. CASE ~ Login(u)
    <2>1. \E reply : reply.cookie = NoSid /\ (Reply(u, reply) \/ Die("aborted"))
        <3>1. CASE Logout(u)
            BY <1>1, <3>1 DEF Logout
        <3>2. CASE Dashboard(u)
            BY <1>1, <3>2 DEF Dashboard
        <3>3. CASE Profile(u)
            BY <1>1, <3>3 DEF Profile
        <3>4. CASE Home(u) \/ LoginPage(u) \/ SignupPage(u) \/ NotFound(u)
            BY <1>1, <3>4 DEF Home, LoginPage, SignupPage, EntryPage, NotFound
        <3>5. CASE Signup(u) \/ Post(u) \/ Like(u) \/ Unlike(u) \/ Connect(u)
            BY <1>1, <3>5 DEF Signup, Post, Like, Unlike, Connect
        <3>. QED
            BY <1>4, <3>1, <3>2, <3>3, <3>4, <3>5 DEF Handle
    <2>. QED
        BY <1>3, <2>1
<1>5. CASE Login(u)
    <2>. DEFINE q   == tab[u].req
                sid == RandomString(base, counter)
                row == [account |-> LoginAccount(accounts, q.username, q.password),
                        session |-> sid]
    <2>1. \/ \E reply : reply.cookie = NoSid /\ (Reply(u, reply) \/ Die("aborted"))
          \/ /\ q.op = "login" /\ Auth(accounts, q.username, q.password)
             /\ sessions' = Append(sessions, row) /\ Reply(u, SetCookie(sid))
        BY <1>1, <1>5 DEF Login, OpenSession, SessionInsert, Pending
    <2>2. ASSUME q.op = "login", Auth(accounts, q.username, q.password),
                 sessions' = Append(sessions, row), Reply(u, SetCookie(sid))
          PROVE  TabSources(t)
        <3>1. SetCookie(sid).cookie = sid
            BY <1>1
        <3>2. CASE Answer(u, SetCookie(sid))
            BY <1>1, <1>2, <2>2, <3>1, <3>2, AnswerSources
        <3>. QED
            BY <1>1, <2>2, <3>2, DieSources DEF Reply
    <2>. QED
        BY <1>3, <2>1, <2>2
<1>. QED
    BY <1>4, <1>5
\* Whatever the step, cookies come from where they were or from a login just made.
LEMMA CookieSources ==
    ASSUME TypeOK, [Next]_vars
    PROVE  /\ \A t \in Tabs : TabSources(t)
           /\ \A b \in Browsers :
                 jar'[b] \in {jar[b], NoSid} \cup {tab[t].reply.cookie : t \in Tabs}
<1>. DEFINE Goal == /\ \A t \in Tabs : TabSources(t)
                    /\ \A b \in Browsers : jar'[b] \in
                          {jar[b], NoSid} \cup {tab[t].reply.cookie : t \in Tabs}
<1>1. ASSUME NEW u \in Tabs, Handle(u) PROVE Goal
    BY <1>1, HandlerSources DEF Handle
<1>2. ASSUME NEW u \in Tabs, NEW x, tab' = [tab EXCEPT ![u] = x],
             x.sid \in {tab[u].sid, NoSid, jar[BrowserOf[u]]}, x.reply.cookie = NoSid
      PROVE  \A t \in Tabs : TabSources(t)
    BY <1>2 DEF TabSources, TypeOK, BrowsersOK
<1>3. Idle.sid = NoSid /\ Idle.reply.cookie = NoSid /\ NoReply.cookie = NoSid
    BY DEF Idle, NoReply, Plain, ReplyWith
<1>4. ASSUME NEW u \in Tabs, NEW q
      PROVE  Sent(u, q).sid = jar[BrowserOf[u]] /\ Sent(u, q).reply.cookie = NoSid
    BY <1>3 DEF Sent
<1>5. ASSUME NEW u \in Tabs, Submit(u) \/ Retry(u) PROVE Goal
    <2>1. PICK q : tab' = [tab EXCEPT ![u] = Sent(u, q)]
        BY <1>5 DEF Submit, Retry
    <2>. QED
        BY <1>2, <1>4, <1>5, <2>1 DEF Submit, Retry
<1>6. ASSUME NEW u \in Tabs, GiveUp(u) PROVE Goal
    BY <1>2, <1>3, <1>6 DEF GiveUp
<1>7. ASSUME NEW u \in Tabs, Abandon(u) PROVE Goal
    <2>. DEFINE x == [tab[u] EXCEPT !.st = "abandoned", !.reply = NoReply]
    <2>1. tab[u] \in TabState
        BY DEF TypeOK, BrowsersOK
    <2>2. x.sid = tab[u].sid /\ x.reply = NoReply
        BY <2>1 DEF TabState
    <2>3. tab' = [tab EXCEPT ![u] = x] \/ tab' = [tab EXCEPT ![u] = Idle]
        BY <1>7 DEF Abandon, TypeOK, BrowsersOK
    <2>. HIDE DEF x
    <2>. QED
        BY <1>2, <1>3, <1>7, <2>2, <2>3 DEF Abandon
<1>8. ASSUME NEW u \in Tabs, Deliver(u) PROVE Goal
    <2>1. \A b \in Browsers : jar'[b] \in {jar[b], tab[u].reply.cookie}
        BY <1>8 DEF Deliver, TypeOK, BrowsersOK
    <2>. QED
        BY <1>2, <1>3, <1>8, <2>1 DEF Deliver
<1>9. ASSUME NEW b \in Browsers, CookieExpires(b) PROVE Goal
    <2>1. tab' = tab /\ \A c \in Browsers : jar'[c] \in {jar[c], NoSid}
        BY <1>9 DEF CookieExpires, TypeOK, BrowsersOK
    <2>. QED
        BY <2>1 DEF TabSources
<1>10. CASE Stop
    BY <1>10, DieSources DEF Stop, TypeOK
<1>11. CASE Start \/ Tick \/ UNCHANGED vars
    BY <1>11 DEF Start, Tick, vars, TabSources
<1>. QED
    BY <1>1, <1>5, <1>6, <1>7, <1>8, <1>9, <1>10, <1>11 DEF Next

\* The row a login adds is of an account with the name and the password given.
LEMMA LoginRow ==
    ASSUME TypeOK, TypeOK', NoOrphans, NoOrphans', [Next]_vars,
           NEW t \in Tabs, LoginAnswered(t)
    PROVE  \E i \in DOMAIN sessions' :
              LET a == sessions'[i].account
              IN  /\ sessions'[i].session = tab'[t].reply.cookie
                  /\ a \in DOMAIN accounts'
                  /\ accounts'[a].username = tab[t].req.username
                  /\ accounts'[a].password = tab[t].req.password
<1>. DEFINE q   == tab[t].req
            a   == LoginAccount(accounts, q.username, q.password)
            row == [account |-> a, session |-> tab'[t].reply.cookie]
            i   == Len(sessions) + 1
<1>1. /\ accounts \in Seq(AccountRow(Emails, Usernames, Passwords))
      /\ sessions \in Seq([account : Nat, session : Sids])
      /\ sessions' \in Seq([account : Nat, session : Sids])
    BY DEF TypeOK, FileOK
<1>2. a \in DOMAIN accounts /\ accounts[a].username = q.username /\ accounts[a].password = q.password
    BY <1>1, LoginAccountMatches DEF LoginAnswered
<1>3. i \in DOMAIN sessions' /\ sessions'[i] = row
    <2>1. sessions' = Append(sessions, row)
        BY DEF LoginAnswered
    <2>. HIDE DEF row
    <2>. QED
        BY <1>1, <2>1
<1>. QED
    BY <1>2, <1>3, RowsKept

\* A stored sid is honoured in a file where sessions refer to accounts.
LEMMA StoredSidHonoured ==
    ASSUME NEW A, NEW accs \in Seq(A), NEW S, NEW sess \in Seq(S),
           \A j \in DOMAIN sess : sess[j].account \in DOMAIN accs,
           NEW i \in DOMAIN sess
    PROVE  AccountBySid(accs, sess, sess[i].session) # NoRow
<1>. DEFINE ids == {j \in DOMAIN sess : sess[j].session = sess[i].session}
<1>1. FirstRow(ids) \in ids
    BY FirstRowIn, ids \in SUBSET Nat, i \in ids
<1>2. NoRow \notin DOMAIN sess /\ NoRow \notin DOMAIN accs
    <2>1. DOMAIN sess = 1..Len(sess) /\ Len(sess) \in Nat
        OBVIOUS
    <2>2. DOMAIN accs = 1..Len(accs) /\ Len(accs) \in Nat
        OBVIOUS
    <2>. QED
        BY <2>1, <2>2 DEF NoRow
<1>3. FirstRow(ids) # NoRow /\ sess[FirstRow(ids)].account \in DOMAIN accs
    BY <1>1, <1>2, Zenon
<1>4. AccountBySid(accs, sess, sess[i].session) = sess[FirstRow(ids)].account
    BY <1>3 DEF AccountBySid, SessionBySid
<1>. QED
    BY <1>2, <1>3, <1>4

\* An honoured sid is stored.
LEMMA HonouredStored ==
    ASSUME NEW s, AccountBySid(accounts, sessions, s) # NoRow
    PROVE  \E i \in DOMAIN sessions : sessions[i].session = s
BY DEF AccountBySid, SessionBySid, FirstRow

\* No step makes a cookie that is not honoured, or spoils one that is.
LEMMA CookiesHonouredStep ==
    TypeOK /\ NoOrphans /\ CookiesHonoured /\ [Next]_vars => CookiesHonoured'
<1>. DEFINE Honoured(s) == AccountBySid(accounts, sessions, s) # NoRow
            HonouredThen(s) == AccountBySid(accounts', sessions', s) # NoRow
<1>. SUFFICES ASSUME TypeOK, NoOrphans, CookiesHonoured, [Next]_vars
              PROVE  CookiesHonoured'
    OBVIOUS
<1>1. TypeOK' /\ NoOrphans'
    BY TypeStep, NoOrphansStep
<1>2. \A s : Honoured(s) => HonouredThen(s)
    BY HonouredStored, StoredSidStable
<1>3. /\ \A b \in Browsers : jar[b] = NoSid \/ Honoured(jar[b])
      /\ \A t \in Tabs : tab[t].sid = NoSid \/ Honoured(tab[t].sid)
      /\ \A t \in Tabs : tab[t].reply.cookie = NoSid \/ Honoured(tab[t].reply.cookie)
    BY DEF CookiesHonoured, CarriedSids
<1>4. \A b \in Browsers : jar'[b] = NoSid \/ HonouredThen(jar'[b])
    BY <1>2, <1>3, CookieSources
<1>5. \A t \in Tabs : tab'[t].sid = NoSid \/ HonouredThen(tab'[t].sid)
    BY <1>2, <1>3, CookieSources, ConstantsAssumption DEF TabSources
<1>6. ASSUME NEW t \in Tabs
      PROVE  tab'[t].reply.cookie = NoSid \/ HonouredThen(tab'[t].reply.cookie)
    <2>1. CASE tab'[t].reply.cookie = tab[t].reply.cookie
        BY <1>2, <1>3, <2>1
    <2>2. CASE LoginAnswered(t)
        <3>1. PICK i \in DOMAIN sessions' : sessions'[i].session = tab'[t].reply.cookie
            BY <1>1, <2>2, LoginRow
        <3>2. /\ accounts' \in Seq(AccountRow(Emails, Usernames, Passwords))
              /\ sessions' \in Seq([account : Nat, session : Sids])
              /\ \A j \in DOMAIN sessions' : sessions'[j].account \in DOMAIN accounts'
            BY <1>1 DEF TypeOK, FileOK, NoOrphans
        <3>3. AccountBySid(accounts', sessions', sessions'[i].session) # NoRow
            BY <3>2, StoredSidHonoured
        <3>. QED
            BY <3>1, <3>3
    <2>. QED
        BY <2>1, <2>2, CookieSources DEF TabSources
<1>. QED
    BY <1>4, <1>5, <1>6 DEF CookiesHonoured, CarriedSids

\* Every sid in a browser or on its way is one the server takes for an account,
\* whatever logins, logouts, expiries, restarts and lost replies there were.
THEOREM CookiesHonouredHolds == Spec => []CookiesHonoured
<1>1. Init => CookiesHonoured
    <2>. SUFFICES ASSUME Init PROVE CookiesHonoured
        OBVIOUS
    <2>1. CarriedSids \subseteq {NoSid}
        BY DEF Init, CarriedSids, Idle, NoReply, Plain, ReplyWith
    <2>2. \A i \in DOMAIN sessions : AccountBySid(accounts, sessions, sessions[i].session) # NoRow
        <3>1. /\ accounts \in Seq(AccountRow(Emails, Usernames, Passwords))
              /\ sessions \in Seq([account : Nat, session : Sids])
              /\ \A j \in DOMAIN sessions : sessions[j].account \in DOMAIN accounts
            BY SeedAssumption DEF Init
        <3>. QED
            BY <3>1, StoredSidHonoured
    <2>3. \A b \in Browsers : \/ jar[b] = NoSid
                             \/ \E i \in DOMAIN sessions : jar[b] = sessions[i].session
        <3>1. \A b \in Browsers : Seed.jar[b] \in {NoSid} \cup
                     {Seed.sessions[i].session : i \in DOMAIN Seed.sessions}
            BY SeedAssumption
        <3>. QED
            BY <3>1 DEF Init
    <2>. QED
        BY <2>1, <2>2, <2>3 DEF CookiesHonoured
<1>. QED
    BY <1>1, CookiesHonouredStep, TypeCorrect, NoOrphansHolds, PTL DEF Spec

\* No step gives a login a cookie that is not its own, or changes the account.
LEMMA LoginMatchesStep ==
    TypeOK /\ NoOrphans /\ LoginMatches /\ [Next]_vars => LoginMatches'
<1>. SUFFICES ASSUME TypeOK, NoOrphans, LoginMatches, [Next]_vars,
                     NEW t \in Tabs, tab'[t].reply.cookie # NoSid
              PROVE  /\ tab'[t].req.op = "login"
                     /\ \E i \in DOMAIN sessions' :
                           LET a == sessions'[i].account
                           IN  /\ sessions'[i].session = tab'[t].reply.cookie
                               /\ a \in DOMAIN accounts'
                               /\ accounts'[a].username = tab'[t].req.username
                               /\ accounts'[a].password = tab'[t].req.password
    BY DEF LoginMatches
<1>1. TypeOK' /\ NoOrphans'
    BY TypeStep, NoOrphansStep
<1>2. CASE tab'[t].reply.cookie = tab[t].reply.cookie /\ tab'[t].req = tab[t].req
    <2>1. tab[t].req.op = "login"
        BY <1>2 DEF LoginMatches
    <2>2. PICK i \in DOMAIN sessions :
              LET a == sessions[i].account
              IN  /\ sessions[i].session = tab[t].reply.cookie
                  /\ a \in DOMAIN accounts
                  /\ accounts[a].username = tab[t].req.username
                  /\ accounts[a].password = tab[t].req.password
        BY <1>2 DEF LoginMatches
    <2>3. i \in DOMAIN sessions' /\ sessions'[i] = sessions[i]
        BY RowsKept
    <2>. QED
        BY <1>2, <2>1, <2>2, <2>3, RowsKept
<1>3. CASE tab'[t].req = tab[t].req /\ LoginAnswered(t)
    BY <1>1, <1>3, LoginRow DEF LoginAnswered
<1>. QED
    BY <1>2, <1>3, CookieSources DEF TabSources

\* A successful login is recorded for an account with the name and the password
\* submitted, as long as its reply is under way.
THEOREM LoginMatchesHolds == Spec => []LoginMatches
<1>1. Init => LoginMatches
    BY DEF Init, LoginMatches, Idle, NoReply, Plain, ReplyWith
<1>. QED
    BY <1>1, LoginMatchesStep, TypeCorrect, NoOrphansHolds, PTL DEF Spec


---------------------------------------------------------------------------
(* What a handler does to the tabs *)

\* A handler answers the tab it was called for or dies.
LEMMA HandlerEnds ==
    ASSUME NEW u \in Tabs, Handle(u)
    PROVE  /\ tab[u].st \in {"sent", "abandoned"}
           /\ \E reply, how : Answer(u, reply) \/ Die(how)
<1>1. tab[u].st \in {"sent", "abandoned"}
    BY DEF Handle, Home, LoginPage, SignupPage, EntryPage, NotFound, Signup, Login, Logout,
           Post, Like, Unlike, Connect, Dashboard, Profile, Pending
<1>2. \E reply, how : Reply(u, reply) \/ Die(how)
    <2>1. CASE Home(u) \/ LoginPage(u) \/ SignupPage(u) \/ NotFound(u) \/ Logout(u)
        BY <2>1 DEF Home, LoginPage, SignupPage, EntryPage, NotFound, Logout
    <2>2. CASE Signup(u) \/ Post(u) \/ Like(u) \/ Unlike(u) \/ Connect(u)
        BY <2>2 DEF Signup, Post, Like, Unlike, Connect
    <2>3. CASE Login(u)
        BY <2>3 DEF Login, OpenSession
    <2>4. CASE Dashboard(u)
        BY <2>4 DEF Dashboard
    <2>5. CASE Profile(u)
        BY <2>5 DEF Profile
    <2>. QED
        BY <2>1, <2>2, <2>3, <2>4, <2>5 DEF Handle
<1>. QED
    BY <1>1, <1>2 DEF Reply

\* When the process ends no tab gets a reply.
LEMMA DieAnswersNobody ==
    ASSUME BrowsersOK, NEW how, Die(how), NEW t \in Tabs, tab[t].st = "sent"
    PROVE  tab'[t].st = "lost"
<1>1. tab'[t] = [tab[t] EXCEPT !.st = "lost"] /\ tab[t] \in TabState
    BY DEF Die, BrowsersOK
<1>. QED
    BY <1>1 DEF TabState

\* A tab gets its reply from the handler of its own request.
LEMMA AnsweredBy ==
    ASSUME TypeOK, [Next]_vars, NEW t \in Tabs, tab[t].st = "sent", tab'[t].st = "replied"
    PROVE  Handle(t)
<1>. BrowsersOK
    BY DEF TypeOK
<1>1. ASSUME NEW u \in Tabs, u # t, \E x : tab' = [tab EXCEPT ![u] = x] PROVE FALSE
    BY <1>1 DEF BrowsersOK
<1>2. ASSUME NEW how, Die(how) PROVE FALSE
    BY <1>2, DieAnswersNobody
<1>3. ASSUME NEW u \in Tabs, Handle(u), u # t PROVE FALSE
    <2>1. PICK reply, how : Answer(u, reply) \/ Die(how)
        BY <1>3, HandlerEnds
    <2>2. tab'[t] = tab[t] \/ Die(how)
        BY <1>3, <2>1 DEF Answer, BrowsersOK
    <2>. QED
        BY <1>2, <2>2
<1>4. ASSUME NEW u \in Tabs, Submit(u) \/ Abandon(u) \/ Retry(u) \/ GiveUp(u) \/ Deliver(u)
      PROVE  FALSE
    <2>1. CASE u # t
        <3>1. \/ \E x : tab' = [tab EXCEPT ![u] = x]
              \/ tab' = [tab EXCEPT ![u].st = "abandoned", ![u].reply = NoReply]
            BY <1>4 DEF Submit, Abandon, Retry, GiveUp, Deliver
        <3>2. tab'[t] = tab[t]
            BY <2>1, <3>1 DEF BrowsersOK
        <3>. QED
            BY <3>2
    <2>2. CASE u = t
        <3>1. Abandon(t)
            BY <1>4, <2>2 DEF Submit, Retry, GiveUp, Deliver
        <3>2. tab'[t] = [tab[t] EXCEPT !.st = "abandoned", !.reply = NoReply] /\ tab[t] \in TabState
            BY <3>1 DEF Abandon, BrowsersOK
        <3>. QED
            BY <3>2 DEF TabState
    <2>. QED
        BY <2>1, <2>2
<1>5. ASSUME Stop PROVE FALSE
    BY <1>2, <1>5 DEF Stop
<1>6. Start \/ Tick \/ UNCHANGED vars \/ (\E b \in Browsers : CookieExpires(b)) => FALSE
    BY DEF Start, Tick, vars, CookieExpires
<1>. QED
    BY <1>3, <1>4, <1>5, <1>6 DEF Next

\* A table tells how often it holds a pair, so it holds it when that is not 0.
LEMMA InTable ==
    ASSUME NEW b, IsTable(b), NEW pair
    PROVE  RowCount(b, pair) > 0 <=> pair \in DOMAIN b
BY DEF RowCount, IsTable

\* In this step what tab t is told has been done is done.
DoneWhenTold(t) ==
    (tab[t].st = "sent" /\ tab'[t].st = "replied" /\ SignedIn(t)) =>
        LET q == tab[t].req
        IN  /\ q.op = "unlike" => ~LikeLiked(likes', Me(t), q.id)
            /\ (q.op = "like" /\ PostExists(posts, q.id)) => LikeLiked(likes', Me(t), q.id)
            /\ (q.op = "connect" /\ AccountExists(accounts, q.id)) =>
                   ConnectionExists(connections', Me(t), q.id)

\* No INSERT or DELETE of a like or a connection fails.
LinksWritten == ~ MayFail("likes") /\ ~ MayFail("connections")

\* The handlers of links write the row before they answer; an unlike of a post that
\* is not there finds no like of it either.
LEMMA LinksDone ==
    ASSUME LinksWritten, TypeOK, NoOrphans, NEW t \in Tabs, Handle(t)
    PROVE  DoneWhenTold(t)
<1>. DEFINE q == tab[t].req
            me == Me(t)
<1>. SUFFICES ASSUME SignedIn(t)
              PROVE  /\ q.op = "unlike" => ~LikeLiked(likes', me, q.id)
                     /\ (q.op = "like" /\ PostExists(posts, q.id)) => LikeLiked(likes', me, q.id)
                     /\ (q.op = "connect" /\ AccountExists(accounts, q.id)) =>
                            ConnectionExists(connections', me, q.id)
    BY DEF DoneWhenTold
<1>1. IsTable(likes) /\ IsTable(connections)
    BY DEF TypeOK, FileOK
<1>2. me \in Nat
    <2>1. accounts \in Seq(AccountRow(Emails, Usernames, Passwords))
        BY DEF TypeOK, FileOK
    <2>. QED
        BY <2>1, MeIn
<1>3. CASE q.op = "unlike"
    <2>1. Unlike(t)
        BY <1>3 DEF Handle, Home, LoginPage, SignupPage, EntryPage, NotFound, Signup, Login,
           Logout, Post, Like, Connect, Dashboard, Profile, Pending
    <2>2. CASE PostExists(posts, q.id)
        <3>1. likes' = BagRemoveAll(likes, <<me, q.id>>)
            BY <2>1, <2>2 DEF Unlike, LikeDelete, LinksWritten
        <3>2. IsTable(likes') /\ <<me, q.id>> \notin DOMAIN likes'
            BY <1>1, <3>1, BagRemoveAllTable
        <3>. QED
            BY <1>3, <3>2, InTable DEF LikeLiked
    <2>3. CASE ~ PostExists(posts, q.id)
        <3>1. <<me, q.id>> \notin DOMAIN likes
            BY <2>3 DEF PostExists, NoOrphans
        <3>2. likes' = likes
            BY <2>1, <2>3 DEF Unlike
        <3>. QED
            BY <1>1, <1>3, <3>1, <3>2, InTable DEF LikeLiked
    <2>. QED
        BY <2>2, <2>3
<1>4. CASE q.op = "like" /\ PostExists(posts, q.id)
    <2>1. Like(t)
        BY <1>4 DEF Handle, Home, LoginPage, SignupPage, EntryPage, NotFound, Signup, Login,
           Logout, Post, Unlike, Connect, Dashboard, Profile, Pending
    <2>2. likes' = BagAdd(likes, <<me, q.id>>)
        BY <1>4, <2>1 DEF Like, LikeInsert, LinksWritten
    <2>3. <<me, q.id>> \in Pairs
        <3>1. q.id \in Nat
            BY <2>1, RequestFields, ConstantsAssumption DEF TypeOK, Like, IdRequest
        <3>. QED
            BY <1>2, <3>1 DEF Pairs
    <2>4. IsTable(likes') /\ <<me, q.id>> \in DOMAIN likes'
        <3>1. PICK pair \in Pairs : pair = <<me, q.id>>
            BY <2>3
        <3>2. likes' = BagAdd(likes, pair)
            BY <2>2, <3>1
        <3>3. IsTable(likes') /\ pair \in DOMAIN likes'
            BY <1>1, <3>2, BagAddTable
        <3>. QED
            BY <3>1, <3>3
    <2>. QED
        BY <1>4, <2>4, InTable DEF LikeLiked
<1>5. CASE q.op = "connect" /\ AccountExists(accounts, q.id)
    <2>1. Connect(t)
        BY <1>5 DEF Handle, Home, LoginPage, SignupPage, EntryPage, NotFound, Signup, Login,
           Logout, Post, Like, Unlike, Dashboard, Profile, Pending
    <2>2. connections' = BagAdd(connections, <<me, q.id>>)
        BY <1>5, <2>1 DEF Connect, ConnectionInsert, LinksWritten
    <2>3. <<me, q.id>> \in Pairs
        <3>1. q.id \in Nat
            BY <2>1, RequestFields, ConstantsAssumption DEF TypeOK, Connect, IdRequest
        <3>. QED
            BY <1>2, <3>1 DEF Pairs
    <2>4. IsTable(connections') /\ <<me, q.id>> \in DOMAIN connections'
        <3>1. PICK pair \in Pairs : pair = <<me, q.id>>
            BY <2>3
        <3>2. connections' = BagAdd(connections, pair)
            BY <2>2, <3>1
        <3>3. IsTable(connections') /\ pair \in DOMAIN connections'
            BY <1>1, <3>2, BagAddTable
        <3>. QED
            BY <3>1, <3>3
    <2>. QED
        BY <1>5, <2>4, InTable DEF ConnectionExists
<1>. QED
    BY <1>3, <1>4, <1>5

\* Told that a like, an unlike or a connect is done, the member can rely on it,
\* however many rows a double click or a retry has made, as long as SQLite can
\* write those tables (like.c, unlike.c and connect.c pass a failed write over).
THEOREM AnswersMeanDone ==
    ASSUME LinksWritten
    PROVE  Spec => AnswerMeansDone
<1>1. TypeOK /\ NoOrphans /\ [Next]_vars => [\A t \in Tabs : DoneWhenTold(t)]_vars
    <2>. SUFFICES ASSUME TypeOK, NoOrphans, [Next]_vars, NEW t \in Tabs
                  PROVE  DoneWhenTold(t)
        OBVIOUS
    <2>. QED
        BY AnsweredBy, LinksDone DEF DoneWhenTold
<1>2. TypeOK /\ NoOrphans /\ [Next]_vars =>
          [\A t \in Tabs :
              (tab[t].st = "sent" /\ tab'[t].st = "replied" /\ SignedIn(t)) =>
                 LET q == tab[t].req
                 IN  /\ q.op = "unlike" => ~LikeLiked(likes', Me(t), q.id)
                     /\ (q.op = "like" /\ PostExists(posts, q.id)) =>
                            LikeLiked(likes', Me(t), q.id)
                     /\ (q.op = "connect" /\ AccountExists(accounts, q.id)) =>
                            ConnectionExists(connections', Me(t), q.id)]_vars
    BY <1>1 DEF DoneWhenTold
<1>. QED
    BY <1>2, TypeCorrect, NoOrphansHolds, PTL DEF Spec, AnswerMeansDone

---------------------------------------------------------------------------
(* What the two kinds of page list *)

\* The posts of these authors, as a page may list them, some of them repeatedly.
FairFor(authors, repeated, page) ==
    LET visible == {p \in DOMAIN posts : posts[p].author \in authors}
        shown   == {page[k] : k \in DOMAIN page}
    IN  /\ page \in Seq(visible)
        /\ visible # {} => shown # {}
        /\ \A p \in shown, q \in visible :
               posts[q].createdAt > posts[p].createdAt => q \in shown
        /\ \A j, k \in DOMAIN page :
               j < k => /\ posts[page[j]].createdAt >= posts[page[k]].createdAt
                        /\ page[j] = page[k] => \A i \in j..k : page[i] = page[j]
        /\ \A j, k \in DOMAIN page : j # k /\ page[j] = page[k] => page[j] \in repeated

\* A listing with rows for these authors' posts and no others gives a fair page.
LEMMA FairListing ==
    ASSUME FileOK, NEW rows, Listing(posts, rows), NEW authors, NEW repeated,
           \A p \in DOMAIN posts : rows[p] > 0 <=> posts[p].author \in authors,
           \A p \in DOMAIN posts : rows[p] > 1 => p \in repeated
    PROVE  FairFor(authors, repeated, FirstPage(posts, rows))
<1>. DEFINE page    == FirstPage(posts, rows)
            visible == {p \in DOMAIN posts : posts[p].author \in authors}
<1>1. FairPage(posts, rows, page)
    BY Listings, FirstPageFair
<1>2. {p \in DOMAIN posts : rows[p] > 0} = visible
    OBVIOUS
<1>. HIDE DEF page, visible
<1>3. page \in Seq(visible)
    BY <1>1, <1>2 DEF FairPage
<1>4. \A k \in DOMAIN page : page[k] \in visible
    BY <1>3, RowType
<1>5. \A j, k \in DOMAIN page : j # k /\ page[j] = page[k] => page[j] \in repeated
    <2>1. \A j, k \in DOMAIN page : j # k /\ page[j] = page[k] => rows[page[j]] > 1
        BY <1>1 DEF FairPage
    <2>2. visible \subseteq DOMAIN posts
        BY DEF visible
    <2>. QED
        BY <1>4, <2>1, <2>2
<1>6. FairFor(authors, repeated, page)
    BY <1>1, <1>2, <1>5 DEF FairPage, FairFor, visible
<1>. QED
    BY <1>6 DEF page

\* A profile lists its owner's posts.
LEMMA ProfileFair ==
    ASSUME FileOK, NEW author
    PROVE  FairFor({author}, {}, LatestOf(posts, author))
<1>. DEFINE rows == [p \in DOMAIN posts |-> IF posts[p].author = author THEN 1 ELSE 0]
<1>1. Listing(posts, rows) /\ \A p \in DOMAIN posts : rows[p] > 0 <=> posts[p].author \in {author}
    BY DEF Listing
<1>2. \A p \in DOMAIN posts : rows[p] > 1 => p \in {}
    OBVIOUS
<1>3. LatestOf(posts, author) = FirstPage(posts, rows)
    BY DEF LatestOf
<1>. HIDE DEF rows
<1>. QED
    BY <1>1, <1>2, <1>3, FairListing

\* The posts whose author somebody follows.
Followed == {p \in DOMAIN posts :
                \E b \in DOMAIN accounts : <<b, posts[p].author>> \in DOMAIN connections}

\* The dashboard lists, with one row or more, the posts of its reader and those of
\* the people they connected to, and repeats only what somebody follows.
LEMMA DashboardFair ==
    ASSUME FileOK, NoOrphans, NEW me \in DOMAIN accounts
    PROVE  FairFor({me} \cup {b \in DOMAIN accounts : <<me, b>> \in DOMAIN connections},
                   Followed, LatestGraph(posts, connections, me))
<1>. DEFINE D       == DOMAIN connections
            rows    == GraphRows(posts, connections, me)
            friends == {b \in DOMAIN accounts : <<me, b>> \in D}
            pointingAt(a) == {c \in D : c[2] = a}
            joined(a) == MapThenSumSet(LAMBDA c : connections[c], pointingAt(a))
<1>1. /\ Listing(posts, rows)
      /\ \A p \in DOMAIN posts : rows[p] > 1 => \E c \in D : c[2] = posts[p].author
    BY Listings
<1>2. ASSUME NEW a, pointingAt(a) # {} PROVE joined(a) > 0
    <2>1. IsFiniteSet(pointingAt(a)) /\ Weighs(connections, pointingAt(a))
        BY FS_Subset DEF FileOK, IsTable, Weighs
    <2>2. \A c \in D : connections[c] \in Nat \ {0}
        BY DEF FileOK, IsTable
    <2>3. joined(a) = SumOf(connections, pointingAt(a))
        BY ListingSum
    <2>4. PICK c \in pointingAt(a) : c \in D
        BY <1>2
    <2>. HIDE DEF joined, pointingAt
    <2>5. SumOf(connections, pointingAt(a)) \in Nat /\ connections[c] <= SumOf(connections, pointingAt(a))
        BY <2>1, <2>4, SumOfPart
    <2>. QED
        BY <2>2, <2>3, <2>4, <2>5
<1>3. ASSUME NEW p \in DOMAIN posts
      PROVE  rows[p] > 0 <=> posts[p].author \in {me} \cup friends
    <2>. DEFINE a == posts[p].author
    <2>1. a \in DOMAIN accounts
        BY DEF NoOrphans
    <2>2. rows[p] = IF a = me THEN IF pointingAt(a) = {} THEN 1 ELSE joined(a)
                    ELSE RowCount(connections, <<me, a>>)
        BY DEF GraphRows
    <2>3. RowCount(connections, <<me, a>>) > 0 <=> <<me, a>> \in D
        BY InTable DEF FileOK
    <2>. HIDE DEF a, rows, joined, pointingAt
    <2>4. CASE a = me
        BY <1>2, <2>2, <2>4 DEF a
    <2>5. CASE a # me
        BY <2>1, <2>2, <2>3, <2>5 DEF a
    <2>. QED
        BY <2>4, <2>5
<1>4. ASSUME NEW p \in DOMAIN posts, rows[p] > 1 PROVE p \in Followed
    <2>1. PICK c \in D : c[2] = posts[p].author
        BY <1>1, <1>4
    <2>2. c \in (DOMAIN accounts) \X (DOMAIN accounts)
        BY DEF NoOrphans
    <2>3. c[1] \in DOMAIN accounts /\ c = <<c[1], posts[p].author>>
        BY <2>1, <2>2
    <2>. QED
        BY <2>3 DEF Followed
<1>5. LatestGraph(posts, connections, me) = FirstPage(posts, rows)
    BY DEF LatestGraph
<1>. HIDE DEF rows, friends
<1>6. FairFor({me} \cup friends, Followed, FirstPage(posts, rows))
    BY <1>1, <1>3, <1>4, FairListing
<1>. QED
    BY <1>5, <1>6 DEF friends

---------------------------------------------------------------------------
(* The site implements the social network *)

\* What the social network sees of the site.
Members == [i \in DOMAIN accounts |-> accounts[i].email]
Acting  == [t \in Tabs |-> Me(t)]
Page    == [t \in Tabs |-> tab[t].reply.view]

SiteInv == TypeOK /\ NoOrphans /\ CookiesHonoured

\* In this step no page changes and tabs do no more than lose their cookie.
Quietly == \A t \in Tabs : /\ tab'[t].sid \in {tab[t].sid, NoSid}
                           /\ tab'[t].reply.view = tab[t].reply.view

\* A tab that keeps its cookie keeps acting for the same member.
LEMMA MeKept ==
    ASSUME SiteInv, [Next]_vars, NEW t \in Tabs
    PROVE  /\ tab'[t].sid = tab[t].sid => Me(t)' = Me(t)
           /\ tab'[t].sid = NoSid => Me(t)' = NoRow
<1>1. ASSUME tab'[t].sid = tab[t].sid, tab[t].sid # NoSid PROVE Me(t)' = Me(t)
    <2>1. AccountBySid(accounts, sessions, tab[t].sid) # NoRow
        BY <1>1 DEF SiteInv, CookiesHonoured, CarriedSids
    <2>2. PICK i \in DOMAIN sessions : sessions[i].session = tab[t].sid
        BY <2>1, HonouredStored
    <2>3. AccountBySid(accounts', sessions', tab[t].sid) = AccountBySid(accounts, sessions, tab[t].sid)
        BY <2>2, StoredSidStable DEF SiteInv
    <2>. QED
        BY <1>1, <2>3 DEF Me
<1>. QED
    BY <1>1 DEF Me

\* Then members only leave their screens.
LEMMA QuietlyLeaves ==
    ASSUME SiteInv, [Next]_vars, Quietly
    PROVE  SocialView!SomeLeave /\ Page' = Page
<1>1. \A t \in Tabs : Me(t)' = Me(t) \/ Me(t)' = NoRow
    BY MeKept DEF Quietly
<1>. DEFINE gone == {t \in Tabs : Me(t)' = NoRow}
<1>2. Acting' = [t \in Tabs |-> IF t \in gone THEN NoRow ELSE Acting[t]]
    BY <1>1 DEF Acting
<1>3. gone \in SUBSET Tabs
    OBVIOUS
<1>. HIDE DEF gone
<1>4. SocialView!SomeLeave
    BY <1>2, <1>3 DEF SocialView!SomeLeave, SocialView!Nobody, NoRow, Acting
<1>5. Page' = Page
    BY DEF Quietly, Page
<1>. QED
    BY <1>4, <1>5

\* So they do when the process ends.
LEMMA DieQuietly ==
    ASSUME TypeOK, NEW how, Die(how)
    PROVE  Quietly
<1>. SUFFICES ASSUME NEW t \in Tabs
              PROVE  /\ tab'[t].sid \in {tab[t].sid, NoSid}
                     /\ tab'[t].reply.view = tab[t].reply.view
    BY DEF Quietly
<1>1. tab[t] \in TabState /\ TabOK(tab[t])
    BY DEF TypeOK, BrowsersOK
<1>2. CASE tab[t].st = "sent"
    <2>1. tab'[t] = [tab[t] EXCEPT !.st = "lost"]
        BY <1>2 DEF Die
    <2>. QED
        BY <1>1, <2>1 DEF TabState
<1>3. CASE tab[t].st = "abandoned"
    BY <1>1, <1>3 DEF Die, TabOK, Idle
<1>4. CASE tab[t].st \notin {"sent", "abandoned"}
    BY <1>4 DEF Die
<1>. QED
    BY <1>2, <1>3, <1>4

\* A reply changes the page of the tab that still waits for it, and of no other.
LEMMA AnswerPage ==
    ASSUME TypeOK, NEW u \in Tabs, tab[u].st \in {"sent", "abandoned"}, NEW reply,
           Answer(u, reply)
    PROVE  /\ \A t \in Tabs : t # u => tab'[t] = tab[t]
           /\ tab[u].reply.view = NoView
           /\ tab[u].st = "sent" => tab'[u].sid = tab[u].sid /\ tab'[u].reply = reply
           /\ tab[u].st = "abandoned" => Quietly
<1>1. tab[u] \in TabState /\ TabOK(tab[u]) /\ tab \in [Tabs -> TabState]
    BY DEF TypeOK, BrowsersOK
<1>2. \A t \in Tabs : t # u => tab'[t] = tab[t]
    BY <1>1 DEF Answer
<1>3. tab[u].reply = NoReply
    BY <1>1 DEF TabOK
<1>4. ASSUME tab[u].st = "sent" PROVE tab'[u].sid = tab[u].sid /\ tab'[u].reply = reply
    <2>1. tab'[u] = [tab[u] EXCEPT !.st = "replied", !.reply = reply]
        BY <1>1, <1>4 DEF Answer
    <2>. QED
        BY <1>1, <2>1 DEF TabState
<1>5. ASSUME tab[u].st = "abandoned" PROVE Quietly
    <2>1. tab'[u] = Idle
        BY <1>1, <1>5 DEF Answer
    <2>. QED
        BY <1>2, <1>3, <2>1 DEF Quietly, Idle
<1>. QED
    BY <1>2, <1>3, <1>4, <1>5 DEF NoReply, Plain, ReplyWith

\* A reply without a view shows nothing.
LEMMA PlainQuietly ==
    ASSUME TypeOK, NEW u \in Tabs, Handle(u), NEW reply, reply.view = NoView,
           Reply(u, reply) \/ Die("aborted")
    PROVE  Quietly
<1>1. CASE Answer(u, reply)
    <2>1. tab[u].st \in {"sent", "abandoned"}
        BY HandlerEnds
    <2>2. CASE tab[u].st = "sent"
        BY <1>1, <2>1, <2>2, AnswerPage DEF Quietly
    <2>. QED
        BY <1>1, <2>1, <2>2, AnswerPage
<1>. QED
    BY <1>1, DieQuietly DEF Reply

\* Only the dashboard and profiles have a view.
LEMMA HandlerQuietly ==
    ASSUME TypeOK, NEW u \in Tabs, Handle(u), ~ Dashboard(u), ~ Profile(u)
    PROVE  Quietly
<1>1. /\ \A status : Plain(status).view = NoView
      /\ \A sid : SetCookie(sid).view = NoView
    BY DEF Plain, SetCookie, ReplyWith
<1>2. \E reply : reply.view = NoView /\ (Reply(u, reply) \/ Die("aborted"))
    <2>1. CASE Home(u) \/ LoginPage(u) \/ SignupPage(u) \/ NotFound(u)
        BY <1>1, <2>1 DEF Home, LoginPage, SignupPage, EntryPage, NotFound
    <2>2. CASE Signup(u) \/ Post(u) \/ Like(u) \/ Unlike(u) \/ Connect(u)
        BY <1>1, <2>2 DEF Signup, Post, Like, Unlike, Connect
    <2>3. CASE Login(u)
        BY <1>1, <2>3 DEF Login, OpenSession
    <2>4. CASE Logout(u)
        BY <1>1, <2>4 DEF Logout
    <2>. QED
        BY <2>1, <2>2, <2>3, <2>4 DEF Handle
<1>. QED
    BY <1>2, PlainQuietly

---------------------------------------------------------------------------
(* Writers *)

\* The members are listed by email.
LEMMA MembersSeq ==
    ASSUME FileOK
    PROVE  Members \in Seq(Emails) /\ Len(Members) = Len(accounts)
<1>. DEFINE n == Len(accounts)
<1>1. accounts \in Seq(AccountRow(Emails, Usernames, Passwords))
    BY DEF FileOK
<1>2. \A i \in DOMAIN accounts : accounts[i].email \in Emails
    <2>1. \A i \in DOMAIN accounts : accounts[i] \in AccountRow(Emails, Usernames, Passwords)
        BY <1>1, RowType
    <2>. QED
        BY <2>1 DEF AccountRow
<1>3. n \in Nat /\ DOMAIN accounts = 1..n
    BY <1>1
<1>4. Members \in [1..n -> Emails]
    BY <1>2, <1>3 DEF Members
<1>. HIDE DEF n
<1>5. Members \in Seq(Emails) /\ Len(Members) = n
    BY <1>3, <1>4
<1>. QED
    BY <1>5 DEF n

\* A signup joins a member or changes nothing that shows.
LEMMA SignupJoins ==
    ASSUME SiteInv, [Next]_vars, NEW u \in Tabs, Handle(u), Signup(u)
    PROVE  SocialView!Next
<1>. DEFINE q   == tab[u].req
            row == [email |-> q.email, username |-> q.username, password |-> q.password]
<1>1. SocialView!SomeLeave /\ Page' = Page
    <2>1. ~ Dashboard(u) /\ ~ Profile(u)
        BY DEF Signup, Dashboard, Profile, Pending
    <2>. QED
        BY <2>1, HandlerQuietly, QuietlyLeaves DEF SiteInv
<1>2. UNCHANGED <<posts, likes, connections, clock>>
    BY DEF Signup, Handle
<1>3. CASE accounts' = accounts
    <2>1. SocialView!Disperse
        BY <1>1, <1>2, <1>3 DEF SocialView!Disperse, Page
    <2>. QED
        BY <2>1 DEF SocialView!Next
<1>4. CASE CheckEmail(accounts, row.email) /\ accounts' = Append(accounts, row)
    <2>1. accounts \in Seq(AccountRow(Emails, Usernames, Passwords))
        BY DEF SiteInv, TypeOK, FileOK
    <2>2. row \in AccountRow(Emails, Usernames, Passwords) /\ row.email \in Emails
        <3>1. q \in SignupRequest
            BY RequestFields DEF SiteInv, TypeOK, Signup
        <3>. QED
            BY <3>1 DEF SignupRequest, AccountRow
    <2>3. /\ DOMAIN accounts' = 1..(Len(accounts) + 1)
          /\ \A i \in DOMAIN accounts : accounts'[i] = accounts[i]
          /\ accounts'[Len(accounts) + 1] = row
        <3>. HIDE DEF row
        <3>1. /\ Len(accounts') = Len(accounts) + 1
              /\ accounts' \in Seq(AccountRow(Emails, Usernames, Passwords))
              /\ \A i \in DOMAIN accounts : accounts'[i] = accounts[i]
              /\ accounts'[Len(accounts) + 1] = row
            BY <1>4, <2>1, <2>2, AppendRow
        <3>. QED
            BY <3>1
    <2>4. Members' = Append(Members, row.email)
        <3>1. Len(Members) = Len(accounts) /\ Members \in Seq(Emails)
            BY MembersSeq DEF SiteInv, TypeOK
        <3>2. DOMAIN Append(Members, row.email) = 1..(Len(accounts) + 1)
            BY <2>2, <3>1
        <3>3. \A i \in 1..(Len(accounts) + 1) : Append(Members, row.email)[i] = accounts'[i].email
            <4>. HIDE DEF row
            <4>. QED
                BY <2>1, <2>2, <2>3, <3>1 DEF Members
        <3>4. Append(Members, row.email) = [i \in 1..(Len(accounts) + 1) |-> accounts'[i].email]
            BY <2>2, <3>1, <3>2, <3>3
        <3>. QED
            BY <2>3, <3>4 DEF Members
    <2>5. \A i \in DOMAIN Members : Members[i] # row.email
        BY <1>4 DEF CheckEmail, Members
    <2>. HIDE DEF row
    <2>6. SocialView!Join
        BY <1>1, <1>2, <2>2, <2>4, <2>5 DEF SocialView!Join, SocialView!Member, Members, Page
    <2>. QED
        BY <2>6 DEF SocialView!Next
<1>. QED
    BY <1>3, <1>4 DEF Signup, AccountInsert

\* A post is published by the member at that screen, or nothing is.
LEMMA PostPublishes ==
    ASSUME SiteInv, [Next]_vars, NEW u \in Tabs, Handle(u), Post(u)
    PROVE  SocialView!Next
<1>1. SocialView!SomeLeave /\ Page' = Page
    <2>1. ~ Dashboard(u) /\ ~ Profile(u)
        BY DEF Post, Dashboard, Profile, Pending
    <2>. QED
        BY <2>1, HandlerQuietly, QuietlyLeaves DEF SiteInv
<1>2. UNCHANGED <<accounts, likes, connections, clock>>
    BY DEF Post, Handle
<1>3. CASE posts' = posts
    <2>1. SocialView!Disperse
        BY <1>1, <1>2, <1>3 DEF SocialView!Disperse, Page
    <2>. QED
        BY <2>1 DEF SocialView!Next
<1>4. CASE SignedIn(u) /\ posts' = Append(posts, [author |-> Me(u), createdAt |-> clock])
    <2>1. Me(u) \in DOMAIN Members
        BY <1>4, MeIn DEF Members
    <2>2. SocialView!Publish(u)
        BY <1>1, <1>2, <1>4, <2>1 DEF SocialView!Publish, SocialView!Member, Members, Page
    <2>. QED
        BY <2>2 DEF SocialView!Next
<1>. QED
    BY <1>3, <1>4 DEF Post

\* A like, an unlike or a connect is one by the member at that screen, or nothing is.
LEMMA LinksLike ==
    ASSUME SiteInv, [Next]_vars, NEW u \in Tabs, Handle(u), Like(u) \/ Unlike(u) \/ Connect(u)
    PROVE  SocialView!Next
<1>. DEFINE id == tab[u].req.id
<1>1. SocialView!SomeLeave /\ Page' = Page
    <2>1. ~ Dashboard(u) /\ ~ Profile(u)
        BY DEF Like, Unlike, Connect, Dashboard, Profile, Pending
    <2>. QED
        BY <2>1, HandlerQuietly, QuietlyLeaves DEF SiteInv
<1>2. UNCHANGED <<accounts, posts, clock>>
    BY DEF Like, Unlike, Connect, Handle
<1>3. IsTable(likes) /\ IsTable(connections)
    BY DEF SiteInv, TypeOK, FileOK
<1>4. SignedIn(u) => Me(u) \in DOMAIN Members
    BY MeIn DEF Members
<1>5. SignedIn(u) => <<Me(u), id>> \in Pairs
    <2>1. accounts \in Seq(AccountRow(Emails, Usernames, Passwords))
        BY DEF SiteInv, TypeOK, FileOK
    <2>2. id \in Nat
        BY RequestFields, ConstantsAssumption
           DEF SiteInv, TypeOK, Like, Unlike, Connect, IdRequest
    <2>3. SignedIn(u) => Me(u) \in Nat
        BY <2>1, MeIn
    <2>. QED
        BY <2>2, <2>3 DEF Pairs
<1>6. CASE UNCHANGED <<likes, connections>>
    <2>1. SocialView!Disperse
        BY <1>1, <1>2, <1>6 DEF SocialView!Disperse, Page
    <2>. QED
        BY <2>1 DEF SocialView!Next
<1>7. CASE Like(u) /\ likes' # likes
    <2>1. SignedIn(u) /\ id \in DOMAIN posts /\ likes' = LikeInsert(likes, Me(u), id)
          /\ connections' = connections
        BY <1>7 DEF Like, PostExists
    <2>2. DOMAIN likes' = DOMAIN likes \cup {<<Me(u), id>>}
        <3>1. PICK pair \in Pairs : pair = <<Me(u), id>>
            BY <1>5, <2>1
        <3>2. DOMAIN BagAdd(likes, pair) = DOMAIN likes \cup {pair}
            BY <1>3, BagAddTable
        <3>. QED
            BY <2>1, <3>1, <3>2 DEF LikeInsert
    <2>3. SocialView!Like(u)
        BY <1>1, <1>2, <1>4, <2>1, <2>2
           DEF SocialView!Like, SocialView!Member, SocialView!Published, Members, Page
    <2>. QED
        BY <2>3 DEF SocialView!Next
<1>8. CASE Unlike(u) /\ likes' # likes
    <2>1. SignedIn(u) /\ id \in DOMAIN posts /\ likes' = LikeDelete(likes, Me(u), id)
          /\ connections' = connections
        BY <1>8 DEF Unlike, PostExists
    <2>2. DOMAIN likes' = DOMAIN likes \ {<<Me(u), id>>}
        BY <1>3, <2>1, BagRemoveAllTable DEF LikeDelete
    <2>3. SocialView!Unlike(u)
        BY <1>1, <1>2, <1>4, <2>1, <2>2
           DEF SocialView!Unlike, SocialView!Member, SocialView!Published, Members, Page
    <2>. QED
        BY <2>3 DEF SocialView!Next
<1>9. CASE Connect(u) /\ connections' # connections
    <2>1. SignedIn(u) /\ id \in DOMAIN accounts
          /\ connections' = ConnectionInsert(connections, Me(u), id) /\ likes' = likes
        BY <1>9 DEF Connect, AccountExists
    <2>2. DOMAIN connections' = DOMAIN connections \cup {<<Me(u), id>>}
        <3>1. PICK pair \in Pairs : pair = <<Me(u), id>>
            BY <1>5, <2>1
        <3>2. DOMAIN BagAdd(connections, pair) = DOMAIN connections \cup {pair}
            BY <1>3, BagAddTable
        <3>. QED
            BY <2>1, <3>1, <3>2 DEF ConnectionInsert
    <2>3. id \in DOMAIN Members
        BY <2>1 DEF Members
    <2>4. SocialView!Follow(u)
        BY <1>1, <1>2, <1>4, <2>1, <2>2, <2>3
           DEF SocialView!Follow, SocialView!Member, Members, Page
    <2>. QED
        BY <2>4 DEF SocialView!Next
<1>. QED
    BY <1>6, <1>7, <1>8, <1>9 DEF Like, Unlike, Connect

\* The other handlers without a view change nothing that shows.
LEMMA OthersDisperse ==
    ASSUME SiteInv, [Next]_vars, NEW u \in Tabs, Handle(u),
           Home(u) \/ LoginPage(u) \/ SignupPage(u) \/ NotFound(u) \/ Logout(u) \/ Login(u)
    PROVE  SocialView!Next
<1>1. ~ Dashboard(u) /\ ~ Profile(u)
    BY DEF Home, LoginPage, SignupPage, EntryPage, NotFound, Logout, Login, Dashboard, Profile,
           Pending
<1>2. SocialView!SomeLeave /\ Page' = Page
    BY <1>1, HandlerQuietly, QuietlyLeaves DEF SiteInv
<1>3. UNCHANGED <<accounts, posts, likes, connections, clock>>
    BY DEF Handle, Home, LoginPage, SignupPage, EntryPage, NotFound, Logout, Login, file
<1>4. SocialView!Disperse
    BY <1>2, <1>3 DEF SocialView!Disperse, Page
<1>. QED
    BY <1>4 DEF SocialView!Next

---------------------------------------------------------------------------
(* Readers *)

\* The entries of a fair page are the newest, each with the reader's own like.
LEMMA EntriesNewest ==
    ASSUME FileOK, NEW authors, NEW repeated, NEW listed, FairFor(authors, repeated, listed), NEW a
    PROVE  /\ Entries(listed, a) \in Seq(SocialView!Entries)
           /\ SocialView!Newest(authors, a, Entries(listed, a))
           /\ SocialView!InOrder(Entries(listed, a))
           /\ SocialView!OnceExcept(repeated, Entries(listed, a))
<1>. DEFINE shown   == Entries(listed, a)
            visible == {p \in DOMAIN posts : posts[p].author \in authors}
<1>1. \A p : LikeLiked(likes, a, p) = (<<a, p>> \in DOMAIN likes)
    BY InTable DEF LikeLiked, FileOK
<1>2. listed \in Seq(visible)
    BY DEF FairFor
<1>3. DOMAIN listed = 1..Len(listed) /\ Len(listed) \in Nat
    BY <1>2
<1>4. /\ DOMAIN shown = DOMAIN listed
      /\ \A k \in DOMAIN listed : /\ shown[k] = [post |-> listed[k], liked |-> <<a, listed[k]>> \in DOMAIN likes]
                                 /\ shown[k].post = listed[k]
                                 /\ shown[k].liked = (<<a, listed[k]>> \in DOMAIN likes)
                                 /\ listed[k] \in visible
    <2>1. \A k \in DOMAIN listed : listed[k] \in visible
        BY <1>2, RowType
    <2>2. shown = [k \in DOMAIN listed |-> [post |-> listed[k], liked |-> <<a, listed[k]>> \in DOMAIN likes]]
        BY <1>1 DEF Entries
    <2>. QED
        BY <2>1, <2>2
<1>5. {shown[k].post : k \in DOMAIN shown} = {listed[k] : k \in DOMAIN listed}
    BY <1>4
<1>6. shown = [k \in DOMAIN listed |-> shown[k]]
    BY DEF Entries
<1>. HIDE DEF shown
<1>7. shown \in Seq(SocialView!Entries)
    <2>. DEFINE entry == SocialView!Entries
    <2>1. \A k \in DOMAIN listed : shown[k] \in entry
        <3>1. \A p \in DOMAIN posts, b \in BOOLEAN : [post |-> p, liked |-> b] \in entry
            BY DEF SocialView!Entries, SocialView!Published
        <3>2. visible \subseteq DOMAIN posts
            OBVIOUS
        <3>. HIDE DEF entry, visible
        <3>3. \A k \in DOMAIN listed : (<<a, listed[k]>> \in DOMAIN likes) \in BOOLEAN
            OBVIOUS
        <3>. QED
            BY <1>4, <3>1, <3>2, <3>3
    <2>. HIDE DEF entry
    <2>2. shown \in [1..Len(listed) -> entry]
        BY <1>3, <1>6, <2>1
    <2>3. shown \in Seq(entry)
        BY <1>3, <2>2
    <2>. QED
        BY <2>3 DEF entry
<1>8. SocialView!Newest(authors, a, shown)
    <2>1. \A k \in DOMAIN shown : shown[k].liked = (<<a, shown[k].post>> \in DOMAIN likes)
        BY <1>4
    <2>2. {listed[k] : k \in DOMAIN listed} \subseteq visible
        BY <1>4
    <2>. QED
        BY <1>5, <2>1, <2>2 DEF FairFor, SocialView!Newest, SocialView!Published
<1>9. SocialView!InOrder(shown)
    <2>1. \A j, k \in DOMAIN listed :
              j < k => /\ posts[listed[j]].createdAt >= posts[listed[k]].createdAt
                       /\ listed[j] = listed[k] => \A i \in j..k : listed[i] = listed[j]
        BY DEF FairFor
    <2>2. \A j, k \in DOMAIN listed : \A i \in j..k : i \in DOMAIN listed
        BY <1>3
    <2>3. DOMAIN shown = DOMAIN listed /\ \A k \in DOMAIN listed : shown[k].post = listed[k]
        BY <1>4
    <2>4. ASSUME NEW j \in DOMAIN shown, NEW k \in DOMAIN shown, j < k
          PROVE  /\ posts[shown[j].post].createdAt >= posts[shown[k].post].createdAt
                 /\ shown[j].post = shown[k].post =>
                        \A i \in j..k : shown[i].post = shown[j].post
        <3>1. shown[j].post = listed[j] /\ shown[k].post = listed[k]
            BY <2>3
        <3>2. posts[listed[j]].createdAt >= posts[listed[k]].createdAt
            BY <2>1, <2>3, <2>4
        <3>3. ASSUME listed[j] = listed[k], NEW i \in j..k PROVE shown[i].post = listed[j]
            BY <2>1, <2>2, <2>3, <2>4, <3>3
        <3>. QED
            BY <3>1, <3>2, <3>3
    <2>. QED
        BY <2>4 DEF SocialView!InOrder
<1>10. SocialView!OnceExcept(repeated, shown)
    <2>1. \A j, k \in DOMAIN listed : j # k /\ listed[j] = listed[k] => listed[j] \in repeated
        BY DEF FairFor
    <2>2. DOMAIN shown = DOMAIN listed /\ \A k \in DOMAIN listed : shown[k].post = listed[k]
        BY <1>4
    <2>. QED
        BY <2>1, <2>2 DEF SocialView!OnceExcept
<1>. QED
    BY <1>7, <1>8, <1>9, <1>10 DEF shown

\* A page that arrives at a tab is shown there.
LEMMA RenderedShows ==
    ASSUME SiteInv, [Next]_vars, NEW u \in Tabs, tab[u].st = "sent", UNCHANGED <<file, clock>>,
           NEW shown, NEW connected,
           Answer(u, Rendered([shown |-> shown, connected |-> connected]))
    PROVE  SocialView!Show(u, shown, connected)
<1>. DEFINE view == [shown |-> shown, connected |-> connected]
<1>1. /\ \A t \in Tabs : t # u => tab'[t] = tab[t]
      /\ tab'[u].sid = tab[u].sid /\ tab'[u].reply = Rendered(view)
    BY AnswerPage DEF SiteInv
<1>2. Rendered(view).view = view
    BY DEF Rendered, ReplyWith
<1>. HIDE DEF view
<1>3. Acting' = Acting
    BY <1>1, MeKept DEF Acting
<1>4. Page' = [Page EXCEPT ![u] = view]
    BY <1>1, <1>2 DEF Page
<1>5. UNCHANGED <<accounts, posts, likes, connections, clock>>
    BY DEF file
<1>. QED
    BY <1>3, <1>4, <1>5 DEF SocialView!Show, Acting, Page, view

\* The dashboard and a profile show their reader the newest of what they may see,
\* or nothing new.
LEMMA ReadersShow ==
    ASSUME SiteInv, [Next]_vars, NEW u \in Tabs, Handle(u), Dashboard(u) \/ Profile(u)
    PROVE  SocialView!Next
<1>1. UNCHANGED <<file, clock>>
    BY DEF Dashboard, Profile, Handle
<1>2. FileOK /\ NoOrphans /\ TypeOK
    BY DEF SiteInv, TypeOK
<1>3. ASSUME Quietly PROVE SocialView!Next
    <2>1. SocialView!SomeLeave /\ Page' = Page
        BY <1>3, QuietlyLeaves
    <2>2. SocialView!Disperse
        BY <1>1, <2>1 DEF SocialView!Disperse, Page, file
    <2>. QED
        BY <2>2 DEF SocialView!Next
<1>4. /\ \A status : Plain(status).view = NoView
      /\ tab[u].st = "abandoned" => \A reply : Answer(u, reply) => Quietly
      /\ \A how : Die(how) => Quietly
      /\ tab[u].st \in {"sent", "abandoned"}
    <2>1. tab[u].st \in {"sent", "abandoned"}
        BY HandlerEnds
    <2>. QED
        BY <1>2, <2>1, AnswerPage, DieQuietly DEF Plain, ReplyWith
<1>5. ASSUME NEW status, Reply(u, Plain(status)) PROVE SocialView!Next
    BY <1>2, <1>3, <1>4, <1>5, PlainQuietly
<1>6. CASE Dashboard(u)
    <2>. DEFINE me    == Me(u)
                ids   == LatestGraph(posts, connections, me)
                shown == Entries(ids, me)
    <2>1. \/ Reply(u, Plain(404)) \/ Die("aborted")
          \/ SignedIn(u) /\ Reply(u, Rendered([shown |-> shown, connected |-> {}]))
        <3>. HIDE DEF shown
        <3>1. [NoView EXCEPT !.shown = shown] = [shown |-> shown, connected |-> {}]
            BY DEF NoView
        <3>2. \/ Reply(u, Plain(404)) \/ Die("aborted")
              \/ SignedIn(u) /\ Reply(u, Rendered([NoView EXCEPT !.shown = shown]))
            BY <1>6 DEF Dashboard, shown
        <3>. QED
            BY <3>1, <3>2
    <2>2. ASSUME SignedIn(u), tab[u].st = "sent",
                 Answer(u, Rendered([shown |-> shown, connected |-> {}]))
          PROVE  SocialView!Next
        <3>1. me \in DOMAIN accounts
            BY <2>2, MeIn
        <3>2. FairFor({me} \cup {b \in DOMAIN accounts : <<me, b>> \in DOMAIN connections},
                      Followed, ids)
            BY <1>2, <3>1, DashboardFair
        <3>. HIDE DEF me, ids
        <3>3. /\ shown \in Seq(SocialView!Entries)
              /\ SocialView!Newest({me} \cup {b \in DOMAIN accounts : <<me, b>> \in DOMAIN connections},
                                   me, shown)
              /\ SocialView!InOrder(shown)
              /\ SocialView!OnceExcept(Followed, shown)
            BY <1>2, <3>2, EntriesNewest
        <3>. HIDE DEF shown
        <3>4. SocialView!Show(u, shown, {})
            BY <1>1, <2>2, RenderedShows
        <3>5. DOMAIN Members = DOMAIN accounts /\ Acting[u] = me
            BY DEF Members, Acting, me
        <3>6. Page'[u].shown = shown
            BY <3>4 DEF SocialView!Show, Page
        <3>7. SocialView!ReadOwn(u)
            BY <3>1, <3>3, <3>4, <3>5, <3>6
               DEF SocialView!ReadOwn, SocialView!Member, SocialView!Published, Followed, Members,
                   Acting, Page
        <3>. QED
            BY <3>7 DEF SocialView!Next
    <2>. QED
        BY <1>3, <1>4, <1>5, <2>1, <2>2 DEF Reply
<1>7. CASE Profile(u)
    <2>. DEFINE me    == Me(u)
                id    == tab[u].req.id
                ids   == LatestOf(posts, id)
                shown == Entries(ids, me)
                followed == {c \in {id} : ConnectionExists(connections, me, c)}
    <2>1. \/ \E status : Reply(u, Plain(status))
          \/ /\ SignedIn(u) /\ id \in DOMAIN accounts /\ id # me
             /\ Reply(u, Rendered([shown |-> shown, connected |-> followed]))
        BY <1>7 DEF Profile, AccountExists
    <2>2. ASSUME SignedIn(u), id \in DOMAIN accounts, id # me, tab[u].st = "sent",
                 Answer(u, Rendered([shown |-> shown, connected |-> followed]))
          PROVE  SocialView!Next
        <3>1. me \in DOMAIN accounts
            BY <2>2, MeIn
        <3>2. FairFor({id}, {}, ids)
            BY <1>2, ProfileFair
        <3>3. followed = {c \in {id} : <<me, c>> \in DOMAIN connections}
            BY <1>2, InTable DEF ConnectionExists, FileOK
        <3>. HIDE DEF me, ids, followed, id
        <3>4. /\ shown \in Seq(SocialView!Entries) /\ SocialView!Newest({id}, me, shown)
              /\ SocialView!InOrder(shown) /\ SocialView!OnceExcept({}, shown)
            BY <1>2, <3>2, EntriesNewest
        <3>. HIDE DEF shown
        <3>5. PICK page, links : page = shown /\ links = followed
            OBVIOUS
        <3>6. SocialView!Show(u, page, links)
            <4>1. tab[u].st = "sent" /\ Answer(u, Rendered([shown |-> page, connected |-> links]))
                BY <2>2, <3>5
            <4>. QED
                BY <1>1, <4>1, RenderedShows
        <3>7. DOMAIN Members = DOMAIN accounts /\ Acting[u] = me
            BY DEF Members, Acting, me
        <3>8. /\ me \in DOMAIN accounts /\ id \in (DOMAIN accounts) \ {me}
              /\ page \in Seq(SocialView!Entries) /\ SocialView!Newest({id}, me, page)
              /\ SocialView!InOrder(page) /\ SocialView!OnceExcept({}, page)
              /\ Page'[u].shown = page
            <4>1. Page'[u].shown = page
                BY <3>6 DEF SocialView!Show, Page
            <4>. QED
                BY <2>2, <3>1, <3>4, <3>5, <4>1
        <3>9. links = {c \in {id} : <<me, c>> \in DOMAIN connections}
            BY <3>3, <3>5
        <3>10. SocialView!ReadOther(u)
            BY <3>6, <3>7, <3>8, <3>9
               DEF SocialView!ReadOther, SocialView!Member, SocialView!Show, Members, Acting, Page
        <3>. QED
            BY <3>10 DEF SocialView!Next
    <2>. QED
        BY <1>3, <1>4, <1>5, <2>1, <2>2 DEF Reply
<1>. QED
    BY <1>6, <1>7

---------------------------------------------------------------------------
(* Coming and going *)

\* One tab changes: at the others the same members keep looking at the same pages.
LEMMA OneScreen ==
    ASSUME SiteInv, [Next]_vars, NEW u \in Tabs, NEW x, tab' = [tab EXCEPT ![u] = x]
    PROVE  /\ Acting' = [Acting EXCEPT ![u] = Me(u)']
           /\ Page' = [Page EXCEPT ![u] = x.reply.view]
<1>1. tab'[u] = x /\ \A t \in Tabs : t # u => tab'[t] = tab[t]
    BY DEF SiteInv, TypeOK, BrowsersOK
<1>2. \A t \in Tabs : t # u => Me(t)' = Me(t)
    BY <1>1, MeKept
<1>3. Acting' = [Acting EXCEPT ![u] = Me(u)']
    <2>1. Acting' = [t \in Tabs |-> Me(t)']
        BY DEF Acting
    <2>. QED
        BY <1>2, <2>1 DEF Acting
<1>4. Page' = [Page EXCEPT ![u] = x.reply.view]
    <2>1. Page' = [t \in Tabs |-> tab'[t].reply.view]
        BY DEF Page
    <2>2. \A t \in Tabs : tab'[t].reply.view = IF t = u THEN x.reply.view ELSE tab[t].reply.view
        BY <1>1
    <2>. QED
        BY <2>1, <2>2 DEF Page
<1>. QED
    BY <1>3, <1>4

\* A tab that asks shows nothing and acts for a member or for nobody.
LEMMA AskingAsks ==
    ASSUME SiteInv, [Next]_vars, NEW u \in Tabs, Submit(u) \/ Retry(u)
    PROVE  SocialView!Next
<1>1. PICK x : tab' = [tab EXCEPT ![u] = x] /\ x.reply = NoReply
    <2>1. PICK q : tab' = [tab EXCEPT ![u] = Sent(u, q)]
        BY DEF Submit, Retry
    <2>2. Sent(u, q).reply = NoReply
        BY DEF Sent
    <2>. QED
        BY <2>1, <2>2
<1>2. NoReply.view = NoView
    BY DEF NoReply, Plain, ReplyWith
<1>3. tab[u].reply = NoReply
    BY DEF Submit, Retry, SiteInv, TypeOK, BrowsersOK, TabOK
<1>4. Page[u] = NoView /\ Page' = Page
    <2>1. Page' = [Page EXCEPT ![u] = NoView]
        BY <1>1, <1>2, OneScreen
    <2>2. Page[u] = NoView
        BY <1>2, <1>3 DEF Page
    <2>. QED
        BY <2>1, <2>2 DEF Page
<1>5. UNCHANGED <<accounts, posts, likes, connections, clock>>
    BY DEF Submit, Retry, Quiet, file
<1>6. Acting' = [Acting EXCEPT ![u] = Me(u)'] /\ Me(u)' \in DOMAIN Members \cup {NoRow}
    <2>1. Me(u)' \in (DOMAIN accounts') \cup {NoRow}
        BY AccountBySidIn DEF Me
    <2>. QED
        BY <1>1, <1>5, <2>1, OneScreen DEF Members
<1>7. SocialView!Ask(u)
    BY <1>4, <1>5, <1>6 DEF SocialView!Ask, SocialView!Member, SocialView!Nobody,
       SocialView!NothingShown, NoView, NoRow, Acting, Page, Members
<1>. QED
    BY <1>7 DEF SocialView!Next

\* A tab that is done, or that gives up, is left.
LEMMA LeavingLeaves ==
    ASSUME SiteInv, [Next]_vars, NEW u \in Tabs, Abandon(u) \/ GiveUp(u) \/ Deliver(u)
    PROVE  SocialView!Next \/ UNCHANGED SocialView!vars
<1>1. UNCHANGED <<accounts, posts, likes, connections, clock>>
    BY DEF Abandon, GiveUp, Deliver, Quiet, file
<1>2. tab[u] \in TabState /\ TabOK(tab[u]) /\ tab \in [Tabs -> TabState]
    BY DEF SiteInv, TypeOK, BrowsersOK
<1>3. CASE tab' = [tab EXCEPT ![u] = Idle]
    <2>1. Me(u)' = NoRow
        <3>1. tab'[u].sid = NoSid
            BY <1>2, <1>3 DEF Idle
        <3>. QED
            BY <3>1, MeKept
    <2>2. /\ Acting' = [Acting EXCEPT ![u] = NoRow]
          /\ Page' = [Page EXCEPT ![u] = NoView]
        <3>1. Idle.reply.view = NoView
            BY DEF Idle, NoReply, Plain, ReplyWith
        <3>. QED
            BY <1>3, <2>1, <3>1, OneScreen
    <2>3. SocialView!Leave(u)
        BY <1>1, <2>2 DEF SocialView!Leave, SocialView!Nobody, SocialView!NothingShown,
           NoView, NoRow, Acting, Page
    <2>. QED
        BY <2>3 DEF SocialView!Next
<1>4. CASE Abandon(u) /\ tab[u].st = "sent"
    <2>. DEFINE x == [tab[u] EXCEPT !.st = "abandoned", !.reply = NoReply]
    <2>1. tab' = [tab EXCEPT ![u] = x]
        BY <1>2, <1>4 DEF Abandon
    <2>2. x.sid = tab[u].sid /\ x.reply = tab[u].reply
        BY <1>2, <1>4 DEF TabOK, TabState
    <2>. HIDE DEF x
    <2>3. tab'[u].sid = tab[u].sid
        BY <1>2, <2>1, <2>2
    <2>4. Acting' = Acting /\ Page' = Page
        BY <2>1, <2>2, <2>3, OneScreen, MeKept DEF Acting, Page
    <2>. QED
        BY <1>1, <2>4 DEF SocialView!vars, Acting, Page
<1>. QED
    BY <1>3, <1>4 DEF Abandon, GiveUp, Deliver

\* The process and the clock.
LEMMA ProcessDisperses ==
    ASSUME SiteInv, [Next]_vars,
           Stop \/ Start \/ Tick \/ (\E b \in Browsers : CookieExpires(b)) \/ UNCHANGED vars
    PROVE  SocialView!Next \/ UNCHANGED SocialView!vars
<1>1. UNCHANGED <<accounts, sessions, posts, likes, connections>>
    BY DEF Stop, Start, Tick, CookieExpires, Quiet, vars, file
<1>2. CASE Stop
    <2>1. SocialView!SomeLeave /\ Page' = Page
        BY <1>2, DieQuietly, QuietlyLeaves DEF Stop, SiteInv
    <2>2. SocialView!Disperse
        BY <1>1, <1>2, <2>1 DEF Stop, SocialView!Disperse, Page
    <2>. QED
        BY <2>2 DEF SocialView!Next
<1>3. ASSUME tab' = tab PROVE Acting' = Acting /\ Page' = Page
    BY <1>1, <1>3 DEF Acting, Page, Me
<1>4. CASE Tick
    <2>1. SocialView!TimePasses
        BY <1>1, <1>3, <1>4 DEF Tick, SocialView!TimePasses, Acting, Page
    <2>. QED
        BY <2>1 DEF SocialView!Next
<1>5. CASE Start \/ (\E b \in Browsers : CookieExpires(b)) \/ UNCHANGED vars
    <2>1. tab' = tab /\ clock' = clock
        BY <1>5 DEF Start, CookieExpires, Quiet, vars
    <2>. QED
        BY <1>1, <1>3, <2>1 DEF SocialView!vars, Acting, Page
<1>. QED
    BY <1>2, <1>4, <1>5

\* Every step of the site is a step of the social network or does not show.
LEMMA SocialStep == SiteInv /\ [Next]_vars => [SocialView!Next]_SocialView!vars
<1>. SUFFICES ASSUME SiteInv, [Next]_vars
              PROVE  SocialView!Next \/ UNCHANGED SocialView!vars
    OBVIOUS
<1>1. ASSUME NEW t \in Tabs, Handle(t) PROVE SocialView!Next
    BY <1>1, SignupJoins, PostPublishes, LinksLike, OthersDisperse, ReadersShow DEF Handle
<1>. QED
    BY <1>1, AskingAsks, LeavingLeaves, ProcessDisperses DEF Next

\* The site starts as a social network whose people have joined before.
LEMMA SocialInit == Init => SocialView!Init
<1>. SUFFICES ASSUME Init PROVE SocialView!Init
    OBVIOUS
<1>1. FileOK
    BY TypeInit DEF TypeOK
<1>2. Members \in Seq(Emails) /\ DOMAIN Members = DOMAIN accounts
    BY <1>1, MembersSeq DEF Members
<1>3. \A i, j \in DOMAIN Members : Members[i] = Members[j] => i = j
    BY SeedAssumption DEF Init, Members
<1>4. \A p \in DOMAIN posts : posts[p].author \in DOMAIN Members
    BY SeedAssumption DEF Init, Members
<1>5. DOMAIN connections \subseteq (DOMAIN Members) \X (DOMAIN Members) /\ DOMAIN likes = {}
    BY SeedAssumption DEF Init, Members
<1>6. \A t \in Tabs : Me(t) = NoRow /\ tab[t].reply.view = NoView
    BY DEF Init, Me, Idle, NoReply, Plain, ReplyWith
<1>7. clock = 0
    BY DEF Init
<1>. QED
    BY <1>2, <1>3, <1>4, <1>5, <1>6, <1>7
       DEF SocialView!Init, SocialView!Member, SocialView!Published, SocialView!Nobody,
           SocialView!NothingShown, NoView, NoRow, Members

\* The site implements the social network: duplicate rows, requests that are sent
\* again or given up, logins, restarts and failed writes do not show on any page;
\* every page is made for the member who asked for it and shows the newest of what
\* they may see, and whoever changes something asked to.
THEOREM SocialSpecHolds == Spec => SocialSpec
<1>1. TypeOK /\ NoOrphans /\ CookiesHonoured /\ [Next]_vars => [SocialView!Next]_SocialView!vars
    BY SocialStep DEF SiteInv
<1>. QED
    BY <1>1, SocialInit, TypeCorrect, NoOrphansHolds, CookiesHonouredHolds, PTL
       DEF Spec, SocialSpec, SocialView!Spec

---------------------------------------------------------------------------
(* Session ids *)

\* A product is a multiple of its first factor.
LEMMA MultipleIs ==
    ASSUME NEW T \in Nat \ {0}, NEW z \in Nat
    PROVE  (T * z) % T = 0 /\ T * z \in Nat
<1>. DEFINE r == (T * z) % T
            q == (T * z) \div T
<1>1. T * z \in Nat
    OBVIOUS
<1>2. /\ r \in 0..(T - 1) /\ q \in Int /\ T * z = T * q + r
    BY <1>1
<1>. HIDE DEF r, q
<1>3. r = T * (z - q)
    BY <1>1, <1>2
<1>4. z - q <= 0
    <2>. SUFFICES ASSUME z - q >= 1 PROVE FALSE
        BY <1>2
    <2>1. T * (z - q) >= T
        BY <1>2
    <2>. QED
        BY <1>2, <1>3, <2>1
<1>5. T * (z - q) <= 0
    BY <1>2, <1>4
<1>6. r = 0
    BY <1>2, <1>3, <1>5
<1>. QED
    BY <1>1, <1>6 DEF r

\* What is left of a multiple by a multiple is one, too.
LEMMA RemainderOfMultiples ==
    ASSUME NEW T \in Nat \ {0}, NEW a \in Nat, NEW b \in Nat \ {0}, a % T = 0, b % T = 0
    PROVE  (a % b) % T = 0
<1>. DEFINE x == a \div T
            y == b \div T
            q == a \div b
            r == a % b
<1>1. x \in Nat /\ a = T * x /\ y \in Nat /\ b = T * y
    OBVIOUS
<1>2. r \in Nat /\ q \in Nat /\ a = b * q + r
    OBVIOUS
<1>. HIDE DEF x, y, q, r
<1>3. b * q = T * (y * q)
    BY <1>1, <1>2
<1>4. r = T * (x - y * q)
    BY <1>1, <1>2, <1>3
<1>5. x - y * q \in Nat
    <2>1. x - y * q \in Int
        BY <1>1, <1>2
    <2>2. ASSUME x - y * q <= -1 PROVE FALSE
        <3>1. T * (x - y * q) <= -T
            BY <2>1, <2>2
        <3>. QED
            BY <1>2, <1>4, <3>1
    <2>. QED
        BY <2>1, <2>2
<1>6. r % T = 0
    BY <1>4, <1>5, MultipleIs
<1>. QED
    BY <1>6 DEF r

\* If get_rand is loaded at a multiple of the size of the letters' table, all session
\* ids are the same: whatever was drawn before, the remainders of multiples are multiples.
\* In the code the sizes are 2^64 and 64, and functions start at multiples of 16.
THEOREM AlignedAddressOneId ==
    ASSUME WordSize % TableSize = 0, NEW magic \in Nat \ {0}, magic % TableSize = 0,
           NEW n \in Nat, NEW m \in Nat
    PROVE  RandomString(magic, n) = RandomString(magic, m)
<1>1. ASSUME NEW c \in Nat PROVE GetRand(magic, c) % TableSize = 0
    <2>. DEFINE s == magic * magic * c
                w == s % WordSize
                x == magic \div TableSize
    <2>1. x \in Nat /\ magic = TableSize * x
        BY UtilityAssumption
    <2>2. magic * c \in Nat
        OBVIOUS
    <2>. DEFINE z == x * (magic * c)
    <2>3. z \in Nat
        BY <2>1, <2>2
    <2>4. s = TableSize * z
        <3>1. s = magic * (magic * c)
            OBVIOUS
        <3>. HIDE DEF x
        <3>. DEFINE h == magic * c
        <3>. HIDE DEF h
        <3>2. (TableSize * x) * h = TableSize * (x * h)
            BY <2>1, <2>2, UtilityAssumption DEF h
        <3>. QED
            BY <2>1, <3>1, <3>2 DEF h
    <2>. HIDE DEF s, z
    <2>5. s \in Nat /\ s % TableSize = 0
        BY <2>3, <2>4, MultipleIs, UtilityAssumption
    <2>6. w \in Nat /\ w % TableSize = 0
        <3>1. w \in Nat
            BY <2>5, UtilityAssumption
        <3>2. (s % WordSize) % TableSize = 0
            BY <2>5, RemainderOfMultiples, UtilityAssumption
        <3>. QED
            BY <3>1, <3>2
    <2>. HIDE DEF w
    <2>7. (w % magic) % TableSize = 0
        BY <2>6, RemainderOfMultiples, UtilityAssumption
    <2>. QED
        BY <2>7 DEF GetRand, s, w
<1>. QED
    BY <1>1, UtilityAssumption DEF RandomString
=============================================================================
