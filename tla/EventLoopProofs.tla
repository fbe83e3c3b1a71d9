--------------------------- MODULE EventLoopProofs ---------------------------
(***************************************************************************)
(* The loop of server.c for any number of clients and descriptors, any     *)
(* size of buffers and any reply: no descriptor leaks, an event still      *)
(* means what it meant, nobody is sent what is another's and nobody is     *)
(* forgotten.                                                              *)
(***************************************************************************)
EXTENDS EventLoopProps, LeastNumber, SequenceTheorems, TLAPS

---------------------------------------------------------------------------
(* Lists without repetitions: the ready list and the batch *)

Distinct(list) == \A i, j \in DOMAIN list : list[i] = list[j] => i = j

\* A descriptor that is put on the list is there once.
LEMMA NotifyAdds ==
    ASSUME NEW S, NEW list \in Seq(S), Distinct(list), NEW e \in S
    PROVE  /\ Notify(list, e) \in Seq(S)
           /\ Distinct(Notify(list, e))
           /\ Range(Notify(list, e)) = Range(list) \cup {e}
<1>1. CASE e \in Range(list)
    BY <1>1 DEF Notify
<1>2. CASE e \notin Range(list)
    <2>. DEFINE more == Append(list, e)
    <2>1. Notify(list, e) = more
        BY <1>2 DEF Notify
    <2>2. /\ more \in Seq(S)
          /\ DOMAIN more = 1..(Len(list) + 1) /\ DOMAIN list = 1..Len(list)
          /\ Len(list) \in Nat
          /\ more[Len(list) + 1] = e
          /\ \A i \in 1..Len(list) : more[i] = list[i]
        OBVIOUS
    <2>. HIDE DEF more
    <2>3. Range(more) = Range(list) \cup {e}
        BY <2>2 DEF Range
    <2>4. \A i \in 1..Len(list) : list[i] # e
        BY <1>2, <2>2 DEF Range
    <2>5. Distinct(more)
        BY <2>2, <2>4 DEF Distinct
    <2>. QED
        BY <2>1, <2>2, <2>3, <2>5
<1>. QED
    BY <1>1, <1>2

\* What is taken off the list is off it.
LEMMA RemoveDrops ==
    ASSUME NEW S, NEW list \in Seq(S), Distinct(list), NEW e
    PROVE  /\ RemoveFirst(list, e) \in Seq(S)
           /\ Distinct(RemoveFirst(list, e))
           /\ Range(RemoveFirst(list, e)) = Range(list) \ {e}
<1>. DEFINE less == RemoveFirst(list, e)
<1>0. DOMAIN list = 1..Len(list) /\ Len(list) \in Nat /\ \A i \in 1..Len(list) : list[i] \in S
    OBVIOUS
<1>1. CASE e \notin Range(list)
    <2>1. less = list
        BY <1>0, <1>1 DEF RemoveFirst, Range
    <2>. QED
        BY <1>1, <2>1
<1>2. CASE e \in Range(list)
    <2>1. PICK k \in 1..Len(list) : list[k] = e
        BY <1>0, <1>2 DEF Range
    <2>2. {i \in 1..Len(list) : list[i] = e} = {k}
        BY <1>0, <2>1 DEF Distinct
    <2>3. SelectInSeq(list, LAMBDA v : v = e) = k
        <3>. DEFINE I == {i \in 1..Len(list) : list[i] = e}
        <3>1. SelectInSeq(list, LAMBDA v : v = e) = IF I # {} THEN Min(I) ELSE 0
            BY DEF SelectInSeq
        <3>2. I = {k}
            BY <2>2
        <3>3. Min({k}) = k
            BY <2>1 DEF Min
        <3>. HIDE DEF I
        <3>. QED
            BY <3>1, <3>2, <3>3
    <2>4. less = SubSeq(list, 1, k - 1) \o SubSeq(list, k + 1, Len(list))
        BY <2>1, <2>3 DEF RemoveFirst, RemoveAt
    <2>5. /\ less \in Seq(S)
          /\ Len(less) = Len(list) - 1
          /\ \A i \in 1..(Len(list) - 1) : less[i] = IF i < k THEN list[i] ELSE list[i + 1]
        <3>. DEFINE a == SubSeq(list, 1, k - 1)
                    b == SubSeq(list, k + 1, Len(list))
        <3>1. a \in Seq(S) /\ Len(a) = k - 1 /\ \A i \in 1..(k - 1) : a[i] = list[i]
            BY <1>0, <2>1, SubSeqProperties
        <3>2. b \in Seq(S) /\ Len(b) = Len(list) - k
              /\ \A i \in 1..(Len(list) - k) : b[i] = list[k + i]
            <4>. k \in Nat /\ Len(list) \in Nat /\ 1 <= k /\ k <= Len(list)
                BY <1>0, <2>1
            <4>1. \A i \in (k + 1)..Len(list) : list[i] \in S
                BY <1>0
            <4>2. /\ b \in Seq(S)
                  /\ Len(b) = IF k + 1 <= Len(list) THEN Len(list) - (k + 1) + 1 ELSE 0
                  /\ \A i \in 1..(Len(list) - (k + 1) + 1) : b[i] = list[k + 1 + i - 1]
                BY <4>1, SubSeqProperties
            <4>3. \A i \in 1..(Len(list) - k) :
                      i \in 1..(Len(list) - (k + 1) + 1) /\ k + 1 + i - 1 = k + i
                OBVIOUS
            <4>. HIDE DEF b
            <4>. QED
                BY <4>2, <4>3
        <3>. DEFINE ab == a \o b
        <3>3. less = ab
            BY <2>4
        <3>. HIDE DEF a, b, less
        <3>4. /\ ab \in Seq(S) /\ Len(ab) = Len(a) + Len(b)
              /\ \A i \in 1..(Len(a) + Len(b)) :
                    ab[i] = IF i <= Len(a) THEN a[i] ELSE b[i - Len(a)]
            BY <3>1, <3>2, ConcatProperties
        <3>. HIDE DEF ab
        <3>5. ASSUME NEW i \in 1..(Len(list) - 1)
              PROVE  ab[i] = IF i < k THEN list[i] ELSE list[i + 1]
            <4>. k \in Nat /\ Len(list) \in Nat /\ i \in Nat /\ 1 <= k /\ k <= Len(list)
                BY <1>0, <2>1
            <4>1. i \in 1..(Len(a) + Len(b))
                BY <3>1, <3>2
            <4>2. ab[i] = IF i <= k - 1 THEN a[i] ELSE b[i - (k - 1)]
                BY <3>1, <3>4, <4>1
            <4>3. CASE i < k
                BY <4>2, <4>3, <3>1
            <4>4. CASE i >= k
                <5>1. i - (k - 1) \in 1..(Len(list) - k) /\ k + (i - (k - 1)) = i + 1
                    BY <4>4
                <5>. QED
                    BY <4>2, <4>4, <5>1, <3>2
            <4>. QED
                BY <4>3, <4>4
        <3>6. Len(ab) = Len(list) - 1
            BY <1>0, <2>1, <3>1, <3>2, <3>4
        <3>. QED
            BY <3>3, <3>4, <3>5, <3>6
    <2>. HIDE DEF less
    <2>6. DOMAIN less = 1..(Len(list) - 1)
        BY <2>5
    <2>7. Distinct(less)
        BY <1>0, <2>1, <2>5, <2>6 DEF Distinct
    <2>8. Range(less) \subseteq Range(list) \ {e}
        BY <1>0, <2>1, <2>5, <2>6 DEF Distinct, Range
    <2>9. ASSUME NEW x \in Range(list), x # e PROVE x \in Range(less)
        <3>1. PICK i \in 1..Len(list) : list[i] = x
            BY <1>0 DEF Range
        <3>2. IF i < k THEN i \in DOMAIN less /\ less[i] = x
              ELSE i - 1 \in DOMAIN less /\ less[i - 1] = x
            BY <1>0, <2>1, <2>5, <2>6, <2>9, <3>1
        <3>. QED
            BY <3>2 DEF Range
    <2>. QED
        BY <2>5, <2>7, <2>8, <2>9 DEF less
<1>. QED
    BY <1>1, <1>2

\* The rest of the batch.
LEMMA TailDrops ==
    ASSUME NEW S, NEW list \in Seq(S), Distinct(list), list # << >>
    PROVE  /\ Tail(list) \in Seq(S)
           /\ Distinct(Tail(list))
           /\ Range(Tail(list)) = Range(list) \ {Head(list)}
           /\ DOMAIN Tail(list) = 1..(Len(list) - 1)
           /\ \A i \in DOMAIN Tail(list) : i + 1 \in DOMAIN list /\ Tail(list)[i] = list[i + 1]
<1>. DEFINE rest == Tail(list)
<1>1. /\ DOMAIN list = 1..Len(list) /\ Len(list) \in Nat \ {0}
      /\ rest \in Seq(S) /\ DOMAIN rest = 1..(Len(list) - 1) /\ Head(list) = list[1]
      /\ \A i \in 1..(Len(list) - 1) : rest[i] = list[i + 1]
    OBVIOUS
<1>. HIDE DEF rest
<1>2. Distinct(rest)
    <2>. SUFFICES ASSUME NEW i \in DOMAIN rest, NEW j \in DOMAIN rest, rest[i] = rest[j]
                  PROVE  i = j
        BY DEF Distinct
    <2>1. /\ i \in Int /\ j \in Int
          /\ i + 1 \in DOMAIN list /\ j + 1 \in DOMAIN list /\ list[i + 1] = list[j + 1]
        BY <1>1
    <2>2. i + 1 = j + 1
        BY <2>1 DEF Distinct
    <2>. QED
        BY <2>1, <2>2
<1>3. Range(rest) \subseteq Range(list) \ {Head(list)}
    BY <1>1 DEF Distinct, Range
<1>4. ASSUME NEW x \in Range(list), x # Head(list) PROVE x \in Range(rest)
    <2>1. PICK i \in 1..Len(list) : list[i] = x
        BY <1>1 DEF Range
    <2>2. i - 1 \in DOMAIN rest /\ rest[i - 1] = x
        BY <1>1, <1>4, <2>1
    <2>. QED
        BY <2>2 DEF Range
<1>. QED
    BY <1>1, <1>2, <1>3, <1>4 DEF rest

\* The two halves of a list that is cut.
LEMMA CutSplits ==
    ASSUME NEW S, NEW list \in Seq(S), Distinct(list), NEW n \in 0..Len(list)
    PROVE  LET front == SubSeq(list, 1, n)
               back  == SubSeq(list, n + 1, Len(list))
           IN  /\ front \in Seq(S) /\ back \in Seq(S)
               /\ Distinct(front) /\ Distinct(back)
               /\ Range(front) \cup Range(back) = Range(list)
               /\ Range(front) \cap Range(back) = {}
<1>. DEFINE front == SubSeq(list, 1, n)
            back  == SubSeq(list, n + 1, Len(list))
<1>1. /\ DOMAIN list = 1..Len(list) /\ Len(list) \in Nat
      /\ n \in Nat /\ n <= Len(list)
      /\ \A i \in 1..Len(list) : list[i] \in S
    OBVIOUS
<1>2. front \in Seq(S) /\ DOMAIN front = 1..n /\ \A i \in 1..n : front[i] = list[i]
    <2>1. /\ front \in Seq(S) /\ Len(front) = IF 1 <= n THEN n - 1 + 1 ELSE 0
          /\ \A i \in 1..(n - 1 + 1) : front[i] = list[1 + i - 1]
        BY <1>1, SubSeqProperties
    <2>2. \A i \in 1..n : i \in 1..(n - 1 + 1) /\ 1 + i - 1 = i
        BY <1>1
    <2>3. Len(front) = n
        BY <1>1, <2>1
    <2>. HIDE DEF front
    <2>. QED
        BY <2>1, <2>2, <2>3
<1>3. /\ back \in Seq(S) /\ DOMAIN back = 1..(Len(list) - n)
      /\ \A i \in 1..(Len(list) - n) : back[i] = list[n + i]
    <2>1. /\ back \in Seq(S)
          /\ Len(back) = IF n + 1 <= Len(list) THEN Len(list) - (n + 1) + 1 ELSE 0
          /\ \A i \in 1..(Len(list) - (n + 1) + 1) : back[i] = list[n + 1 + i - 1]
        <3>1. \A i \in (n + 1)..Len(list) : list[i] \in S
            BY <1>1
        <3>. QED
            BY <1>1, <3>1, SubSeqProperties
    <2>. HIDE DEF back
    <2>2. \A i \in 1..(Len(list) - n) :
              i \in 1..(Len(list) - (n + 1) + 1) /\ n + 1 + i - 1 = n + i
        BY <1>1
    <2>3. Len(back) = Len(list) - n
        <3>1. CASE n = Len(list)
            BY <1>1, <2>1, <3>1
        <3>2. CASE n < Len(list)
            <4>1. n + 1 <= Len(list) /\ Len(list) - (n + 1) + 1 = Len(list) - n
                BY <1>1, <3>2
            <4>. QED
                BY <2>1, <4>1
        <3>3. n = Len(list) \/ n < Len(list)
            <4>1. Len(list) \in Int /\ n \in Int /\ n <= Len(list)
                BY <1>1
            <4>. DEFINE m == Len(list)
            <4>. HIDE DEF m
            <4>. QED
                BY <4>1
        <3>. QED
            BY <3>1, <3>2, <3>3
    <2>4. DOMAIN back = 1..Len(back)
        BY <2>1
    <2>. QED
        BY <2>1, <2>2, <2>3, <2>4
<1>. HIDE DEF front, back
<1>4. Distinct(front)
    BY <1>1, <1>2 DEF Distinct
<1>5. Distinct(back)
    <2>. SUFFICES ASSUME NEW i \in DOMAIN back, NEW j \in DOMAIN back, back[i] = back[j]
                  PROVE  i = j
        BY DEF Distinct
    <2>1. /\ i \in Int /\ j \in Int
          /\ n + i \in DOMAIN list /\ n + j \in DOMAIN list /\ list[n + i] = list[n + j]
        BY <1>1, <1>3
    <2>2. n + i = n + j
        BY <2>1 DEF Distinct
    <2>. QED
        BY <1>1, <2>1, <2>2
<1>6. Range(front) \subseteq Range(list) /\ Range(back) \subseteq Range(list)
    <2>1. \A i \in DOMAIN front : i \in DOMAIN list /\ front[i] = list[i]
        BY <1>1, <1>2
    <2>2. \A i \in DOMAIN back : n + i \in DOMAIN list /\ back[i] = list[n + i]
        BY <1>1, <1>3
    <2>. QED
        BY <2>1, <2>2 DEF Range
<1>7. ASSUME NEW x \in Range(list) PROVE x \in Range(front) \cup Range(back)
    <2>1. PICK i \in 1..Len(list) : list[i] = x
        BY <1>1 DEF Range
    <2>2. CASE i <= n
        <3>1. i \in DOMAIN front /\ front[i] = x
            BY <1>2, <2>1, <2>2
        <3>. QED
            BY <3>1 DEF Range
    <2>3. CASE i > n
        <3>1. i - n \in DOMAIN back /\ n + (i - n) = i
            BY <1>1, <1>3, <2>3
        <3>2. back[i - n] = x
            BY <1>3, <2>1, <3>1
        <3>. QED
            BY <3>1, <3>2 DEF Range
    <2>. QED
        BY <1>1, <2>2, <2>3
<1>8. ASSUME NEW x \in Range(front), x \in Range(back) PROVE FALSE
    <2>1. PICK i \in 1..n : list[i] = x
        BY <1>2 DEF Range
    <2>2. PICK j \in 1..(Len(list) - n) : list[n + j] = x
        BY <1>3, <1>8 DEF Range
    <2>3. i \in DOMAIN list /\ n + j \in DOMAIN list /\ i # n + j
        BY <1>1
    <2>. QED
        BY <2>1, <2>2, <2>3 DEF Distinct
<1>. QED
    BY <1>2, <1>3, <1>4, <1>5, <1>6, <1>7, <1>8 DEF front, back

\* What a list keeps of a set.
LEMMA AmongKeeps ==
    ASSUME NEW S, NEW list \in Seq(S), Distinct(list), NEW set
    PROVE  /\ Among(list, set) \in Seq(S)
           /\ Distinct(Among(list, set))
           /\ Range(Among(list, set)) = Range(list) \cap set
<1>. DEFINE n == Len(list)
            Body(g) == [i \in 0..n |->
                           IF i = 0 THEN << >>
                           ELSE IF list[i] \in set THEN Append(g[i - 1], list[i]) ELSE g[i - 1]]
            kept == CHOOSE g : g = Body(g)
<1>1. n \in Nat /\ DOMAIN list = 1..n /\ \A i \in 1..n : list[i] \in S
    OBVIOUS
<1>2. Among(list, set) = kept[n]
    BY DEF Among
<1>3. kept = Body(kept)
    <2>. DEFINE step == [i \in 1..n |->
                            [q \in Seq(S) |-> IF list[i] \in set THEN Append(q, list[i]) ELSE q]]
    <2>1. Steps(n, Seq(S), step)
        BY <1>1 DEF Steps
    <2>2. << >> \in Seq(S)
        OBVIOUS
    <2>. HIDE DEF step, n
    <2>3. PICK g : Stepwise(n, Seq(S), << >>, step, g)
        BY <1>1, <2>1, <2>2, StepwiseExists
    <2>. USE DEF step
    <2>4. ASSUME NEW k \in 0..n
          PROVE  g[k] = IF k = 0 THEN << >>
                        ELSE IF list[k] \in set THEN Append(g[k - 1], list[k]) ELSE g[k - 1]
        <3>1. CASE k = 0
            BY <2>3, <3>1 DEF Stepwise
        <3>2. CASE k # 0
            <4>1. k \in 1..n /\ k - 1 \in 0..n
                BY <3>2, <1>1
            <4>2. g[k] = step[k][g[k - 1]] /\ g[k - 1] \in Seq(S)
                BY <2>3, <3>2, <4>1 DEF Stepwise
            <4>. QED
                BY <3>2, <4>1, <4>2
        <3>. QED
            BY <3>1, <3>2
    <2>5. g = Body(g)
        BY <2>3, <2>4 DEF Stepwise
    <2>. HIDE DEF Body
    <2>. QED
        BY <2>5
<1>. HIDE DEF kept
<1>4. ASSUME NEW i \in 0..n
      PROVE  kept[i] = IF i = 0 THEN << >>
                       ELSE IF list[i] \in set THEN Append(kept[i - 1], list[i]) ELSE kept[i - 1]
    BY <1>3
<1>. DEFINE So(i) == {list[j] : j \in 1..i} \cap set
<1>. HIDE DEF So
<1>5. kept[0] = << >>
    BY <1>1, <1>4
<1>. DEFINE P == {i \in 0..n : /\ kept[i] \in Seq(S) /\ Distinct(kept[i])
                               /\ Range(kept[i]) = So(i)}
<1>5a. 0 \in P
    <2>1. Distinct(<< >>) /\ Range(<< >>) = {} /\ So(0) = {} /\ << >> \in Seq(S)
        BY DEF Distinct, Range, So
    <2>2. kept[0] \in Seq(S) /\ Distinct(kept[0]) /\ Range(kept[0]) = So(0)
        BY <1>5, <2>1
    <2>. QED
        BY <1>1, <2>2
<1>6. ASSUME NEW i \in 0..n, i \in P, i < n PROVE i + 1 \in P
    <2>. DEFINE was == kept[i]
    <2>0. i + 1 \in 1..n /\ (i + 1) - 1 = i /\ i + 1 # 0 /\ i \in Nat
        BY <1>1, <1>6
    <2>1. was \in Seq(S) /\ Distinct(was) /\ Range(was) = So(i)
        BY <1>6
    <2>2. kept[i + 1] = IF list[i + 1] \in set THEN Append(was, list[i + 1]) ELSE was
        BY <1>1, <1>4, <2>0
    <2>3. {list[j] : j \in 1..(i + 1)} = {list[j] : j \in 1..i} \cup {list[i + 1]}
        <3>1. 1..(i + 1) = 1..i \cup {i + 1}
            BY <2>0
        <3>. QED
            BY <3>1
    <2>4. CASE list[i + 1] \notin set
        <3>1. So(i + 1) = So(i)
            BY <2>3, <2>4 DEF So
        <3>. HIDE DEF was
        <3>. QED
            BY <2>0, <2>1, <2>2, <2>4, <3>1
    <2>5. CASE list[i + 1] \in set
        <3>1. So(i + 1) = So(i) \cup {list[i + 1]}
            BY <2>3, <2>5 DEF So
        <3>2. list[i + 1] \notin So(i)
            <4>1. ASSUME NEW j \in 1..i, list[j] = list[i + 1] PROVE FALSE
                <5>1. j \in DOMAIN list /\ i + 1 \in DOMAIN list /\ j # i + 1
                    BY <1>1, <2>0
                <5>. QED
                    BY <4>1, <5>1 DEF Distinct
            <4>. QED
                BY <4>1 DEF So
        <3>. DEFINE next == list[i + 1]
        <3>. HIDE DEF was, P, n
        <3>3. Notify(was, list[i + 1]) = Append(was, list[i + 1])
            BY <2>1, <3>2 DEF Notify
        <3>4. list[i + 1] \in S
            BY <1>1, <2>0
        <3>5. /\ Notify(was, next) \in Seq(S) /\ Distinct(Notify(was, next))
              /\ Range(Notify(was, next)) = Range(was) \cup {next}
            <4>1. next \in S
                BY <3>4
            <4>. HIDE DEF next
            <4>. QED
                BY <2>1, <4>1, NotifyAdds
        <3>6. kept[i + 1] = Notify(was, list[i + 1])
            BY <2>2, <2>5, <3>3
        <3>7. /\ kept[i + 1] \in Seq(S) /\ Distinct(kept[i + 1])
              /\ Range(kept[i + 1]) = So(i + 1)
            BY <2>1, <3>1, <3>5, <3>6
        <3>. USE DEF P, n
        <3>. QED
            BY <2>0, <3>7
    <2>. QED
        BY <2>4, <2>5
<1>7. n \in P
    <2>. HIDE DEF P, n
    <2>. QED
        BY <1>1, <1>5a, <1>6, UpTo
<1>8. {list[j] : j \in 1..n} = Range(list)
    BY <1>1 DEF Range
<1>. QED
    BY <1>2, <1>7, <1>8 DEF So

---------------------------------------------------------------------------
(* Least elements and offsets *)

\* accept finds the lowest free descriptor.
LEMMA MinOfFds ==
    ASSUME NEW S \in SUBSET Nat, S # {}
    PROVE  Min(S) \in S
BY LeastNat DEF Min

LEMMA MinOfTwo ==
    ASSUME NEW a \in Int, NEW b \in Int
    PROVE  Min({a, b}) = IF a <= b THEN a ELSE b
BY DEF Min

\* The first piece begins the reply, each further one where the last ended.
LEMMA OffsetSteps ==
    /\ Offset(1) = 0
    /\ \A p \in 1..Len(Pieces) : /\ Offset(p) \in Nat
                                 /\ Offset(p + 1) = Offset(p) + Pieces[p]
<1>. DEFINE n == Len(Pieces)
            Body(g) == [p \in 1..(n + 1) |-> IF p = 1 THEN 0 ELSE g[p - 1] + Pieces[p - 1]]
            before == CHOOSE g : g = Body(g)
<1>1. n \in Nat /\ \A p \in 1..n : Pieces[p] \in Nat
    BY EventLoopAssumption
<1>2. \A p : Offset(p) = before[p]
    BY DEF Offset
<1>3. before = Body(before)
    <2>. DEFINE step == [k \in 1..n |-> [x \in Nat |-> x + Pieces[k]]]
    <2>1. Steps(n, Nat, step)
        BY <1>1 DEF Steps
    <2>. HIDE DEF step, n
    <2>2. PICK g : Stepwise(n, Nat, 0, step, g)
        BY <1>1, <2>1, StepwiseExists
    <2>. USE DEF step
    <2>. DEFINE h == [p \in 1..(n + 1) |-> g[p - 1]]
    <2>3. ASSUME NEW p \in 1..(n + 1)
          PROVE  h[p] = IF p = 1 THEN 0 ELSE h[p - 1] + Pieces[p - 1]
        <3>1. CASE p = 1
            BY <1>1, <2>2, <3>1 DEF Stepwise
        <3>2. CASE p # 1
            <4>1. p - 1 \in 1..n /\ p - 1 \in 1..(n + 1) /\ p - 1 # 0 /\ p - 1 \in 0..n /\ (p - 1) - 1 \in 0..n
                BY <3>2, <1>1
            <4>2. g[p - 1] = step[p - 1][g[(p - 1) - 1]] /\ g[(p - 1) - 1] \in Nat
                BY <2>2, <4>1 DEF Stepwise
            <4>3. h[p] = g[p - 1] /\ h[p - 1] = g[(p - 1) - 1]
                BY <4>1
            <4>. QED
                BY <3>2, <4>1, <4>2, <4>3
        <3>. QED
            BY <3>1, <3>2
    <2>4. h = Body(h)
        BY <2>3
    <2>. HIDE DEF Body
    <2>. QED
        BY <2>4
<1>. HIDE DEF before
<1>4. before[1] = 0
    BY <1>1, <1>3
<1>5. ASSUME NEW p \in 1..n PROVE before[p + 1] = before[p] + Pieces[p]
    <2>1. p + 1 \in 1..(n + 1) /\ p + 1 # 1 /\ (p + 1) - 1 = p
        BY <1>1
    <2>. QED
        BY <1>3, <2>1
<1>. DEFINE P == {k \in 0..n : before[k + 1] \in Nat}
<1>6. 0 \in P
    BY <1>1, <1>4
<1>7. ASSUME NEW k \in 0..n, k \in P, k < n PROVE k + 1 \in P
    <2>1. k + 1 \in 1..n
        BY <1>1, <1>7
    <2>2. before[(k + 1) + 1] = before[k + 1] + Pieces[k + 1] /\ Pieces[k + 1] \in Nat
        BY <1>1, <1>5, <2>1
    <2>. QED
        BY <1>7, <2>1, <2>2
<1>8. 0..n \subseteq P
    <2>. HIDE DEF P, n
    <2>. QED
        BY <1>1, <1>6, <1>7, UpTo
<1>9. ASSUME NEW p \in 1..n PROVE before[p] \in Nat
    <2>1. p - 1 \in 0..n /\ (p - 1) + 1 = p
        BY <1>1
    <2>. QED
        BY <1>8, <2>1
<1>. QED
    BY <1>2, <1>4, <1>5, <1>9

---------------------------------------------------------------------------
(* The inductive invariant *)

Connection == [st : {"none", "queued", "open", "closed", "reset"}, sent : Nat, taken : Nat,
               gone : BOOLEAN, runs : Seq(Nat), wire : Seq(Clients \X Nat), read : Nat]

Sources == Fds \cup {Listener}

LoopTypeOK ==
    /\ conn \in [Clients -> Connection]
    /\ \A c \in Clients : conn[c].taken <= conn[c].sent
    /\ pc \in {"loop", "write", "down"}
    /\ DOMAIN fds \subseteq Fds /\ \A f \in DOMAIN fds : fds[f] \in Clients
    /\ backlog \in Seq(Clients)
    /\ armed \subseteq DOMAIN fds
    /\ ready \in Seq(Sources) /\ batch \in Seq(Sources)
    /\ reply \in [fd : Sources, of : Clients \cup {{}}, piece : 0..Len(Pieces)]

\* Who is at the other end of a descriptor or waits for one.
Owners == /\ FdsExact
          /\ Distinct(backlog)
          /\ \A i \in DOMAIN backlog : conn[backlog[i]].st = "queued"

\* What is on the ready list and in the batch.
Pending ==
    /\ Distinct(ready) /\ Distinct(batch)
    /\ Range(ready) \subseteq armed \cup {Listener}
    /\ Range(batch) \subseteq (DOMAIN fds \ armed) \cup {Listener}
    /\ \A f \in Range(batch) \ {Listener, reply.fd} : Readable(fds[f])

\* The reply that is being written is for the event at the head of the batch.
Writing == IF pc = "write" THEN /\ batch # << >> /\ Head(batch) = reply.fd /\ reply.fd # Listener
                                /\ reply.of = fds[reply.fd] /\ reply.piece > 0
           ELSE reply = NoReply

\* Every connection is armed or about to be looked at.
Watched == /\ DOMAIN fds \subseteq armed \cup Range(batch)
           /\ \A f \in armed : Readable(fds[f]) => f \in Range(ready)

LoopInv == LoopTypeOK /\ Owners /\ Pending /\ Writing /\ Watched

\* Clients that wait for accept have been announced.
Called == backlog # << >> => Listener \in Range(ready) \cup Range(batch)

\* What is in a socket is what was written so far of the reply that is being written.
Live   == {"none", "queued", "open"}
Due(c) == IF pc = "write" /\ c = reply.of THEN Offset(reply.piece) ELSE 0

Written ==
    /\ OwnReply
    /\ \A c \in Clients : /\ conn[c].read <= Len(conn[c].wire)
                          /\ conn[c].st \in Live => Len(conn[c].wire) = Due(c)

LEMMA LoopInitOK == Init => LoopInv
<1>. SUFFICES ASSUME Init PROVE LoopInv
    OBVIOUS
<1>. USE DEF Init
<1>0. DOMAIN fds = {} /\ Range(batch) = {} /\ Range(ready) = {} /\ Range(fds) = {}
      /\ DOMAIN backlog = {} /\ DOMAIN ready = {} /\ DOMAIN batch = {}
    BY DEF Range
<1>1. LoopTypeOK
    <2>1. NoConnection \in Connection
        BY DEF NoConnection, Connection
    <2>2. \A c \in Clients : conn[c] = NoConnection
        OBVIOUS
    <2>3. conn \in [Clients -> Connection]
        BY <2>1
    <2>4. \A c \in Clients : conn[c].taken <= conn[c].sent
        BY <2>2 DEF NoConnection
    <2>5. reply \in [fd : Sources, of : Clients \cup {{}}, piece : 0..Len(Pieces)]
        BY EventLoopAssumption DEF NoReply, Sources
    <2>. QED
        BY <1>0, <2>3, <2>4, <2>5 DEF LoopTypeOK
<1>2. Owners
    BY <1>0 DEF Owners, FdsExact, Distinct, NoConnection
<1>3. Pending /\ Writing /\ Watched
    BY <1>0 DEF Pending, Distinct, Writing, Watched
<1>. QED
    BY <1>1, <1>2, <1>3 DEF LoopInv

\* The end of the process.
LEMMA ExitKeeps ==
    ASSUME LoopInv, Exit
    PROVE  LoopInv'
<1>. USE DEF Exit
<1>0. /\ DOMAIN fds' = {} /\ Range(batch') = {} /\ Range(ready') = {} /\ Range(fds') = {}
      /\ DOMAIN backlog' = {} /\ DOMAIN ready' = {} /\ DOMAIN batch' = {}
    BY DEF Range
<1>1. \A c \in Clients : conn[c] \in Connection /\ conn[c].taken <= conn[c].sent
    BY DEF LoopInv, LoopTypeOK
<1>2. ASSUME NEW c \in Clients
      PROVE  /\ conn'[c] \in Connection
             /\ conn'[c].taken <= conn'[c].sent
             /\ conn'[c].st # "open"
    <2>1. CASE Alive(c)
        BY <1>1, <2>1 DEF Connection
    <2>2. CASE ~Alive(c)
        BY <1>1, <2>2 DEF Alive
    <2>. QED
        BY <2>1, <2>2
<1>3. LoopTypeOK'
    <2>1. conn' \in [Clients -> Connection]
        BY <1>2
    <2>2. reply' \in [fd : Sources, of : Clients \cup {{}}, piece : 0..Len(Pieces)]
        BY EventLoopAssumption DEF NoReply, Sources
    <2>3. backlog' \in Seq(Clients) /\ ready' \in Seq(Sources) /\ batch' \in Seq(Sources)
        OBVIOUS
    <2>4. pc' \in {"loop", "write", "down"} /\ armed' = {}
        OBVIOUS
    <2>. QED
        BY <1>0, <1>2, <2>1, <2>2, <2>3, <2>4 DEF LoopTypeOK
<1>4. Owners'
    BY <1>0, <1>2 DEF Owners, FdsExact, Distinct
<1>5. Pending' /\ Writing' /\ Watched'
    BY <1>0 DEF Pending, Distinct, Writing, Watched
<1>. QED
    BY <1>3, <1>4, <1>5 DEF LoopInv

\* The end of a connection: fd is the event at the head of the batch, and of the
\* connections only its own has changed.
LEMMA CloseKeeps ==
    ASSUME LoopInv, NEW fd \in DOMAIN fds, batch # << >>, Head(batch) = fd,
           fd = reply.fd \/ reply = NoReply,
           NEW con \in [Clients -> Connection],
           \A c \in Clients : con[c].st = conn[c].st /\ con[c].taken <= con[c].sent,
           \A c \in Clients : c # fds[fd] => con[c] = conn[c],
           Close(fd, con), pc' \in {"loop", "down"}, reply' = NoReply
    PROVE  LoopInv'
<1>. DEFINE c0 == fds[fd]
<1>. USE DEF LoopInv
<1>1. /\ fd \in Fds /\ fd # Listener /\ fd \in Int /\ c0 \in Clients
    BY EventLoopAssumption DEF LoopTypeOK, Fds, Listener
<1>2. /\ DOMAIN fds' = DOMAIN fds \ {fd}
      /\ \A f \in DOMAIN fds \ {fd} : fds'[f] = fds[f]
    BY DEF Close, Restrict
<1>3. /\ conn' \in [Clients -> Connection]
      /\ \A c \in Clients : c # c0 => conn'[c] = conn[c]
      /\ conn'[c0].st \in {"closed", "reset"}
      /\ \A c \in Clients : conn'[c].taken <= conn'[c].sent
    <2>1. con[c0] \in Connection
        BY <1>1
    <2>2. /\ conn' = [con EXCEPT ![c0] = conn'[c0]]
          /\ conn'[c0] = [con[c0] EXCEPT !.st =
                             IF con[c0].sent > con[c0].taken THEN "reset" ELSE "closed"]
        BY <1>1 DEF Close
    <2>3. /\ conn'[c0] \in Connection /\ conn'[c0].st \in {"closed", "reset"}
          /\ conn'[c0].taken = con[c0].taken /\ conn'[c0].sent = con[c0].sent
        BY <2>1, <2>2 DEF Connection
    <2>4. \A c \in Clients : c # c0 => conn'[c] = con[c]
        BY <2>2
    <2>. QED
        BY <1>1, <2>2, <2>3, <2>4
<1>4. /\ armed' = armed \ {fd}
      /\ ready' \in Seq(Sources) /\ Distinct(ready)' /\ Range(ready') = Range(ready) \ {fd}
    <2>1. ready \in Seq(Sources) /\ Distinct(ready) /\ ready' = RemoveFirst(ready, fd)
          /\ armed' = armed \ {fd}
        BY DEF LoopTypeOK, Pending, Close
    <2>2. ready' \in Seq(Sources) /\ Distinct(ready') /\ Range(ready') = Range(ready) \ {fd}
        BY <2>1, RemoveDrops
    <2>. QED
        BY <2>1, <2>2 DEF Distinct
<1>5. batch' \in Seq(Sources) /\ Distinct(batch)' /\ Range(batch') = Range(batch) \ {fd}
    <2>1. batch \in Seq(Sources) /\ Distinct(batch) /\ batch' = Tail(batch)
        BY DEF LoopTypeOK, Pending, Close
    <2>2. batch' \in Seq(Sources) /\ Distinct(batch') /\ Range(batch') = Range(batch) \ {fd}
        BY <2>1, TailDrops
    <2>. QED
        BY <2>2 DEF Distinct
<1>6. \A f \in DOMAIN fds \ {fd} : fds[f] # c0 /\ fds[f] \in Clients
    BY DEF LoopTypeOK, Owners, FdsExact
<1>7. \A f \in DOMAIN fds \ {fd} : Readable(fds[f])' = Readable(fds[f])
    BY <1>2, <1>3, <1>6 DEF Readable
<1>8. LoopTypeOK'
    <2>1. reply' \in [fd : Sources, of : Clients \cup {{}}, piece : 0..Len(Pieces)]
        BY EventLoopAssumption DEF NoReply, Sources
    <2>. QED
        BY <1>2, <1>3, <1>4, <1>5, <1>6, <2>1 DEF LoopTypeOK, Close
<1>9. Owners'
    <2>1. \A f, g \in DOMAIN fds' : fds'[f] = fds'[g] => f = g
        BY <1>2 DEF Owners, FdsExact
    <2>2. Range(fds') = Range(fds) \ {c0}
        BY <1>2, <1>6 DEF Range
    <2>3. \A c \in Clients : conn'[c].st = "open" <=> c \in Range(fds')
        BY <1>3, <2>2 DEF Owners, FdsExact
    <2>4. conn[c0].st = "open"
        BY <1>1 DEF Owners, FdsExact, Range
    <2>5. backlog' = backlog /\ \A i \in DOMAIN backlog : backlog[i] \in Clients /\ backlog[i] # c0
        BY <2>4 DEF Close, Owners, LoopTypeOK
    <2>. QED
        BY <1>3, <2>1, <2>3, <2>5 DEF Owners, FdsExact, Distinct
<1>10. Pending'
    <2>1. \A f \in Range(batch') \ {Listener} : f \in DOMAIN fds \ {fd} /\ Readable(fds[f])
        BY <1>5 DEF Pending, NoReply
    <2>. QED
        BY <1>1, <1>2, <1>4, <1>5, <1>7, <2>1 DEF Pending, NoReply
<1>11. Writing'
    BY DEF Writing
<1>12. Watched'
    <2>1. \A f \in DOMAIN fds' : f \in armed' \cup Range(batch')
        BY <1>2, <1>4, <1>5 DEF Watched
    <2>2. ASSUME NEW f \in armed', Readable(fds[f])' PROVE f \in Range(ready')
        <3>1. f \in armed /\ f # fd /\ f \in DOMAIN fds \ {fd}
            BY <1>4 DEF LoopTypeOK
        <3>. QED
            BY <1>2, <1>4, <1>7, <2>2, <3>1 DEF Watched
    <2>. QED
        BY <2>1, <2>2 DEF Watched
<1>. QED
    BY <1>8, <1>9, <1>10, <1>11, <1>12

\* Nobody but a client's own step changes what there is to read for it.
LEMMA Unchanged ==
    ASSUME LoopInv, NEW c \in Clients,
           conn' \in [Clients -> Connection],
           \A d \in Clients : /\ conn'[d].st = conn[d].st
                              /\ conn'[d].taken <= conn'[d].sent
                              /\ d # c => conn'[d] = conn[d],
           UNCHANGED <<pc, fds, backlog, armed, batch, reply>>
    PROVE  /\ Owners' /\ Writing'
           /\ \A f \in DOMAIN fds : fds[f] # c => Readable(fds[f])' = Readable(fds[f])
<1>. USE DEF LoopInv
<1>1. \A f \in DOMAIN fds : fds[f] \in Clients
    BY DEF LoopTypeOK
<1>2. \A i \in DOMAIN backlog : backlog[i] \in Clients
    BY DEF LoopTypeOK
<1>3. Owners'
    BY <1>2 DEF Owners, FdsExact, Distinct
<1>. QED
    BY <1>1, <1>3 DEF Readable, Writing

\* A client sends something or hangs up.
LEMMA ArrivalKeeps ==
    ASSUME LoopInv, NEW c \in Clients, Alive(c),
           conn' \in [Clients -> Connection],
           \A d \in Clients : /\ conn'[d].st = conn[d].st
                              /\ conn'[d].taken <= conn'[d].sent
                              /\ d # c => conn'[d] = conn[d],
           Readable(c)', Arrival(c)
    PROVE  LoopInv'
<1>. USE DEF LoopInv
<1>1. UNCHANGED <<pc, fds, backlog, armed, batch, reply>>
    BY DEF Arrival
<1>2. /\ Owners' /\ Writing'
      /\ \A f \in DOMAIN fds : fds[f] # c => Readable(fds[f])' = Readable(fds[f])
    BY <1>1, Unchanged
<1>3. \A f \in DOMAIN fds : Readable(fds[f]) => Readable(fds[f])'
    <2>1. \A f \in DOMAIN fds : fds[f] = c => Readable(fds[f])'
        BY <1>1 DEF Readable
    <2>. QED
        BY <1>2, <2>1
<1>4. ASSUME conn[c].st = "open"
      PROVE  FdOf(c) \in DOMAIN fds /\ fds[FdOf(c)] = c
    <2>1. \E f \in DOMAIN fds : fds[f] = c
        BY <1>4 DEF Owners, FdsExact, Range
    <2>. QED
        BY <2>1 DEF FdOf
<1>5. /\ ready' \in Seq(Sources) /\ Distinct(ready')
      /\ Range(ready) \subseteq Range(ready') /\ Range(ready') \subseteq armed \cup {Listener}
      /\ conn[c].st = "open" /\ FdOf(c) \in armed => FdOf(c) \in Range(ready')
    <2>0. ready \in Seq(Sources) /\ Distinct(ready)
          /\ Range(ready) \subseteq armed \cup {Listener} /\ armed \subseteq Fds
        BY DEF LoopTypeOK, Pending
    <2>1. CASE conn[c].st = "open" /\ FdOf(c) \in armed
        <3>1. ready' = Notify(ready, FdOf(c)) /\ FdOf(c) \in Sources
            BY <2>0, <2>1 DEF Arrival, Sources
        <3>2. /\ ready' \in Seq(Sources) /\ Distinct(ready')
              /\ Range(ready') = Range(ready) \cup {FdOf(c)}
            BY <2>0, <3>1, NotifyAdds
        <3>. QED
            BY <2>0, <2>1, <3>2
    <2>2. CASE ~ (conn[c].st = "open" /\ FdOf(c) \in armed)
        BY <2>0, <2>2 DEF Arrival
    <2>. QED
        BY <2>1, <2>2
<1>6. LoopTypeOK'
    BY <1>1, <1>5 DEF LoopTypeOK
<1>7. Pending'
    <2>1. Range(batch) \subseteq (DOMAIN fds \ armed) \cup {Listener}
        BY DEF Pending
    <2>2. \A f \in Range(batch) \ {Listener, reply.fd} : Readable(fds[f])'
        BY <1>3, <2>1 DEF Pending
    <2>3. Distinct(ready)' /\ Distinct(batch)'
        BY <1>1, <1>5 DEF Distinct, Pending
    <2>. QED
        BY <1>1, <1>5, <2>1, <2>2, <2>3 DEF Pending
<1>8. Watched'
    <2>1. ASSUME NEW f \in armed, Readable(fds[f])' PROVE f \in Range(ready')
        <3>0. f \in DOMAIN fds
            BY DEF LoopTypeOK
        <3>1. CASE fds[f] # c
            BY <1>2, <1>5, <2>1, <3>0, <3>1 DEF Watched
        <3>2. CASE fds[f] = c
            <4>1. conn[c].st = "open"
                BY <3>0, <3>2 DEF Owners, FdsExact, Range
            <4>2. f = FdOf(c)
                BY <1>4, <3>0, <3>2, <4>1 DEF Owners, FdsExact
            <4>. QED
                BY <1>5, <4>1, <4>2
        <3>. QED
            BY <3>1, <3>2
    <2>. QED
        BY <1>1, <2>1 DEF Watched
<1>. QED
    BY <1>2, <1>6, <1>7, <1>8

\* The loop's own steps that leave every list alone.
LEMMA ListsKeep ==
    ASSUME LoopInv, NEW c \in Clients,
           conn' \in [Clients -> Connection],
           \A d \in Clients : /\ conn'[d].st = conn[d].st
                              /\ conn'[d].taken <= conn'[d].sent
                              /\ d # c => conn'[d] = conn[d],
           Readable(c)' = Readable(c) \/ (\E f \in DOMAIN fds \ armed : f = reply'.fd /\ fds[f] = c),
           UNCHANGED <<fds, backlog, armed, ready, batch>>,
           reply.fd \in {Listener, reply'.fd},
           reply' \in [fd : Sources, of : Clients \cup {{}}, piece : 0..Len(Pieces)],
           pc' \in {"loop", "write", "down"}, Writing'
    PROVE  LoopInv'
<1>. USE DEF LoopInv
<1>1. \A f \in DOMAIN fds : f \in armed \/ f # reply'.fd => Readable(fds[f])' = Readable(fds[f])
    <2>1. \A f \in DOMAIN fds : fds[f] \in Clients
        BY DEF LoopTypeOK
    <2>2. \A f \in DOMAIN fds : fds[f] # c => Readable(fds[f])' = Readable(fds[f])
        BY <2>1 DEF Readable
    <2>3. Readable(c)' = Readable(c) =>
              \A f \in DOMAIN fds : fds[f] = c => Readable(fds[f])' = Readable(fds[f])
        BY DEF Readable
    <2>4. \A f, g \in DOMAIN fds : fds[f] = fds[g] => f = g
        BY DEF Owners, FdsExact
    <2>. QED
        BY <2>2, <2>3, <2>4
<1>2. LoopTypeOK'
    BY DEF LoopTypeOK
<1>3. Owners'
    <2>1. \A i \in DOMAIN backlog : backlog[i] \in Clients
        BY DEF LoopTypeOK
    <2>. QED
        BY <2>1 DEF Owners, FdsExact, Distinct
<1>4. Pending'
    <2>1. Range(batch) \subseteq (DOMAIN fds \ armed) \cup {Listener}
        BY DEF Pending
    <2>2. \A f \in Range(batch) \ {Listener, reply'.fd} : Readable(fds[f])'
        BY <1>1, <2>1 DEF Pending
    <2>3. Distinct(ready)' /\ Distinct(batch)'
        BY DEF Distinct, Pending
    <2>. QED
        BY <2>1, <2>2, <2>3 DEF Pending
<1>5. Watched'
    <2>1. \A f \in armed : f \in DOMAIN fds
        BY DEF LoopTypeOK
    <2>2. \A f \in armed : Readable(fds[f])' = Readable(fds[f])
        BY <1>1, <2>1
    <2>. QED
        BY <2>2 DEF Watched
<1>. QED
    BY <1>2, <1>3, <1>4, <1>5

---------------------------------------------------------------------------
(* One lemma per action *)

LEMMA ConnectKeeps ==
    ASSUME LoopInv, NEW c \in Clients, Connect(c)
    PROVE  LoopInv'
<1>. USE DEF LoopInv
<1>0. /\ conn \in [Clients -> Connection] /\ backlog \in Seq(Clients)
      /\ \A f \in DOMAIN fds : fds[f] \in Clients
      /\ UNCHANGED <<pc, fds, armed, batch, reply>>
      /\ conn[c].st = "none" /\ conn' = [conn EXCEPT ![c].st = "queued"]
      /\ backlog' = Append(backlog, c)
    BY DEF LoopTypeOK, Connect
<1>1. /\ conn' \in [Clients -> Connection]
      /\ \A d \in Clients : d # c => conn'[d] = conn[d]
      /\ conn'[c] = [conn[c] EXCEPT !.st = "queued"]
    BY <1>0 DEF Connection
<1>2. /\ conn'[c].st = "queued" /\ conn'[c].sent = conn[c].sent
      /\ conn'[c].taken = conn[c].taken /\ conn'[c].gone = conn[c].gone
    BY <1>0, <1>1 DEF Connection
<1>3. \A f \in DOMAIN fds : Readable(fds[f])' = Readable(fds[f])
    BY <1>0, <1>1, <1>2 DEF Readable
<1>4. /\ ready' \in Seq(Sources) /\ Distinct(ready)'
      /\ Range(ready') = Range(ready) \cup {Listener}
    <2>1. ready \in Seq(Sources) /\ Distinct(ready) /\ Listener \in Sources
          /\ ready' = Notify(ready, Listener)
        BY DEF LoopTypeOK, Pending, Sources, Connect
    <2>2. /\ ready' \in Seq(Sources) /\ Distinct(ready')
          /\ Range(ready') = Range(ready) \cup {Listener}
        BY <2>1, NotifyAdds
    <2>. QED
        BY <2>2 DEF Distinct
<1>5. LoopTypeOK'
    <2>1. backlog' \in Seq(Clients)
        BY <1>0
    <2>2. \A d \in Clients : conn'[d].taken <= conn'[d].sent
        BY <1>1, <1>2 DEF LoopTypeOK
    <2>. QED
        BY <1>0, <1>1, <1>4, <2>1, <2>2 DEF LoopTypeOK
<1>6. Owners'
    <2>1. FdsExact'
        <3>1. c \notin Range(fds)
            BY <1>0 DEF Owners, FdsExact
        <3>2. \A d \in Clients : conn'[d].st = "open" <=> conn[d].st = "open"
            BY <1>0, <1>1, <1>2
        <3>. QED
            BY <1>0, <3>2 DEF Owners, FdsExact
    <2>2. c \notin Range(backlog)
        BY <1>0 DEF Owners, Range
    <2>3. backlog' = Notify(backlog, c)
        BY <1>0, <2>2 DEF Notify
    <2>4. Distinct(backlog') /\ Range(backlog') = Range(backlog) \cup {c}
        BY <1>0, <2>3, NotifyAdds DEF Owners
    <2>5. \A d \in Range(backlog) : d \in Clients /\ conn[d].st = "queued"
        BY <1>0 DEF Owners, Range
    <2>6. \A d \in Range(backlog') : conn'[d].st = "queued"
        BY <1>1, <1>2, <2>4, <2>5
    <2>. QED
        BY <2>1, <2>4, <2>6 DEF Owners, Distinct, Range
<1>7. Pending'
    <2>1. \A f \in Range(batch) \ {Listener} : f \in DOMAIN fds
        BY DEF Pending
    <2>. QED
        BY <1>0, <1>3, <1>4, <2>1 DEF Pending, Distinct
<1>8. Writing' /\ Watched'
    <2>1. \A f \in armed : f \in DOMAIN fds
        BY DEF LoopTypeOK
    <2>. QED
        BY <1>0, <1>3, <1>4, <2>1 DEF Writing, Watched
<1>. QED
    BY <1>5, <1>6, <1>7, <1>8

\* A step that touches one connection.
LEMMA OneChanges ==
    ASSUME conn \in [Clients -> Connection], NEW c \in Clients, NEW new \in Connection,
           conn' = [conn EXCEPT ![c] = new]
    PROVE  /\ conn' \in [Clients -> Connection]
           /\ conn'[c] = new
           /\ \A d \in Clients : d # c => conn'[d] = conn[d]
OBVIOUS

LEMMA SendPartKeeps ==
    ASSUME LoopInv, NEW c \in Clients, SendPart(c)
    PROVE  LoopInv'
<1>1. /\ conn[c] \in Connection /\ conn \in [Clients -> Connection]
      /\ \A d \in Clients : conn[d].taken <= conn[d].sent
    BY DEF LoopInv, LoopTypeOK
<1>. DEFINE new == [conn[c] EXCEPT !.sent = @ + 1]
<1>2. conn' = [conn EXCEPT ![c] = new]
    BY <1>1 DEF SendPart
<1>3. /\ new \in Connection /\ new.st = conn[c].st
      /\ new.taken <= new.sent /\ new.sent > new.taken
    <2>1. conn[c].sent \in Nat /\ conn[c].taken \in Nat /\ conn[c].taken <= conn[c].sent
        BY <1>1 DEF Connection
    <2>2. new.sent = conn[c].sent + 1 /\ new.taken = conn[c].taken /\ new.st = conn[c].st
        BY <1>1 DEF Connection
    <2>3. new \in Connection
        <3>. DEFINE k == conn[c].sent + 1
        <3>1. k \in Nat /\ new = [conn[c] EXCEPT !.sent = k]
            BY <2>1
        <3>. HIDE DEF k, new
        <3>. QED
            BY <1>1, <3>1 DEF Connection
    <2>. QED
        BY <2>1, <2>2, <2>3
<1>. HIDE DEF new
<1>4. /\ conn' \in [Clients -> Connection] /\ conn'[c] = new
      /\ \A d \in Clients : d # c => conn'[d] = conn[d]
    BY <1>1, <1>2, <1>3, OneChanges
<1>6. Readable(c)' /\ Arrival(c) /\ Alive(c)
    BY <1>3, <1>4 DEF Readable, SendPart
<1>. QED
    BY <1>1, <1>3, <1>4, <1>6, ArrivalKeeps

LEMMA HangUpKeeps ==
    ASSUME LoopInv, NEW c \in Clients, HangUp(c)
    PROVE  LoopInv'
<1>1. /\ conn[c] \in Connection /\ conn \in [Clients -> Connection]
      /\ \A d \in Clients : conn[d].taken <= conn[d].sent
    BY DEF LoopInv, LoopTypeOK
<1>. DEFINE new == [conn[c] EXCEPT !.gone = TRUE]
<1>2. conn' = [conn EXCEPT ![c] = new]
    BY <1>1 DEF HangUp
<1>3. /\ new \in Connection /\ new.st = conn[c].st
      /\ new.taken <= new.sent /\ new.gone
    BY <1>1 DEF Connection
<1>. HIDE DEF new
<1>4. /\ conn' \in [Clients -> Connection] /\ conn'[c] = new
      /\ \A d \in Clients : d # c => conn'[d] = conn[d]
    BY <1>1, <1>2, <1>3, OneChanges
<1>6. Readable(c)' /\ Arrival(c) /\ Alive(c)
    BY <1>3, <1>4 DEF Readable, HangUp
<1>. QED
    BY <1>1, <1>3, <1>4, <1>6, ArrivalKeeps

LEMMA ReadReplyKeeps ==
    ASSUME LoopInv, NEW c \in Clients, ReadReply(c)
    PROVE  LoopInv'
<1>1. /\ conn[c] \in Connection /\ conn \in [Clients -> Connection]
      /\ \A d \in Clients : conn[d].taken <= conn[d].sent
      /\ reply \in [fd : Sources, of : Clients \cup {{}}, piece : 0..Len(Pieces)]
      /\ pc \in {"loop", "write", "down"} /\ Writing
    BY DEF LoopInv, LoopTypeOK
<1>. DEFINE len == Len(conn[c].wire)
            new == [conn[c] EXCEPT !.read = len]
<1>2. /\ conn' = [conn EXCEPT ![c] = new]
      /\ UNCHANGED <<pc, fds, backlog, armed, ready, batch, reply>>
    BY <1>1 DEF ReadReply, process
<1>3. /\ new \in Connection /\ new.st = conn[c].st /\ new.gone = conn[c].gone
      /\ new.taken = conn[c].taken /\ new.sent = conn[c].sent
    <2>1. len \in Nat
        BY <1>1 DEF Connection
    <2>. HIDE DEF len
    <2>. QED
        BY <1>1, <2>1 DEF Connection
<1>. HIDE DEF new
<1>4. /\ conn' \in [Clients -> Connection] /\ conn'[c] = new
      /\ \A d \in Clients : d # c => conn'[d] = conn[d]
    BY <1>1, <1>2, <1>3, OneChanges
<1>6. Readable(c)' = Readable(c)
    BY <1>3, <1>4 DEF Readable
<1>7. Writing'
    BY <1>1, <1>2 DEF Writing
<1>. QED
    BY <1>1, <1>2, <1>3, <1>4, <1>6, <1>7, ListsKeep

\* What epoll_wait reports and what it leaves on the list are the events that still
\* hold.
Held == {f \in Range(ready) : StillReady(f)}

LEMMA EpollTakes ==
    ASSUME LoopInv, EpollWait
    PROVE  /\ batch' \in Seq(Sources) /\ ready' \in Seq(Sources)
           /\ Distinct(batch') /\ Distinct(ready')
           /\ Range(batch') \cup Range(ready') = Held
           /\ Range(batch') \cap Range(ready') = {}
<1>. USE DEF LoopInv
<1>. DEFINE held   == {f \in Range(ready) : StillReady(f)}
            events == Among(ready, held)
            n      == Min({Len(events), EpollNum})
<1>0. batch' = SubSeq(events, 1, n) /\ ready' = SubSeq(events, n + 1, Len(events))
    BY DEF EpollWait
<1>1. /\ events \in Seq(Sources) /\ Distinct(events) /\ Range(events) = held
    <2>1. ready \in Seq(Sources) /\ Distinct(ready)
        BY DEF LoopTypeOK, Pending
    <2>2. /\ events \in Seq(Sources) /\ Distinct(events)
          /\ Range(events) = Range(ready) \cap held
        <3>. HIDE DEF held
        <3>. QED
            BY <2>1, AmongKeeps
    <2>. QED
        BY <2>2
<1>2. n \in 0..Len(events)
    <2>1. Len(events) \in Nat /\ EpollNum \in Nat
        <3>. HIDE DEF events
        <3>. QED
            BY <1>1, EventLoopAssumption
    <2>. DEFINE len == Len(events)
    <2>. HIDE DEF len
    <2>. QED
        BY <2>1, MinOfTwo
<1>. HIDE DEF n, events
<1>. QED
    BY <1>0, <1>1, <1>2, CutSplits DEF Held

\* The batch takes events that still hold, and disarms what it takes.
LEMMA EpollWaitKeeps ==
    ASSUME LoopInv, EpollWait
    PROVE  LoopInv'
<1>. USE DEF LoopInv
<1>. DEFINE held == Held
<1>0. /\ pc = "loop" /\ batch = << >> /\ UNCHANGED <<conn, pc, fds, backlog, reply>>
      /\ armed' = armed \ Range(batch')
    BY DEF EpollWait, Looping
<1>3. /\ batch' \in Seq(Sources) /\ ready' \in Seq(Sources)
      /\ Distinct(batch') /\ Distinct(ready')
      /\ Range(batch') \cup Range(ready') = held
      /\ Range(batch') \cap Range(ready') = {}
    BY EpollTakes
<1>4. /\ reply = NoReply /\ Listener \notin Fds /\ armed \subseteq DOMAIN fds /\ DOMAIN fds \subseteq Fds
      /\ held \subseteq armed \cup {Listener}
    BY <1>0, EventLoopAssumption DEF Writing, LoopTypeOK, Fds, Listener, Pending, Held
<1>5. \A f \in held \ {Listener} : Readable(fds[f])
    BY DEF StillReady, Held
<1>6. \A f \in DOMAIN fds : Readable(fds[f])' = Readable(fds[f])
    BY <1>0 DEF Readable
<1>7. LoopTypeOK'
    BY <1>0, <1>3, <1>4 DEF LoopTypeOK
<1>8. Owners'
    BY <1>0 DEF Owners, FdsExact, Distinct
<1>9. Pending'
    <2>1. Distinct(batch)' /\ Distinct(ready)'
        BY <1>3 DEF Distinct
    <2>2. Range(ready') \subseteq armed' \cup {Listener}
        BY <1>0, <1>3, <1>4
    <2>3. Range(batch') \subseteq (DOMAIN fds' \ armed') \cup {Listener}
        BY <1>0, <1>3, <1>4
    <2>4. \A f \in Range(batch') \ {Listener} : f \in DOMAIN fds /\ Readable(fds[f])
        BY <1>3, <1>4, <1>5
    <2>. QED
        BY <1>6, <2>1, <2>2, <2>3, <2>4 DEF Pending
<1>10. Writing'
    BY <1>0 DEF Writing
<1>11. Watched'
    <2>1. DOMAIN fds \subseteq armed
        BY <1>0 DEF Watched, Range
    <2>2. DOMAIN fds' \subseteq armed' \cup Range(batch')
        BY <1>0, <2>1
    <2>3. ASSUME NEW f \in armed', Readable(fds[f])' PROVE f \in Range(ready')
        <3>1. f \in armed /\ f \notin Range(batch') /\ Readable(fds[f]) /\ f # Listener
            BY <1>0, <1>4, <1>6, <2>3
        <3>2. f \in held
            BY <3>1 DEF Watched, StillReady, Held
        <3>. QED
            BY <1>3, <3>1, <3>2
    <2>. QED
        BY <2>2, <2>3 DEF Watched
<1>. QED
    BY <1>7, <1>8, <1>9, <1>10, <1>11

\* A descriptor that accept returns was free: it is in no list.
LEMMA AcceptOneKeeps ==
    ASSUME LoopInv, AcceptOne
    PROVE  LoopInv'
<1>. USE DEF LoopInv
<1>. DEFINE c  == Head(backlog)
            fd == Min(FreeFds)
<1>0. /\ batch # << >> /\ Head(batch) = Listener /\ pc = "loop" /\ backlog # << >> /\ FreeFds # {}
      /\ conn' = [conn EXCEPT ![c].st = "open"]
      /\ fds' = [f \in DOMAIN fds \cup {fd} |-> IF f = fd THEN c ELSE fds[f]]
      /\ backlog' = Tail(backlog) /\ armed' = armed \cup {fd} /\ ready' = Register(ready, c, fd)
      /\ UNCHANGED <<pc, batch, reply>>
    BY DEF AcceptOne, Dispatching, Looping
<1>1. fd \in Fds /\ fd \notin DOMAIN fds /\ fd # Listener
    <2>1. FreeFds \in SUBSET Nat /\ FreeFds # {}
        BY <1>0, EventLoopAssumption DEF FreeFds, Fds
    <2>2. fd \in FreeFds
        BY <2>1, MinOfFds
    <2>. QED
        BY <2>2, EventLoopAssumption DEF FreeFds, Fds, Listener
<1>2. /\ c \in Clients /\ c \in Range(backlog) /\ conn[c].st = "queued"
      /\ backlog' \in Seq(Clients) /\ Distinct(backlog') /\ Range(backlog') = Range(backlog) \ {c}
      /\ \A d \in Range(backlog) : d \in Clients /\ conn[d].st = "queued"
    <2>1. backlog \in Seq(Clients) /\ Distinct(backlog) /\ backlog # << >>
        BY <1>0 DEF LoopTypeOK, Owners
    <2>2. /\ Tail(backlog) \in Seq(Clients) /\ Distinct(Tail(backlog))
          /\ Range(Tail(backlog)) = Range(backlog) \ {c}
        BY <2>1, TailDrops
    <2>3. \A d \in Range(backlog) : d \in Clients /\ conn[d].st = "queued"
        BY <2>1 DEF Owners, Range
    <2>4. c \in Range(backlog)
        BY <2>1 DEF Range
    <2>. QED
        BY <1>0, <2>2, <2>3, <2>4
<1>. HIDE DEF c, fd
<1>3. /\ conn' \in [Clients -> Connection]
      /\ conn'[c] = [conn[c] EXCEPT !.st = "open"]
      /\ \A d \in Clients : d # c => conn'[d] = conn[d]
    <2>. DEFINE new == [conn[c] EXCEPT !.st = "open"]
    <2>1. conn \in [Clients -> Connection] /\ conn[c] \in Connection
        BY <1>2 DEF LoopTypeOK
    <2>2. new \in Connection /\ conn' = [conn EXCEPT ![c] = new]
        BY <1>0, <2>1 DEF Connection
    <2>. HIDE DEF new
    <2>3. /\ conn' \in [Clients -> Connection] /\ conn'[c] = new
          /\ \A d \in Clients : d # c => conn'[d] = conn[d]
        BY <1>2, <2>1, <2>2, OneChanges
    <2>. QED
        BY <2>3 DEF new
<1>4. /\ conn'[c].st = "open" /\ conn'[c].sent = conn[c].sent
      /\ conn'[c].taken = conn[c].taken /\ conn'[c].gone = conn[c].gone
    <2>1. conn[c] \in Connection
        BY <1>2 DEF LoopTypeOK
    <2>. QED
        BY <1>3, <2>1 DEF Connection
<1>5. /\ DOMAIN fds' = DOMAIN fds \cup {fd} /\ fds'[fd] = c
      /\ \A f \in DOMAIN fds : fds'[f] = fds[f] /\ f # fd
    BY <1>0, <1>1
<1>6. \A d \in Clients : Readable(d)' = Readable(d)
    BY <1>3, <1>4 DEF Readable
<1>7. /\ ready' \in Seq(Sources) /\ Distinct(ready')
      /\ Range(ready') = IF Readable(c) THEN Range(ready) \cup {fd} ELSE Range(ready)
    <2>1. ready \in Seq(Sources) /\ Distinct(ready) /\ fd \in Sources
        BY <1>1 DEF LoopTypeOK, Pending, Sources
    <2>2. /\ Notify(ready, fd) \in Seq(Sources) /\ Distinct(Notify(ready, fd))
          /\ Range(Notify(ready, fd)) = Range(ready) \cup {fd}
        BY <2>1, NotifyAdds
    <2>. QED
        BY <1>0, <2>1, <2>2 DEF Register
<1>8. \A f \in DOMAIN fds : fds[f] \in Clients
    BY DEF LoopTypeOK
<1>9. LoopTypeOK'
    <2>1. \A d \in Clients : conn'[d].taken <= conn'[d].sent
        BY <1>3, <1>4 DEF LoopTypeOK
    <2>2. DOMAIN fds' \subseteq Fds /\ \A f \in DOMAIN fds' : fds'[f] \in Clients
        BY <1>1, <1>2, <1>5, <1>8 DEF LoopTypeOK
    <2>3. armed' \subseteq DOMAIN fds'
        BY <1>0, <1>5 DEF LoopTypeOK
    <2>. QED
        BY <1>0, <1>2, <1>3, <1>7, <2>1, <2>2, <2>3 DEF LoopTypeOK
<1>10. Owners'
    <2>1. c \notin Range(fds)
        BY <1>2 DEF Owners, FdsExact
    <2>2. \A f \in DOMAIN fds : fds[f] # c
        BY <2>1 DEF Range
    <2>3. \A f, g \in DOMAIN fds' : fds'[f] = fds'[g] => f = g
        BY <1>5, <2>2 DEF Owners, FdsExact
    <2>4. Range(fds') = Range(fds) \cup {c}
        BY <1>5 DEF Range
    <2>5. \A d \in Clients : conn'[d].st = "open" <=> d \in Range(fds')
        BY <1>3, <1>4, <2>4 DEF Owners, FdsExact
    <2>6. \A d \in Range(backlog') : conn'[d].st = "queued"
        BY <1>2, <1>3
    <2>. QED
        BY <1>2, <2>3, <2>5, <2>6 DEF Owners, FdsExact, Distinct, Range
<1>11. Pending'
    <2>1. Range(batch) \subseteq (DOMAIN fds \ armed) \cup {Listener}
        BY DEF Pending
    <2>2. Range(batch') \subseteq (DOMAIN fds' \ armed') \cup {Listener}
        BY <1>0, <1>5, <2>1
    <2>3. Range(ready') \subseteq armed' \cup {Listener}
        BY <1>0, <1>7 DEF Pending
    <2>4. \A f \in Range(batch') \ {Listener, reply'.fd} : Readable(fds[f])'
        BY <1>0, <1>5, <1>6, <1>8, <2>1 DEF Pending, Readable
    <2>5. Distinct(ready)' /\ Distinct(batch)'
        BY <1>0, <1>7 DEF Pending, Distinct
    <2>. QED
        BY <2>2, <2>3, <2>4, <2>5 DEF Pending
<1>12. Writing'
    BY <1>0 DEF Writing
<1>13. Watched'
    <2>1. DOMAIN fds' \subseteq armed' \cup Range(batch')
        BY <1>0, <1>5 DEF Watched
    <2>2. ASSUME NEW f \in armed', Readable(fds[f])' PROVE f \in Range(ready')
        <3>1. CASE f = fd
            BY <1>5, <1>6, <1>7, <1>2, <2>2, <3>1 DEF Readable
        <3>2. CASE f # fd
            <4>1. f \in armed /\ f \in DOMAIN fds
                BY <1>0, <3>2 DEF LoopTypeOK
            <4>2. Readable(fds[f])
                BY <1>5, <1>6, <1>8, <2>2, <4>1 DEF Readable
            <4>. QED
                BY <1>7, <4>1, <4>2 DEF Watched
        <3>. QED
            BY <3>1, <3>2
    <2>. QED
        BY <2>1, <2>2 DEF Watched
<1>. QED
    BY <1>9, <1>10, <1>11, <1>12, <1>13

LEMMA AcceptEndsKeeps ==
    ASSUME LoopInv, AcceptEnds
    PROVE  LoopInv'
<1>. USE DEF LoopInv
<1>0. /\ batch # << >> /\ Head(batch) = Listener /\ pc = "loop" /\ batch' = Tail(batch)
      /\ UNCHANGED <<conn, pc, fds, backlog, armed, ready, reply>>
    BY DEF AcceptEnds, Dispatching, Looping
<1>1. batch' \in Seq(Sources) /\ Distinct(batch') /\ Range(batch') = Range(batch) \ {Listener}
    <2>1. batch \in Seq(Sources) /\ Distinct(batch)
        BY DEF LoopTypeOK, Pending
    <2>. QED
        BY <1>0, <2>1, TailDrops
<1>2. \A f \in DOMAIN fds : f # Listener /\ Readable(fds[f])' = Readable(fds[f])
    BY <1>0, EventLoopAssumption DEF LoopTypeOK, Fds, Listener, Readable
<1>3. LoopTypeOK' /\ Owners' /\ Writing'
    BY <1>0, <1>1 DEF LoopTypeOK, Owners, FdsExact, Distinct, Writing
<1>4. Pending'
    <2>1. Range(batch) \subseteq (DOMAIN fds \ armed) \cup {Listener}
        BY DEF Pending
    <2>. QED
        BY <1>0, <1>1, <1>2, <2>1 DEF Pending, Distinct
<1>5. Watched'
    <2>1. \A f \in armed : f \in DOMAIN fds
        BY DEF LoopTypeOK
    <2>. QED
        BY <1>0, <1>1, <1>2, <2>1 DEF Watched
<1>. QED
    BY <1>3, <1>4, <1>5

\* What recv takes is there to be taken.
LEMMA Taken ==
    ASSUME LoopInv, NEW fd \in DOMAIN fds
    PROVE  LET c == fds[fd]
               n == Min({Unread(c), BufSize})
           IN  /\ c \in Clients /\ n \in Nat /\ conn[c].taken \in Nat /\ conn[c].sent \in Nat
               /\ conn[c].taken + n <= conn[c].sent
<1>. DEFINE c == fds[fd]
            n == Min({Unread(c), BufSize})
            taken == conn[c].taken
            sent  == conn[c].sent
<1>1. c \in Clients /\ taken \in Nat /\ sent \in Nat /\ taken <= sent
    BY DEF LoopInv, LoopTypeOK, Connection
<1>2. n = IF sent - taken <= BufSize THEN sent - taken ELSE BufSize
    <2>1. Unread(c) = sent - taken
        BY DEF Unread
    <2>2. sent - taken \in Int /\ BufSize \in Int
        BY <1>1, EventLoopAssumption
    <2>. HIDE DEF sent, taken, c
    <2>. QED
        BY <2>1, <2>2, MinOfTwo
<1>3. n \in Nat /\ taken + n <= sent
    <2>. HIDE DEF n, sent, taken, c
    <2>. QED
        BY <1>1, <1>2, EventLoopAssumption
<1>. QED
    BY <1>1, <1>3

\* recv, and the handler or the end.
LEMMA ReceiveKeeps ==
    ASSUME LoopInv, NEW fd \in DOMAIN fds, Receive(fd)
    PROVE  LoopInv'
<1>. DEFINE c == fds[fd]
            n == Min({Unread(c), BufSize})
            k == conn[c].taken + n
<1>0. batch # << >> /\ Head(batch) = fd /\ pc = "loop"
    BY DEF Receive, Dispatching, Looping
<1>1. /\ c \in Clients /\ n \in Nat /\ k \in Nat /\ k <= conn[c].sent
      /\ conn \in [Clients -> Connection] /\ conn[c] \in Connection
      /\ \A d \in Clients : conn[d].taken <= conn[d].sent
    <2>1. c \in Clients /\ n \in Nat /\ conn[c].taken \in Nat /\ k <= conn[c].sent
        BY Taken
    <2>2. k \in Nat
        <3>. HIDE DEF n, c
        <3>. QED
            BY <2>1
    <2>. QED
        BY <2>1, <2>2 DEF LoopInv, LoopTypeOK
<1>2. /\ reply = NoReply /\ fd \in Fds /\ fd # Listener /\ fd \in Sources
      /\ fd \notin armed /\ \A d \in DOMAIN fds : fds[d] = c => d = fd
    <2>1. fd \in Range(batch)
        <3>1. batch \in Seq(Sources)
            BY DEF LoopInv, LoopTypeOK
        <3>. QED
            BY <1>0, <3>1 DEF Range
    <2>2. fd \in Fds /\ fd # Listener /\ fd \in Sources
        BY EventLoopAssumption DEF LoopInv, LoopTypeOK, Fds, Listener, Sources
    <2>. QED
        BY <1>0, <2>1, <2>2 DEF LoopInv, Writing, Pending, Owners, FdsExact
<1>3. CASE /\ conn' = [conn EXCEPT ![c].taken = @ + n, ![c].runs = Append(@, n)]
           /\ pc' = "write"
           /\ reply' = [fd |-> fd, of |-> c, piece |-> 1]
           /\ UNCHANGED <<fds, backlog, armed, ready, batch>>
    <2>. DEFINE runs == Append(conn[c].runs, n)
                new  == [[conn[c] EXCEPT !.taken = k] EXCEPT !.runs = runs]
    <2>1. runs \in Seq(Nat)
        BY <1>1 DEF Connection
    <2>2. conn' = [conn EXCEPT ![c] = new]
        <3>1. conn' = [[conn EXCEPT ![c].taken = @ + n] EXCEPT ![c].runs = Append(@, n)]
            BY <1>3
        <3>. HIDE DEF n
        <3>. QED
            BY <1>1, <3>1 DEF Connection
    <2>3. /\ new \in Connection /\ new.st = conn[c].st /\ new.sent = conn[c].sent /\ new.taken = k
        <3>. HIDE DEF k, runs
        <3>. QED
            BY <1>1, <2>1 DEF Connection
    <2>. HIDE DEF new
    <2>4. /\ conn' \in [Clients -> Connection] /\ conn'[c] = new
          /\ \A d \in Clients : d # c => conn'[d] = conn[d]
        BY <1>1, <2>2, <2>3, OneChanges
    <2>5. \A d \in Clients : /\ conn'[d].st = conn[d].st
                             /\ conn'[d].taken <= conn'[d].sent
                             /\ d # c => conn'[d] = conn[d]
        BY <1>1, <2>3, <2>4
    <2>6. reply' \in [fd : Sources, of : Clients \cup {{}}, piece : 0..Len(Pieces)]
        BY <1>1, <1>2, <1>3, EventLoopAssumption
    <2>7. Writing'
        BY <1>0, <1>2, <1>3 DEF Writing
    <2>8. fd \in DOMAIN fds \ armed /\ fd = reply'.fd /\ fds[fd] = c /\ reply.fd = Listener
        BY <1>2, <1>3 DEF NoReply
    <2>. HIDE DEF c
    <2>. QED
        BY <1>1, <1>3, <2>4, <2>5, <2>6, <2>7, <2>8, ListsKeep
<1>4. CASE Close(fd, [conn EXCEPT ![c].taken = @ + n]) /\ UNCHANGED <<pc, reply>>
    <2>. DEFINE new == [conn[c] EXCEPT !.taken = k]
                con == [conn EXCEPT ![c] = new]
    <2>1. con = [conn EXCEPT ![c].taken = @ + n]
        BY <1>1
    <2>2. new \in Connection /\ new.st = conn[c].st /\ new.sent = conn[c].sent /\ new.taken = k
        <3>. HIDE DEF k
        <3>. QED
            BY <1>1 DEF Connection
    <2>3. /\ con \in [Clients -> Connection] /\ con[c] = new
          /\ \A d \in Clients : d # c => con[d] = conn[d]
        <3>. HIDE DEF new
        <3>. QED
            BY <1>1, <2>2
    <2>4. Close(fd, con)
        BY <1>4, <2>1
    <2>. HIDE DEF con, new, k
    <2>5. \A d \in Clients : con[d].st = conn[d].st /\ con[d].taken <= con[d].sent
        BY <1>1, <2>2, <2>3
    <2>. QED
        BY <1>0, <1>2, <1>4, <2>3, <2>4, <2>5, CloseKeeps
<1>5. CASE Exit
    BY <1>5, ExitKeeps
<1>. QED
    BY <1>3, <1>4, <1>5 DEF Receive

LEMMA ReceiveNothingKeeps ==
    ASSUME LoopInv, NEW fd \in DOMAIN fds, ReceiveNothing(fd)
    PROVE  LoopInv'
<1>1. /\ batch # << >> /\ Head(batch) = fd /\ pc = "loop"
      /\ Close(fd, conn) /\ UNCHANGED <<pc, reply>>
    BY DEF ReceiveNothing, Dispatching, Looping
<1>2. /\ conn \in [Clients -> Connection] /\ reply = NoReply
      /\ \A d \in Clients : conn[d].taken <= conn[d].sent
    BY <1>1 DEF LoopInv, LoopTypeOK, Writing
<1>. QED
    BY <1>1, <1>2, CloseKeeps

\* The units of a piece.
LEMMA UnitsProperties ==
    ASSUME NEW of \in Clients, NEW piece \in 1..Len(Pieces), NEW n \in Int
    PROVE  LET sent == Units(of, piece, n)
           IN  /\ sent \in Seq(Clients \X Nat)
               /\ Len(sent) = IF n > 0 THEN n ELSE 0
               /\ \A i \in 1..n : sent[i] = <<of, Offset(piece) + i>>
<1>. DEFINE m == IF n > 0 THEN n ELSE 0
            o == Offset(piece)
            sent == [i \in 1..m |-> <<of, o + i>>]
<1>1. m \in Nat /\ 1..m = 1..n
    OBVIOUS
<1>2. Units(of, piece, n) = sent
    BY <1>1 DEF Units
<1>3. o \in Nat
    BY OffsetSteps
<1>. HIDE DEF m, o
<1>4. \A i \in 1..m : <<of, o + i>> \in Clients \X Nat
    BY <1>1, <1>3
<1>5. sent \in Seq(Clients \X Nat) /\ Len(sent) = m
    BY <1>1, <1>4
<1>6. \A i \in 1..n : sent[i] = <<of, o + i>>
    BY <1>1
<1>. QED
    BY <1>2, <1>5, <1>6 DEF m, o

\* The client that is written to, how much of the piece goes out, and the connections
\* after it.
Reader == fds[reply.fd]
Going  == Min({Pieces[reply.piece], Room(Reader)})
Sent   == [conn EXCEPT ![Reader].wire = @ \o Units(reply.of, reply.piece, Going)]

SendsTo(c, n, con) ==
    /\ batch # << >> /\ Head(batch) = reply.fd /\ reply.fd # Listener
    /\ reply.fd \in DOMAIN fds \ armed
    /\ c \in Clients /\ c = reply.of /\ conn[c].st = "open"
    /\ reply.piece \in 1..Len(Pieces)
    /\ n = IF Pieces[reply.piece] <= Room(c) THEN Pieces[reply.piece] ELSE Room(c)
    /\ n \in Int
    /\ con \in [Clients -> Connection]
    /\ con[c].wire = conn[c].wire \o Units(reply.of, reply.piece, n)
    /\ \A d \in Clients : /\ con[d].st = conn[d].st /\ con[d].read = conn[d].read
                          /\ con[d].taken = conn[d].taken /\ con[d].sent = conn[d].sent
                          /\ con[d].gone = conn[d].gone
                          /\ d # c => con[d] = conn[d]

LEMMA SendFacts ==
    ASSUME LoopInv, pc = "write", NEW c, NEW n, NEW con, c = Reader, n = Going, con = Sent
    PROVE  SendsTo(c, n, con)
<1>. USE DEF Reader, Going, Sent
<1>0. /\ batch # << >> /\ Head(batch) = reply.fd /\ reply.fd # Listener
      /\ reply.of = c /\ reply.piece > 0
      /\ reply.fd \in Sources /\ reply.piece \in 0..Len(Pieces)
      /\ batch \in Seq(Sources) /\ conn \in [Clients -> Connection]
    BY DEF LoopInv, LoopTypeOK, Writing
<1>1. reply.fd \in Range(batch)
    BY <1>0 DEF Range
<1>2. reply.fd \in DOMAIN fds \ armed
    BY <1>0, <1>1 DEF LoopInv, Pending
<1>3. c \in Clients /\ conn[c].st = "open" /\ conn[c] \in Connection
    BY <1>0, <1>2 DEF LoopInv, LoopTypeOK, Owners, FdsExact, Range
<1>4. reply.piece \in 1..Len(Pieces) /\ Pieces[reply.piece] \in Nat
    <2>1. reply.piece \in 1..Len(Pieces)
        BY <1>0, EventLoopAssumption
    <2>. QED
        BY <2>1, EventLoopAssumption
<1>5. Room(c) \in Int
    <2>. DEFINE len  == Len(conn[c].wire)
                read == conn[c].read
    <2>0. conn[c].wire \in Seq(Clients \X Nat) /\ read \in Nat
        BY <1>3 DEF Connection
    <2>1. len \in Nat /\ read \in Nat /\ SndBuf \in Nat
        BY <2>0, EventLoopAssumption
    <2>2. Room(c) = SndBuf - (len - read)
        BY DEF Room
    <2>. HIDE DEF len, read
    <2>. QED
        BY <2>1, <2>2
<1>6. n = (IF Pieces[reply.piece] <= Room(c) THEN Pieces[reply.piece] ELSE Room(c)) /\ n \in Int
    <2>. DEFINE p == Pieces[reply.piece]
                r == Room(c)
    <2>. HIDE DEF p, r
    <2>1. p \in Int /\ r \in Int /\ n = Min({p, r})
        BY <1>4, <1>5 DEF p, r
    <2>2. n = IF p <= r THEN p ELSE r
        BY <2>1, MinOfTwo
    <2>. QED
        BY <2>1, <2>2 DEF p, r
<1>. DEFINE units == Units(reply.of, reply.piece, n)
            wire  == conn[c].wire \o units
            new   == [conn[c] EXCEPT !.wire = wire]
<1>7. wire \in Seq(Clients \X Nat)
    <2>1. units \in Seq(Clients \X Nat)
        BY <1>0, <1>3, <1>4, <1>6, UnitsProperties
    <2>2. conn[c].wire \in Seq(Clients \X Nat)
        BY <1>3 DEF Connection
    <2>. HIDE DEF units
    <2>. QED
        BY <2>1, <2>2
<1>8. con = [conn EXCEPT ![c] = new]
    <2>. HIDE DEF units
    <2>1. con = [conn EXCEPT ![c].wire = @ \o units]
        BY DEF units
    <2>. QED
        BY <1>0, <1>3, <2>1
<1>. HIDE DEF units, wire
<1>9. /\ new \in Connection /\ new.wire = wire
      /\ new.st = conn[c].st /\ new.read = conn[c].read
      /\ new.taken = conn[c].taken /\ new.sent = conn[c].sent /\ new.gone = conn[c].gone
    BY <1>3, <1>7 DEF Connection
<1>. HIDE DEF new
<1>10. /\ con \in [Clients -> Connection] /\ con[c] = new
       /\ \A d \in Clients : d # c => con[d] = conn[d]
    BY <1>0, <1>3, <1>8, <1>9
<1>11. con[c].wire = conn[c].wire \o Units(reply.of, reply.piece, n)
    BY <1>9, <1>10 DEF wire, units
<1>12. ASSUME NEW d \in Clients
       PROVE  /\ con[d].st = conn[d].st /\ con[d].read = conn[d].read
              /\ con[d].taken = conn[d].taken /\ con[d].sent = conn[d].sent
              /\ con[d].gone = conn[d].gone
    BY <1>9, <1>10
<1>. QED
    BY <1>0, <1>2, <1>3, <1>4, <1>6, <1>10, <1>11, <1>12 DEF SendsTo

LEMMA SendPieceKeeps ==
    ASSUME LoopInv, SendPiece
    PROVE  LoopInv'
<1>0. PICK c, n, con : c = Reader /\ n = Going /\ con = Sent
    OBVIOUS
<1>1. /\ batch # << >> /\ Head(batch) = reply.fd /\ reply.fd # Listener
      /\ reply.fd \in DOMAIN fds \ armed
      /\ c \in Clients /\ c = reply.of
      /\ reply.piece \in 1..Len(Pieces)
      /\ con \in [Clients -> Connection]
      /\ \A d \in Clients : /\ con[d].st = conn[d].st
                            /\ con[d].taken = conn[d].taken /\ con[d].sent = conn[d].sent
                            /\ con[d].gone = conn[d].gone
                            /\ d # c => con[d] = conn[d]
    <2>1. pc = "write"
        BY DEF SendPiece
    <2>. QED
        <3>1. SendsTo(c, n, con)
            BY <1>0, <2>1, SendFacts
        <3>. QED
            BY <3>1 DEF SendsTo
<1>2. \/ /\ reply.piece < Len(Pieces)
         /\ reply' = [reply EXCEPT !.piece = @ + 1] /\ conn' = con
         /\ UNCHANGED <<pc, fds, backlog, armed, ready, batch>>
      \/ reply' = NoReply /\ pc' = "loop" /\ Close(reply.fd, con)
    BY <1>0 DEF SendPiece, Reader, Going, Sent
<1>3. \A d \in Clients : con[d].taken <= con[d].sent
    BY <1>1 DEF LoopInv, LoopTypeOK
<1>4. CASE /\ reply.piece < Len(Pieces)
           /\ reply' = [reply EXCEPT !.piece = @ + 1] /\ conn' = con
           /\ UNCHANGED <<pc, fds, backlog, armed, ready, batch>>
    <2>1. /\ reply \in [fd : Sources, of : Clients \cup {{}}, piece : 0..Len(Pieces)]
          /\ pc = "write" /\ Writing
        BY DEF SendPiece, LoopInv, LoopTypeOK
    <2>2. /\ reply' \in [fd : Sources, of : Clients \cup {{}}, piece : 0..Len(Pieces)]
          /\ reply'.fd = reply.fd /\ reply'.of = reply.of /\ reply'.piece > 0
        <3>. DEFINE p == reply.piece + 1
        <3>1. p \in 0..Len(Pieces) /\ p > 0
            BY <1>1, <1>4, EventLoopAssumption
        <3>2. reply' = [reply EXCEPT !.piece = p]
            BY <1>4
        <3>. HIDE DEF p
        <3>. QED
            BY <2>1, <3>1, <3>2
    <2>3. Writing'
        BY <1>4, <2>1, <2>2 DEF Writing
    <2>4. Readable(c)' = Readable(c)
        BY <1>1, <1>4 DEF Readable
    <2>. QED
        BY <1>1, <1>3, <1>4, <2>1, <2>2, <2>3, <2>4, ListsKeep
<1>5. CASE reply' = NoReply /\ pc' = "loop" /\ Close(reply.fd, con)
    <2>1. PICK fd \in DOMAIN fds : fd = reply.fd
        BY <1>1
    <2>2. Close(fd, con) /\ Head(batch) = fd /\ c = fds[fd]
        BY <1>0, <1>1, <1>5, <2>1 DEF Reader
    <2>3. \A d \in Clients : con[d].st = conn[d].st /\ con[d].taken <= con[d].sent
        BY <1>1, <1>3
    <2>4. \A d \in Clients : d # fds[fd] => con[d] = conn[d]
        BY <1>1, <2>2
    <2>. QED
        BY <1>1, <1>5, <2>1, <2>2, <2>3, <2>4, CloseKeeps
<1>. QED
    BY <1>2, <1>4, <1>5

LEMMA StartKeeps ==
    ASSUME LoopInv, Start
    PROVE  LoopInv'
<1>1. UNCHANGED <<conn, fds, backlog, armed, ready, batch, reply>> /\ pc = "down" /\ pc' = "loop"
    BY DEF Start
<1>. QED
    BY <1>1 DEF LoopInv, LoopTypeOK, Owners, FdsExact, Distinct, Pending, Writing, Watched, Readable

LEMMA LoopNextOK == LoopInv /\ [Next]_vars => LoopInv'
<1>. SUFFICES ASSUME LoopInv, [Next]_vars PROVE LoopInv'
    OBVIOUS
<1>1. ASSUME NEW c \in Clients, Connect(c) \/ SendPart(c) \/ HangUp(c) \/ ReadReply(c)
      PROVE  LoopInv'
    BY <1>1, ConnectKeeps, SendPartKeeps, HangUpKeeps, ReadReplyKeeps
<1>2. CASE EpollWait \/ AcceptOne \/ AcceptEnds
    BY <1>2, EpollWaitKeeps, AcceptOneKeeps, AcceptEndsKeeps
<1>3. ASSUME NEW fd \in DOMAIN fds, Receive(fd) \/ ReceiveNothing(fd)
      PROVE  LoopInv'
    BY <1>3, ReceiveKeeps, ReceiveNothingKeeps
<1>4. CASE SendPiece
    BY <1>4, SendPieceKeeps
<1>5. CASE AcceptFails \/ BrokenPipe \/ Terminate
    BY <1>5, ExitKeeps DEF AcceptFails, BrokenPipe, Terminate
<1>6. CASE Start
    BY <1>6, StartKeeps
<1>7. CASE UNCHANGED vars
    BY <1>7 DEF vars, LoopInv, LoopTypeOK, Owners, FdsExact, Distinct, Pending, Writing, Watched,
                Readable
<1>. QED
    BY <1>1, <1>2, <1>3, <1>4, <1>5, <1>6, <1>7 DEF Next, Serve

LEMMA LoopInvariant == Spec => []LoopInv
<1>. QED
    BY LoopInitOK, LoopNextOK, PTL DEF Spec

\* No descriptor leaks and none is shared.
THEOREM DescriptorsExact == Spec => []FdsExact
<1>1. LoopInv => FdsExact
    BY DEF LoopInv, Owners
<1>. QED
    BY <1>1, LoopInvariant, PTL

\* An event of the batch still means what epoll_wait said when the loop comes to it.
THEOREM BatchIsFresh == Spec => []EventsAreFresh
<1>1. LoopInv => EventsAreFresh
    <2>. SUFFICES ASSUME LoopInv, NEW i \in DOMAIN batch
                  PROVE  /\ \A j \in DOMAIN batch : batch[i] = batch[j] => i = j
                         /\ batch[i] # Listener => /\ batch[i] \in DOMAIN fds
                                                   /\ i > 1 \/ pc # "write" => Readable(fds[batch[i]])
        BY DEF EventsAreFresh
    <2>1. /\ batch \in Seq(Sources) /\ Distinct(batch) /\ batch[i] \in Range(batch)
          /\ i \in Nat \ {0}
        BY DEF LoopInv, LoopTypeOK, Pending, Range
    <2>2. \A j \in DOMAIN batch : batch[i] = batch[j] => i = j
        BY <2>1 DEF Distinct
    <2>3. ASSUME batch[i] # Listener PROVE batch[i] \in DOMAIN fds
        BY <2>1, <2>3 DEF LoopInv, Pending
    <2>4. ASSUME batch[i] # Listener, i > 1 \/ pc # "write" PROVE batch[i] # reply.fd
        <3>1. CASE pc # "write"
            BY <2>4, <3>1 DEF LoopInv, Writing, NoReply
        <3>2. CASE pc = "write" /\ i > 1
            <4>1. Head(batch) = reply.fd /\ Head(batch) = batch[1] /\ 1 \in DOMAIN batch
                BY <2>1, <3>2 DEF LoopInv, Writing
            <4>. QED
                BY <2>2, <3>2, <4>1
        <3>. QED
            BY <2>4, <3>1, <3>2
    <2>. QED
        BY <2>1, <2>2, <2>3, <2>4 DEF LoopInv, Pending
<1>. QED
    BY <1>1, LoopInvariant, PTL

---------------------------------------------------------------------------
(* Nobody is forgotten *)

\* The lists after the end of a connection.
LEMMA CloseLists ==
    ASSUME LoopInv, NEW fd \in DOMAIN fds, batch # << >>, Head(batch) = fd, NEW con, Close(fd, con)
    PROVE  /\ fd # Listener /\ backlog' = backlog
           /\ Range(ready') = Range(ready) \ {fd} /\ Range(batch') = Range(batch) \ {fd}
<1>1. /\ ready \in Seq(Sources) /\ Distinct(ready) /\ batch \in Seq(Sources) /\ Distinct(batch)
      /\ ready' = RemoveFirst(ready, fd) /\ batch' = Tail(batch) /\ backlog' = backlog
    BY DEF LoopInv, LoopTypeOK, Pending, Close
<1>2. fd # Listener
    BY EventLoopAssumption DEF LoopInv, LoopTypeOK, Fds, Listener
<1>3. Range(ready') = Range(ready) \ {fd}
    BY <1>1, RemoveDrops
<1>. QED
    BY <1>1, <1>2, <1>3, TailDrops

LEMMA ArrivalLists ==
    ASSUME LoopInv, NEW c \in Clients, Arrival(c)
    PROVE  Range(ready) \subseteq Range(ready') /\ UNCHANGED <<backlog, batch>>
<1>1. CASE conn[c].st = "open" /\ FdOf(c) \in armed
    <2>1. /\ ready \in Seq(Sources) /\ Distinct(ready) /\ FdOf(c) \in Sources
          /\ ready' = Notify(ready, FdOf(c)) /\ UNCHANGED <<backlog, batch>>
        BY <1>1 DEF LoopInv, LoopTypeOK, Pending, Arrival, Sources
    <2>. QED
        BY <2>1, NotifyAdds
<1>2. CASE ~ (conn[c].st = "open" /\ FdOf(c) \in armed)
    BY <1>2 DEF Arrival
<1>. QED
    BY <1>1, <1>2

LEMMA CalledNextOK ==
    ASSUME LoopInv, Called, [Next]_vars, AcceptMayFail = FALSE
    PROVE  Called'
<1>. USE DEF Called
<1>1. ASSUME NEW c \in Clients, Connect(c) PROVE Called'
    <2>1. ready \in Seq(Sources) /\ Distinct(ready) /\ Listener \in Sources
          /\ ready' = Notify(ready, Listener)
        BY <1>1 DEF LoopInv, LoopTypeOK, Pending, Sources, Connect
    <2>2. Range(ready') = Range(ready) \cup {Listener}
        BY <2>1, NotifyAdds
    <2>. QED
        BY <2>2
<1>2. ASSUME NEW c \in Clients, SendPart(c) \/ HangUp(c) PROVE Called'
    <2>1. Arrival(c)
        BY <1>2 DEF SendPart, HangUp
    <2>. QED
        BY <2>1, ArrivalLists
<1>3. CASE EpollWait
    <2>1. /\ batch = << >> /\ backlog' = backlog
          /\ Range(batch') \cup Range(ready') = Held
        BY <1>3, EpollTakes DEF EpollWait
    <2>2. Range(batch) = {}
        BY <2>1 DEF Range
    <2>3. backlog # << >> => Listener \in Held
        BY <2>2 DEF Held, StillReady
    <2>. QED
        BY <2>1, <2>3
<1>4. CASE AcceptOne
    <2>1. batch # << >> /\ Head(batch) = Listener /\ batch' = batch /\ batch \in Seq(Sources)
        BY <1>4 DEF AcceptOne, Dispatching, LoopInv, LoopTypeOK
    <2>. QED
        BY <2>1 DEF Range
<1>5. CASE AcceptEnds
    BY <1>5 DEF AcceptEnds, NoMoreToAccept
<1>6. ASSUME NEW fd \in DOMAIN fds, Receive(fd) \/ ReceiveNothing(fd) PROVE Called'
    <2>1. batch # << >> /\ Head(batch) = fd
        BY <1>6 DEF Receive, ReceiveNothing, Dispatching
    <2>2. ASSUME NEW con, Close(fd, con) PROVE Called'
        BY <2>1, <2>2, CloseLists
    <2>3. \/ UNCHANGED <<backlog, ready, batch>> \/ Exit
          \/ \E con : Close(fd, con)
        BY <1>6 DEF Receive, ReceiveNothing
    <2>. QED
        BY <2>2, <2>3 DEF Exit
<1>7. CASE SendPiece
    <2>1. PICK c, n, con : c = Reader /\ n = Going /\ con = Sent
        OBVIOUS
    <2>2. SendsTo(c, n, con)
        BY <1>7, <2>1, SendFacts DEF SendPiece
    <2>3. UNCHANGED <<backlog, ready, batch>> \/ Close(reply.fd, con)
        BY <1>7, <2>1 DEF SendPiece, Reader, Going, Sent
    <2>4. PICK fd \in DOMAIN fds : fd = reply.fd /\ batch # << >> /\ Head(batch) = fd
        BY <2>2 DEF SendsTo
    <2>5. CASE Close(fd, con)
        BY <2>4, <2>5, CloseLists
    <2>. QED
        BY <2>3, <2>4, <2>5
<1>8. CASE AcceptFails \/ BrokenPipe \/ Terminate
    BY <1>8 DEF AcceptFails, BrokenPipe, Terminate, Exit
<1>9. CASE Start \/ UNCHANGED vars \/ \E c \in Clients : ReadReply(c)
    BY <1>9 DEF Start, vars, ReadReply, process
<1>. QED
    BY <1>1, <1>2, <1>3, <1>4, <1>5, <1>6, <1>7, <1>8, <1>9 DEF Next, Serve

\* One-shot and edge-triggered events are not lost, as long as accept fails only
\* when nobody waits.
THEOREM NobodyIsForgotten ==
    ASSUME AcceptMayFail = FALSE
    PROVE  Spec => []NobodyForgotten
<1>1. Init => Called
    BY DEF Init, Called
<1>2. LoopInv /\ Called /\ [Next]_vars => Called'
    BY CalledNextOK
<1>3. LoopInv /\ Called => NobodyForgotten
    <2>. SUFFICES ASSUME LoopInv, Called, batch = << >>
                  PROVE  /\ \A f \in DOMAIN fds : f \in armed /\ (Readable(fds[f]) => f \in Range(ready))
                         /\ backlog # << >> => Listener \in Range(ready)
        BY DEF NobodyForgotten
    <2>1. Range(batch) = {}
        BY DEF Range
    <2>. QED
        BY <2>1 DEF LoopInv, Watched, Called
<1>. QED
    BY <1>1, <1>2, <1>3, LoopInvariant, PTL DEF Spec

\* Whatever accept does, no connection that was accepted is forgotten.
ConnectionsWatched ==
    pc = "loop" /\ batch = << >> =>
        \A f \in DOMAIN fds : f \in armed /\ (Readable(fds[f]) => f \in Range(ready))

THEOREM NoConnectionIsForgotten == Spec => []ConnectionsWatched
<1>1. LoopInv => ConnectionsWatched
    <2>1. batch = << >> => Range(batch) = {}
        BY DEF Range
    <2>. QED
        BY <2>1 DEF LoopInv, Watched, ConnectionsWatched
<1>. QED
    BY <1>1, LoopInvariant, PTL

---------------------------------------------------------------------------
(* A client is sent its own reply *)

\* What comes before the body (the status line, the header and a line end) fits an
\* empty socket.  Were it cut, the pieces after it would follow the gap.
HeadFits == Offset(Len(Pieces)) <= SndBuf

LEMMA OffsetGrows ==
    ASSUME NEW p \in 1..Len(Pieces)
    PROVE  p < Len(Pieces) => Offset(p) + Pieces[p] <= Offset(Len(Pieces))
<1>. DEFINE n == Len(Pieces)
            P == {k \in 0..(n - p) : k = 0 \/ Offset(p) + Pieces[p] <= Offset(p + k)}
<1>0. n \in Nat \ {0} /\ p \in Nat /\ p <= n /\ n - p \in Nat /\ \A q \in 1..n : Pieces[q] \in Nat
    BY EventLoopAssumption
<1>1. 0 \in P
    BY <1>0
<1>2. ASSUME NEW k \in 0..(n - p), k \in P, k < n - p PROVE k + 1 \in P
    <2>1. p + k \in 1..n /\ (p + k) + 1 = p + (k + 1) /\ p + (k + 1) \in 1..n /\ k + 1 \in 0..(n - p)
        BY <1>0, <1>2
    <2>2. /\ Offset(p + k) \in Nat /\ Pieces[p + k] \in Nat /\ Offset(p) \in Nat /\ Pieces[p] \in Nat
          /\ Offset(p + (k + 1)) = Offset(p + k) + Pieces[p + k]
        BY <1>0, <2>1, OffsetSteps
    <2>3. k = 0 => p + k = p
        BY <1>0
    <2>4. Offset(p) + Pieces[p] <= Offset(p + (k + 1))
        <3>. DEFINE a == Offset(p + k)
                    b == Pieces[p + k]
                    d == Offset(p) + Pieces[p]
        <3>1. a \in Nat /\ b \in Nat /\ d \in Nat /\ (d <= a \/ d = a + b)
            BY <1>2, <2>2, <2>3
        <3>2. Offset(p + (k + 1)) = a + b
            BY <2>2
        <3>. HIDE DEF a, b, d
        <3>3. d <= a + b
            BY <3>1
        <3>. QED
            BY <3>2, <3>3 DEF d
    <2>. QED
        BY <2>1, <2>4
<1>3. n - p \in P
    <2>. HIDE DEF P, n
    <2>1. n - p \in Nat
        BY <1>0
    <2>. DEFINE m == n - p
    <2>2. m \in Nat /\ m \in 0..m
        BY <2>1
    <2>3. \A k \in 0..m : k \in P /\ k < m => k + 1 \in P
        BY <1>2
    <2>. HIDE DEF m
    <2>4. 0..m \subseteq P
        BY <1>1, <2>2, <2>3, UpTo
    <2>. QED
        BY <2>2, <2>4 DEF m
<1>4. p + (n - p) = n /\ (p < n => n - p # 0)
    BY <1>0
<1>5. n - p = 0 \/ Offset(p) + Pieces[p] <= Offset(p + (n - p))
    BY <1>3
<1>. QED
    BY <1>4, <1>5

\* A step that sends nothing.
LEMMA NothingSent ==
    ASSUME Written,
           \A c \in Clients : /\ conn'[c].wire = conn[c].wire /\ conn'[c].read = conn[c].read
                              /\ conn'[c].st \in Live => conn[c].st \in Live /\ Due(c)' = Due(c)
    PROVE  Written'
BY DEF Written, OwnReply

LEMMA CloseSendsNothing ==
    ASSUME LoopInv, Written, pc = "loop", NEW fd \in DOMAIN fds,
           NEW con \in [Clients -> Connection],
           \A c \in Clients : con[c].st = conn[c].st /\ con[c].wire = conn[c].wire
                              /\ con[c].read = conn[c].read,
           Close(fd, con), UNCHANGED <<pc, reply>>
    PROVE  Written'
<1>1. fds[fd] \in Clients
    BY DEF LoopInv, LoopTypeOK
<1>2. ASSUME NEW c \in Clients
      PROVE  /\ conn'[c].wire = conn[c].wire /\ conn'[c].read = conn[c].read
             /\ conn'[c].st \in Live => conn[c].st \in Live
    <2>1. CASE c = fds[fd]
        <3>. DEFINE st == IF con[c].sent > con[c].taken THEN "reset" ELSE "closed"
        <3>1. conn'[c] = [con[c] EXCEPT !.st = st] /\ con[c] \in Connection
            BY <1>1, <2>1 DEF Close
        <3>2. conn'[c].wire = con[c].wire /\ conn'[c].read = con[c].read /\ conn'[c].st = st
            <4>. HIDE DEF st
            <4>. QED
                BY <3>1 DEF Connection
        <3>. QED
            BY <3>2 DEF Live
    <2>2. CASE c # fds[fd]
        BY <1>1, <2>2 DEF Close
    <2>. QED
        BY <2>1, <2>2
<1>3. \A c \in Clients : Due(c)' = Due(c)
    BY DEF Due
<1>. QED
    BY <1>2, <1>3, NothingSent

\* One call of send: the units follow what is in the socket, and a piece before
\* the last goes out as a whole.
LEMMA SendPieceWrites ==
    ASSUME LoopInv, Written, HeadFits, SendPiece
    PROVE  Written'
<1>1. PICK c, n, con : c = Reader /\ n = Going /\ con = Sent
    OBVIOUS
<1>2. SendsTo(c, n, con) /\ pc = "write"
    BY <1>1, SendFacts DEF SendPiece
<1>. DEFINE p     == reply.piece
            units == Units(c, p, n)
            wire  == conn[c].wire
            more  == wire \o units
            len   == Len(wire)
<1>3. /\ c \in Clients /\ reply.of = c /\ p \in 1..Len(Pieces) /\ n \in Int
      /\ conn[c].st = "open" /\ con[c].wire = more /\ con[c].read = conn[c].read
      /\ n = IF Pieces[p] <= Room(c) THEN Pieces[p] ELSE Room(c)
      /\ \A d \in Clients : con[d].st = conn[d].st /\ (d # c => con[d] = conn[d])
    BY <1>2 DEF SendsTo
<1>4. /\ wire \in Seq(Clients \X Nat) /\ len = Offset(p) /\ len \in Nat /\ Offset(p) \in Nat
      /\ conn[c].read \in Nat /\ conn[c].read <= len /\ Pieces[p] \in Nat
    <2>1. conn[c] \in Connection
        BY <1>3 DEF LoopInv, LoopTypeOK
    <2>2. wire \in Seq(Clients \X Nat) /\ conn[c].read \in Nat
        BY <2>1 DEF Connection
    <2>3. len = Offset(p) /\ conn[c].read <= len
        BY <1>2, <1>3 DEF Written, Live, Due
    <2>4. Offset(p) \in Nat /\ Pieces[p] \in Nat
        BY <1>3, OffsetSteps, EventLoopAssumption
    <2>. QED
        BY <2>2, <2>3, <2>4
<1>5. /\ units \in Seq(Clients \X Nat)
      /\ Len(units) = (IF n > 0 THEN n ELSE 0)
      /\ \A i \in 1..n : units[i] = <<c, Offset(p) + i>>
    BY <1>3, UnitsProperties
<1>6. p < Len(Pieces) => n = Pieces[p]
    <2>. SUFFICES ASSUME p < Len(Pieces) PROVE n = Pieces[p]
        OBVIOUS
    <2>. DEFINE o == Offset(p)
                k == Pieces[p]
                all == Offset(Len(Pieces))
                read == conn[c].read
    <2>1. o + k <= all /\ all <= SndBuf
        BY <1>3, OffsetGrows DEF HeadFits
    <2>2. Room(c) = SndBuf - (o - read)
        BY <1>4 DEF Room
    <2>3. o \in Nat /\ k \in Nat /\ SndBuf \in Nat /\ read \in Nat /\ all \in Nat
        <3>1. Len(Pieces) \in 1..Len(Pieces)
            BY EventLoopAssumption
        <3>. QED
            BY <1>4, <3>1, EventLoopAssumption, OffsetSteps
    <2>. HIDE DEF o, k, read, all
    <2>4. k <= SndBuf - (o - read)
        BY <2>1, <2>3
    <2>. QED
        BY <1>3, <2>2, <2>4 DEF k
<1>. HIDE DEF units, wire
<1>7. /\ Len(more) = len + Len(units)
      /\ \A i \in 1..(len + Len(units)) : more[i] = IF i <= len THEN wire[i] ELSE units[i - len]
      /\ DOMAIN more = 1..Len(more)
    <2>1. /\ more \in Seq(Clients \X Nat) /\ Len(more) = len + Len(units)
          /\ \A i \in 1..(len + Len(units)) :
                more[i] = IF i <= len THEN wire[i] ELSE units[i - len]
        BY <1>4, <1>5, ConcatProperties
    <2>2. DOMAIN more = 1..Len(more)
        <3>. HIDE DEF more
        <3>. QED
            BY <2>1
    <2>. QED
        BY <2>1, <2>2
<1>. HIDE DEF more, len
<1>8. ASSUME NEW i \in DOMAIN more PROVE more[i] = <<c, i>>
    <2>0. i \in 1..(len + Len(units)) /\ len \in Nat /\ Len(units) \in Nat
        BY <1>3, <1>4, <1>5, <1>7
    <2>1. CASE i <= len
        <3>1. i \in DOMAIN wire
            BY <1>4, <2>0, <2>1 DEF len
        <3>2. wire[i] = <<c, i>>
            BY <1>3, <3>1 DEF Written, OwnReply, wire
        <3>. QED
            BY <1>7, <2>0, <2>1, <3>2
    <2>2. CASE i > len
        <3>. DEFINE j == i - len
        <3>1. j \in 1..n /\ len + j = i
            BY <1>3, <1>5, <2>0, <2>2
        <3>2. more[i] = units[j]
            BY <1>7, <2>0, <2>2
        <3>. HIDE DEF j
        <3>3. units[j] = <<c, i>>
            BY <1>4, <1>5, <3>1
        <3>. QED
            BY <3>2, <3>3
    <2>. QED
        BY <2>0, <2>1, <2>2
<1>9. len <= Len(more) /\ conn[c].read <= Len(more)
    <2>1. len \in Nat /\ Len(units) \in Nat
        BY <1>3, <1>4, <1>5
    <2>2. conn[c].read \in Nat /\ conn[c].read <= len
        BY <1>3, <1>4
    <2>3. Len(more) = len + Len(units)
        BY <1>7
    <2>. QED
        BY <2>1, <2>2, <2>3
<1>10. CASE /\ p < Len(Pieces)
            /\ reply' = [reply EXCEPT !.piece = @ + 1] /\ conn' = con /\ pc' = "write"
    <2>1. reply'.of = c /\ reply'.piece = p + 1
        BY <1>3, <1>10 DEF LoopInv, LoopTypeOK
    <2>2. Len(more) = Offset(p + 1)
        <3>1. Offset(p + 1) = Offset(p) + Pieces[p]
            BY <1>3, OffsetSteps
        <3>2. n = Pieces[p] /\ n \in Nat
            BY <1>4, <1>6, <1>10
        <3>3. Len(units) = n
            BY <1>5, <3>2
        <3>. QED
            BY <1>4, <1>7, <3>1, <3>2, <3>3
    <2>3. Due(c)' = Offset(p + 1)
        BY <1>10, <2>1 DEF Due
    <2>4. \A d \in Clients : d # c => Due(d)' = Due(d)
        BY <1>2, <1>3, <1>10, <2>1 DEF Due
    <2>5. conn'[c].wire = more /\ conn'[c].read = conn[c].read
        BY <1>3, <1>10
    <2>6. \A d \in Clients : d # c => conn'[d] = conn[d]
        BY <1>3, <1>10
    <2>7. OwnReply'
        BY <1>8, <2>5, <2>6 DEF Written, OwnReply
    <2>8. ASSUME NEW d \in Clients
          PROVE  /\ conn'[d].read <= Len(conn'[d].wire)
                 /\ conn'[d].st \in Live => Len(conn'[d].wire) = Due(d)'
        <3>1. CASE d = c
            BY <1>9, <2>2, <2>3, <2>5, <3>1
        <3>2. CASE d # c
            BY <2>4, <2>6, <3>2 DEF Written
        <3>. QED
            BY <3>1, <3>2
    <2>. QED
        BY <2>7, <2>8 DEF Written
<1>11. CASE reply' = NoReply /\ pc' = "loop" /\ Close(reply.fd, con)
    <2>0. con \in [Clients -> Connection] /\ fds[reply.fd] = c
        BY <1>1, <1>2 DEF SendsTo, Reader
    <2>1. conn'[c].wire = more /\ conn'[c].read = conn[c].read /\ conn'[c].st \notin Live
        <3>. DEFINE st == IF con[c].sent > con[c].taken THEN "reset" ELSE "closed"
        <3>1. conn'[c] = [con[c] EXCEPT !.st = st] /\ con[c] \in Connection
            BY <1>3, <1>11, <2>0 DEF Close
        <3>2. conn'[c].wire = con[c].wire /\ conn'[c].read = con[c].read /\ conn'[c].st = st
            <4>. HIDE DEF st
            <4>. QED
                BY <3>1 DEF Connection
        <3>. QED
            BY <1>3, <3>2 DEF Live
    <2>2. \A d \in Clients : d # c => conn'[d] = conn[d] /\ Due(d)' = Due(d)
        BY <1>2, <1>3, <1>11, <2>0 DEF Close, Due
    <2>. QED
        BY <1>8, <1>9, <2>1, <2>2 DEF Written, OwnReply
<1>. QED
    BY <1>1, <1>2, <1>10, <1>11 DEF SendPiece, Reader, Going, Sent

LEMMA WrittenNextOK ==
    ASSUME LoopInv, Written, HeadFits, [Next]_vars
    PROVE  Written'
<1>0. /\ conn \in [Clients -> Connection]
      /\ \A c \in Clients : pc = "write" /\ c = reply.of => conn[c].st = "open"
    <2>1. PICK c, n, con : c = Reader /\ n = Going /\ con = Sent
        OBVIOUS
    <2>2. pc = "write" => c = reply.of /\ conn[c].st = "open"
        BY <2>1, SendFacts DEF SendsTo
    <2>. QED
        BY <2>2 DEF LoopInv, LoopTypeOK
<1>1. ASSUME NEW c \in Clients, Connect(c) PROVE Written'
    <2>1. conn' = [conn EXCEPT ![c].st = "queued"] /\ conn[c].st = "none" /\ UNCHANGED <<pc, reply>>
        BY <1>1 DEF Connect
    <2>2. \A d \in Clients : conn'[d].wire = conn[d].wire /\ conn'[d].read = conn[d].read
                             /\ (conn'[d].st \in Live => conn[d].st \in Live)
        BY <1>0, <2>1 DEF Connection, Live
    <2>3. \A d \in Clients : Due(d)' = Due(d)
        BY <2>1 DEF Due
    <2>. QED
        BY <2>2, <2>3, NothingSent
<1>2. ASSUME NEW c \in Clients, SendPart(c) \/ HangUp(c) PROVE Written'
    <2>1. /\ conn' = [conn EXCEPT ![c].sent = @ + 1] \/ conn' = [conn EXCEPT ![c].gone = TRUE]
          /\ UNCHANGED <<pc, reply>>
        BY <1>2 DEF SendPart, HangUp, Arrival
    <2>2. \A d \in Clients : conn'[d].wire = conn[d].wire /\ conn'[d].read = conn[d].read
                             /\ conn'[d].st = conn[d].st
        <3>1. CASE conn' = [conn EXCEPT ![c].sent = @ + 1]
            <4>. DEFINE k == conn[c].sent + 1
            <4>1. conn' = [conn EXCEPT ![c].sent = k]
                BY <1>0, <3>1
            <4>. HIDE DEF k
            <4>. QED
                BY <1>0, <4>1 DEF Connection
        <3>2. CASE conn' = [conn EXCEPT ![c].gone = TRUE]
            BY <1>0, <3>2 DEF Connection
        <3>. QED
            BY <2>1, <3>1, <3>2
    <2>3. \A d \in Clients : Due(d)' = Due(d)
        BY <2>1 DEF Due
    <2>. QED
        BY <2>2, <2>3, NothingSent
<1>3. ASSUME NEW c \in Clients, ReadReply(c) PROVE Written'
    <2>. DEFINE len == Len(conn[c].wire)
    <2>1. /\ conn' = [conn EXCEPT ![c].read = len] /\ UNCHANGED <<pc, reply>>
        BY <1>3 DEF ReadReply, process
    <2>2. len \in Nat
        BY <1>0 DEF Connection
    <2>. HIDE DEF len
    <2>3. /\ \A d \in Clients : conn'[d].wire = conn[d].wire /\ conn'[d].st = conn[d].st
          /\ \A d \in Clients : d # c => conn'[d].read = conn[d].read
          /\ conn'[c].read = len
        BY <1>0, <2>1 DEF Connection
    <2>4. \A d \in Clients : Due(d)' = Due(d)
        BY <2>1 DEF Due
    <2>5. conn'[c].read <= Len(conn'[c].wire)
        BY <2>2, <2>3 DEF len
    <2>. QED
        BY <2>3, <2>4, <2>5 DEF Written, OwnReply
<1>4. CASE EpollWait \/ AcceptEnds \/ Start \/ UNCHANGED vars
    <2>1. conn' = conn
        BY <1>4 DEF EpollWait, AcceptEnds, Start, vars
    <2>2. \A d \in Clients : Due(d)' = Due(d)
        BY <1>4 DEF EpollWait, AcceptEnds, Start, vars, Due
    <2>. QED
        BY <2>1, <2>2, NothingSent
<1>5. CASE AcceptOne
    <2>1. /\ conn' = [conn EXCEPT ![Head(backlog)].st = "open"] /\ UNCHANGED <<pc, reply>>
          /\ backlog # << >>
        BY <1>5 DEF AcceptOne
    <2>2. /\ Head(backlog) \in Clients /\ conn[Head(backlog)].st = "queued"
        BY <2>1 DEF LoopInv, LoopTypeOK, Owners
    <2>3. \A d \in Clients : conn'[d].wire = conn[d].wire /\ conn'[d].read = conn[d].read
                             /\ (conn'[d].st \in Live => conn[d].st \in Live)
        BY <1>0, <2>1, <2>2 DEF Connection, Live
    <2>4. \A d \in Clients : Due(d)' = Due(d)
        BY <2>1 DEF Due
    <2>. QED
        BY <2>3, <2>4, NothingSent
<1>6. CASE Exit
    <2>1. ASSUME NEW c \in Clients
          PROVE  /\ conn'[c].wire = conn[c].wire /\ conn'[c].read = conn[c].read
                 /\ conn'[c].st \in Live => conn[c].st = "none"
        <3>1. CASE Alive(c)
            BY <1>0, <1>6, <3>1 DEF Exit, Connection, Live
        <3>2. CASE ~Alive(c)
            BY <1>0, <1>6, <3>2 DEF Exit, Alive, Live
        <3>. QED
            BY <3>1, <3>2
    <2>2. ASSUME NEW c \in Clients, conn[c].st = "none" PROVE Due(c)' = Due(c)
        BY <1>0, <1>6, <2>2 DEF Exit, Due
    <2>. QED
        BY <2>1, <2>2, NothingSent DEF Live
<1>7. ASSUME NEW fd \in DOMAIN fds, Receive(fd) PROVE Written'
    <2>. DEFINE c == fds[fd]
                n == Min({Unread(c), BufSize})
    <2>0. c \in Clients /\ pc = "loop"
        BY <1>7 DEF LoopInv, LoopTypeOK, Receive, Dispatching, Looping
    <2>1. CASE /\ conn' = [conn EXCEPT ![c].taken = @ + n, ![c].runs = Append(@, n)]
               /\ pc' = "write" /\ reply' = [fd |-> fd, of |-> c, piece |-> 1]
        <3>1. \A d \in Clients : conn'[d].wire = conn[d].wire /\ conn'[d].read = conn[d].read
                                 /\ conn'[d].st = conn[d].st
            <4>. HIDE DEF n
            <4>1. conn' = [[conn EXCEPT ![c].taken = @ + n] EXCEPT ![c].runs = Append(@, n)]
                BY <2>1
            <4>. QED
                BY <1>0, <2>0, <4>1 DEF Connection
        <3>2. \A d \in Clients : Due(d)' = Due(d)
            BY <2>0, <2>1, OffsetSteps DEF Due
        <3>. QED
            BY <3>1, <3>2, NothingSent
    <2>2. CASE Close(fd, [conn EXCEPT ![c].taken = @ + n]) /\ UNCHANGED <<pc, reply>>
        <3>. DEFINE con == [conn EXCEPT ![c].taken = @ + n]
        <3>1. con \in [Clients -> Connection]
            <4>. DEFINE k == conn[c].taken + n
            <4>1. n \in Nat /\ conn[c].taken \in Nat
                BY Taken
            <4>2. k \in Nat
                <5>. HIDE DEF n
                <5>. QED
                    BY <4>1
            <4>3. con = [conn EXCEPT ![c].taken = k]
                <5>. HIDE DEF n
                <5>. QED
                    BY <1>0, <2>0
            <4>. HIDE DEF k, con
            <4>. QED
                BY <1>0, <2>0, <4>2, <4>3 DEF Connection
        <3>2. \A d \in Clients : con[d].st = conn[d].st /\ con[d].wire = conn[d].wire
                                 /\ con[d].read = conn[d].read
            <4>. HIDE DEF n
            <4>. QED
                BY <1>0, <2>0 DEF Connection
        <3>. HIDE DEF con
        <3>. QED
            BY <2>0, <2>2, <3>1, <3>2, CloseSendsNothing DEF con
    <2>3. CASE Exit
        BY <1>6, <2>3
    <2>. QED
        BY <1>7, <2>1, <2>2, <2>3 DEF Receive
<1>8. ASSUME NEW fd \in DOMAIN fds, ReceiveNothing(fd) PROVE Written'
    <2>1. Close(fd, conn) /\ UNCHANGED <<pc, reply>> /\ pc = "loop"
        BY <1>8 DEF ReceiveNothing, Dispatching, Looping
    <2>. QED
        BY <1>0, <2>1, CloseSendsNothing
<1>9. CASE SendPiece
    BY <1>9, SendPieceWrites
<1>10. CASE AcceptFails \/ BrokenPipe \/ Terminate
    BY <1>6, <1>10 DEF AcceptFails, BrokenPipe, Terminate
<1>. QED
    BY <1>1, <1>2, <1>3, <1>4, <1>5, <1>7, <1>8, <1>9, <1>10 DEF Next, Serve

\* What a client is sent is its own reply, from its first byte on and in order.
THEOREM RepliesAreOwn ==
    ASSUME HeadFits
    PROVE  Spec => []OwnReply
<1>1. Init => Written
    <2>. SUFFICES ASSUME Init PROVE Written
        OBVIOUS
    <2>1. \A c \in Clients : conn[c] = NoConnection /\ Due(c) = 0
        BY DEF Init, Due
    <2>2. /\ NoConnection.wire = << >> /\ NoConnection.read = 0
          /\ Len(<< >>) = 0 /\ DOMAIN << >> = {}
        BY DEF NoConnection
    <2>. QED
        BY <2>1, <2>2 DEF Written, OwnReply
<1>2. LoopInv /\ Written /\ [Next]_vars => Written'
    BY WrittenNextOK
<1>3. Written => OwnReply
    BY DEF Written
<1>. QED
    BY <1>1, <1>2, <1>3, LoopInvariant, PTL DEF Spec
=============================================================================
