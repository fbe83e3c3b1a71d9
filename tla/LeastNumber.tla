---------------------------- MODULE LeastNumber ----------------------------
(***************************************************************************)
(* The least-number principle, as a fact about sets that can be cited: the *)
(* form of induction that the proofs of this project use.  With it, what   *)
(* functions defined by recursion on a number or on a finite set are.      *)
(***************************************************************************)
EXTENDS Integers, FiniteSetTheorems, TLAPS

\* Every non-empty set of naturals has a least element: n is least in S when 0..n
\* is minimal, by inclusion, among the finite sets 0..m with m in S.
LEMMA LeastNat ==
    ASSUME NEW S \in SUBSET Nat, S # {}
    PROVE  \E n \in S : \A m \in S : n <= m
<1>. DEFINE F == {0..m : m \in S}
            R == StrictSubsetOrdering(Nat)
<1>1. F \subseteq FiniteSubsetsOf(Nat)
    <2>1. ASSUME NEW m \in S PROVE 0..m \in FiniteSubsetsOf(Nat)
        BY FS_Interval, 0..m \in SUBSET Nat, m \in Int, 0 \in Int DEF FiniteSubsetsOf
    <2>. QED
        BY <2>1
<1>2. F # {}
    OBVIOUS
<1>3. IsWellFoundedOn(R, FiniteSubsetsOf(Nat))
    BY FS_StrictSubsetOrderingWellFounded
<1>4. \E f \in F : \A g \in F : ~ (<<g, f>> \in R)
    <2>. HIDE DEF F, R
    <2>. QED
        BY <1>1, <1>2, <1>3, WFMin
<1>5. PICK n \in S : \A m \in S : ~ (<<0..m, 0..n>> \in R)
    BY <1>4
<1>6. ASSUME NEW m \in S, m < n PROVE FALSE
    <2>1. 0..m \in SUBSET Nat /\ 0..n \in SUBSET Nat /\ 0..m \subseteq 0..n
        BY <1>6
    <2>2. n \in 0..n /\ n \notin 0..m
        BY <1>6
    <2>. QED
        BY <1>5, <2>1, <2>2 DEF StrictSubsetOrdering
<1>. QED
    BY <1>6

\* Induction on a set of numbers: what holds of 0 and goes from each number below
\* n to the next holds up to n.
LEMMA UpTo ==
    ASSUME NEW n \in Nat, NEW P, 0 \in P,
           \A k \in 0..n : k \in P /\ k < n => k + 1 \in P
    PROVE  0..n \subseteq P
<1>. DEFINE bad == {k \in Nat : k <= n /\ k \notin P}
<1>. SUFFICES ASSUME bad # {} PROVE FALSE
    OBVIOUS
<1>1. PICK k \in bad : \A m \in bad : k <= m
    <2>. bad \in SUBSET Nat
        OBVIOUS
    <2>. HIDE DEF bad
    <2>. QED
        BY LeastNat
<1>2. k # 0 /\ k - 1 \in Nat /\ k - 1 \notin bad
    BY <1>1
<1>. QED
    BY <1>1, <1>2

\* step[k] makes the k-th of n values from the one before.
Steps(n, V, step) == step \in [1..n -> [V -> V]]

\* g holds the values that begin with first and go on by step.
Stepwise(n, V, first, step, g) ==
    /\ g \in [0..n -> V]
    /\ g[0] = first
    /\ \A k \in 1..n : g[k] = step[k][g[k - 1]]

\* A function on 0..n that is given by its first value and by how each value follows
\* from the one before exists.
LEMMA StepwiseExists ==
    ASSUME NEW n, NEW V, NEW first, NEW step,
           n \in Nat, first \in V, Steps(n, V, step)
    PROVE  \E g : Stepwise(n, V, first, step, g)
<1>. USE DEF Steps
<1>. DEFINE Body(m, g) == [k \in 0..m |-> IF k = 0 THEN first ELSE step[k][g[k - 1]]]
            P == {m \in 0..n : \E g \in [0..m -> V] : g = Body(m, g)}
<1>1. 0 \in P
    <2>. DEFINE h == [k \in 0..0 |-> first]
    <2>1. h \in [0..0 -> V] /\ h = Body(0, h)
        OBVIOUS
    <2>. HIDE DEF h, Body
    <2>. QED
        BY <2>1
<1>2. ASSUME NEW m \in 0..n, m \in P, m < n
      PROVE  m + 1 \in P
    <2>1. PICK g \in [0..m -> V] : g = Body(m, g)
        BY <1>2
    <2>. DEFINE h == [k \in 0..(m + 1) |-> IF k = m + 1 THEN step[m + 1][g[m]] ELSE g[k]]
    <2>2. step[m + 1] \in [V -> V] /\ g[m] \in V
        BY <1>2
    <2>3. h \in [0..(m + 1) -> V]
        BY <2>2
    <2>4. ASSUME NEW k \in 0..(m + 1)
          PROVE  h[k] = IF k = 0 THEN first ELSE step[k][h[k - 1]]
        <3>1. CASE k = m + 1
            <4>1. h[k - 1] = g[m] /\ k # 0
                BY <3>1
            <4>. QED
                BY <3>1, <4>1
        <3>2. CASE k # m + 1
            <4>1. k \in 0..m /\ h[k] = g[k] /\ (k # 0 => h[k - 1] = g[k - 1])
                BY <3>2
            <4>2. g[k] = IF k = 0 THEN first ELSE step[k][g[k - 1]]
                BY <2>1, <4>1
            <4>. QED
                BY <4>1, <4>2
        <3>. QED
            BY <3>1, <3>2
    <2>5. h = Body(m + 1, h)
        BY <2>3, <2>4
    <2>6. m + 1 \in 0..n
        BY <1>2
    <2>. HIDE DEF h, Body
    <2>. QED
        BY <2>3, <2>5, <2>6
<1>3. 0..n \subseteq P
    <2>. HIDE DEF P
    <2>. QED
        BY <1>1, <1>2, UpTo
<1>4. PICK g \in [0..n -> V] : g = Body(n, g)
    BY <1>3
<1>5. g[0] = first
    BY <1>4
<1>6. ASSUME NEW k \in 1..n PROVE g[k] = step[k][g[k - 1]]
    <2>1. k \in 0..n /\ k # 0
        OBVIOUS
    <2>. QED
        BY <1>4, <2>1
<1>. QED
    BY <1>5, <1>6 DEF Stepwise

---------------------------------------------------------------------------
(* Order *)

\* A finite set that a relation orders has a first element.
LEMMA FirstInOrder ==
    ASSUME NEW S, IsFiniteSet(S), S # {}, NEW R,
           \A x \in S : <<x, x>> \notin R,
           \A x, y, z \in S : <<x, y>> \in R /\ <<y, z>> \in R => <<x, z>> \in R
    PROVE  \E x \in S : \A y \in S : <<y, x>> \notin R
<1>. DEFINE below(x) == {y \in S : <<y, x>> \in R}
            sizes    == {n \in Nat : \E x \in S : Cardinality(below(x)) = n}
<1>1. \A x \in S : IsFiniteSet(below(x)) /\ Cardinality(below(x)) \in Nat
    <2>1. ASSUME NEW x \in S PROVE IsFiniteSet(below(x)) /\ Cardinality(below(x)) \in Nat
        <3>1. below(x) \subseteq S
            OBVIOUS
        <3>. HIDE DEF below
        <3>. QED
            BY <3>1, FS_Subset, FS_CardinalityType
    <2>. HIDE DEF below
    <2>. QED
        BY <2>1
<1>2. PICK n \in sizes : \A m \in sizes : n <= m
    <2>. HIDE DEF below
    <2>1. sizes \in SUBSET Nat /\ sizes # {}
        BY <1>1
    <2>. HIDE DEF sizes
    <2>. QED
        BY <2>1, LeastNat
<1>3. PICK x \in S : Cardinality(below(x)) = n
    BY <1>2
<1>4. SUFFICES ASSUME NEW y \in S, <<y, x>> \in R PROVE FALSE
    BY <1>3
<1>5. below(y) \subseteq below(x) /\ y \in below(x) /\ y \notin below(y)
    BY <1>3, <1>4
<1>6. Cardinality(below(y)) < n
    <2>. HIDE DEF below
    <2>1. Cardinality(below(y)) <= n /\ Cardinality(below(y)) # n
        BY <1>1, <1>3, <1>5, FS_Subset
    <2>. QED
        BY <1>1, <1>3, <2>1
<1>7. Cardinality(below(y)) \in sizes
    BY <1>1
<1>8. Cardinality(below(y)) \in Nat /\ n \in Nat
    BY <1>1, <1>3
<1>. HIDE DEF sizes, below
<1>. QED
    BY <1>2, <1>6, <1>7, <1>8

---------------------------------------------------------------------------
(* Sums over finite sets *)

\* Induction on the size of a set: what holds of a subset of S when it holds of all
\* its subsets with one element less holds of every subset.
LEMMA BySize ==
    ASSUME NEW S, IsFiniteSet(S), NEW P,
           \A s \in SUBSET S : (\A x \in s : s \ {x} \in P) => s \in P
    PROVE  SUBSET S \subseteq P
<1>. SUFFICES ASSUME NEW bad \in SUBSET S, bad \notin P PROVE FALSE
    OBVIOUS
<1>. DEFINE sizes == {n \in Nat : \E s \in SUBSET S : s \notin P /\ Cardinality(s) = n}
<1>1. \A s \in SUBSET S : IsFiniteSet(s) /\ Cardinality(s) \in Nat
    BY FS_Subset, FS_CardinalityType
<1>2. PICK n \in sizes : \A m \in sizes : n <= m
    <2>. sizes \in SUBSET Nat /\ sizes # {}
        BY <1>1
    <2>. HIDE DEF sizes
    <2>. QED
        BY LeastNat
<1>3. PICK s \in SUBSET S : s \notin P /\ Cardinality(s) = n
    BY <1>2
<1>4. PICK x \in s : s \ {x} \notin P
    BY <1>3
<1>5. s \ {x} \in SUBSET S /\ Cardinality(s \ {x}) = n - 1
    BY <1>1, <1>3, <1>4, FS_RemoveElement
<1>6. n - 1 \in sizes
    BY <1>1, <1>4, <1>5
<1>. QED
    BY <1>2, <1>6

\* f holds the sums of the weights of the subsets of S, taken up one by one.
FirstOf(s) == CHOOSE x \in s : TRUE

SumBody(w, D, f) == [s \in D |-> IF s = {} THEN 0 ELSE w[FirstOf(s)] + f[s \ {FirstOf(s)}]]

Summed(w, S, f) == f = SumBody(w, SUBSET S, f)

\* There is such a function.
LEMMA SummedExists ==
    ASSUME NEW S, IsFiniteSet(S), NEW w
    PROVE  \E f : Summed(w, S, f)
<1>. DEFINE Upto(m) == {s \in SUBSET S : Cardinality(s) <= m}
            P == {m \in Nat : \E f : f = SumBody(w, Upto(m), f)}
            N == Cardinality(S)
<1>1. \A s \in SUBSET S : IsFiniteSet(s) /\ Cardinality(s) \in Nat /\ Cardinality(s) <= N
    BY FS_Subset, FS_CardinalityType
<1>2. \A s \in SUBSET S : s # {} => /\ FirstOf(s) \in s
                                    /\ s \ {FirstOf(s)} \in SUBSET S
                                    /\ Cardinality(s \ {FirstOf(s)}) = Cardinality(s) - 1
    <2>1. \A s : s # {} => FirstOf(s) \in s
        BY DEF FirstOf
    <2>. QED
        BY <1>1, <2>1, FS_RemoveElement
<1>3. \A s \in SUBSET S : Cardinality(s) = 0 => s = {}
    BY <1>1, FS_EmptySet
<1>4. 0 \in P
    <2>. DEFINE f == [s \in Upto(0) |-> 0]
    <2>1. \A s \in Upto(0) : s = {}
        BY <1>1, <1>3
    <2>2. f = SumBody(w, Upto(0), f)
        BY <2>1 DEF SumBody
    <2>. HIDE DEF f, Upto
    <2>. QED
        BY <2>2
<1>5. ASSUME NEW m \in 0..N, m \in P PROVE m + 1 \in P
    <2>1. PICK f : f = SumBody(w, Upto(m), f)
        BY <1>5
    <2>. DEFINE g == [s \in Upto(m + 1) |->
                        IF s = {} THEN 0 ELSE w[FirstOf(s)] + f[s \ {FirstOf(s)}]]
    <2>2. \A s \in Upto(m) : s \in Upto(m + 1) /\ g[s] = f[s]
        <3>1. \A s \in Upto(m) : s \in Upto(m + 1)
            BY <1>1
        <3>2. \A s \in Upto(m) : f[s] = IF s = {} THEN 0 ELSE w[FirstOf(s)] + f[s \ {FirstOf(s)}]
            <4>. HIDE DEF Upto
            <4>. QED
                BY <2>1 DEF SumBody
        <3>. HIDE DEF Upto
        <3>. QED
            BY <3>1, <3>2
    <2>3. \A s \in Upto(m + 1) : s # {} => s \ {FirstOf(s)} \in Upto(m)
        BY <1>1, <1>2
    <2>4. g = SumBody(w, Upto(m + 1), g)
        <3>. HIDE DEF Upto
        <3>1. \A s \in Upto(m + 1) : g[s] = IF s = {} THEN 0 ELSE w[FirstOf(s)] + g[s \ {FirstOf(s)}]
            BY <2>2, <2>3
        <3>2. g = [s \in Upto(m + 1) |-> g[s]]
            OBVIOUS
        <3>. HIDE DEF g
        <3>. QED
            BY <3>1, <3>2 DEF SumBody
    <2>. HIDE DEF g, Upto
    <2>. QED
        BY <2>4
<1>6. N \in P
    <2>1. N \in Nat /\ N \in 0..N
        BY <1>1
    <2>. HIDE DEF P, N
    <2>2. \A k \in 0..N : k \in P /\ k < N => k + 1 \in P
        BY <1>5
    <2>3. 0..N \subseteq P
        BY <1>4, <2>1, <2>2, UpTo
    <2>. QED
        BY <2>1, <2>3
<1>7. Upto(N) = SUBSET S
    BY <1>1
<1>. QED
    BY <1>6, <1>7 DEF Summed

\* The weights of a set are natural numbers.
Weighs(w, S) == \A x \in S : w[x] \in Nat

\* The recursion spelled out, with the sums natural numbers.
Sums(w, S, f) ==
    /\ f[{}] = 0
    /\ \A s \in SUBSET S : f[s] \in Nat
    /\ \A s \in SUBSET S : s # {} => /\ FirstOf(s) \in s
                                     /\ f[s] = w[FirstOf(s)] + f[s \ {FirstOf(s)}]

LEMMA SummedRule ==
    ASSUME NEW S, IsFiniteSet(S), NEW w, Weighs(w, S), NEW f, Summed(w, S, f)
    PROVE  Sums(w, S, f)
<1>1. \A s \in SUBSET S : f[s] = IF s = {} THEN 0 ELSE w[FirstOf(s)] + f[s \ {FirstOf(s)}]
    BY DEF Summed, SumBody
<1>2. \A s : s # {} => FirstOf(s) \in s
    BY DEF FirstOf
<1>3. \A s \in SUBSET S : f[s] \in Nat
    <2>. DEFINE P == {s \in SUBSET S : f[s] \in Nat}
    <2>1. ASSUME NEW s \in SUBSET S, \A x \in s : s \ {x} \in P PROVE s \in P
        <3>1. CASE s = {}
            <4>1. f[s] = 0
                BY <1>1, <3>1
            <4>. QED
                BY <4>1
        <3>2. CASE s # {}
            <4>1. FirstOf(s) \in s /\ f[s \ {FirstOf(s)}] \in Nat
                BY <1>2, <2>1, <3>2
            <4>2. w[FirstOf(s)] \in Nat
                BY <4>1 DEF Weighs
            <4>3. f[s] = w[FirstOf(s)] + f[s \ {FirstOf(s)}]
                BY <1>1, <3>2
            <4>4. f[s] \in Nat
                BY <4>1, <4>2, <4>3
            <4>. QED
                BY <4>4
        <3>. QED
            BY <3>1, <3>2
    <2>2. SUBSET S \subseteq P
        <3>. HIDE DEF P
        <3>. QED
            BY <2>1, BySize
    <2>. QED
        BY <2>2
<1>. QED
    BY <1>1, <1>2, <1>3 DEF Sums

\* It does not matter which element is taken up first.
LEMMA SummedAny ==
    ASSUME NEW S, IsFiniteSet(S), NEW w, Weighs(w, S), NEW f, Summed(w, S, f),
           NEW s \in SUBSET S, NEW y \in s
    PROVE  f[s] = w[y] + f[s \ {y}]
<1>. DEFINE P == {t \in SUBSET S : \A z \in t : f[t] = w[z] + f[t \ {z}]}
<1>1. /\ \A t \in SUBSET S : f[t] \in Nat
      /\ \A t \in SUBSET S : t # {} => FirstOf(t) \in t /\ f[t] = w[FirstOf(t)] + f[t \ {FirstOf(t)}]
    <2>1. Sums(w, S, f)
        BY SummedRule
    <2>. QED
        BY <2>1 DEF Sums
<1>2. ASSUME NEW t \in SUBSET S, \A x \in t : t \ {x} \in P PROVE t \in P
    <2>. SUFFICES ASSUME NEW z \in t PROVE f[t] = w[z] + f[t \ {z}]
        OBVIOUS
    <2>. DEFINE x == FirstOf(t)
    <2>1. x \in t /\ f[t] = w[x] + f[t \ {x}]
        BY <1>1
    <2>. HIDE DEF x
    <2>2. CASE z = x
        BY <2>1, <2>2
    <2>3. CASE z # x
        <3>1. f[t \ {x}] = w[z] + f[(t \ {x}) \ {z}]
            BY <1>2, <2>1, <2>3
        <3>2. f[t \ {z}] = w[x] + f[(t \ {z}) \ {x}]
            BY <1>2, <2>1, <2>3
        <3>3. (t \ {x}) \ {z} = (t \ {z}) \ {x}
            OBVIOUS
        <3>. DEFINE r == f[(t \ {z}) \ {x}]
        <3>4. r \in Nat /\ w[x] \in Nat /\ w[z] \in Nat
            BY <1>1, <2>1 DEF Weighs
        <3>. HIDE DEF r
        <3>5. f[t] = w[x] + (w[z] + r) /\ f[t \ {z}] = w[x] + r
            BY <2>1, <3>1, <3>2, <3>3 DEF r
        <3>. QED
            BY <3>4, <3>5
    <2>. QED
        BY <2>2, <2>3
<1>3. SUBSET S \subseteq P
    <2>. HIDE DEF P
    <2>. QED
        BY <1>2, BySize
<1>. QED
    BY <1>3

\* The sum of the weights of a finite set.
SumOf(w, S) == (CHOOSE f : Summed(w, S, f))[S]

\* The sum is that of any of the larger sets' functions.
LEMMA SumOfWithin ==
    ASSUME NEW S, IsFiniteSet(S), NEW w, Weighs(w, S), NEW f, Summed(w, S, f),
           NEW T \in SUBSET S
    PROVE  SumOf(w, T) = f[T]
<1>. DEFINE g == CHOOSE h : Summed(w, T, h)
            P == {t \in SUBSET T : g[t] = f[t]}
<1>1. IsFiniteSet(T) /\ Weighs(w, T)
    BY FS_Subset DEF Weighs
<1>2. Summed(w, T, g)
    BY <1>1, SummedExists
<1>. HIDE DEF g
<1>3. /\ f[{}] = 0
      /\ \A s \in SUBSET S : s # {} => FirstOf(s) \in s /\ f[s] = w[FirstOf(s)] + f[s \ {FirstOf(s)}]
    <2>1. Sums(w, S, f)
        BY SummedRule
    <2>. QED
        BY <2>1 DEF Sums
<1>4. /\ g[{}] = 0
      /\ \A s \in SUBSET T : s # {} => FirstOf(s) \in s /\ g[s] = w[FirstOf(s)] + g[s \ {FirstOf(s)}]
    <2>1. Sums(w, T, g)
        BY <1>1, <1>2, SummedRule
    <2>. QED
        BY <2>1 DEF Sums
<1>5. ASSUME NEW t \in SUBSET T, \A x \in t : t \ {x} \in P PROVE t \in P
    <2>1. CASE t = {}
        BY <1>3, <1>4, <2>1
    <2>2. CASE t # {}
        <3>1. /\ FirstOf(t) \in t /\ g[t] = w[FirstOf(t)] + g[t \ {FirstOf(t)}]
              /\ f[t] = w[FirstOf(t)] + f[t \ {FirstOf(t)}]
            BY <1>3, <1>4, <2>2
        <3>2. g[t \ {FirstOf(t)}] = f[t \ {FirstOf(t)}]
            BY <1>5, <3>1
        <3>. QED
            BY <3>1, <3>2
    <2>. QED
        BY <2>1, <2>2
<1>6. SUBSET T \subseteq P
    <2>. HIDE DEF P
    <2>. QED
        BY <1>1, <1>5, BySize
<1>7. g[T] = f[T]
    BY <1>6
<1>. QED
    BY <1>7 DEF g, SumOf

\* An element's weight comes on top of the sum of the others.
LEMMA SumOfWith ==
    ASSUME NEW S, IsFiniteSet(S), NEW w, Weighs(w, S), NEW x \in S
    PROVE  SumOf(w, S) = w[x] + SumOf(w, S \ {x})
<1>1. PICK f : Summed(w, S, f)
    BY SummedExists
<1>2. f[S] = w[x] + f[S \ {x}]
    BY <1>1, SummedAny
<1>3. SumOf(w, S) = f[S] /\ SumOf(w, S \ {x}) = f[S \ {x}]
    BY <1>1, SumOfWithin
<1>. QED
    BY <1>2, <1>3

\* A part of a set has no larger sum, and a part without weights none.
LEMMA SumOfPart ==
    ASSUME NEW S, IsFiniteSet(S), NEW w, Weighs(w, S), NEW T \in SUBSET S
    PROVE  /\ SumOf(w, S) \in Nat /\ SumOf(w, T) \in Nat
           /\ SumOf(w, T) <= SumOf(w, S)
           /\ (\A x \in T : w[x] = 0) => SumOf(w, T) = 0
           /\ \A x \in S : w[x] <= SumOf(w, S)
<1>1. PICK f : Summed(w, S, f)
    BY SummedExists
<1>2. /\ f[{}] = 0
      /\ \A s \in SUBSET S : f[s] \in Nat
      /\ \A s \in SUBSET S : SumOf(w, s) = f[s]
    <2>1. Sums(w, S, f)
        BY <1>1, SummedRule
    <2>. QED
        BY <1>1, <2>1, SumOfWithin DEF Sums
<1>3. \A s \in SUBSET S, y \in S : y \in s => f[s] = w[y] + f[s \ {y}] /\ w[y] \in Nat
    BY <1>1, SummedAny DEF Weighs
<1>4. f[T] <= f[S]
    <2>. DEFINE P == {s \in SUBSET S : \A t \in SUBSET s : f[t] <= f[s]}
    <2>1. ASSUME NEW s \in SUBSET S, \A x \in s : s \ {x} \in P PROVE s \in P
        <3>. SUFFICES ASSUME NEW t \in SUBSET s, t # s PROVE f[t] <= f[s]
            BY <1>2
        <3>1. PICK y \in s : y \notin t
            OBVIOUS
        <3>2. t \in SUBSET (s \ {y}) /\ t \in SUBSET S /\ s \ {y} \in SUBSET S
            BY <3>1
        <3>3. f[t] <= f[s \ {y}]
            BY <2>1, <3>2
        <3>4. f[s] = w[y] + f[s \ {y}] /\ w[y] \in Nat
            BY <1>3
        <3>5. f[t] \in Nat /\ f[s] \in Nat /\ f[s \ {y}] \in Nat
            BY <1>2, <3>2
        <3>. QED
            BY <3>3, <3>4, <3>5
    <2>2. SUBSET S \subseteq P
        <3>. HIDE DEF P
        <3>. QED
            BY <2>1, BySize
    <2>. QED
        BY <2>2
<1>5. (\A x \in T : w[x] = 0) => f[T] = 0
    <2>. SUFFICES ASSUME \A x \in T : w[x] = 0 PROVE f[T] = 0
        OBVIOUS
    <2>. DEFINE P == {s \in SUBSET T : f[s] = 0}
    <2>1. ASSUME NEW s \in SUBSET T, \A x \in s : s \ {x} \in P PROVE s \in P
        <3>1. CASE s = {}
            BY <1>2, <3>1
        <3>2. CASE s # {}
            <4>1. PICK y \in s : TRUE
                BY <3>2
            <4>2. f[s] = w[y] + f[s \ {y}]
                BY <1>3
            <4>3. w[y] = 0 /\ f[s \ {y}] = 0
                BY <2>1
            <4>. QED
                BY <4>2, <4>3
        <3>. QED
            BY <3>1, <3>2
    <2>2. IsFiniteSet(T)
        BY FS_Subset
    <2>3. SUBSET T \subseteq P
        <3>. HIDE DEF P
        <3>. QED
            BY <2>1, <2>2, BySize
    <2>. QED
        BY <2>3
<1>6. ASSUME NEW x \in S PROVE w[x] <= f[S]
    <2>1. f[S] = w[x] + f[S \ {x}] /\ w[x] \in Nat /\ f[S \ {x}] \in Nat
        BY <1>2, <1>3
    <2>. QED
        BY <2>1
<1>. QED
    BY <1>2, <1>4, <1>5, <1>6
=============================================================================
