---------------------------- MODULE RequestProofs ----------------------------
(***************************************************************************)
(* Proofs about requests: what requestNew and the handlers read is what    *)
(* the browser sent, for every set of requests, and a request of which     *)
(* recv returned the first part only never becomes one that was not sent.  *)
(* find_first_of, with which the parsers look for the ends of lines, is    *)
(* right for every ASCII text and every separator, and reads no text       *)
(* behind its end whatever the text is made of.                            *)
(***************************************************************************)
EXTENDS HttpRequestProps, BoyerMoore, LeastNumber, TLAPS

---------------------------------------------------------------------------
(* Sequences of tokens *)

Tokens == Words \cup Between \cup NoText \cup {CRLF}

\* Token c does not occur in text t.
Lacks(t, c) == \A k \in 1..Len(t) : t[k] # c

LEMMA JoinedIs ==
    ASSUME NEW S, NEW u \in Seq(S), NEW w \in Seq(S)
    PROVE  /\ u \o w \in Seq(S) /\ Len(u \o w) = Len(u) + Len(w)
           /\ Len(u) \in Nat /\ Len(w) \in Nat
           /\ \A k \in 1..Len(u) : (u \o w)[k] = u[k] /\ u[k] \in S
           /\ \A k \in 1..Len(w) : (u \o w)[Len(u) + k] = w[k] /\ w[k] \in S
           /\ \A k \in (Len(u) + 1)..(Len(u) + Len(w)) : (u \o w)[k] = w[k - Len(u)]
    OBVIOUS

LEMMA JoinedTwice ==
    ASSUME NEW S, NEW u \in Seq(S), NEW w \in Seq(S), NEW x \in Seq(S)
    PROVE  (u \o w) \o x = u \o (w \o x)
    OBVIOUS

Triple(S, u, w, x) == u \in Seq(S) /\ w \in Seq(S) /\ x \in Seq(S)

LEMMA TripleJoined ==
    ASSUME NEW S, NEW u, NEW w, NEW x, Triple(S, u, w, x)
    PROVE  (u \o w) \o x = u \o (w \o x)
    BY DEF Triple

LEMMA NoneJoined ==
    ASSUME NEW S, NEW u \in Seq(S)
    PROVE  u \o << >> = u /\ << >> \o u = u /\ << >> \in Seq(S) /\ Len(<< >>) = 0
    OBVIOUS

LEMMA PartsOf ==
    ASSUME NEW S, NEW u \in Seq(S), NEW w \in Seq(S)
    PROVE  SubSeq(u \o w, 1, Len(u)) = u /\ SubSeq(u \o w, Len(u) + 1, Len(u \o w)) = w
<1>. DEFINE y == u \o w
<1>1. /\ y \in Seq(S) /\ Len(y) = Len(u) + Len(w) /\ Len(u) \in Nat /\ Len(w) \in Nat
      /\ \A k \in 1..Len(u) : y[k] = u[k]
      /\ \A k \in 1..Len(w) : y[Len(u) + k] = w[k]
    BY JoinedIs
<1>. HIDE DEF y
<1>2. SubSeq(y, 1, Len(u)) = u
    BY <1>1
<1>3. SubSeq(y, Len(u) + 1, Len(y)) = w
    BY <1>1
<1>. QED
    BY <1>2, <1>3 DEF y

\* What begins alike goes on alike.
LEMMA SameBehind ==
    ASSUME NEW S, NEW u \in Seq(S), NEW w \in Seq(S), NEW x \in Seq(S), u \o w = u \o x
    PROVE  w = x
<1>1. SubSeq(u \o w, Len(u) + 1, Len(u \o w)) = w
    BY PartsOf
<1>2. SubSeq(u \o x, Len(u) + 1, Len(u \o x)) = x
    BY PartsOf
<1>. QED
    BY <1>1, <1>2

LEMMA SplitAt ==
    ASSUME NEW S, NEW t \in Seq(S), NEW l \in 0..Len(t)
    PROVE  /\ SubSeq(t, 1, l) \in Seq(S) /\ SubSeq(t, l + 1, Len(t)) \in Seq(S)
           /\ Len(SubSeq(t, 1, l)) = l /\ Len(SubSeq(t, l + 1, Len(t))) = Len(t) - l
           /\ SubSeq(t, 1, l) \o SubSeq(t, l + 1, Len(t)) = t
<1>. DEFINE a == SubSeq(t, 1, l)
            b == SubSeq(t, l + 1, Len(t))
<1>1. /\ a \in Seq(S) /\ b \in Seq(S) /\ Len(a) = l /\ Len(b) = Len(t) - l /\ Len(t) \in Nat
      /\ \A k \in 1..l : a[k] = t[k]
      /\ \A k \in 1..(Len(t) - l) : b[k] = t[l + k]
    OBVIOUS
<1>. HIDE DEF a, b
<1>2. /\ a \o b \in Seq(S) /\ Len(a \o b) = Len(t)
      /\ \A k \in 1..l : (a \o b)[k] = a[k]
      /\ \A k \in (l + 1)..Len(t) : (a \o b)[k] = b[k - l]
    BY <1>1
<1>3. ASSUME NEW k \in 1..Len(t) PROVE (a \o b)[k] = t[k]
    <2>1. CASE k <= l
        BY <1>1, <1>2, <2>1
    <2>2. CASE k > l
        <3>1. k - l \in 1..(Len(t) - l) /\ l + (k - l) = k
            BY <1>1, <2>2
        <3>. QED
            BY <1>1, <1>2, <2>2, <3>1
    <2>. QED
        BY <1>1, <2>1, <2>2
<1>. DEFINE y == a \o b
<1>4. y \in Seq(S) /\ Len(y) = Len(t) /\ \A k \in 1..Len(t) : y[k] = t[k]
    BY <1>2, <1>3
<1>. HIDE DEF y
<1>5. y = t
    BY <1>4
<1>. QED
    BY <1>1, <1>5 DEF a, b, y

LEMMA OneToken ==
    ASSUME NEW S, NEW c \in S, NEW w \in Seq(S)
    PROVE  /\ <<c>> \in Seq(S) /\ Len(<<c>>) = 1 /\ <<c>>[1] = c
           /\ <<c>> \o w \in Seq(S) /\ Len(<<c>> \o w) = Len(w) + 1
           /\ (<<c>> \o w)[1] = c /\ SubSeq(<<c>> \o w, 2, Len(<<c>> \o w)) = w
<1>1. <<c>> \in Seq(S) /\ Len(<<c>>) = 1 /\ <<c>>[1] = c
    OBVIOUS
<1>. QED
    BY <1>1, JoinedIs, PartsOf

---------------------------------------------------------------------------
(* strchr *)

LEMMA PositionIs ==
    ASSUME NEW S, NEW t \in Seq(S), NEW c
    PROVE  /\ Position(t, c) \in 0..Len(t)
           /\ Position(t, c) = 0 => Lacks(t, c)
           /\ Position(t, c) # 0 => /\ t[Position(t, c)] = c
                                    /\ \A o \in 1..(Position(t, c) - 1) : t[o] # c
<1>. DEFINE places == {k \in 1..Len(t) : t[k] = c}
<1>1. Len(t) \in Nat /\ DOMAIN t = 1..Len(t)
    OBVIOUS
<1>2. CASE places = {}
    BY <1>1, <1>2 DEF Position, Lacks
<1>3. CASE places # {}
    <2>1. PICK p \in places : \A q \in places : p <= q
        <3>. places \in SUBSET Nat
            OBVIOUS
        <3>. HIDE DEF places
        <3>. QED
            BY <1>3, LeastNat
    <2>2. p \in DOMAIN t /\ t[p] = c /\ \A o \in 1..(p - 1) : t[o] # c
        <3>1. p \in 1..Len(t) /\ t[p] = c
            OBVIOUS
        <3>2. ASSUME NEW o \in 1..(p - 1), t[o] = c PROVE FALSE
            BY <1>1, <2>1, <3>1, <3>2
        <3>. QED
            BY <1>1, <3>1, <3>2
    <2>3. /\ Position(t, c) \in DOMAIN t /\ t[Position(t, c)] = c
          /\ \A o \in 1..(Position(t, c) - 1) : t[o] # c
        BY <2>2 DEF Position
    <2>. QED
        BY <1>1, <2>3
<1>. QED
    BY <1>2, <1>3

LEMMA PositionAt ==
    ASSUME NEW S, NEW t \in Seq(S), NEW c, NEW p \in 1..Len(t),
           t[p] = c, \A o \in 1..(p - 1) : t[o] # c
    PROVE  Position(t, c) = p
<1>1. /\ Position(t, c) \in 0..Len(t) /\ Len(t) \in Nat
      /\ Position(t, c) = 0 => Lacks(t, c)
      /\ Position(t, c) # 0 => /\ t[Position(t, c)] = c
                               /\ \A o \in 1..(Position(t, c) - 1) : t[o] # c
    BY PositionIs
<1>2. Position(t, c) # 0
    BY <1>1 DEF Lacks
<1>. QED
    BY <1>1, <1>2

LEMMA PositionNone ==
    ASSUME NEW S, NEW t \in Seq(S), NEW c, Lacks(t, c)
    PROVE  Position(t, c) = 0
<1>1. /\ Position(t, c) \in 0..Len(t) /\ Len(t) \in Nat
      /\ Position(t, c) # 0 => t[Position(t, c)] = c
    BY PositionIs
<1>. QED
    BY <1>1 DEF Lacks

LEMMA LacksJoined ==
    ASSUME NEW S, NEW u \in Seq(S), NEW w \in Seq(S), NEW c
    PROVE  Lacks(u \o w, c) <=> Lacks(u, c) /\ Lacks(w, c)
<1>. DEFINE y == u \o w
<1>1. /\ y \in Seq(S) /\ Len(y) = Len(u) + Len(w) /\ Len(u) \in Nat /\ Len(w) \in Nat
      /\ \A k \in 1..Len(u) : y[k] = u[k]
      /\ \A k \in 1..Len(w) : y[Len(u) + k] = w[k]
      /\ \A k \in (Len(u) + 1)..(Len(u) + Len(w)) : y[k] = w[k - Len(u)]
    BY JoinedIs
<1>. HIDE DEF y
<1>2. ASSUME Lacks(u, c), Lacks(w, c), NEW k \in 1..Len(y) PROVE y[k] # c
    <2>1. CASE k <= Len(u)
        BY <1>1, <1>2, <2>1 DEF Lacks
    <2>2. CASE k > Len(u)
        <3>1. y[k] = w[k - Len(u)] /\ k - Len(u) \in 1..Len(w)
            BY <1>1, <2>2
        <3>. QED
            BY <1>2, <3>1 DEF Lacks
    <2>. QED
        BY <1>1, <2>1, <2>2
<1>3. ASSUME Lacks(y, c) PROVE Lacks(u, c) /\ Lacks(w, c)
    <2>1. ASSUME NEW k \in 1..Len(u) PROVE u[k] # c
        BY <1>1, <1>3 DEF Lacks
    <2>2. ASSUME NEW k \in 1..Len(w) PROVE w[k] # c
        <3>1. Len(u) + k \in 1..Len(y)
            BY <1>1
        <3>. QED
            BY <1>1, <1>3, <3>1 DEF Lacks
    <2>. QED
        BY <2>1, <2>2 DEF Lacks
<1>4. Lacks(u, c) /\ Lacks(w, c) => Lacks(y, c)
    BY <1>2 DEF Lacks
<1>. QED
    BY <1>3, <1>4 DEF y

\* The text u, then c, then w is cut at the first c when u has none.
LEMMA AtFirst ==
    ASSUME NEW S, NEW u \in Seq(S), NEW w \in Seq(S), NEW c \in S, Lacks(u, c)
    PROVE  /\ Position(u \o (<<c>> \o w), c) = Len(u) + 1
           /\ Until(u \o (<<c>> \o w), c) = u
           /\ Behind(u \o (<<c>> \o w), c) = w
<1>. DEFINE r == <<c>> \o w
            y == u \o r
<1>1. r \in Seq(S) /\ Len(r) = Len(w) + 1 /\ r[1] = c /\ SubSeq(r, 2, Len(r)) = w
    BY OneToken
<1>. HIDE DEF r
<1>2. /\ y \in Seq(S) /\ Len(y) = Len(u) + Len(r) /\ Len(u) \in Nat /\ Len(r) \in Nat
      /\ \A k \in 1..Len(u) : y[k] = u[k]
      /\ \A k \in 1..Len(r) : y[Len(u) + k] = r[k]
    <2>1. r \in Seq(S)
        BY <1>1
    <2>. QED
        BY <2>1, JoinedIs
<1>2a. SubSeq(y, 1, Len(u)) = u
    BY <1>1, PartsOf
<1>. HIDE DEF y
<1>3. y[Len(u) + 1] = c /\ \A o \in 1..Len(u) : y[o] # c
    <2>1. 1 \in 1..Len(r)
        BY <1>1, <1>2
    <2>2. y[Len(u) + 1] = r[1]
        BY <1>2, <2>1
    <2>. QED
        BY <1>1, <1>2, <2>2 DEF Lacks
<1>4. Position(y, c) = Len(u) + 1
    <2>1. Len(w) \in Nat /\ Len(u) + 1 \in 1..Len(y) /\ Len(u) + 1 - 1 = Len(u)
        BY <1>1, <1>2
    <2>. QED
        BY <1>2, <1>3, <2>1, PositionAt
<1>5. Until(y, c) = u
    <2>1. Len(u) + 1 - 1 = Len(u)
        BY <1>2
    <2>. QED
        BY <1>2a, <1>4, <2>1 DEF Until
<1>6. Behind(y, c) = w
    <2>1. SubSeq(y, Len(u) + 2, Len(y)) = SubSeq(r, 2, Len(r))
        BY <1>1, <1>2
    <2>2. Len(u) + 1 + 1 = Len(u) + 2
        BY <1>2
    <2>. QED
        BY <1>1, <1>4, <2>1, <2>2 DEF Behind
<1>. QED
    BY <1>4, <1>5, <1>6 DEF y, r

\* A text with c in it is what stands in front of the first, c, and what is behind it.
LEMMA SplitFirst ==
    ASSUME NEW S, NEW t \in Seq(S), NEW c \in S, Position(t, c) # 0
    PROVE  /\ Until(t, c) \in Seq(S) /\ Behind(t, c) \in Seq(S) /\ Lacks(Until(t, c), c)
           /\ t = Until(t, c) \o (<<c>> \o Behind(t, c))
<1>. DEFINE p == Position(t, c)
            u == SubSeq(t, 1, p - 1)
            w == SubSeq(t, p + 1, Len(t))
<1>1. p \in 1..Len(t) /\ t[p] = c /\ Len(t) \in Nat /\ \A o \in 1..(p - 1) : t[o] # c
    BY PositionIs
<1>. HIDE DEF p
<1>2. /\ u \in Seq(S) /\ Len(u) = p - 1 /\ \A k \in 1..(p - 1) : u[k] = t[k]
      /\ w \in Seq(S) /\ Len(w) = Len(t) - p /\ \A k \in 1..(Len(t) - p) : w[k] = t[p + k]
    BY <1>1
<1>. HIDE DEF u, w
<1>3. Lacks(u, c)
    BY <1>1, <1>2 DEF Lacks
<1>. DEFINE r == <<c>> \o w
            y == u \o r
<1>4. /\ r \in Seq(S) /\ Len(r) = Len(w) + 1 /\ r[1] = c
      /\ \A k \in 2..Len(r) : r[k] = w[k - 1]
    BY <1>2
<1>. HIDE DEF r
<1>5. /\ y \in Seq(S) /\ Len(y) = Len(t) /\ \A k \in 1..(p - 1) : y[k] = u[k]
      /\ \A k \in p..Len(t) : y[k] = r[k - (p - 1)]
    <2>1. /\ y \in Seq(S) /\ Len(y) = Len(u) + Len(r)
          /\ \A k \in 1..Len(u) : y[k] = u[k]
          /\ \A k \in (Len(u) + 1)..(Len(u) + Len(r)) : y[k] = r[k - Len(u)]
        <3>1. u \in Seq(S) /\ r \in Seq(S)
            BY <1>2, <1>4
        <3>. QED
            BY <3>1, JoinedIs
    <2>. HIDE DEF y
    <2>2. Len(u) + Len(r) = Len(t) /\ Len(u) + 1 = p
        BY <1>1, <1>2, <1>4
    <2>. QED
        BY <1>2, <2>1, <2>2
<1>. HIDE DEF y
<1>6. ASSUME NEW k \in 1..Len(t) PROVE y[k] = t[k]
    <2>1. CASE k < p
        BY <1>1, <1>2, <1>5, <2>1
    <2>2. CASE k = p
        <3>1. y[k] = r[1]
            <4>1. k \in p..Len(t) /\ k - (p - 1) = 1
                BY <1>1, <2>2
            <4>. QED
                BY <1>5, <4>1
        <3>. QED
            BY <1>1, <1>4, <2>2, <3>1
    <2>3. CASE k > p
        <3>. DEFINE o == k - (p - 1)
        <3>1. k \in p..Len(t) /\ o \in 2..Len(r) /\ o - 1 \in 1..(Len(t) - p) /\ p + (o - 1) = k
            BY <1>1, <1>2, <1>4, <2>3
        <3>2. y[k] = r[o]
            BY <1>5, <3>1
        <3>. HIDE DEF o
        <3>. QED
            BY <1>2, <1>4, <3>1, <3>2
    <2>. QED
        BY <1>1, <2>1, <2>2, <2>3
<1>7. y = t
    <2>1. t \in Seq(S) /\ y \in Seq(S) /\ Len(t) = Len(y) /\ \A k \in 1..Len(t) : t[k] = y[k]
        BY <1>5, <1>6
    <2>. QED
        BY <2>1
<1>. QED
    BY <1>2, <1>3, <1>7 DEF y, r, u, w, p, Until, Behind

\* A text t that goes on with g would be u, c and w.
Cutting(S, t, g, u, c, w) ==
    /\ t \in Seq(S) /\ g \in Seq(S) /\ u \in Seq(S) /\ w \in Seq(S)
    /\ c \in S /\ Lacks(u, c) /\ t \o g = u \o (<<c>> \o w)

\* It is cut at c, too, or it ends before.
CutThere(S, t, g, u, c, w) ==
    \E b \in Seq(S) :
        /\ t = u \o (<<c>> \o b) /\ b \o g = w
        /\ Position(t, c) = Len(u) + 1 /\ Until(t, c) = u /\ Behind(t, c) = b

CutBefore(t, g, u, c) ==
    /\ Position(t, c) = 0 /\ Lacks(t, c) /\ g # << >> /\ Len(t) <= Len(u)
    /\ \A k \in 1..Len(t) : t[k] = u[k]

LEMMA CutAt ==
    ASSUME NEW S, NEW t, NEW g, NEW u, NEW c, NEW w, Cutting(S, t, g, u, c, w)
    PROVE  CutThere(S, t, g, u, c, w) \/ CutBefore(t, g, u, c)
<1>0. /\ t \in Seq(S) /\ g \in Seq(S) /\ u \in Seq(S) /\ w \in Seq(S)
      /\ c \in S /\ Lacks(u, c) /\ t \o g = u \o (<<c>> \o w)
    BY DEF Cutting
<1>. DEFINE r == <<c>> \o w
            y == u \o r
<1>1. r \in Seq(S) /\ Len(r) = Len(w) + 1 /\ r[1] = c /\ Len(w) \in Nat
    BY <1>0, OneToken
<1>. HIDE DEF r
<1>2. /\ y \in Seq(S) /\ Len(y) = Len(u) + Len(r) /\ Len(u) \in Nat /\ Len(r) \in Nat
      /\ \A k \in 1..Len(u) : y[k] = u[k]
      /\ \A k \in 1..Len(r) : y[Len(u) + k] = r[k]
    <2>1. r \in Seq(S)
        BY <1>1
    <2>. QED
        BY <1>0, <2>1, JoinedIs
<1>3. /\ Len(y) = Len(t) + Len(g) /\ Len(t) \in Nat /\ Len(g) \in Nat /\ y = t \o g
      /\ \A k \in 1..Len(t) : y[k] = t[k]
    <2>1. y = t \o g
        BY <1>0 DEF r
    <2>. HIDE DEF y
    <2>. QED
        BY <1>0, <2>1, JoinedIs, SMTT(30)
<1>. HIDE DEF y
<1>4. CASE Len(t) > Len(u)
    <2>. DEFINE l == Len(u) + 1
                b == SubSeq(t, l + 1, Len(t))
    <2>1. l \in 0..Len(t)
        BY <1>2, <1>3, <1>4
    <2>2. /\ b \in Seq(S) /\ SubSeq(t, 1, l) \o b = t /\ Len(SubSeq(t, 1, l)) = l
          /\ SubSeq(t, 1, l) \in Seq(S)
        BY <1>0, <2>1, SplitAt
    <2>3. SubSeq(t, 1, l) = u \o <<c>>
        <3>1. y[l] = c
            BY <1>1, <1>2
        <3>2. Len(u \o <<c>>) = l /\ u \o <<c>> \in Seq(S)
              /\ \A k \in 1..l : (u \o <<c>>)[k] = IF k = l THEN c ELSE u[k]
            BY <1>0, <1>2, SMTT(30)
        <3>3. \A k \in 1..l : SubSeq(t, 1, l)[k] = t[k]
            BY <1>0, <2>1
        <3>4. \A k \in 1..l : k # l => k \in 1..Len(u)
            BY <1>2
        <3>5. \A k \in 1..l : k \in 1..Len(t)
            BY <1>2, <1>3, <1>4
        <3>6. \A k \in 1..l : SubSeq(t, 1, l)[k] = (u \o <<c>>)[k]
            BY <1>2, <1>3, <3>1, <3>2, <3>3, <3>4, <3>5
        <3>. DEFINE a == SubSeq(t, 1, l)
                    d == u \o <<c>>
        <3>7. /\ a \in Seq(S) /\ d \in Seq(S) /\ Len(a) = l /\ Len(d) = l
              /\ \A k \in 1..l : a[k] = d[k]
            BY <2>2, <3>2, <3>6
        <3>. HIDE DEF a, d
        <3>8. a = d
            BY <3>7
        <3>. QED
            BY <3>8 DEF a, d
    <2>. HIDE DEF b, l
    <2>4. t = u \o (<<c>> \o b)
        <3>1. t = (u \o <<c>>) \o b
            BY <2>2, <2>3
        <3>2. <<c>> \in Seq(S) /\ b \in Seq(S)
            BY <1>0, <2>2, OneToken
        <3>. QED
            BY <1>0, <3>1, <3>2, JoinedTwice, SMTT(30)
    <2>5. b \o g = w
        <3>1. <<c>> \o b \in Seq(S) /\ <<c>> \in Seq(S) /\ b \o g \in Seq(S)
            BY <1>0, <2>2, OneToken, JoinedIs
        <3>2. t \o g = u \o ((<<c>> \o b) \o g)
            <4>. DEFINE d == <<c>> \o b
            <4>1. Triple(S, u, d, g)
                BY <1>0, <3>1 DEF Triple
            <4>. HIDE DEF d
            <4>2. (u \o d) \o g = u \o (d \o g)
                BY <4>1, TripleJoined
            <4>. QED
                BY <2>4, <4>2 DEF d
        <3>3. (<<c>> \o b) \o g = <<c>> \o (b \o g)
            BY <1>0, <2>2, <3>1, JoinedTwice, SMTT(60)
        <3>4. <<c>> \o (b \o g) \in Seq(S) /\ <<c>> \o w \in Seq(S)
            BY <1>0, <3>1, OneToken
        <3>5. <<c>> \o (b \o g) = <<c>> \o w
            BY <1>0, <3>2, <3>3, <3>4, SameBehind
        <3>. QED
            BY <1>0, <3>1, <3>5, SameBehind
    <2>6. /\ Position(t, c) = Len(u) + 1 /\ Until(t, c) = u /\ Behind(t, c) = b
        BY <1>0, <2>2, <2>4, AtFirst
    <2>. QED
        BY <2>2, <2>4, <2>5, <2>6 DEF CutThere
<1>5. CASE Len(t) <= Len(u)
    <2>1. \A k \in 1..Len(t) : t[k] = u[k] /\ u[k] # c
        <3>1. \A k \in 1..Len(t) : k \in 1..Len(u)
            BY <1>2, <1>3, <1>5
        <3>. QED
            BY <1>0, <1>2, <1>3, <3>1 DEF Lacks
    <2>2. Lacks(t, c)
        BY <2>1 DEF Lacks
    <2>3. g # << >>
        <3>1. Len(g) > 0
            BY <1>1, <1>2, <1>3, <1>5
        <3>. QED
            BY <3>1
    <2>4. Position(t, c) = 0
        BY <1>0, <2>2, PositionNone
    <2>. QED
        BY <1>5, <2>1, <2>2, <2>3, <2>4 DEF CutBefore
<1>6. Len(t) > Len(u) \/ Len(t) <= Len(u)
    BY <1>2, <1>3
<1>. QED
    BY <1>4, <1>5, <1>6

---------------------------------------------------------------------------
(* What a browser sends *)

\* Ends is what its recursion says.
LEMMA EndsAre ==
    ASSUME NEW S, NEW parts \in Seq(Seq(S))
    PROVE  /\ Ends(parts) \in [0..Len(parts) -> Seq(S)]
           /\ Ends(parts)[0] = << >>
           /\ \A k \in 1..Len(parts) :
                  Ends(parts)[k] = parts[Len(parts) - k + 1] \o Ends(parts)[k - 1]
<1>. DEFINE l == Len(parts)
            Body(f) == [k \in 0..l |-> IF k = 0 THEN << >> ELSE parts[l - k + 1] \o f[k - 1]]
            step == [k \in 1..l |-> [w \in Seq(S) |-> parts[l - k + 1] \o w]]
            U == CHOOSE f : f = Body(f)
<1>1. l \in Nat /\ << >> \in Seq(S) /\ \A k \in 1..l : l - k + 1 \in 1..l /\ parts[l - k + 1] \in Seq(S)
    OBVIOUS
<1>2. Steps(l, Seq(S), step)
    <2>1. \A k \in 1..l, w \in Seq(S) : parts[l - k + 1] \o w \in Seq(S)
        BY <1>1
    <2>. QED
        BY <2>1 DEF Steps
<1>3. PICK g : Stepwise(l, Seq(S), << >>, step, g)
    <2>. HIDE DEF step, l
    <2>. QED
        BY <1>1, <1>2, StepwiseExists
<1>. HIDE DEF l
<1>4. /\ g \in [0..l -> Seq(S)] /\ g[0] = << >>
      /\ \A k \in 1..l : g[k] = parts[l - k + 1] \o g[k - 1]
    <2>1. \A k \in 1..l : k - 1 \in 0..l
        BY <1>1
    <2>. QED
        BY <1>3, <2>1 DEF Stepwise
<1>5. g = Body(g)
    <2>1. g = [k \in 0..l |-> g[k]]
        BY <1>4
    <2>2. \A k \in 0..l : k = 0 \/ k \in 1..l
        BY <1>1
    <2>3. ASSUME NEW k \in 0..l
          PROVE  g[k] = Body(g)[k]
        BY <1>4, <2>2
    <2>. HIDE DEF Body
    <2>4. Body(g) = [k \in 0..l |-> Body(g)[k]]
        BY DEF Body
    <2>. QED
        BY <2>1, <2>3, <2>4, Zenon
<1>6. U = Body(U)
    <2>. HIDE DEF Body
    <2>. QED
        BY <1>5
<1>. HIDE DEF U
<1>7. U = [k \in 0..l |-> IF k = 0 THEN << >> ELSE parts[l - k + 1] \o U[k - 1]]
    BY <1>6
<1>8. U[0] = << >> /\ \A k \in 1..l : U[k] = parts[l - k + 1] \o U[k - 1]
    BY <1>1, <1>7
<1>9. \A k \in 0..l : U[k] \in Seq(S)
    <2>. DEFINE P == {k \in 0..l : U[k] \in Seq(S)}
    <2>1. 0 \in P
        <3>1. 0 \in 0..l
            BY <1>1
        <3>2. U[0] \in Seq(S)
            BY <1>1, <1>8
        <3>. QED
            BY <3>1, <3>2
    <2>2. ASSUME NEW k \in 0..l, k \in P, k < l PROVE k + 1 \in P
        <3>. DEFINE e == k + 1
        <3>1. e \in 1..l /\ e - 1 = k /\ e \in 0..l
            BY <1>1, <2>2
        <3>. HIDE DEF e
        <3>2. U[e] = parts[l - e + 1] \o U[e - 1] /\ parts[l - e + 1] \in Seq(S)
            BY <1>1, <1>8, <3>1
        <3>3. U[e - 1] \in Seq(S)
            BY <2>2, <3>1
        <3>4. U[e] \in Seq(S)
            BY <3>2, <3>3
        <3>5. e \in P
            BY <3>1, <3>4
        <3>. QED
            BY <3>5 DEF e
    <2>3. 0..l \subseteq P
        <3>. HIDE DEF P
        <3>. QED
            BY <1>1, <2>1, <2>2, UpTo
    <2>. QED
        BY <2>3
<1>10. U \in [0..l -> Seq(S)]
    <2>1. U = [k \in 0..l |-> U[k]]
        BY <1>7
    <2>. QED
        BY <1>9, <2>1
<1>11. Ends(parts) = U
    BY DEF Ends, U, l
<1>. QED
    BY <1>8, <1>10, <1>11 DEF l

LEMMA WordsAreWords ==
    /\ Words \subseteq Tokens /\ Between \subseteq Tokens
    /\ \A c \in Words : c \notin Between /\ c \notin NoText /\ c # CRLF
    /\ CRLF \in Tokens /\ CRLF \notin Between
    /\ {"SP", "/", "?", "&", "=", "+", "%26", "%3D", ":", ";"} = Between
    BY HttpRequestAssumption DEF Tokens, Between, NoText, CRLF

LEMMA DecodedJoined ==
    ASSUME NEW u \in Seq(Tokens), NEW w \in Seq(Tokens)
    PROVE  /\ Decoded(u) \in Seq(Tokens) /\ Len(Decoded(u)) = Len(u)
           /\ Decoded(u \o w) = Decoded(u) \o Decoded(w)
<1>1. \A c \in Tokens : Unescaped(c) \in Tokens
    BY WordsAreWords DEF Unescaped
<1>2. \A t \in Seq(Tokens) : /\ Decoded(t) \in Seq(Tokens) /\ Len(Decoded(t)) = Len(t)
                             /\ \A k \in 1..Len(t) : Decoded(t)[k] = Unescaped(t[k])
    BY <1>1 DEF Decoded
<1>. DEFINE y == u \o w
            a == Decoded(y)
            b == Decoded(u)
            d == Decoded(w)
<1>3. /\ y \in Seq(Tokens) /\ Len(y) = Len(u) + Len(w) /\ Len(u) \in Nat /\ Len(w) \in Nat
      /\ \A k \in 1..Len(u) : y[k] = u[k]
      /\ \A k \in (Len(u) + 1)..(Len(u) + Len(w)) : y[k] = w[k - Len(u)]
    BY JoinedIs
<1>. HIDE DEF y
<1>4. /\ a \in Seq(Tokens) /\ b \in Seq(Tokens) /\ d \in Seq(Tokens)
      /\ Len(a) = Len(u) + Len(w) /\ Len(b) = Len(u) /\ Len(d) = Len(w)
      /\ \A k \in 1..Len(y) : a[k] = Unescaped(y[k])
      /\ \A k \in 1..Len(u) : b[k] = Unescaped(u[k])
      /\ \A k \in 1..Len(w) : d[k] = Unescaped(w[k])
    BY <1>2, <1>3
<1>. HIDE DEF a, b, d
<1>. DEFINE z == b \o d
<1>5. /\ z \in Seq(Tokens) /\ Len(z) = Len(u) + Len(w)
      /\ \A k \in 1..Len(u) : z[k] = b[k]
      /\ \A k \in (Len(u) + 1)..(Len(u) + Len(w)) : z[k] = d[k - Len(u)]
    <2>1. b \in Seq(Tokens) /\ d \in Seq(Tokens)
        BY <1>4
    <2>2. /\ z \in Seq(Tokens) /\ Len(z) = Len(b) + Len(d)
          /\ \A k \in 1..Len(b) : z[k] = b[k]
          /\ \A k \in (Len(b) + 1)..(Len(b) + Len(d)) : z[k] = d[k - Len(b)]
        BY <2>1, JoinedIs
    <2>. QED
        BY <1>4, <2>2
<1>. HIDE DEF z
<1>6. ASSUME NEW k \in 1..Len(y) PROVE a[k] = z[k]
    <2>1. CASE k <= Len(u)
        <3>1. k \in 1..Len(u)
            BY <1>3, <2>1
        <3>. QED
            BY <1>3, <1>4, <1>5, <3>1
    <2>2. CASE k > Len(u)
        <3>1. k \in (Len(u) + 1)..(Len(u) + Len(w)) /\ k - Len(u) \in 1..Len(w)
            BY <1>3, <2>2
        <3>2. a[k] = Unescaped(w[k - Len(u)]) /\ z[k] = d[k - Len(u)]
            BY <1>3, <1>4, <1>5, <3>1
        <3>. QED
            BY <1>4, <3>1, <3>2
    <2>3. k <= Len(u) \/ k > Len(u)
        BY <1>3
    <2>. QED
        BY <2>1, <2>2, <2>3
<1>7. a = z
    <2>1. a \in Seq(Tokens) /\ z \in Seq(Tokens) /\ Len(a) = Len(y) /\ Len(z) = Len(y)
        BY <1>3, <1>4, <1>5
    <2>. QED
        BY <1>6, <2>1
<1>. QED
    BY <1>4, <1>7 DEF a, b, d, y, z

\* What holds no escape is left as it is.
LEMMA DecodedPlain ==
    ASSUME NEW u \in Seq(Tokens), \A k \in 1..Len(u) : u[k] \notin {"%26", "%3D", "+"}
    PROVE  Decoded(u) = u
<1>1. \A k \in 1..Len(u) : Unescaped(u[k]) = u[k]
    BY DEF Unescaped
<1>. QED
    BY <1>1 DEF Decoded

\* A browser's escapes are undone.
LEMMA DecodedEscapes ==
    ASSUME NEW u \in Seq(Words \cup {"SP", "&", "="})
    PROVE  /\ Escapes(u) \in Seq(Words \cup {"+", "%26", "%3D"})
           /\ Decoded(Escapes(u)) = u
<1>1. \A k \in 1..Len(u) : u[k] \in Words \cup {"SP", "&", "="}
    OBVIOUS
<1>2. \A c \in Words \cup {"SP", "&", "="} :
          Escaped(c) \in Words \cup {"+", "%26", "%3D"} /\ Unescaped(Escaped(c)) = c
    BY WordsAreWords DEF Escaped, Unescaped, Between
<1>3. /\ Escapes(u) \in Seq(Words \cup {"+", "%26", "%3D"}) /\ Len(Escapes(u)) = Len(u)
      /\ \A k \in 1..Len(u) : Escapes(u)[k] = Escaped(u[k])
    BY <1>1, <1>2 DEF Escapes
<1>4. /\ Decoded(Escapes(u)) = [k \in 1..Len(u) |-> Unescaped(Escapes(u)[k])]
    BY <1>3 DEF Decoded
<1>5. \A k \in 1..Len(u) : Unescaped(Escapes(u)[k]) = u[k]
    BY <1>1, <1>2, <1>3
<1>6. u = [k \in 1..Len(u) |-> u[k]]
    OBVIOUS
<1>. QED
    BY <1>3, <1>4, <1>5, <1>6

\* The text of each field of a query or a form, and of each header.
FieldTexts(fields) == [k \in DOMAIN fields |->
    fields[k].key \o <<"=">> \o Escapes(fields[k].value) \o <<"&">>]

HeaderTexts(headers) == [k \in DOMAIN headers |->
    headers[k].key \o <<":", "SP">> \o headers[k].value \o <<CRLF>>]

\* What is read, and to be cut, for the last k fields.
ToRead(fields, k) == Decoded(Ends(FieldTexts(fields))[k])

\* What queries and forms are made of on their way.
Coded == Words \cup {"+", "=", "&", "%26", "%3D"}

LEMMA Separators ==
    ASSUME NEW c \in Between
    PROVE  c \in Tokens /\ <<c>> \in Seq(Tokens)
<1>1. c \in Tokens
    BY WordsAreWords
<1>. QED
    BY <1>1

LEMMA SequenceOf ==
    ASSUME NEW S, NEW l \in Nat, NEW f, f = [k \in 1..l |-> f[k]], \A k \in 1..l : f[k] \in S
    PROVE  f \in Seq(S) /\ Len(f) = l
    OBVIOUS

LEMMA CodedTokens ==
    ASSUME NEW t \in Seq(Coded)
    PROVE  t \in Seq(Tokens) /\ Lacks(t, "SP") /\ Lacks(t, "?") /\ Lacks(t, CRLF)
<1>1. Coded \subseteq Tokens /\ "SP" \notin Coded /\ "?" \notin Coded /\ CRLF \notin Coded
    BY WordsAreWords DEF Coded, Between, CRLF
<1>2. \A k \in 1..Len(t) : t[k] \in Coded
    OBVIOUS
<1>3. t \in Seq(Tokens)
    BY <1>1
<1>. QED
    BY <1>1, <1>2, <1>3 DEF Lacks

LEMMA FieldIs ==
    ASSUME NEW f \in FormFields
    PROVE  /\ f.key \in Seq(Words) /\ f.key \in Seq(Tokens) /\ Decoded(f.key) = f.key
           /\ f.value \in Seq(Words \cup {"SP", "&", "="}) /\ f.value \in Seq(Tokens)
           /\ Lacks(f.key, "=")
           /\ f = [key |-> f.key, value |-> f.value]
<1>1. /\ f.key \in Seq(Words) /\ f.value \in Seq(Words \cup {"SP", "&", "="})
      /\ f = [key |-> f.key, value |-> f.value]
    BY DEF FormFields
<1>2. \A k \in 1..Len(f.key) : f.key[k] \in Words
    BY <1>1
<1>4. Words \subseteq Tokens /\ {"SP", "&", "="} \subseteq Tokens
    BY WordsAreWords DEF Between
<1>5. f.key \in Seq(Tokens) /\ f.value \in Seq(Tokens)
    BY <1>1, <1>4
<1>6. \A c \in Words : c \notin {"=", "&", "%26", "%3D", "+"}
    BY WordsAreWords DEF Between
<1>7. Decoded(f.key) = f.key
    BY <1>2, <1>5, <1>6, DecodedPlain
<1>. QED
    BY <1>1, <1>2, <1>5, <1>6, <1>7 DEF Lacks

LEMMA FieldTextIs ==
    ASSUME NEW f \in FormFields
    PROVE  LET t == f.key \o <<"=">> \o Escapes(f.value) \o <<"&">>
           IN  /\ t \in Seq(Coded) /\ Len(t) > 0 /\ t[Len(t)] = "&"
               /\ Decoded(t) = f.key \o (<<"=">> \o (f.value \o <<"&">>))
<1>. DEFINE a == f.key
            b == Escapes(f.value)
            t == a \o <<"=">> \o b \o <<"&">>
<1>1. /\ a \in Seq(Words) /\ b \in Seq(Words \cup {"+", "%26", "%3D"})
      /\ Decoded(b) = f.value /\ Decoded(a) = a
    BY FieldIs, DecodedEscapes
<1>2. a \in Seq(Coded) /\ b \in Seq(Coded) /\ <<"=">> \in Seq(Coded) /\ <<"&">> \in Seq(Coded)
    BY <1>1 DEF Coded
<1>3. \A x : x \in Seq(Coded) => x \in Seq(Tokens)
    BY CodedTokens
<1>4. Decoded(<<"=">>) = <<"=">> /\ Decoded(<<"&">>) = <<"&">>
    BY DEF Decoded, Unescaped
<1>. HIDE DEF a, b
<1>5. /\ a \o <<"=">> \in Seq(Coded) /\ a \o <<"=">> \o b \in Seq(Coded)
      /\ t \in Seq(Coded) /\ Len(t) > 0 /\ t[Len(t)] = "&"
    <2>1. a \o <<"=">> \in Seq(Coded)
        BY <1>2, JoinedIs
    <2>2. a \o <<"=">> \o b \in Seq(Coded)
        BY <1>2, <2>1, JoinedIs
    <2>. DEFINE z == a \o <<"=">> \o b
    <2>. HIDE DEF z
    <2>3. z \o <<"&">> \in Seq(Coded) /\ Len(z \o <<"&">>) > 0 /\ (z \o <<"&">>)[Len(z \o <<"&">>)] = "&"
        <3>1. z \in Seq(Coded) /\ "&" \in Coded
            BY <2>2 DEF z, Coded
        <3>. QED
            BY <3>1
    <2>. QED
        BY <2>1, <2>2, <2>3 DEF z
<1>6. Decoded(t) = ((a \o <<"=">>) \o f.value) \o <<"&">>
    <2>1. Decoded(a \o <<"=">>) = a \o <<"=">>
        <3>1. Decoded(a \o <<"=">>) = Decoded(a) \o Decoded(<<"=">>)
            BY <1>2, <1>3, DecodedJoined
        <3>. QED
            BY <1>1, <1>4, <3>1
    <2>2. Decoded(a \o <<"=">> \o b) = Decoded(a \o <<"=">>) \o Decoded(b)
        BY <1>2, <1>3, <1>5, DecodedJoined
    <2>3. Decoded(t) = Decoded(a \o <<"=">> \o b) \o Decoded(<<"&">>)
        BY <1>2, <1>3, <1>5, DecodedJoined
    <2>. QED
        BY <1>1, <1>4, <2>1, <2>2, <2>3
<1>7. ((a \o <<"=">>) \o f.value) \o <<"&">> = a \o (<<"=">> \o (f.value \o <<"&">>))
    <2>. DEFINE d == f.value
                p == <<"=">>
                q == <<"&">>
    <2>1. a \in Seq(Tokens) /\ d \in Seq(Tokens) /\ p \in Seq(Tokens) /\ q \in Seq(Tokens)
        BY <1>2, <1>3, FieldIs
    <2>. HIDE DEF d, p, q
    <2>2. d \o q \in Seq(Tokens) /\ a \o p \in Seq(Tokens)
        BY <2>1, JoinedIs
    <2>3. ((a \o p) \o d) \o q = (a \o p) \o (d \o q)
        BY <2>1, <2>2, JoinedTwice, SMTT(30)
    <2>4. (a \o p) \o (d \o q) = a \o (p \o (d \o q))
        BY <2>1, <2>2, JoinedTwice, SMTT(30)
    <2>. QED
        BY <2>3, <2>4 DEF d, p, q
<1>. QED
    BY <1>5, <1>6, <1>7 DEF a, b

\* A field is read before the fewer that are left.
LEMMA ToReadIs ==
    ASSUME NEW fields \in Seq(FormFields)
    PROVE  /\ ToRead(fields, 0) = << >>
           /\ \A k \in 0..Len(fields) : ToRead(fields, k) \in Seq(Tokens)
           /\ \A k \in 1..Len(fields) :
                  LET f == fields[Len(fields) - k + 1]
                  IN  /\ f \in FormFields
                      /\ ToRead(fields, k)
                           = f.key \o (<<"=">> \o (f.value \o (<<"&">> \o ToRead(fields, k - 1))))
           /\ Form(fields) \in Seq(Coded)
           /\ fields = << >> => Form(fields) = << >>
           /\ fields # << >> => Decoded(Form(fields)) \o <<"&">> = ToRead(fields, Len(fields))
<1>. DEFINE l == Len(fields)
            parts == FieldTexts(fields)
            U == Ends(parts)
<1>1. l \in Nat /\ DOMAIN fields = 1..l /\ \A k \in 1..l : fields[k] \in FormFields
    OBVIOUS
<1>2. /\ parts \in Seq(Seq(Coded)) /\ Len(parts) = l
      /\ \A k \in 1..l : /\ parts[k] \in Seq(Coded) /\ Len(parts[k]) > 0
                         /\ parts[k][Len(parts[k])] = "&"
                         /\ Decoded(parts[k]) = fields[k].key \o (<<"=">> \o (fields[k].value \o <<"&">>))
    <2>1. \A k \in 1..l : parts[k] = fields[k].key \o <<"=">> \o Escapes(fields[k].value) \o <<"&">>
        BY <1>1 DEF FieldTexts
    <2>2. \A k \in 1..l : /\ parts[k] \in Seq(Coded) /\ Len(parts[k]) > 0
                          /\ parts[k][Len(parts[k])] = "&"
                          /\ Decoded(parts[k]) = fields[k].key \o (<<"=">> \o (fields[k].value \o <<"&">>))
        <3>. TAKE k \in 1..l
        <3>. DEFINE f == fields[k]
        <3>1. f \in FormFields
            BY <1>1
        <3>. HIDE DEF f
        <3>2. LET t == f.key \o <<"=">> \o Escapes(f.value) \o <<"&">>
              IN  /\ t \in Seq(Coded) /\ Len(t) > 0 /\ t[Len(t)] = "&"
                  /\ Decoded(t) = f.key \o (<<"=">> \o (f.value \o <<"&">>))
            BY <3>1, FieldTextIs
        <3>3. parts[k] = f.key \o <<"=">> \o Escapes(f.value) \o <<"&">>
            BY <2>1 DEF f
        <3>. QED
            BY <3>2, <3>3 DEF f
    <2>3. parts = [k \in 1..l |-> parts[k]]
        BY <1>1 DEF FieldTexts
    <2>. HIDE DEF parts
    <2>4. parts \in Seq(Seq(Coded)) /\ Len(parts) = l
        <3>1. \A k \in 1..l : parts[k] \in Seq(Coded)
            BY <2>2
        <3>. QED
            BY <1>1, <2>3, <3>1, SequenceOf
    <2>. QED
        BY <2>2, <2>4
<1>. HIDE DEF parts
<1>3. /\ U \in [0..l -> Seq(Coded)] /\ U[0] = << >>
      /\ \A k \in 1..l : U[k] = parts[l - k + 1] \o U[k - 1]
    BY <1>2, EndsAre
<1>. HIDE DEF U
<1>4. \A k \in 0..l : U[k] \in Seq(Coded) /\ U[k] \in Seq(Tokens) /\ Decoded(U[k]) \in Seq(Tokens)
                      /\ ToRead(fields, k) = Decoded(U[k])
    BY <1>3, CodedTokens, DecodedJoined, NoneJoined DEF ToRead, U, parts
<1>5. ToRead(fields, 0) = << >>
    <2>1. Decoded(<< >>) = << >>
        BY DEF Decoded
    <2>. QED
        BY <1>1, <1>3, <1>4, <2>1
<1>6. ASSUME NEW k \in 1..l
      PROVE  /\ fields[l - k + 1] \in FormFields
             /\ ToRead(fields, k) = fields[l - k + 1].key \o (<<"=">> \o (fields[l - k + 1].value
                                        \o (<<"&">> \o ToRead(fields, k - 1))))
    <2>. DEFINE e == l - k + 1
                f == fields[e]
    <2>1. e \in 1..l /\ k - 1 \in 0..l /\ k \in 0..l
        BY <1>1
    <2>2. f \in FormFields
        BY <1>1, <2>1
    <2>3. U[k] = parts[e] \o U[k - 1]
        BY <1>3
    <2>. HIDE DEF e, f
    <2>4. parts[e] \in Seq(Tokens) /\ U[k - 1] \in Seq(Tokens)
        BY <1>2, <1>4, <2>1, CodedTokens
    <2>5. Decoded(U[k]) = Decoded(parts[e]) \o Decoded(U[k - 1])
        BY <2>3, <2>4, DecodedJoined
    <2>6. Decoded(parts[e]) = f.key \o (<<"=">> \o (f.value \o <<"&">>))
        BY <1>2, <2>1 DEF f
    <2>. DEFINE x == Decoded(U[k - 1])
                a == f.key
                b == f.value
    <2>7. a \in Seq(Tokens) /\ b \in Seq(Tokens) /\ x \in Seq(Tokens)
        BY <1>4, <2>1, <2>2, FieldIs
    <2>. HIDE DEF x, a, b
    <2>8. <<"=">> \in Seq(Tokens) /\ <<"&">> \in Seq(Tokens)
        BY Separators DEF Between
    <2>9. (a \o (<<"=">> \o (b \o <<"&">>))) \o x = a \o (<<"=">> \o (b \o (<<"&">> \o x)))
        <3>1. b \o <<"&">> \in Seq(Tokens) /\ <<"=">> \o (b \o <<"&">>) \in Seq(Tokens)
            BY <2>7, <2>8, JoinedIs
        <3>2. (a \o (<<"=">> \o (b \o <<"&">>))) \o x = a \o ((<<"=">> \o (b \o <<"&">>)) \o x)
            <4>. DEFINE v == <<"=">> \o (b \o <<"&">>)
            <4>. HIDE DEF v
            <4>1. Triple(Tokens, a, v, x)
                BY <2>7, <3>1 DEF Triple, v
            <4>2. (a \o v) \o x = a \o (v \o x)
                BY ONLY <4>1, TripleJoined
            <4>. QED
                BY <4>2 DEF v
        <3>3. (<<"=">> \o (b \o <<"&">>)) \o x = <<"=">> \o ((b \o <<"&">>) \o x)
            BY <2>7, <2>8, <3>1, JoinedTwice
        <3>4. (b \o <<"&">>) \o x = b \o (<<"&">> \o x)
            BY <2>7, <2>8, JoinedTwice
        <3>. QED
            BY <3>2, <3>3, <3>4
    <2>. QED
        BY <1>4, <2>1, <2>2, <2>5, <2>6, <2>9 DEF x, a, b, e, f
<1>7. Form(fields) = SubSeq(U[l], 1, Len(U[l]) - 1)
    <2>1. Form(fields) = SubSeq(Joined(parts), 1, Len(Joined(parts)) - 1)
        BY DEF Form, FieldTexts, parts
    <2>2. Joined(parts) = U[l]
        BY <1>2 DEF Joined, U
    <2>. QED
        BY <2>1, <2>2
<1>8. ASSUME fields # << >>
      PROVE  /\ Form(fields) \in Seq(Coded)
             /\ Decoded(Form(fields)) \o <<"&">> = ToRead(fields, l)
    <2>. DEFINE P == {k \in 0..l : k = 0 \/ (Len(U[k]) > 0 /\ U[k][Len(U[k])] = "&")}
    <2>1. 0 \in P
        BY <1>1
    <2>2. ASSUME NEW k \in 0..l, k \in P, k < l PROVE k + 1 \in P
        <3>. DEFINE e == k + 1
        <3>1. e \in 1..l /\ e - 1 = k /\ e \in 0..l /\ l - e + 1 \in 1..l
            BY <1>1, <2>2
        <3>. HIDE DEF e
        <3>. DEFINE a == parts[l - e + 1]
                    b == U[k]
        <3>2. U[e] = a \o b
            BY <1>3, <3>1
        <3>3. /\ a \in Seq(Coded) /\ b \in Seq(Coded) /\ Len(a) > 0 /\ a[Len(a)] = "&"
            BY <1>2, <1>4, <3>1
        <3>4. k = 0 => b = << >>
            BY <1>3
        <3>5. k # 0 => Len(b) > 0 /\ b[Len(b)] = "&"
            BY <2>2
        <3>. HIDE DEF a, b
        <3>6. Len(a \o b) > 0 /\ (a \o b)[Len(a \o b)] = "&"
            <4>1. CASE k = 0
                BY <3>3, <3>4, <4>1
            <4>2. CASE k # 0
                BY <3>3, <3>5, <4>2
            <4>. QED
                BY <4>1, <4>2
        <3>7. e \in P
            BY <3>1, <3>2, <3>6
        <3>. QED
            BY <3>7 DEF e
    <2>3. 0..l \subseteq P
        <3>. HIDE DEF P
        <3>. QED
            BY <1>1, <2>1, <2>2, UpTo
    <2>. DEFINE y == U[l]
                z == SubSeq(y, 1, Len(y) - 1)
    <2>4. l \in 0..l /\ l # 0
        BY <1>1, <1>8
    <2>5. y \in Seq(Coded) /\ Len(y) > 0 /\ y[Len(y)] = "&"
        BY <1>4, <2>3, <2>4
    <2>. HIDE DEF y
    <2>6. z \in Seq(Coded) /\ y = z \o <<"&">>
        <3>0. Len(y) \in Nat /\ Len(y) - 1 \in 0..Len(y)
            BY <2>5
        <3>1. z \in Seq(Coded) /\ Len(z) = Len(y) - 1 /\ \A k \in 1..(Len(y) - 1) : z[k] = y[k]
            <4>1. z \in Seq(Coded) /\ Len(z) = Len(y) - 1
                BY <2>5, <3>0, SplitAt
            <4>2. \A k \in 1..(Len(y) - 1) : z[k] = y[k]
                BY <3>0
            <4>. QED
                BY <4>1, <4>2
        <3>. HIDE DEF z
        <3>2. "&" \in Coded
            BY DEF Coded
        <3>. DEFINE d == z \o <<"&">>
        <3>3. d \in Seq(Coded) /\ Len(d) = Len(y) /\ \A k \in 1..Len(y) : d[k] = y[k]
            BY <2>5, <3>1, <3>2
        <3>. HIDE DEF d
        <3>4. d = y
            BY <2>5, <3>3
        <3>. QED
            BY <3>1, <3>4 DEF d
    <2>. HIDE DEF z
    <2>7. z \in Seq(Tokens) /\ <<"&">> \in Seq(Tokens)
        BY <2>6, CodedTokens, Separators DEF Between
    <2>8. Decoded(y) = Decoded(z) \o Decoded(<<"&">>)
        BY <2>6, <2>7, DecodedJoined
    <2>9. Decoded(<<"&">>) = <<"&">>
        BY DEF Decoded, Unescaped
    <2>10. Form(fields) = z
        BY <1>7 DEF y, z
    <2>. QED
        BY <1>4, <2>4, <2>6, <2>8, <2>9, <2>10 DEF y
<1>9. ASSUME fields = << >> PROVE Form(fields) = << >>
    <2>1. l = 0
        BY <1>9
    <2>2. SubSeq(<< >>, 1, Len(<< >>) - 1) = << >>
        OBVIOUS
    <2>. QED
        BY <1>3, <1>7, <2>1, <2>2
<1>10. Form(fields) \in Seq(Coded)
    BY <1>8, <1>9
<1>. QED
    BY <1>4, <1>5, <1>6, <1>8, <1>9, <1>10

\* A header's line without its end, and the lines of the last k headers.
Line(h) == h.key \o (<<":">> \o (<<"SP">> \o h.value))

LinesLeft(headers, k) == Ends(HeaderTexts(headers))[k]

LEMMA LineIs ==
    ASSUME NEW h \in HeaderFields
    PROVE  /\ h.key \in Seq(Words) /\ h.value \in Seq(Words \cup Between) /\ h.value \in Seq(Tokens)
           /\ Line(h) \in Seq(Tokens) /\ Lacks(Line(h), CRLF) /\ Line(h) # << >>
           /\ Until(Line(h), ":") = h.key
           /\ Behind(Line(h), ":") = <<"SP">> \o h.value
           /\ h.key \o <<":", "SP">> \o h.value \o <<CRLF>> = Line(h) \o <<CRLF>>
<1>. DEFINE a == h.key
            b == h.value
            p == <<":">>
            q == <<"SP">>
            z == <<CRLF>>
<1>1. a \in Seq(Words) /\ b \in Seq(Words \cup Between)
    BY DEF HeaderFields
<1>2. a \in Seq(Tokens) /\ b \in Seq(Tokens)
    <2>1. Words \subseteq Tokens /\ Words \cup Between \subseteq Tokens
        BY WordsAreWords
    <2>. QED
        BY <1>1, <2>1
<1>3. p \in Seq(Tokens) /\ q \in Seq(Tokens) /\ z \in Seq(Tokens) /\ ":" \in Tokens
    <2>1. ":" \in Between /\ "SP" \in Between
        BY DEF Between
    <2>2. CRLF \in Tokens
        BY WordsAreWords
    <2>. QED
        BY <2>1, <2>2, Separators
<1>4. /\ Lacks(p, CRLF) /\ Lacks(q, CRLF)
    BY DEF Lacks, CRLF
<1>5. \A k \in 1..Len(a) : a[k] \in Words
    BY <1>1
<1>6. \A k \in 1..Len(b) : b[k] \in Words \cup Between
    BY <1>1
<1>7. Lacks(a, CRLF) /\ Lacks(a, ":") /\ Lacks(b, CRLF)
    BY <1>5, <1>6, WordsAreWords DEF Lacks, Between
<1>8. Len(p) = 1
    OBVIOUS
<1>8a. <<":", "SP">> = p \o q
    OBVIOUS
<1>. HIDE DEF a, b, q, z
<1>9. q \o b \in Seq(Tokens) /\ Lacks(q \o b, CRLF)
    BY <1>2, <1>3, <1>4, <1>7, JoinedIs, LacksJoined
<1>. DEFINE c == q \o b
<1>9a. c \in Seq(Tokens)
    BY <1>9
<1>. HIDE DEF c
<1>10. Until(a \o (p \o c), ":") = a /\ Behind(a \o (p \o c), ":") = c
    BY <1>2, <1>3, <1>7, <1>9a, AtFirst
<1>. HIDE DEF p
<1>11. p \o c \in Seq(Tokens) /\ Lacks(p \o c, CRLF)
    BY <1>3, <1>4, <1>9, JoinedIs, LacksJoined DEF c
<1>12. a \o (p \o c) \in Seq(Tokens) /\ Lacks(a \o (p \o c), CRLF)
    BY <1>2, <1>7, <1>11, JoinedIs, LacksJoined
<1>13. a \o (p \o c) # << >>
    <2>1. Len(p \o c) = Len(p) + Len(c) /\ Len(c) \in Nat
        BY <1>3, <1>9, JoinedIs DEF c
    <2>2. Len(a \o (p \o c)) = Len(a) + Len(p \o c) /\ Len(a) \in Nat
        BY <1>2, <1>11, JoinedIs
    <2>3. Len(a \o (p \o c)) # 0
        BY <1>8, <2>1, <2>2
    <2>. QED
        BY <2>3
<1>14. ((a \o (p \o q)) \o b) \o z = (a \o (p \o (q \o b))) \o z
    <2>. DEFINE d == p \o q
    <2>1. d \in Seq(Tokens)
        BY <1>3, JoinedIs
    <2>. HIDE DEF d
    <2>2. (a \o d) \o b = a \o (d \o b)
        BY <1>2, <2>1, JoinedTwice
    <2>3. (p \o q) \o b = p \o (q \o b)
        <3>1. p \in Seq(Tokens) /\ q \in Seq(Tokens) /\ b \in Seq(Tokens)
            BY <1>2, <1>3
        <3>. QED
            BY <3>1, JoinedTwice
    <2>. QED
        BY <2>2, <2>3 DEF d
<1>15. Line(h) = a \o (p \o c)
    BY DEF Line, a, b, c, p, q
<1>. QED
    <2>1. h.key \o <<":", "SP">> \o h.value \o <<CRLF>> = Line(h) \o <<CRLF>>
        BY <1>8a, <1>14, <1>15 DEF a, b, z, c
    <2>2. /\ h.key \in Seq(Words) /\ h.value \in Seq(Words \cup Between) /\ h.value \in Seq(Tokens)
        BY <1>1, <1>2 DEF a, b
    <2>3. /\ Until(Line(h), ":") = h.key /\ Behind(Line(h), ":") = <<"SP">> \o h.value
        BY <1>10, <1>15 DEF a, b, c, q
    <2>. QED
        BY <1>12, <1>13, <1>15, <2>1, <2>2, <2>3

\* A header's line is read before those that are left.
LEMMA LinesLeftIs ==
    ASSUME NEW headers \in Seq(HeaderFields)
    PROVE  /\ LinesLeft(headers, 0) = << >>
           /\ \A k \in 0..Len(headers) : LinesLeft(headers, k) \in Seq(Tokens)
           /\ \A k \in 1..Len(headers) :
                  LET h == headers[Len(headers) - k + 1]
                  IN  /\ h \in HeaderFields
                      /\ LinesLeft(headers, k) = Line(h) \o (<<CRLF>> \o LinesLeft(headers, k - 1))
           /\ HeaderLines(headers) = LinesLeft(headers, Len(headers))
<1>. DEFINE l == Len(headers)
            parts == HeaderTexts(headers)
            U == Ends(parts)
<1>1. l \in Nat /\ DOMAIN headers = 1..l /\ \A k \in 1..l : headers[k] \in HeaderFields
    OBVIOUS
<1>2. \A k \in 1..l : parts[k] = Line(headers[k]) \o <<CRLF>>
    <2>1. \A k \in 1..l : parts[k] = headers[k].key \o <<":", "SP">> \o headers[k].value \o <<CRLF>>
        BY <1>1 DEF HeaderTexts
    <2>. HIDE DEF parts
    <2>. QED
        BY <1>1, <2>1, LineIs
<1>3. ASSUME NEW k \in 1..l PROVE Line(headers[k]) \in Seq(Tokens)
    <2>1. headers[k] \in HeaderFields
        BY <1>1
    <2>. QED
        BY <2>1, LineIs
<1>4. <<CRLF>> \in Seq(Tokens)
    <2>1. CRLF \in Tokens
        BY WordsAreWords
    <2>. QED
        BY <2>1
<1>5. /\ parts \in Seq(Seq(Tokens)) /\ Len(parts) = l
    <2>1. parts = [k \in 1..l |-> parts[k]]
        BY <1>1 DEF HeaderTexts
    <2>. HIDE DEF parts
    <2>2. ASSUME NEW k \in 1..l PROVE parts[k] \in Seq(Tokens)
        <3>. DEFINE a == Line(headers[k])
        <3>1. a \in Seq(Tokens) /\ parts[k] = a \o <<CRLF>>
            BY <1>2, <1>3
        <3>. HIDE DEF a
        <3>. QED
            BY <1>4, <3>1, JoinedIs
    <2>. QED
        BY <1>1, <2>1, <2>2, SequenceOf
<1>6. HeaderLines(headers) = Joined(parts)
    BY DEF HeaderLines, HeaderTexts
<1>. HIDE DEF parts
<1>7. /\ U \in [0..l -> Seq(Tokens)] /\ U[0] = << >>
      /\ \A k \in 1..l : U[k] = parts[l - k + 1] \o U[k - 1]
    BY <1>5, EndsAre
<1>8. \A k \in 0..l : LinesLeft(headers, k) = U[k]
    BY DEF LinesLeft, parts
<1>9. HeaderLines(headers) = U[l]
    BY <1>5, <1>6 DEF Joined
<1>. HIDE DEF U
<1>10. ASSUME NEW k \in 1..l
       PROVE  /\ headers[l - k + 1] \in HeaderFields
              /\ U[k] = Line(headers[l - k + 1]) \o (<<CRLF>> \o U[k - 1])
    <2>. DEFINE e == l - k + 1
    <2>1. e \in 1..l /\ k - 1 \in 0..l
        BY <1>1
    <2>2. U[k] = parts[e] \o U[k - 1]
        BY <1>7
    <2>. HIDE DEF e
    <2>3. U[k] = (Line(headers[e]) \o <<CRLF>>) \o U[k - 1]
        BY <1>2, <2>1, <2>2
    <2>4. U[k - 1] \in Seq(Tokens) /\ Line(headers[e]) \in Seq(Tokens) /\ headers[e] \in HeaderFields
        BY <1>1, <1>3, <1>7, <2>1
    <2>. DEFINE a == Line(headers[e])
                b == U[k - 1]
    <2>4a. a \in Seq(Tokens) /\ b \in Seq(Tokens)
        BY <2>4
    <2>. HIDE DEF a, b
    <2>5. (a \o <<CRLF>>) \o b = a \o (<<CRLF>> \o b)
        BY <1>4, <2>4a, JoinedTwice
    <2>. QED
        BY <2>3, <2>4, <2>5 DEF e, a, b
<1>11. /\ 0 \in 0..l /\ l \in 0..l /\ \A k \in 1..l : k \in 0..l /\ k - 1 \in 0..l
    BY <1>1
<1>. QED
    BY <1>7, <1>8, <1>9, <1>10, <1>11

---------------------------------------------------------------------------
(* The text of a request *)

\* The address in the request line, and all that comes behind the line.
Address(r) == r.path \o (IF r.query = << >> THEN << >> ELSE <<"?">> \o Form(r.query))

BehindLine(r) == HeaderLines(r.headers) \o (<<CRLF>> \o Form(r.form))

LEMMA SentIs ==
    ASSUME NEW r \in Sendable
    PROVE  /\ r.method \in Words /\ r.version \in Words /\ r.path \in Seq(Words \cup {"/"})
           /\ r.query \in Seq(FormFields) /\ r.form \in Seq(FormFields)
           /\ r.headers \in Seq(HeaderFields)
    BY HttpRequestAssumption

LEMMA AddressIs ==
    ASSUME NEW r \in Sendable
    PROVE  /\ r.path \in Seq(Tokens) /\ Lacks(r.path, "?")
           /\ Form(r.query) \in Seq(Tokens)
           /\ Address(r) \in Seq(Tokens) /\ Lacks(Address(r), "SP") /\ Lacks(Address(r), CRLF)
           /\ r.query = << >> => Address(r) = r.path
           /\ r.query # << >> => Address(r) = r.path \o (<<"?">> \o Form(r.query))
<1>. DEFINE f == Form(r.query)
            p == r.path
<1>1. p \in Seq(Words \cup {"/"}) /\ r.query \in Seq(FormFields)
    BY SentIs
<1>2. /\ Words \cup {"/"} \subseteq Tokens /\ "?" \notin Words \cup {"/"}
      /\ "SP" \notin Words \cup {"/"} /\ CRLF \notin Words \cup {"/"}
    BY WordsAreWords DEF Between
<1>3. \A k \in 1..Len(p) : p[k] \in Words \cup {"/"}
    BY <1>1
<1>4. p \in Seq(Tokens) /\ Lacks(p, "?") /\ Lacks(p, "SP") /\ Lacks(p, CRLF)
    BY <1>1, <1>2, <1>3 DEF Lacks
<1>5. f \in Seq(Tokens) /\ Lacks(f, "SP") /\ Lacks(f, CRLF)
    <2>1. f \in Seq(Coded)
        BY <1>1, ToReadIs
    <2>. QED
        BY <2>1, CodedTokens
<1>. DEFINE q == <<"?">>
<1>6. q \in Seq(Tokens) /\ Lacks(q, "SP") /\ Lacks(q, CRLF)
    <2>1. q \in Seq(Tokens)
        BY Separators DEF Between
    <2>2. "?" # CRLF
        BY DEF CRLF
    <2>. QED
        BY <2>1, <2>2 DEF Lacks
<1>. HIDE DEF f, p, q
<1>7. q \o f \in Seq(Tokens) /\ Lacks(q \o f, "SP") /\ Lacks(q \o f, CRLF)
    BY <1>5, <1>6, JoinedIs, LacksJoined
<1>. DEFINE y == q \o f
<1>. HIDE DEF y
<1>8. p \o y \in Seq(Tokens) /\ Lacks(p \o y, "SP") /\ Lacks(p \o y, CRLF)
    BY <1>4, <1>7, JoinedIs, LacksJoined DEF y
<1>9. p \o << >> = p
    BY <1>4, NoneJoined
<1>. QED
    BY <1>4, <1>5, <1>8, <1>9 DEF Address, f, p, q, y

LEMMA RequestTextIs ==
    ASSUME NEW r \in Sendable
    PROVE  /\ BehindLine(r) \in Seq(Tokens) /\ RequestText(r) \in Seq(Tokens)
           /\ Form(r.form) \in Seq(Tokens)
           /\ RequestText(r) = <<r.method>> \o (<<"SP">> \o (Address(r) \o (<<"SP">>
                                  \o (<<r.version>> \o (<<CRLF>> \o BehindLine(r))))))
<1>. DEFINE a == <<r.method>>
            p == <<"SP">>
            b == r.path
            d == IF r.query = << >> THEN << >> ELSE <<"?">> \o Form(r.query)
            e == <<r.version>>
            z == <<CRLF>>
            h == HeaderLines(r.headers)
            f == Form(r.form)
<1>1. a \in Seq(Tokens) /\ e \in Seq(Tokens) /\ p \in Seq(Tokens) /\ z \in Seq(Tokens)
    <2>1. r.method \in Tokens /\ r.version \in Tokens
        BY SentIs, WordsAreWords
    <2>2. p \in Seq(Tokens)
        BY Separators DEF Between
    <2>3. CRLF \in Tokens
        BY WordsAreWords
    <2>. QED
        BY <2>1, <2>2, <2>3
<1>2. b \in Seq(Tokens) /\ d \in Seq(Tokens)
    <2>1. Form(r.query) \in Seq(Tokens) /\ b \in Seq(Tokens)
        BY AddressIs
    <2>2. <<"?">> \in Seq(Tokens)
        BY Separators DEF Between
    <2>3. <<"?">> \o Form(r.query) \in Seq(Tokens) /\ << >> \in Seq(Tokens)
        BY <2>1, <2>2, JoinedIs, NoneJoined
    <2>. QED
        BY <2>1, <2>3
<1>3. h \in Seq(Tokens)
    <2>1. r.headers \in Seq(HeaderFields) /\ Len(r.headers) \in 0..Len(r.headers)
        BY SentIs
    <2>. QED
        BY <2>1, LinesLeftIs
<1>4. f \in Seq(Tokens)
    BY SentIs, ToReadIs, CodedTokens
<1>5. RequestText(r) = (((((a \o p) \o b) \o d) \o ((p \o e) \o z)) \o h) \o z \o f
    <2>1. <<r.method, "SP">> = a \o p /\ <<"SP", r.version, CRLF>> = (p \o e) \o z
        OBVIOUS
    <2>. QED
        BY <2>1 DEF RequestText
<1>6. Address(r) = b \o d /\ BehindLine(r) = h \o (z \o f)
    BY DEF Address, BehindLine
<1>. HIDE DEF a, p, b, d, e, z, h, f
<1>7. h \o (z \o f) \in Seq(Tokens) /\ z \o f \in Seq(Tokens)
    BY <1>1, <1>3, <1>4, JoinedIs
<1>8. RequestText(r) = a \o (p \o ((b \o d) \o (p \o (e \o (z \o (h \o (z \o f)))))))
    <2>. DEFINE g == a \o p
                w == b \o d
                o == p \o e
                x == z \o f
    <2>1. g \in Seq(Tokens) /\ w \in Seq(Tokens) /\ o \in Seq(Tokens) /\ x \in Seq(Tokens)
        BY <1>1, <1>2, <1>7, JoinedIs
    <2>. HIDE DEF g, w, o, x
    <2>. DEFINE c == o \o z
                y == h \o x
                u == g \o w
    <2>2. c \in Seq(Tokens) /\ y \in Seq(Tokens) /\ u \in Seq(Tokens)
        BY <1>1, <1>3, <2>1, JoinedIs
    <2>3. (g \o b) \o d = u
        <3>1. g \in Seq(Tokens) /\ b \in Seq(Tokens) /\ d \in Seq(Tokens)
            BY <1>2, <2>1
        <3>2. (g \o b) \o d = g \o (b \o d)
            BY <3>1, JoinedTwice
        <3>. QED
            BY <3>2 DEF w
    <2>4. RequestText(r) = (((u \o c) \o h) \o z) \o f
        BY <1>5, <2>3 DEF g, o
    <2>. HIDE DEF c, y, u
    <2>. DEFINE l == u \o c
                k == z \o y
                q == c \o y
    <2>5. l \in Seq(Tokens) /\ k \in Seq(Tokens) /\ q \in Seq(Tokens)
        BY <1>1, <2>2, JoinedIs
    <2>5a. l \o y = u \o q
        BY <2>2, JoinedTwice
    <2>5b. q = o \o k
        <3>1. o \in Seq(Tokens) /\ z \in Seq(Tokens) /\ y \in Seq(Tokens)
            BY <1>1, <2>1, <2>2
        <3>. QED
            BY <3>1, JoinedTwice DEF c
    <2>. HIDE DEF l, k, q
    <2>. DEFINE v == l \o h
                t == w \o q
    <2>6. v \in Seq(Tokens) /\ t \in Seq(Tokens)
        <3>1. l \in Seq(Tokens) /\ h \in Seq(Tokens) /\ w \in Seq(Tokens) /\ q \in Seq(Tokens)
            BY <1>3, <2>1, <2>5
        <3>. QED
            BY <3>1, JoinedIs
    <2>6a. v \o x = l \o y
        <3>1. l \in Seq(Tokens) /\ h \in Seq(Tokens) /\ x \in Seq(Tokens)
            BY <1>3, <2>1, <2>5
        <3>. QED
            BY <3>1, JoinedTwice DEF y
    <2>6b. u \o q = g \o t
        <3>1. g \in Seq(Tokens) /\ w \in Seq(Tokens) /\ q \in Seq(Tokens)
            BY <2>1, <2>5
        <3>. QED
            BY <3>1, JoinedTwice DEF u
    <2>. HIDE DEF v, t
    <2>7. RequestText(r) = v \o x
        <3>1. (v \o z) \o f = v \o x
            <4>1. v \in Seq(Tokens) /\ z \in Seq(Tokens) /\ f \in Seq(Tokens)
                BY <1>1, <1>4, <2>6
            <4>. QED
                BY <4>1, JoinedTwice DEF x
        <3>. QED
            BY <2>4, <3>1 DEF v, l
    <2>8. g \o t = a \o (p \o t)
        <3>1. a \in Seq(Tokens) /\ p \in Seq(Tokens) /\ t \in Seq(Tokens)
            BY <1>1, <2>6
        <3>. QED
            BY <3>1, JoinedTwice DEF g
    <2>9. o \o k = p \o (e \o k)
        <3>1. p \in Seq(Tokens) /\ e \in Seq(Tokens) /\ k \in Seq(Tokens)
            BY <1>1, <2>5
        <3>. QED
            BY <3>1, JoinedTwice DEF o
    <2>10. RequestText(r) = a \o (p \o t)
        BY <2>5a, <2>6a, <2>6b, <2>7, <2>8
    <2>. QED
        BY <2>5b, <2>9, <2>10 DEF t, w, k, y, x
<1>9. RequestText(r) \in Seq(Tokens)
    <2>1. b \o d \in Seq(Tokens) /\ z \o (h \o (z \o f)) \in Seq(Tokens)
        BY <1>1, <1>2, <1>7, JoinedIs
    <2>2. e \o (z \o (h \o (z \o f))) \in Seq(Tokens)
        BY <1>1, <2>1, JoinedIs
    <2>3. p \o (e \o (z \o (h \o (z \o f)))) \in Seq(Tokens)
        BY <1>1, <2>2, JoinedIs
    <2>4. (b \o d) \o (p \o (e \o (z \o (h \o (z \o f))))) \in Seq(Tokens)
        BY <2>1, <2>3, JoinedIs
    <2>5. p \o ((b \o d) \o (p \o (e \o (z \o (h \o (z \o f)))))) \in Seq(Tokens)
        BY <1>1, <2>4, JoinedIs
    <2>. QED
        BY <1>1, <1>8, <2>5, JoinedIs
<1>. QED
    BY <1>4, <1>6, <1>7, <1>8, <1>9 DEF a, p, e, z, f

Texts(S, u, w, x, y) == u \in Seq(S) /\ w \in Seq(S) /\ x \in Seq(S) /\ y \in Seq(S)

LEMMA JoinedInner ==
    ASSUME NEW S, NEW u, NEW w, NEW x, NEW y, Texts(S, u, w, x, y)
    PROVE  (u \o (w \o x)) \o y = u \o (w \o (x \o y))
    BY SMTT(60) DEF Texts

LEMMA JoinedThrice ==
    ASSUME NEW S, NEW u, NEW w, NEW x, NEW y, Texts(S, u, w, x, y)
    PROVE  ((u \o w) \o x) \o y = u \o (w \o (x \o y))
    BY SMTT(60) DEF Texts

---------------------------------------------------------------------------
(* Fields *)

LEMMA NothingToLex == ~ Lexes(<< >>) /\ ~ Lexes(<<"&">>)
<1>1. /\ << >> \in Seq(Tokens) /\ <<"&">> \in Seq(Tokens)
    BY NoneJoined, Separators DEF Between
<1>2. Lacks(<< >>, "=") /\ Lacks(<<"&">>, "=")
    BY DEF Lacks
<1>3. Position(<< >>, "=") = 0 /\ Position(<<"&">>, "=") = 0
    BY <1>1, <1>2, PositionNone
<1>. QED
    BY <1>3 DEF Lexes

\* Text that begins with a key, a "=", a value and a "&" is lexed as they are.
LEMMA LexedIs ==
    ASSUME NEW a \in Seq(Tokens), NEW b \in Seq(Tokens), NEW w \in Seq(Tokens),
           Lacks(a, "="), Lacks(a, "&"), Lacks(b, "&")
    PROVE  LET t == a \o (<<"=">> \o (b \o (<<"&">> \o w)))
           IN  Lexes(t) /\ Lexed(t) = [key |-> a, value |-> b] /\ Behind(t, "&") = w
<1>. DEFINE p == <<"=">>
            q == <<"&">>
            x == q \o w
<1>1. "=" \in Tokens /\ "&" \in Tokens /\ p \in Seq(Tokens) /\ q \in Seq(Tokens)
    BY Separators DEF Between
<1>2. x \in Seq(Tokens)
    BY <1>1, JoinedIs
<1>3. Lacks(p, "&")
    BY DEF Lacks
<1>. DEFINE d == b \o (<<"&">> \o w)
<1>4. d \in Seq(Tokens)
    BY <1>2, JoinedIs
<1>5. Position(d, "&") = Len(b) + 1 /\ Until(d, "&") = b
    BY <1>1, AtFirst
<1>. HIDE DEF d
<1>. DEFINE t == a \o (<<"=">> \o d)
<1>6. Position(t, "=") = Len(a) + 1 /\ Until(t, "=") = a /\ Behind(t, "=") = d
    BY <1>1, <1>4, AtFirst
<1>7. t = ((a \o p) \o b) \o x
    <2>. HIDE DEF p, x
    <2>1. ((a \o p) \o b) \o x = a \o (p \o (b \o x))
        <3>1. p \in Seq(Tokens) /\ x \in Seq(Tokens)
            BY <1>1, <1>2
        <3>2. Texts(Tokens, a, p, b, x)
            BY <3>1 DEF Texts
        <3>. QED
            BY <3>2, JoinedThrice
    <2>. QED
        BY <2>1 DEF d, p, x
<1>8. Behind(t, "&") = w
    <2>. DEFINE u == (a \o p) \o b
    <2>. HIDE DEF p
    <2>1. a \o p \in Seq(Tokens) /\ Lacks(a \o p, "&")
        BY <1>1, <1>3, JoinedIs, LacksJoined
    <2>2. u \in Seq(Tokens) /\ Lacks(u, "&")
        BY <2>1, JoinedIs, LacksJoined
    <2>3. t = u \o x
        BY <1>7
    <2>. HIDE DEF u, t
    <2>4. Behind(u \o (<<"&">> \o w), "&") = w
        BY <1>1, <2>2, AtFirst
    <2>. QED
        BY <2>3, <2>4
<1>9. Len(a) \in Nat /\ Len(b) \in Nat
    OBVIOUS
<1>10. Lexes(t) /\ Lexed(t) = [key |-> a, value |-> b]
    <2>. HIDE DEF t
    <2>. QED
        BY <1>5, <1>6, <1>9 DEF Lexes, Lexed
<1>. QED
    BY <1>8, <1>10 DEF d

LEMMA FieldLacks ==
    ASSUME NEW f \in FormFields
    PROVE  Lacks(f.key, "&")
<1>1. \A k \in 1..Len(f.key) : f.key[k] \in Words
    BY FieldIs
<1>. QED
    BY <1>1, WordsAreWords DEF Lacks, Between

LEMMA PlainIs ==
    ASSUME NEW fields \in Seq(FormFields), NEW k \in 1..Len(fields), Plain(fields)
    PROVE  Lacks(fields[k].value, "&")
<1>. DEFINE v == fields[k].value
<1>1. Position(v, "&") = 0
    BY DEF Plain
<1>2. v \in Seq(Tokens)
    <2>1. fields[k] \in FormFields
        OBVIOUS
    <2>. QED
        BY <2>1, FieldIs
<1>. HIDE DEF v
<1>3. Lacks(v, "&")
    BY <1>1, <1>2, PositionIs
<1>. QED
    BY <1>3 DEF v

\* A whole field is read as it was sent.
LEMMA WholeField ==
    ASSUME NEW fields \in Seq(FormFields), NEW k \in 1..Len(fields), Plain(fields)
    PROVE  LET t == ToRead(fields, k)
           IN  /\ Lexes(t) /\ Lexed(t) = fields[Len(fields) - k + 1]
               /\ Behind(t, "&") = ToRead(fields, k - 1)
<1>. DEFINE f == fields[Len(fields) - k + 1]
            w == ToRead(fields, k - 1)
<1>1. /\ f \in FormFields
      /\ ToRead(fields, k) = f.key \o (<<"=">> \o (f.value \o (<<"&">> \o w)))
    BY ToReadIs
<1>2. w \in Seq(Tokens)
    <2>1. k - 1 \in 0..Len(fields)
        OBVIOUS
    <2>. QED
        BY <2>1, ToReadIs
<1>. HIDE DEF f, w
<1>. DEFINE a == f.key
            b == f.value
<1>3. /\ a \in Seq(Tokens) /\ b \in Seq(Tokens) /\ Lacks(a, "=") /\ Lacks(b, "&") /\ Lacks(a, "&")
      /\ f = [key |-> a, value |-> b]
    <2>1. Len(fields) - k + 1 \in 1..Len(fields)
        OBVIOUS
    <2>2. Lacks(f.value, "&")
        BY <2>1, PlainIs DEF f
    <2>. QED
        BY <1>1, <2>2, FieldIs, FieldLacks
<1>4. ToRead(fields, k) = a \o (<<"=">> \o (b \o (<<"&">> \o w)))
    BY <1>1
<1>. HIDE DEF a, b
<1>. QED
    BY <1>2, <1>3, <1>4, LexedIs DEF f, w

\* An entry is a field, or a field with the end of its value missing.
Shortened(e, f) ==
    /\ e.key = f.key /\ Len(e.value) <= Len(f.value)
    /\ \A k \in 1..Len(e.value) : e.value[k] = f.value[k]

\* What is left to read, after b, of a form that was cut where g begins.
CutLeft(fields, k, t, g) ==
    \E b \in Seq(Tokens) : t = b \o <<"&">> /\ b \o (g \o <<"&">>) = ToRead(fields, k)

\* A field of a form that was cut is read as it was sent, or short of the end of its value,
\* and then it is the last.
LEMMA CutField ==
    ASSUME NEW fields \in Seq(FormFields), NEW k \in 1..Len(fields), NEW g \in Seq(Tokens),
           NEW t, CutLeft(fields, k, t, g), Lexes(t), Plain(fields)
    PROVE  /\ Shortened(Lexed(t), fields[Len(fields) - k + 1])
           /\ \/ Behind(t, "&") = << >>
              \/ CutLeft(fields, k - 1, Behind(t, "&"), g)
<1>. DEFINE f == fields[Len(fields) - k + 1]
            w == ToRead(fields, k - 1)
            h == g \o <<"&">>
<1>1. /\ f \in FormFields
      /\ ToRead(fields, k) = f.key \o (<<"=">> \o (f.value \o (<<"&">> \o w)))
    BY ToReadIs
<1>2. w \in Seq(Tokens)
    <2>1. k - 1 \in 0..Len(fields)
        OBVIOUS
    <2>. QED
        BY <2>1, ToReadIs
<1>3. "=" \in Tokens /\ "&" \in Tokens /\ <<"=">> \in Seq(Tokens) /\ <<"&">> \in Seq(Tokens)
    BY Separators DEF Between
<1>4. h \in Seq(Tokens)
    BY <1>3, JoinedIs
<1>5. PICK b \in Seq(Tokens) : t = b \o <<"&">> /\ b \o h = ToRead(fields, k)
    BY DEF CutLeft
<1>. HIDE DEF f, w, h
<1>. DEFINE a == f.key
            v == f.value
            x == v \o (<<"&">> \o w)
<1>6. /\ a \in Seq(Tokens) /\ v \in Seq(Tokens) /\ Lacks(a, "=") /\ Lacks(v, "&") /\ Lacks(a, "&")
      /\ f = [key |-> a, value |-> v]
    <2>1. Len(fields) - k + 1 \in 1..Len(fields)
        OBVIOUS
    <2>2. Lacks(f.value, "&")
        BY <2>1, PlainIs DEF f
    <2>. QED
        BY <1>1, <2>2, FieldIs, FieldLacks
<1>7. b \o h = a \o (<<"=">> \o x)
    BY <1>1, <1>5
<1>. HIDE DEF a, v
<1>8. x \in Seq(Tokens)
    <2>1. <<"&">> \o w \in Seq(Tokens)
        BY <1>2, <1>3, JoinedIs
    <2>. QED
        BY <1>6, <2>1, JoinedIs
<1>9. <<"&">> \o << >> = <<"&">> /\ << >> \in Seq(Tokens)
    OBVIOUS
<1>. HIDE DEF x
<1>10. CutThere(Tokens, b, h, a, "=", x) \/ CutBefore(b, h, a, "=")
    <2>1. Cutting(Tokens, b, h, a, "=", x)
        BY <1>3, <1>4, <1>6, <1>7, <1>8 DEF Cutting
    <2>. QED
        BY <2>1, CutAt
<1>11. ~ Lacks(b, "=")
    <2>. SUFFICES ASSUME Lacks(b, "=") PROVE FALSE
        OBVIOUS
    <2>1. Lacks(<<"&">>, "=")
        BY DEF Lacks
    <2>2. Lacks(t, "=") /\ t \in Seq(Tokens)
        BY <1>3, <1>5, <2>1, LacksJoined, JoinedIs
    <2>. QED
        BY <2>2, PositionNone DEF Lexes
<1>12. PICK c \in Seq(Tokens) : b = a \o (<<"=">> \o c) /\ c \o h = x
    BY <1>10, <1>11 DEF CutThere, CutBefore
<1>13. t = a \o (<<"=">> \o (c \o <<"&">>))
    <2>. DEFINE p == <<"=">>
                q == <<"&">>
    <2>1. Texts(Tokens, a, p, c, q)
        BY <1>3, <1>6 DEF Texts
    <2>. HIDE DEF p, q
    <2>2. (a \o (p \o c)) \o q = a \o (p \o (c \o q))
        BY <2>1, JoinedInner, SMTT(30)
    <2>. QED
        BY <1>5, <1>12, <2>2 DEF p, q
<1>14. c \o h = v \o (<<"&">> \o w)
    BY <1>12 DEF x
<1>15. CutThere(Tokens, c, h, v, "&", w) \/ CutBefore(c, h, v, "&")
    <2>1. Cutting(Tokens, c, h, v, "&", w)
        BY <1>2, <1>3, <1>4, <1>6, <1>14 DEF Cutting
    <2>. QED
        BY <2>1, CutAt
<1>16. ASSUME Lacks(c, "&"), Len(c) <= Len(v), \A o \in 1..Len(c) : c[o] = v[o]
       PROVE  Shortened(Lexed(t), f) /\ Behind(t, "&") = << >>
    <2>1. t = a \o (<<"=">> \o (c \o (<<"&">> \o << >>)))
        BY <1>9, <1>13
    <2>2. Lexed(t) = [key |-> a, value |-> c] /\ Behind(t, "&") = << >>
        <3>. DEFINE z == << >>
        <3>1. z \in Seq(Tokens) /\ t = a \o (<<"=">> \o (c \o (<<"&">> \o z)))
            BY <1>9, <2>1
        <3>. HIDE DEF z
        <3>2. Lexed(t) = [key |-> a, value |-> c] /\ Behind(t, "&") = z
            <4>1. Lacks(a, "=") /\ Lacks(a, "&") /\ a \in Seq(Tokens) /\ c \in Seq(Tokens)
                BY <1>6, <1>12
            <4>. QED
                BY <1>16, <3>1, <4>1, LexedIs
        <3>. QED
            BY <3>2 DEF z
    <2>. QED
        BY <1>6, <1>16, <2>2 DEF Shortened
<1>17. ASSUME NEW d \in Seq(Tokens), c = v \o (<<"&">> \o d), d \o h = w
       PROVE  Shortened(Lexed(t), f) /\ CutLeft(fields, k - 1, Behind(t, "&"), g)
    <2>. DEFINE e == d \o <<"&">>
    <2>1. e \in Seq(Tokens)
        BY <1>3, JoinedIs
    <2>2. c \o <<"&">> = v \o (<<"&">> \o e)
        <3>1. (v \o (<<"&">> \o d)) \o <<"&">> = v \o (<<"&">> \o (d \o <<"&">>))
            <4>1. v \in Seq(Tokens) /\ <<"&">> \in Seq(Tokens)
                BY <1>3, <1>6
            <4>2. (v \o (<<"&">> \o d)) \o <<"&">> = v \o ((<<"&">> \o d) \o <<"&">>)
                <5>1. <<"&">> \o d \in Seq(Tokens)
                    BY <4>1, JoinedIs
                <5>. QED
                    BY <4>1, <5>1, JoinedTwice, SMTT(60)
            <4>3. (<<"&">> \o d) \o <<"&">> = <<"&">> \o (d \o <<"&">>)
                BY <4>1, JoinedTwice, SMTT(60)
            <4>. QED
                BY <4>2, <4>3
        <3>. QED
            BY <1>17, <3>1
    <2>. HIDE DEF e
    <2>3. t = a \o (<<"=">> \o (v \o (<<"&">> \o e)))
        BY <1>13, <2>2
    <2>4. Lexed(t) = [key |-> a, value |-> v] /\ Behind(t, "&") = e
        BY <1>6, <2>1, <2>3, LexedIs
    <2>5. Shortened(Lexed(t), f)
        BY <1>6, <2>4 DEF Shortened
    <2>6. CutLeft(fields, k - 1, Behind(t, "&"), g)
        BY <1>17, <2>4 DEF CutLeft, e, h, w
    <2>. QED
        BY <2>5, <2>6
<1>. QED
    BY <1>15, <1>16, <1>17 DEF CutThere, CutBefore, f

\* The first fields of a list, but for k, the last one first.
ReadSoFar(fields, k) == [p \in 1..(Len(fields) - k) |-> fields[Len(fields) - k + 1 - p]]

LEMMA ReadOn ==
    ASSUME NEW S, NEW fields \in Seq(S)
    PROVE  /\ ReadSoFar(fields, Len(fields)) = << >>
           /\ ReadSoFar(fields, 0) = Reversed(fields)
           /\ \A k \in 1..Len(fields) :
                  <<fields[Len(fields) - k + 1]>> \o ReadSoFar(fields, k) = ReadSoFar(fields, k - 1)
<1>. DEFINE l == Len(fields)
<1>1. l \in Nat /\ DOMAIN fields = 1..l /\ \A k \in 1..l : fields[k] \in S
    OBVIOUS
<1>2. ReadSoFar(fields, l) = << >>
    BY <1>1 DEF ReadSoFar
<1>3. ReadSoFar(fields, 0) = Reversed(fields)
    BY <1>1 DEF ReadSoFar, Reversed
<1>4. ASSUME NEW k \in 1..l
      PROVE  <<fields[l - k + 1]>> \o ReadSoFar(fields, k) = ReadSoFar(fields, k - 1)
    <2>. DEFINE c == fields[l - k + 1]
                a == ReadSoFar(fields, k)
                b == ReadSoFar(fields, k - 1)
    <2>1. l - k \in Nat /\ l - (k - 1) = (l - k) + 1 /\ c \in S
        BY <1>1
    <2>2. /\ a \in Seq(S) /\ Len(a) = l - k
          /\ \A p \in 1..(l - k) : a[p] = fields[l - k + 1 - p]
        <3>1. \A p \in 1..(l - k) : fields[l - k + 1 - p] \in S
            BY <1>1
        <3>. QED
            BY <2>1, <3>1 DEF ReadSoFar
    <2>3. /\ b \in Seq(S) /\ Len(b) = (l - k) + 1
          /\ \A p \in 1..((l - k) + 1) : b[p] = fields[(l - k) + 1 + 1 - p]
        <3>1. \A p \in 1..((l - k) + 1) : fields[(l - k) + 1 + 1 - p] \in S
            BY <1>1
        <3>. QED
            BY <2>1, <3>1 DEF ReadSoFar
    <2>4. b[1] = c
        BY <2>1, <2>3
    <2>. HIDE DEF a, b, c
    <2>. DEFINE d == <<c>> \o a
    <2>5. /\ d \in Seq(S) /\ Len(d) = (l - k) + 1 /\ d[1] = c
          /\ \A p \in 2..((l - k) + 1) : d[p] = a[p - 1]
        BY <2>1, <2>2
    <2>. HIDE DEF d
    <2>6. ASSUME NEW p \in 1..((l - k) + 1) PROVE d[p] = b[p]
        <3>1. CASE p = 1
            BY <2>4, <2>5, <3>1
        <3>2. CASE p # 1
            <4>1. p - 1 \in 1..(l - k) /\ p \in 2..((l - k) + 1)
                  /\ l - k + 1 - (p - 1) = (l - k) + 1 + 1 - p
                BY <2>1, <3>2
            <4>. QED
                BY <2>2, <2>3, <2>5, <4>1
        <3>. QED
            BY <3>1, <3>2
    <2>7. d = b
        <3>1. d \in Seq(S) /\ b \in Seq(S) /\ Len(d) = Len(b) /\ \A p \in 1..Len(d) : d[p] = b[p]
            BY <2>3, <2>5, <2>6
        <3>. QED
            BY <3>1
    <2>. QED
        BY <2>7 DEF a, b, c, d
<1>. QED
    BY <1>2, <1>3, <1>4

---------------------------------------------------------------------------
(* Fields whose values may have a "&" in them *)

\* What is read of a field.
Stands(e, f) == e.key = f.key /\ e.value = UntilOrAll(f.value, "&")

\* The first fields, but for k, are in the list.
AllThere(list, fields, k) ==
    \A p \in 1..(Len(fields) - k) : \E e \in Range(list) : Stands(e, fields[p])

\* The last k fields are left to read, behind the rest of a value, if any.
Closed(c) == c = << >> \/ (Len(c) > 0 /\ c[Len(c)] = "&")

ToReadOn(fields, k, d) == \E c \in Seq(Tokens) : Closed(c) /\ d = c \o ToRead(fields, k)

LEMMA LexesIs ==
    ASSUME NEW t \in Seq(Tokens), NEW f \in 1..Len(t), NEW l \in 1..Len(t), f < l,
           t[f] = "=", t[l] = "&"
    PROVE  Lexes(t)
<1>. DEFINE p == Position(t, "=")
            r == SubSeq(t, p + 1, Len(t))
<1>1. /\ p \in 0..Len(t) /\ Len(t) \in Nat
      /\ p = 0 => Lacks(t, "=")
      /\ p # 0 => \A o \in 1..(p - 1) : t[o] # "="
    BY PositionIs
<1>. HIDE DEF p
<1>2. p # 0 /\ p <= f
    BY <1>1 DEF Lacks
<1>3. r \in Seq(Tokens) /\ Len(r) = Len(t) - p /\ \A k \in 1..(Len(t) - p) : r[k] = t[p + k]
    BY <1>1, <1>2
<1>. HIDE DEF r
<1>4. l - p \in 1..Len(r) /\ r[l - p] = "&"
    <2>1. l - p \in 1..(Len(t) - p) /\ p + (l - p) = l
        BY <1>1, <1>2
    <2>. QED
        BY <1>3, <2>1
<1>5. ~ Lacks(r, "&")
    BY <1>4 DEF Lacks
<1>6. Position(r, "&") \in 0..Len(r) /\ Position(r, "&") # 0
    BY <1>3, <1>5, PositionIs
<1>7. Position(r, "&") > 0 /\ p > 0
    <2>1. Len(r) \in Nat
        BY <1>3
    <2>. QED
        BY <1>1, <1>2, <1>6, <2>1
<1>. QED
    BY <1>7 DEF Lexes, Behind, r, p

\* As long as fields are left, there is something to lex.
LEMMA ReadsFurther ==
    ASSUME NEW fields \in Seq(FormFields), NEW k \in 1..Len(fields), NEW t, ToReadOn(fields, k, t)
    PROVE  Lexes(t)
<1>. DEFINE f == fields[Len(fields) - k + 1]
            w == ToRead(fields, k - 1)
            a == f.key
            b == f.value
            x == <<"&">> \o w
            y == b \o x
            z == <<"=">> \o y
            r == a \o z
<1>1. f \in FormFields /\ ToRead(fields, k) = r
    BY ToReadIs
<1>2. w \in Seq(Tokens)
    <2>1. k - 1 \in 0..Len(fields)
        OBVIOUS
    <2>. QED
        BY <2>1, ToReadIs
<1>3. a \in Seq(Tokens) /\ b \in Seq(Tokens)
    BY <1>1, FieldIs
<1>4. "=" \in Tokens /\ "&" \in Tokens
    BY Separators DEF Between
<1>. HIDE DEF f, w, a, b
<1>5. x \in Seq(Tokens) /\ Len(x) = Len(w) + 1 /\ x[1] = "&" /\ Len(w) \in Nat
    BY <1>2, <1>4, OneToken
<1>. HIDE DEF x
<1>6. y \in Seq(Tokens) /\ Len(y) = Len(b) + Len(x) /\ Len(b) \in Nat /\ y[Len(b) + 1] = x[1]
    <2>1. 1 \in 1..Len(x) /\ b \in Seq(Tokens) /\ x \in Seq(Tokens)
        BY <1>3, <1>5
    <2>2. /\ y \in Seq(Tokens) /\ Len(y) = Len(b) + Len(x) /\ Len(b) \in Nat
          /\ \A o \in 1..Len(x) : y[Len(b) + o] = x[o]
        BY <2>1, JoinedIs
    <2>. HIDE DEF y
    <2>. QED
        BY <2>1, <2>2
<1>. HIDE DEF y
<1>. DEFINE e == <<"=">>
<1>7. e \in Seq(Tokens) /\ Len(e) = 1 /\ e[1] = "="
    BY <1>4, OneToken
<1>. HIDE DEF e
<1>8. /\ z \in Seq(Tokens) /\ Len(z) = Len(y) + 1 /\ z[1] = "=" /\ z[Len(b) + 2] = y[Len(b) + 1]
    <2>1. /\ z \in Seq(Tokens) /\ Len(z) = Len(e) + Len(y)
          /\ \A o \in 1..Len(e) : z[o] = e[o]
          /\ \A o \in 1..Len(y) : z[Len(e) + o] = y[o]
        <3>1. e \in Seq(Tokens) /\ y \in Seq(Tokens) /\ z = e \o y
            BY <1>6, <1>7 DEF e
        <3>. HIDE DEF z
        <3>. QED
            BY <3>1, JoinedIs
    <2>. HIDE DEF z
    <2>2. 1 \in 1..Len(e) /\ Len(b) + 1 \in 1..Len(y) /\ Len(e) + (Len(b) + 1) = Len(b) + 2
          /\ Len(e) + Len(y) = Len(y) + 1
        BY <1>5, <1>6, <1>7
    <2>. QED
        BY <1>7, <2>1, <2>2
<1>. HIDE DEF z
<1>9. /\ r \in Seq(Tokens) /\ Len(r) = Len(a) + Len(z) /\ Len(a) \in Nat
      /\ r[Len(a) + 1] = "=" /\ r[Len(a) + (Len(b) + 2)] = "&"
    <2>1. /\ r \in Seq(Tokens) /\ Len(r) = Len(a) + Len(z) /\ Len(a) \in Nat
          /\ \A o \in 1..Len(z) : r[Len(a) + o] = z[o]
        <3>1. a \in Seq(Tokens) /\ z \in Seq(Tokens)
            BY <1>3, <1>8
        <3>. QED
            BY <3>1, JoinedIs
    <2>. HIDE DEF r
    <2>2. 1 \in 1..Len(z) /\ Len(b) + 2 \in 1..Len(z)
        BY <1>5, <1>6, <1>8
    <2>. QED
        BY <1>5, <1>6, <1>8, <2>1, <2>2
<1>. HIDE DEF r
<1>10. PICK c \in Seq(Tokens) : t = c \o r
    BY <1>1 DEF ToReadOn
<1>11. /\ t \in Seq(Tokens) /\ Len(t) = Len(c) + Len(r) /\ Len(c) \in Nat
       /\ \A o \in 1..Len(r) : t[Len(c) + o] = r[o]
    <2>1. c \in Seq(Tokens) /\ r \in Seq(Tokens) /\ t = c \o r
        BY <1>9, <1>10
    <2>. QED
        BY <2>1, JoinedIs
<1>. DEFINE p == Len(c) + (Len(a) + 1)
            q == Len(c) + (Len(a) + (Len(b) + 2))
<1>12. Len(a) + 1 \in 1..Len(r) /\ Len(a) + (Len(b) + 2) \in 1..Len(r)
    <2>1. Len(r) = Len(a) + (Len(b) + (Len(w) + 1) + 1)
        BY <1>5, <1>6, <1>8, <1>9
    <2>2. Len(a) \in Nat /\ Len(b) \in Nat /\ Len(w) \in Nat
        BY <1>5, <1>6, <1>9
    <2>. QED
        BY <2>1, <2>2
<1>13. t[p] = "=" /\ t[q] = "&"
    BY <1>9, <1>11, <1>12
<1>14. p \in 1..Len(t) /\ q \in 1..Len(t) /\ p < q
    <2>1. Len(a) \in Nat /\ Len(b) \in Nat /\ Len(c) \in Nat /\ Len(r) \in Nat /\ Len(t) = Len(c) + Len(r)
        BY <1>6, <1>9, <1>11
    <2>. QED
        BY <1>12, <2>1
<1>. HIDE DEF p, q
<1>. QED
    BY <1>11, <1>13, <1>14, LexesIs

\* Of the next field the value up to its first "&" is read, and the rest is left.
LEMMA FieldRead ==
    ASSUME NEW fields \in Seq(FormFields), NEW k \in 1..Len(fields)
    PROVE  LET t == ToRead(fields, k)
           IN  /\ Stands(Lexed(t), fields[Len(fields) - k + 1])
               /\ ToReadOn(fields, k - 1, Behind(t, "&"))
<1>. DEFINE f == fields[Len(fields) - k + 1]
            w == ToRead(fields, k - 1)
            t == ToRead(fields, k)
            a == f.key
            v == f.value
<1>1. f \in FormFields /\ t = a \o (<<"=">> \o (v \o (<<"&">> \o w)))
    BY ToReadIs
<1>2. w \in Seq(Tokens)
    <2>1. k - 1 \in 0..Len(fields)
        OBVIOUS
    <2>. QED
        BY <2>1, ToReadIs
<1>3. a \in Seq(Tokens) /\ v \in Seq(Tokens) /\ Lacks(a, "=") /\ Lacks(a, "&")
    BY <1>1, FieldIs, FieldLacks
<1>4. "&" \in Tokens /\ <<"&">> \in Seq(Tokens)
    <2>1. "&" \in Between
        BY DEF Between
    <2>. QED
        BY <2>1, Separators
<1>. HIDE DEF w, a, v, t
<1>5. CASE Position(v, "&") = 0
    <2>1. Lacks(v, "&")
        BY <1>3, <1>5, PositionIs
    <2>2. Lexed(t) = [key |-> a, value |-> v] /\ Behind(t, "&") = w
        BY <1>1, <1>2, <1>3, <2>1, LexedIs
    <2>3. Stands(Lexed(t), f)
        BY <1>5, <2>2 DEF Stands, UntilOrAll, a, v
    <2>4. << >> \in Seq(Tokens) /\ w = << >> \o w
        BY <1>2, NoneJoined
    <2>5. ToReadOn(fields, k - 1, w)
        BY <2>4 DEF ToReadOn, Closed, w
    <2>. QED
        BY <2>2, <2>3, <2>5 DEF f, t
<1>6. CASE Position(v, "&") # 0
    <2>. DEFINE b == Until(v, "&")
                d == Behind(v, "&")
                xs == <<"&">> \o w
                c == d \o <<"&">>
    <2>1. b \in Seq(Tokens) /\ d \in Seq(Tokens) /\ Lacks(b, "&") /\ v = b \o (<<"&">> \o d)
        BY <1>3, <1>4, <1>6, SplitFirst
    <2>. HIDE DEF b, d
    <2>2. xs \in Seq(Tokens)
        BY <1>2, <1>4, OneToken
    <2>3. v \o xs = b \o (<<"&">> \o (d \o xs)) /\ d \o xs = c \o w
        <3>. DEFINE q == <<"&">>
        <3>2. v \o xs = (b \o (q \o d)) \o xs
            BY <2>1
        <3>0. q \in Seq(Tokens)
            BY <1>4
        <3>. HIDE DEF q
        <3>1. Triple(Tokens, d, q, w)
            BY <1>2, <2>1, <3>0 DEF Triple
        <3>3. (b \o (q \o d)) \o xs = b \o (q \o (d \o xs))
            <4>. HIDE DEF xs, c, f
            <4>1. Texts(Tokens, b, q, d, xs)
                BY <2>1, <2>2, <3>0 DEF Texts
            <4>. QED
                <5>. DEFINE bb == b
                            dd == d
                            qq == q
                            xx == xs
                <5>1. Texts(Tokens, bb, qq, dd, xx)
                    BY <4>1
                <5>. HIDE DEF bb, dd, qq, xx
                <5>2. (bb \o (qq \o dd)) \o xx = bb \o (qq \o (dd \o xx))
                    BY <5>1, JoinedInner
                <5>. QED
                    BY <5>2 DEF bb, dd, qq, xx
        <3>4. (d \o q) \o w = d \o (q \o w)
            BY <3>1, TripleJoined
        <3>. QED
            BY <3>2, <3>3, <3>4 DEF q
    <2>4. /\ c \in Seq(Tokens) /\ Len(c) > 0 /\ c[Len(c)] = "&"
        <3>1. Len(<<"&">>) = 1 /\ <<"&">>[1] = "&" /\ 1 \in 1..1
            OBVIOUS
        <3>2. /\ c \in Seq(Tokens) /\ Len(c) = Len(d) + 1 /\ Len(d) \in Nat /\ c[Len(d) + 1] = "&"
            BY <1>4, <2>1, <3>1, JoinedIs
        <3>. HIDE DEF c
        <3>. QED
            BY <3>2
    <2>. DEFINE y == d \o xs
    <2>5. y \in Seq(Tokens)
        <3>. HIDE DEF xs
        <3>. QED
            BY <2>1, <2>2, JoinedIs
    <2>6. t = a \o (<<"=">> \o (b \o (<<"&">> \o y)))
        BY <1>1, <2>3
    <2>. HIDE DEF y, c, xs
    <2>7. Lexed(t) = [key |-> a, value |-> b] /\ Behind(t, "&") = y
        BY <1>3, <2>1, <2>5, <2>6, LexedIs
    <2>8. Stands(Lexed(t), f)
        BY <1>6, <2>7 DEF Stands, UntilOrAll, a, v, b
    <2>9. y = c \o w
        BY <2>3 DEF y
    <2>10. ToReadOn(fields, k - 1, y)
        BY <2>4, <2>9 DEF ToReadOn, Closed, w
    <2>. QED
        BY <2>7, <2>8, <2>10 DEF f, t
<1>. QED
    BY <1>5, <1>6

\* What is left of a value is read up to its next "&".
LEMMA RestRead ==
    ASSUME NEW fields \in Seq(FormFields), NEW k \in 0..Len(fields), NEW c \in Seq(Tokens),
           c # << >>, Closed(c)
    PROVE  ToReadOn(fields, k, Behind(c \o ToRead(fields, k), "&"))
<1>. DEFINE w == ToRead(fields, k)
            u == Until(c, "&")
            d == Behind(c, "&")
            q == <<"&">>
<1>1. w \in Seq(Tokens) /\ "&" \in Tokens /\ q \in Seq(Tokens)
    <2>1. w \in Seq(Tokens)
        BY ToReadIs
    <2>. QED
        BY <2>1, Separators DEF Between
<1>2. Len(c) \in 1..Len(c) /\ c[Len(c)] = "&"
    BY DEF Closed
<1>3. ~ Lacks(c, "&")
    BY <1>2 DEF Lacks
<1>4. Position(c, "&") # 0
    BY <1>3, PositionIs
<1>5. u \in Seq(Tokens) /\ d \in Seq(Tokens) /\ Lacks(u, "&") /\ c = u \o (q \o d)
    BY <1>1, <1>4, SplitFirst
<1>6. Closed(d)
    <2>. SUFFICES ASSUME Len(d) > 0 PROVE d[Len(d)] = "&"
        BY <1>5 DEF Closed
    <2>1. d = SubSeq(c, Position(c, "&") + 1, Len(c)) /\ Position(c, "&") \in 1..Len(c)
        BY <1>4, PositionIs DEF Behind
    <2>. DEFINE p == Position(c, "&")
    <2>. HIDE DEF p, d
    <2>2. d = SubSeq(c, p + 1, Len(c)) /\ p \in 1..Len(c)
        BY <2>1 DEF p
    <2>3. Len(d) = Len(c) - p /\ \A o \in 1..(Len(c) - p) : d[o] = c[p + o]
        BY <2>2
    <2>4. Len(d) \in 1..(Len(c) - p) /\ p + Len(d) = Len(c)
        BY <2>2, <2>3
    <2>. QED
        BY <1>2, <2>3, <2>4
<1>. HIDE DEF u, d, w
<1>. DEFINE y == d \o w
<1>7. y \in Seq(Tokens)
    BY <1>1, <1>5, JoinedIs
<1>8. c \o w = u \o (q \o y)
    <2>1. Texts(Tokens, u, q, d, w)
        BY <1>1, <1>5 DEF Texts
    <2>. HIDE DEF q
    <2>2. (u \o (q \o d)) \o w = u \o (q \o (d \o w))
        BY <2>1, JoinedInner
    <2>. QED
        BY <1>5, <2>2
<1>. HIDE DEF y
<1>9. Behind(u \o (<<"&">> \o y), "&") = y
    BY <1>1, <1>5, <1>7, AtFirst
<1>10. ToReadOn(fields, k, y)
    BY <1>5, <1>6 DEF ToReadOn, y, w
<1>. QED
    BY <1>8, <1>9, <1>10 DEF w

\* Between two turns of the loop over the fields.
Reading(fields, d, list) ==
    /\ \E S : list \in Seq(S)
    /\ \E k \in 0..Len(fields) : ToReadOn(fields, k, d) /\ AllThere(list, fields, k)
    /\ Plain(fields) => \E k \in 0..Len(fields) :
           /\ d = ToRead(fields, k) \/ (k = 0 /\ d = <<"&">>)
           /\ list = ReadSoFar(fields, k)

\* And behind it.
FieldsKept(fields, list) == AllThere(list, fields, 0) /\ (Plain(fields) => list = Reversed(fields))

LEMMA ReadingBegins ==
    ASSUME NEW fields \in Seq(FormFields), NEW d,
           IF fields = << >> THEN d = <<"&">> ELSE d = ToRead(fields, Len(fields))
    PROVE  Reading(fields, d, << >>)
<1>. DEFINE l == Len(fields)
            none == << >>
<1>1. l \in Nat /\ l \in 0..l /\ (fields = << >> => l = 0)
    OBVIOUS
<1>2. none \in Seq(Tokens) /\ none = ReadSoFar(fields, l)
    BY ReadOn, NoneJoined
<1>3. ToReadOn(fields, l, d)
    <2>1. CASE fields = << >>
        <3>1. <<"&">> \in Seq(Tokens) /\ Len(<<"&">>) > 0 /\ <<"&">>[Len(<<"&">>)] = "&"
            <4>1. <<"&">> \in Seq(Tokens)
                BY Separators DEF Between
            <4>2. Len(<<"&">>) = 1 /\ <<"&">>[1] = "&"
                OBVIOUS
            <4>. QED
                BY <4>1, <4>2
        <3>2. <<"&">> \o << >> = <<"&">>
            OBVIOUS
        <3>3. ToRead(fields, l) = << >>
            BY <1>1, <2>1, ToReadIs
        <3>. QED
            BY <2>1, <3>1, <3>2, <3>3 DEF ToReadOn, Closed
    <2>2. CASE fields # << >>
        <3>1. d = ToRead(fields, l) /\ ToRead(fields, l) \in Seq(Tokens)
            BY <1>1, <2>2, ToReadIs
        <3>2. none \in Seq(Tokens) /\ d = none \o d
            BY <3>1, NoneJoined
        <3>. QED
            BY <3>1, <3>2 DEF ToReadOn, Closed
    <2>. QED
        BY <2>1, <2>2
<1>4. AllThere(none, fields, l)
    <2>1. 1..(l - l) = {}
        BY <1>1
    <2>. QED
        BY <2>1 DEF AllThere
<1>5. d = ToRead(fields, l) \/ (l = 0 /\ d = <<"&">>)
    BY <1>1
<1>. HIDE DEF l, none
<1>6. Reading(fields, d, none)
    BY <1>1, <1>2, <1>3, <1>4, <1>5 DEF Reading, l
<1>. QED
    BY <1>6 DEF none

LEMMA ReadingOn ==
    ASSUME NEW fields \in Seq(FormFields), NEW d, NEW list, Reading(fields, d, list), Lexes(d)
    PROVE  Reading(fields, Behind(d, "&"), <<Lexed(d)>> \o list)
<1>. DEFINE l == Len(fields)
            x == Lexed(d)
            z == <<x>> \o list
            y == Behind(d, "&")
<1>0. l \in Nat
    OBVIOUS
<1>1. PICK S : list \in Seq(S)
    BY DEF Reading
<1>2. z \in Seq(S \cup {x}) /\ Range(z) = {x} \cup Range(list)
    <2>. DEFINE T == S \cup {x}
    <2>1. list \in Seq(T) /\ x \in T
        BY <1>1
    <2>. HIDE DEF T, x
    <2>2. /\ z \in Seq(T) /\ Len(z) = Len(list) + 1 /\ Len(list) \in Nat /\ z[1] = x
          /\ \A k \in 1..Len(list) : z[1 + k] = list[k]
        <3>. DEFINE e == <<x>>
        <3>1. e \in Seq(T) /\ Len(e) = 1 /\ e[1] = x /\ 1 \in 1..1
            BY <2>1, OneToken
        <3>. HIDE DEF e
        <3>2. /\ e \o list \in Seq(T) /\ Len(e \o list) = Len(e) + Len(list) /\ Len(list) \in Nat
              /\ \A k \in 1..Len(e) : (e \o list)[k] = e[k]
              /\ \A k \in 1..Len(list) : (e \o list)[Len(e) + k] = list[k]
            <4>1. e \in Seq(T) /\ list \in Seq(T)
                BY <2>1, <3>1
            <4>. QED
                BY <4>1, JoinedIs
        <3>3. z = e \o list
            BY DEF e
        <3>. HIDE DEF z
        <3>. QED
            BY <3>1, <3>2, <3>3
    <2>. HIDE DEF z
    <2>3. Range(z) = {z[k] : k \in 1..Len(z)} /\ Range(list) = {list[k] : k \in 1..Len(list)}
        <3>1. DOMAIN z = 1..Len(z) /\ DOMAIN list = 1..Len(list)
            BY <2>1, <2>2
        <3>. QED
            BY <3>1 DEF Range
    <2>4. \A k \in 1..Len(z) : z[k] = x \/ z[k] \in Range(list)
        <3>. SUFFICES ASSUME NEW k \in 1..Len(z), k # 1 PROVE z[k] \in Range(list)
            BY <2>2
        <3>1. k - 1 \in 1..Len(list) /\ 1 + (k - 1) = k
            BY <2>2
        <3>. QED
            BY <2>2, <2>3, <3>1
    <2>5. x \in Range(z)
        BY <2>2, <2>3
    <2>6. \A k \in 1..Len(list) : list[k] \in Range(z)
        BY <2>2, <2>3
    <2>7. Range(z) \subseteq {x} \cup Range(list) /\ {x} \cup Range(list) \subseteq Range(z)
        BY <2>3, <2>4, <2>5, <2>6
    <2>. QED
        BY <2>2, <2>7 DEF T, z
<1>3. PICK k \in 0..l : ToReadOn(fields, k, d) /\ AllThere(list, fields, k)
    BY DEF Reading
<1>4. PICK c \in Seq(Tokens) : Closed(c) /\ d = c \o ToRead(fields, k)
    BY <1>3 DEF ToReadOn
<1>. HIDE DEF x, z, y, l
<1>5. \E o \in 0..l : ToReadOn(fields, o, y) /\ AllThere(z, fields, o)
    <2>1. CASE c # << >>
        <3>1. ToReadOn(fields, k, y)
            BY <1>4, <2>1, RestRead DEF y, l
        <3>2. AllThere(z, fields, k)
            BY <1>2, <1>3 DEF AllThere
        <3>. QED
            BY <3>1, <3>2
    <2>2. CASE c = << >>
        <3>1. ToRead(fields, k) \in Seq(Tokens)
            BY ToReadIs DEF l
        <3>2. d = ToRead(fields, k)
            BY <1>4, <2>2, <3>1, NoneJoined
        <3>3. k \in 1..l
            <4>. SUFFICES ASSUME k = 0 PROVE FALSE
                BY <1>0
            <4>1. d = << >>
                BY <3>2, ToReadIs
            <4>. QED
                BY <4>1, NothingToLex
        <3>4. Stands(x, fields[l - k + 1]) /\ ToReadOn(fields, k - 1, y)
            BY <3>2, <3>3, FieldRead DEF x, y, l
        <3>5. AllThere(z, fields, k - 1)
            <4>. SUFFICES ASSUME NEW p \in 1..(l - (k - 1)) PROVE \E e \in Range(z) : Stands(e, fields[p])
                BY DEF AllThere, l
            <4>1. p = l - k + 1 \/ p \in 1..(l - k)
                BY <1>0, <3>3
            <4>. QED
                BY <1>2, <1>3, <3>4, <4>1 DEF AllThere, l
        <3>6. k - 1 \in 0..l
            BY <1>0, <3>3
        <3>. QED
            BY <3>4, <3>5, <3>6
    <2>. QED
        BY <2>1, <2>2
<1>6. ASSUME Plain(fields)
      PROVE  \E o \in 0..l : (y = ToRead(fields, o) \/ (o = 0 /\ y = <<"&">>)) /\ z = ReadSoFar(fields, o)
    <2>1. PICK o \in 0..l : /\ d = ToRead(fields, o) \/ (o = 0 /\ d = <<"&">>)
                            /\ list = ReadSoFar(fields, o)
        BY <1>6 DEF Reading, l
    <2>2. o \in 1..l
        <3>. SUFFICES ASSUME o = 0 PROVE FALSE
            BY <1>0, <2>1
        <3>1. d = << >> \/ d = <<"&">>
            BY <2>1, ToReadIs
        <3>. QED
            BY <3>1, NothingToLex
    <2>3. d = ToRead(fields, o)
        BY <2>1, <2>2
    <2>4. x = fields[l - o + 1] /\ y = ToRead(fields, o - 1)
        BY <1>6, <2>2, <2>3, WholeField DEF x, y, l
    <2>5. z = ReadSoFar(fields, o - 1)
        BY <2>1, <2>2, <2>4, ReadOn DEF z, l
    <2>6. o - 1 \in 0..l
        BY <1>0, <2>2
    <2>. QED
        BY <2>4, <2>5, <2>6
<1>7. \E T : z \in Seq(T)
    BY <1>2
<1>8. Reading(fields, y, z)
    BY <1>5, <1>6, <1>7 DEF Reading, l
<1>. QED
    BY <1>8 DEF x, y, z

LEMMA ReadingEnds ==
    ASSUME NEW fields \in Seq(FormFields), NEW d, NEW list, Reading(fields, d, list), ~ Lexes(d)
    PROVE  FieldsKept(fields, list)
<1>1. \A k \in 0..Len(fields) : ToReadOn(fields, k, d) => k = 0
    <2>. SUFFICES ASSUME NEW k \in 1..Len(fields), ToReadOn(fields, k, d) PROVE FALSE
        OBVIOUS
    <2>. QED
        BY ReadsFurther
<1>2. AllThere(list, fields, 0)
    BY <1>1 DEF Reading
<1>3. ASSUME Plain(fields) PROVE list = Reversed(fields)
    <2>1. PICK k \in 0..Len(fields) : /\ d = ToRead(fields, k) \/ (k = 0 /\ d = <<"&">>)
                                      /\ list = ReadSoFar(fields, k)
        BY <1>3 DEF Reading
    <2>2. k = 0
        <3>. SUFFICES ASSUME k \in 1..Len(fields) PROVE FALSE
            BY <2>1
        <3>. QED
            BY <1>3, <2>1, WholeField
    <2>. QED
        BY <2>1, <2>2, ReadOn
<1>. QED
    BY <1>2, <1>3 DEF FieldsKept

---------------------------------------------------------------------------
(* Headers *)

Parsed(h) == [key |-> Lower(h.key), value |-> Stripped(<<"SP">> \o h.value)]

\* What is read of all headers but the last k.
HeadersRead(headers, k) == [p \in 1..(Len(headers) - k) |-> Parsed(headers[p])]

LEMMA AppendIs ==
    ASSUME NEW S, NEW u \in Seq(S), NEW c \in S
    PROVE  /\ Append(u, c) \in Seq(S) /\ Len(Append(u, c)) = Len(u) + 1
           /\ Append(u, c)[Len(u) + 1] = c
           /\ \A k \in 1..Len(u) : Append(u, c)[k] = u[k]
    OBVIOUS

LEMMA HeadersOn ==
    ASSUME NEW headers \in Seq(HeaderFields)
    PROVE  /\ HeadersRead(headers, Len(headers)) = << >>
           /\ \A k \in 1..Len(headers) :
                  Append(HeadersRead(headers, k), Parsed(headers[Len(headers) - k + 1]))
                    = HeadersRead(headers, k - 1)
<1>. DEFINE l == Len(headers)
            R == {Parsed(h) : h \in HeaderFields}
<1>1. l \in Nat /\ \A k \in 1..l : Parsed(headers[k]) \in R
    OBVIOUS
<1>. HIDE DEF R
<1>2. HeadersRead(headers, l) = << >>
    BY <1>1 DEF HeadersRead
<1>3. ASSUME NEW k \in 1..l
      PROVE  Append(HeadersRead(headers, k), Parsed(headers[l - k + 1])) = HeadersRead(headers, k - 1)
    <2>. DEFINE a == HeadersRead(headers, k)
                b == HeadersRead(headers, k - 1)
                c == Parsed(headers[l - k + 1])
    <2>1. l - k \in Nat /\ l - (k - 1) = (l - k) + 1 /\ l - k + 1 \in 1..l
        BY <1>1
    <2>2. /\ a \in Seq(R) /\ Len(a) = l - k
          /\ \A p \in 1..(l - k) : a[p] = Parsed(headers[p])
        <3>1. \A p \in 1..(l - k) : Parsed(headers[p]) \in R
            BY <1>1, <2>1
        <3>. QED
            BY <2>1, <3>1 DEF HeadersRead
    <2>3. /\ b \in Seq(R) /\ Len(b) = (l - k) + 1
          /\ \A p \in 1..((l - k) + 1) : b[p] = Parsed(headers[p])
        <3>1. \A p \in 1..((l - k) + 1) : Parsed(headers[p]) \in R
            BY <1>1, <2>1
        <3>. QED
            BY <2>1, <3>1 DEF HeadersRead
    <2>4. c \in R /\ b[l - k + 1] = c
        BY <1>1, <2>1, <2>3
    <2>. HIDE DEF a, b, c
    <2>. DEFINE z == Append(a, c)
    <2>5. /\ z \in Seq(R) /\ Len(z) = (l - k) + 1 /\ z[l - k + 1] = c
          /\ \A p \in 1..(l - k) : z[p] = a[p]
        <3>1. a \in Seq(R) /\ c \in R
            BY <2>2, <2>4
        <3>2. /\ z \in Seq(R) /\ Len(z) = Len(a) + 1 /\ z[Len(a) + 1] = c
              /\ \A p \in 1..Len(a) : z[p] = a[p]
            BY <3>1, AppendIs
        <3>. HIDE DEF z
        <3>. QED
            BY <2>2, <3>2
    <2>. HIDE DEF z
    <2>6. ASSUME NEW p \in 1..((l - k) + 1) PROVE z[p] = b[p]
        <3>1. p \in 1..(l - k) \/ p = l - k + 1
            BY <2>1
        <3>. QED
            BY <2>2, <2>3, <2>4, <2>5, <3>1
    <2>7. z = b
        <3>1. z \in Seq(R) /\ b \in Seq(R) /\ Len(z) = Len(b) /\ \A p \in 1..Len(z) : z[p] = b[p]
            BY <2>3, <2>5, <2>6
        <3>. QED
            BY <3>1
    <2>. QED
        BY <2>7 DEF a, b, c, z
<1>. QED
    BY <1>2, <1>3

\* c stands in t where d stands in u.
Alike(S, T, t, u, c, d) ==
    /\ t \in Seq(S) /\ u \in Seq(T) /\ Len(t) = Len(u)
    /\ \A k \in 1..Len(t) : t[k] = c <=> u[k] = d

LEMMA PositionSame ==
    ASSUME NEW S, NEW T, NEW t, NEW u, NEW c, NEW d, Alike(S, T, t, u, c, d)
    PROVE  Position(t, c) = Position(u, d)
<1>0. /\ t \in Seq(S) /\ u \in Seq(T) /\ Len(t) = Len(u)
      /\ \A k \in 1..Len(t) : t[k] = c <=> u[k] = d
    BY DEF Alike
<1>1. /\ Position(t, c) \in 0..Len(t) /\ Len(t) \in Nat
      /\ Position(t, c) = 0 => \A k \in 1..Len(t) : t[k] # c
      /\ Position(t, c) # 0 => /\ t[Position(t, c)] = c
                               /\ \A o \in 1..(Position(t, c) - 1) : t[o] # c
    BY <1>0, PositionIs DEF Lacks
<1>2. CASE Position(t, c) = 0
    <2>1. Lacks(u, d)
        BY <1>0, <1>1, <1>2 DEF Lacks
    <2>. QED
        BY <1>0, <1>2, <2>1, PositionNone
<1>3. CASE Position(t, c) # 0
    <2>. DEFINE p == Position(t, c)
    <2>1. p \in 1..Len(u) /\ u[p] = d
        BY <1>0, <1>1, <1>3
    <2>2. \A o \in 1..(p - 1) : u[o] # d
        <3>1. \A o \in 1..(p - 1) : o \in 1..Len(t) /\ t[o] # c
            BY <1>1, <1>3
        <3>. QED
            BY <1>0, <3>1
    <2>. HIDE DEF p
    <2>3. Position(u, d) = p
        BY <1>0, <2>1, <2>2, PositionAt
    <2>. QED
        BY <2>3 DEF p
<1>. QED
    BY <1>2, <1>3

\* The places of a value that are not spaces.
NotBlank(value) == [k \in DOMAIN value |-> value[k] # "SP"]

LEMMA StrippedIs ==
    ASSUME NEW u \in Seq(Tokens)
    PROVE  /\ NotBlank(u) \in Seq(BOOLEAN) /\ Len(NotBlank(u)) = Len(u)
           /\ \A k \in 1..Len(u) : NotBlank(u)[k] = TRUE <=> u[k] # "SP"
           /\ Stripped(u) = IF Position(NotBlank(u), TRUE) = 0 THEN << >>
                            ELSE SubSeq(u, Position(NotBlank(u), TRUE), Len(u))
           /\ Stripped(u) \in Seq(Tokens)
<1>1. /\ NotBlank(u) \in Seq(BOOLEAN) /\ Len(NotBlank(u)) = Len(u)
      /\ \A k \in 1..Len(u) : NotBlank(u)[k] = TRUE <=> u[k] # "SP"
    <2>. DEFINE f == NotBlank(u)
    <2>1. Len(u) \in Nat /\ DOMAIN u = 1..Len(u)
        OBVIOUS
    <2>2. f = [k \in 1..Len(u) |-> u[k] # "SP"]
        BY <2>1 DEF NotBlank
    <2>. HIDE DEF f
    <2>3. f = [k \in 1..Len(u) |-> f[k]] /\ \A k \in 1..Len(u) : f[k] \in BOOLEAN
        BY <2>2
    <2>4. f \in Seq(BOOLEAN) /\ Len(f) = Len(u)
        BY <2>1, <2>3, SequenceOf
    <2>. QED
        BY <2>2, <2>4 DEF f
<1>2. Stripped(u) = IF Position(NotBlank(u), TRUE) = 0 THEN << >>
                    ELSE SubSeq(u, Position(NotBlank(u), TRUE), Len(u))
    BY DEF Stripped, NotBlank
<1>3. Position(NotBlank(u), TRUE) \in 0..Len(u)
    BY <1>1, PositionIs
<1>4. Stripped(u) \in Seq(Tokens)
    <2>. DEFINE p == Position(NotBlank(u), TRUE)
    <2>0. p \in 0..Len(u)
        BY <1>3
    <2>. HIDE DEF p
    <2>1. p # 0 => SubSeq(u, p, Len(u)) \in Seq(Tokens)
        BY <2>0
    <2>2. << >> \in Seq(Tokens)
        OBVIOUS
    <2>. QED
        BY <1>2, <2>1, <2>2 DEF p
<1>. QED
    BY <1>1, <1>2, <1>4

\* The space behind the colon makes no difference.
LEMMA StrippedSame ==
    ASSUME NEW u \in Seq(Tokens)
    PROVE  Stripped(<<"SP">> \o u) = Stripped(u)
<1>. DEFINE w == <<"SP">> \o u
            p == Position(NotBlank(u), TRUE)
<1>1. "SP" \in Tokens
    BY Separators DEF Between
<1>2. /\ w \in Seq(Tokens) /\ Len(w) = Len(u) + 1 /\ w[1] = "SP" /\ Len(u) \in Nat
      /\ \A k \in 1..Len(u) : w[k + 1] = u[k]
    BY <1>1
<1>. HIDE DEF w
<1>3. /\ NotBlank(u) \in Seq(BOOLEAN) /\ Len(NotBlank(u)) = Len(u)
      /\ \A k \in 1..Len(u) : NotBlank(u)[k] = TRUE <=> u[k] # "SP"
      /\ Stripped(u) = IF p = 0 THEN << >> ELSE SubSeq(u, p, Len(u))
    BY StrippedIs
<1>4. /\ NotBlank(w) \in Seq(BOOLEAN) /\ Len(NotBlank(w)) = Len(w)
      /\ \A k \in 1..Len(w) : NotBlank(w)[k] = TRUE <=> w[k] # "SP"
      /\ Stripped(w) = IF Position(NotBlank(w), TRUE) = 0 THEN << >>
                       ELSE SubSeq(w, Position(NotBlank(w), TRUE), Len(w))
    BY <1>2, StrippedIs
<1>5. /\ p \in 0..Len(u)
      /\ p = 0 => \A k \in 1..Len(u) : NotBlank(u)[k] # TRUE
      /\ p # 0 => NotBlank(u)[p] = TRUE /\ \A o \in 1..(p - 1) : NotBlank(u)[o] # TRUE
    BY <1>3, PositionIs DEF Lacks
<1>6. \A k \in 1..Len(w) : k = 1 \/ (k - 1 \in 1..Len(u) /\ w[k] = u[k - 1])
    <2>. SUFFICES ASSUME NEW k \in 1..Len(w), k # 1
                  PROVE  k - 1 \in 1..Len(u) /\ w[k] = u[k - 1]
        OBVIOUS
    <2>. DEFINE o == k - 1
    <2>1. o \in 1..Len(u) /\ o + 1 = k
        BY <1>2
    <2>. HIDE DEF o
    <2>2. w[o + 1] = u[o]
        BY <1>2, <2>1
    <2>. QED
        BY <2>1, <2>2 DEF o
<1>. HIDE DEF p
<1>7. CASE p = 0
    <2>1. Lacks(NotBlank(w), TRUE)
        <3>1. \A k \in 1..Len(w) : w[k] = "SP"
            BY <1>2, <1>3, <1>5, <1>6, <1>7
        <3>. QED
            BY <1>4, <3>1 DEF Lacks
    <2>2. Position(NotBlank(w), TRUE) = 0
        BY <1>4, <2>1, PositionNone
    <2>. QED
        BY <1>3, <1>4, <1>7, <2>2 DEF w
<1>8. CASE p # 0
    <2>1. p \in 1..Len(u) /\ p + 1 \in 1..Len(w) /\ w[p + 1] # "SP"
        BY <1>2, <1>3, <1>5, <1>8
    <2>2. \A o \in 1..p : o \in 1..Len(w) /\ w[o] = "SP"
        <3>. TAKE o \in 1..p
        <3>1. o \in 1..Len(w)
            BY <1>2, <2>1
        <3>2. o # 1 => o - 1 \in 1..(p - 1) /\ o - 1 \in 1..Len(u)
            BY <1>2, <2>1
        <3>. QED
            BY <1>2, <1>3, <1>5, <1>6, <1>8, <3>1, <3>2
    <2>3. NotBlank(w)[p + 1] = TRUE /\ \A o \in 1..p : NotBlank(w)[o] # TRUE
        BY <1>4, <2>1, <2>2
    <2>4. Position(NotBlank(w), TRUE) = p + 1
        <3>. DEFINE e == p + 1
        <3>1. e - 1 = p /\ e \in 1..Len(NotBlank(w))
            BY <1>4, <2>1
        <3>. HIDE DEF e
        <3>2. NotBlank(w)[e] = TRUE /\ \A o \in 1..(e - 1) : NotBlank(w)[o] # TRUE
            BY <2>3, <3>1 DEF e
        <3>3. Position(NotBlank(w), TRUE) = e
            BY <1>4, <3>1, <3>2, PositionAt
        <3>. QED
            BY <3>3 DEF e
    <2>5. SubSeq(w, p + 1, Len(w)) = SubSeq(u, p, Len(u))
        BY <1>2, <2>1
    <2>6. p + 1 # 0
        BY <2>1
    <2>. QED
        BY <1>3, <1>4, <1>8, <2>4, <2>5, <2>6 DEF w
<1>. QED
    BY <1>7, <1>8

\* The names that the code asks for are found however they are spelled.
LEMMA SpelledAs ==
    ASSUME NEW name \in DOMAIN Spellings, NEW key \in Seq(Words)
    PROVE  Lower(key) = name <=> key \in Spellings[name]
<1>1. name = <<"cookie">> \/ name = <<"content-type">>
    BY DEF Spellings
<1>2. /\ Spellings[<<"cookie">>] = { <<"Cookie">>, <<"COOKIE">>, <<"cookie">> }
      /\ Spellings[<<"content-type">>] = { <<"Content-Type">>, <<"content-type">> }
    BY DEF Spellings
<1>. DEFINE d == Lower(key)
<1>3. /\ DOMAIN d = 1..Len(key)
      /\ \A k \in 1..Len(key) : d[k] = CASE key[k] \in {"Cookie", "COOKIE"} -> "cookie"
                                       [] key[k] = "Content-Type" -> "content-type"
                                       [] OTHER -> key[k]
    BY DEF Lower
<1>. HIDE DEF d
<1>4. ASSUME NEW c, d = <<c>> PROVE Len(key) = 1 /\ key = <<key[1]>> /\ d[1] = c
    <2>1. DOMAIN d = 1..1 /\ d[1] = c /\ Len(key) \in Nat
        BY <1>4
    <2>2. Len(key) = 1
        BY <1>3, <2>1
    <2>. QED
        BY <2>1, <2>2
<1>5. ASSUME NEW c, key = <<c>>
      PROVE  d = <<CASE c \in {"Cookie", "COOKIE"} -> "cookie"
                   [] c = "Content-Type" -> "content-type" [] OTHER -> c>>
    BY <1>5 DEF d, Lower
<1>6. CASE name = <<"cookie">>
    <2>1. ASSUME d = name PROVE key \in Spellings[name]
        <3>1. Len(key) = 1 /\ key = <<key[1]>> /\ d[1] = "cookie"
            BY <1>4, <1>6, <2>1
        <3>2. key[1] \in {"Cookie", "COOKIE", "cookie"}
            BY <1>3, <3>1
        <3>. QED
            BY <1>2, <1>6, <3>1, <3>2
    <2>2. ASSUME key \in Spellings[name] PROVE d = name
        BY <1>2, <1>5, <1>6, <2>2
    <2>. QED
        BY <2>1, <2>2 DEF d
<1>7. CASE name = <<"content-type">>
    <2>1. ASSUME d = name PROVE key \in Spellings[name]
        <3>1. Len(key) = 1 /\ key = <<key[1]>> /\ d[1] = "content-type"
            BY <1>4, <1>7, <2>1
        <3>2. key[1] \in {"Content-Type", "content-type"}
            BY <1>3, <3>1
        <3>. QED
            BY <1>2, <1>7, <3>1, <3>2
    <2>2. ASSUME key \in Spellings[name] PROVE d = name
        BY <1>2, <1>5, <1>7, <2>2
    <2>. QED
        BY <2>1, <2>2 DEF d
<1>. QED
    BY <1>1, <1>6, <1>7

\* What is found among the headers that were read is what was sent.
LEMMA HeaderFound ==
    ASSUME NEW headers \in Seq(HeaderFields)
    PROVE  /\ Len(HeadersRead(headers, 0)) = Len(headers)
           /\ \A name \in DOMAIN Spellings :
                  KvFind(HeadersRead(headers, 0), name) = FirstHeader(headers, name)
<1>. DEFINE l == Len(headers)
            list == HeadersRead(headers, 0)
<1>1. l \in Nat /\ DOMAIN headers = 1..l /\ \A k \in 1..l : headers[k] \in HeaderFields
    OBVIOUS
<1>2. /\ DOMAIN list = 1..l /\ Len(list) = l
      /\ \A k \in 1..l : /\ list[k].key = Lower(headers[k].key)
                         /\ list[k].value = Stripped(<<"SP">> \o headers[k].value)
    <2>1. list = [p \in 1..l |-> Parsed(headers[p])]
        BY <1>1 DEF HeadersRead
    <2>. HIDE DEF list
    <2>. QED
        BY <1>1, <2>1 DEF Parsed
<1>. HIDE DEF list
<1>3. ASSUME NEW name \in DOMAIN Spellings
      PROVE  KvFind(list, name) = FirstHeader(headers, name)
    <2>. DEFINE t == [k \in DOMAIN list |-> list[k].key]
                u == [k \in DOMAIN headers |-> headers[k].key \in Spellings[name]]
                S == {Lower(headers[k].key) : k \in 1..l}
                T == BOOLEAN
                d == TRUE
    <2>1. t \in Seq(S) /\ Len(t) = l /\ u \in Seq(T) /\ Len(u) = l
        BY <1>1, <1>2
    <2>2. \A k \in 1..l : t[k] = name <=> u[k] = d
        <3>. TAKE k \in 1..l
        <3>1. headers[k].key \in Seq(Words)
            BY <1>1, LineIs
        <3>2. t[k] = Lower(headers[k].key) /\ (u[k] = TRUE <=> headers[k].key \in Spellings[name])
            BY <1>1, <1>2
        <3>. QED
            BY <3>1, <3>2, SpelledAs
    <2>. HIDE DEF S
    <2>3. /\ KvFind(list, name) = IF Position(t, name) = 0 THEN Null ELSE list[Position(t, name)].value
          /\ FirstHeader(headers, name) = IF Position(u, d) = 0 THEN Null
                                          ELSE Stripped(headers[Position(u, d)].value)
        BY DEF KvFind, FirstHeader
    <2>. HIDE DEF t, u, d, T
    <2>4. Position(t, name) = Position(u, d) /\ Position(t, name) \in 0..l
        <3>1. Alike(S, T, t, u, name, d)
            BY <2>1, <2>2, Zenon DEF Alike
        <3>2. Position(t, name) = Position(u, d)
            BY <3>1, PositionSame
        <3>3. Position(t, name) \in 0..Len(t)
            BY <2>1, PositionIs
        <3>. QED
            BY <2>1, <3>2, <3>3
    <2>. DEFINE p == Position(t, name)
    <2>5. CASE p = 0
        BY <2>3, <2>4, <2>5
    <2>6. CASE p # 0
        <3>1. p \in 1..l
            <4>1. l \in Nat /\ p \in 0..l
                BY <1>1, <2>4
            <4>. HIDE DEF p, l
            <4>. QED
                BY <2>6, <4>1
        <3>2. headers[p].value \in Seq(Tokens)
            BY <1>1, <3>1, LineIs
        <3>3. list[p].value = Stripped(headers[p].value)
            BY <1>2, <3>1, <3>2, StrippedSame
        <3>. QED
            BY <2>3, <2>4, <2>6, <3>3
    <2>. QED
        BY <2>5, <2>6
<1>. QED
    BY <1>2, <1>3 DEF list

---------------------------------------------------------------------------
(* Requests *)

IsRequest(r) ==
    r = [method |-> r.method, uri |-> r.uri, query |-> r.query, headers |-> r.headers,
         cookies |-> r.cookies, form |-> r.form, sid |-> r.sid, id |-> r.id]

\* Request z is r but for some fields.
But(z, r, fields) ==
    /\ IsRequest(z)
    /\ \A f \in {"method", "uri", "query", "headers", "cookies", "form", "sid", "id"} \ fields :
           z[f] = r[f]

LEMMA UpdatedQuery ==
    ASSUME NEW r, IsRequest(r), NEW x, NEW z, z = [r EXCEPT !.query = x]
    PROVE  But(z, r, {"query"}) /\ z.query = x
<1>1. DOMAIN r = {"method", "uri", "query", "headers", "cookies", "form", "sid", "id"}
    BY DEF IsRequest
<1>. QED
    BY <1>1 DEF IsRequest, But

LEMMA UpdatedHeaders ==
    ASSUME NEW r, IsRequest(r), NEW x, NEW z, z = [r EXCEPT !.headers = x]
    PROVE  But(z, r, {"headers"}) /\ z.headers = x
<1>1. DOMAIN r = {"method", "uri", "query", "headers", "cookies", "form", "sid", "id"}
    BY DEF IsRequest
<1>. QED
    BY <1>1 DEF IsRequest, But

LEMMA UpdatedCookies ==
    ASSUME NEW r, IsRequest(r), NEW x, NEW z, z = [r EXCEPT !.cookies = x]
    PROVE  But(z, r, {"cookies"}) /\ z.cookies = x
<1>1. DOMAIN r = {"method", "uri", "query", "headers", "cookies", "form", "sid", "id"}
    BY DEF IsRequest
<1>. QED
    BY <1>1 DEF IsRequest, But

LEMMA UpdatedForm ==
    ASSUME NEW r, IsRequest(r), NEW x, NEW z, z = [r EXCEPT !.form = x]
    PROVE  But(z, r, {"form"}) /\ z.form = x
<1>1. DOMAIN r = {"method", "uri", "query", "headers", "cookies", "form", "sid", "id"}
    BY DEF IsRequest
<1>. QED
    BY <1>1 DEF IsRequest, But

LEMMA UpdatedSid ==
    ASSUME NEW r, IsRequest(r), NEW x, NEW z, z = [r EXCEPT !.sid = x]
    PROVE  But(z, r, {"sid"}) /\ z.sid = x
<1>1. DOMAIN r = {"method", "uri", "query", "headers", "cookies", "form", "sid", "id"}
    BY DEF IsRequest
<1>. QED
    BY <1>1 DEF IsRequest, But

LEMMA UpdatedId ==
    ASSUME NEW r, IsRequest(r), NEW x, NEW z, z = [r EXCEPT !.id = x]
    PROVE  But(z, r, {"id"}) /\ z.id = x
<1>1. DOMAIN r = {"method", "uri", "query", "headers", "cookies", "form", "sid", "id"}
    BY DEF IsRequest
<1>. QED
    BY <1>1 DEF IsRequest, But

---------------------------------------------------------------------------
(* The session and the id *)

LEMMA Slices ==
    ASSUME NEW S, NEW t \in Seq(S)
    PROVE  /\ SubSeq(t, 1, Len(t)) = t
           /\ Len(t) >= 1 => SubSeq(t, 1, 1) = <<t[1]>>
           /\ Len(t) = 4 => SubSeq(t, 3, 4) = <<t[3], t[4]>>
<1>1. SubSeq(t, 1, Len(t)) = t
    OBVIOUS
<1>2. ASSUME Len(t) >= 1 PROVE SubSeq(t, 1, 1) = <<t[1]>>
    <2>. DEFINE u == SubSeq(t, 1, 1)
    <2>1. t[1] \in S
        BY <1>2
    <2>2. u \in Seq(S) /\ Len(u) = 1 /\ u[1] = t[1]
        BY <1>2
    <2>. HIDE DEF u
    <2>3. u = <<t[1]>>
        BY <2>1, <2>2
    <2>. QED
        BY <2>3 DEF u
<1>3. ASSUME Len(t) = 4 PROVE SubSeq(t, 3, 4) = <<t[3], t[4]>>
    <2>. DEFINE u == SubSeq(t, 3, 4)
    <2>1. t[3] \in S /\ t[4] \in S
        BY <1>3
    <2>2. u \in Seq(S) /\ Len(u) = 2 /\ \A k \in 1..2 : u[k] = t[k + 2]
        <3>1. u \in Seq(S) /\ Len(u) = 2
            <4>1. \A k \in 3..4 : k = 3 \/ k = 4
                OBVIOUS
            <4>2. \A k \in 3..4 : t[k] \in S
                BY <2>1, <4>1
            <4>. QED
                BY <4>2
        <3>2. u = [k \in 1..2 |-> t[3 + k - 1]]
            OBVIOUS
        <3>3. \A k \in 1..2 : 3 + k - 1 = k + 2
            OBVIOUS
        <3>. HIDE DEF u
        <3>. QED
            BY <3>1, <3>2, <3>3
    <2>2a. u[1] = t[3] /\ u[2] = t[4]
        <3>1. u[1] = t[1 + 2] /\ u[2] = t[2 + 2]
            BY <2>2
        <3>2. 1 + 2 = 3 /\ 2 + 2 = 4
            OBVIOUS
        <3>. QED
            BY <3>1, <3>2
    <2>. HIDE DEF u
    <2>3. u = <<t[3], t[4]>>
        BY <2>1, <2>2, <2>2a
    <2>. QED
        BY <2>3 DEF u
<1>. QED
    BY <1>1, <1>2, <1>3

\* The one cookie is the session's.
LEMMA CookieIs ==
    ASSUME NEW B \in Sendable, FirstHeader(B.headers, <<"cookie">>) # Null
    PROVE  LET c == FirstHeader(B.headers, <<"cookie">>)
           IN  /\ Decoded(FirstCookie(c)) = c /\ Position(c, "=") > 0
               /\ KvFind(<<[key |-> Until(c, "="), value |-> Behind(c, "=")]>>, <<"sid">>)
                    = Behind(c, "=")
<1>. DEFINE c == FirstHeader(B.headers, <<"cookie">>)
            u == [k \in DOMAIN B.headers |-> B.headers[k].key \in Spellings[<<"cookie">>]]
            p == Position(u, TRUE)
            v == B.headers[p].value
<1>1. B.headers \in Seq(HeaderFields) /\ DOMAIN B.headers = 1..Len(B.headers)
    BY SentIs
<1>2. c = IF p = 0 THEN Null ELSE Stripped(v)
    BY DEF FirstHeader
<1>3. p # 0 /\ c = Stripped(v)
    BY <1>2
<1>4. u \in Seq(BOOLEAN) /\ Len(u) = Len(B.headers) /\ Len(u) \in Nat
    BY <1>1
<1>5. p \in 1..Len(B.headers) /\ B.headers[p].key \in Spellings[<<"cookie">>]
    <2>. HIDE DEF p
    <2>. DEFINE d == TRUE
    <2>1. p \in 0..Len(u) /\ (p # 0 => u[p] = d)
        <3>. HIDE DEF u
        <3>. QED
            BY <1>4, PositionIs DEF p
    <2>2. p \in 1..Len(B.headers) /\ u[p] = TRUE
        BY <1>3, <1>4, <2>1
    <2>. QED
        BY <1>1, <2>2
<1>. HIDE DEF u, p
<1>6. /\ v \in Seq(Tokens) /\ Len(v) >= 2 /\ v[1] = "sid" /\ v[2] = "=" /\ Len(v) \in Nat
      /\ SubSeq(v, 3, Len(v)) \in Seq(Words)
    <2>1. B.headers[p] \in HeaderFields
        BY <1>1, <1>5
    <2>2. v \in Seq(Tokens)
        BY <2>1, LineIs
    <2>. QED
        BY <1>1, <1>5, <2>2, BrowserAssumption
<1>. HIDE DEF v, c
<1>7. \A k \in 3..Len(v) : v[k] \in Words
    <2>. TAKE k \in 3..Len(v)
    <2>. DEFINE w == SubSeq(v, 3, Len(v))
    <2>1. Len(w) = Len(v) - 2 /\ k - 2 \in 1..Len(w) /\ w[k - 2] = v[k]
        BY <1>6
    <2>2. w \in Seq(Words)
        BY <1>6
    <2>. HIDE DEF w
    <2>. QED
        BY <2>1, <2>2
<1>8. \A k \in 1..Len(v) : k # 2 => v[k] \notin {"%26", "%3D", "+", ";", "=", "SP"}
    <2>1. \A k \in 3..Len(v) : v[k] \notin Between
        BY <1>7, WordsAreWords
    <2>2. \A k \in 1..Len(v) : k = 1 \/ k = 2 \/ k \in 3..Len(v)
        BY <1>6
    <2>3. {"%26", "%3D", "+", ";", "=", "SP"} \subseteq Between
        BY DEF Between
    <2>. QED
        BY <1>6, <2>1, <2>2, <2>3
<1>9. c = v
    <2>. DEFINE f == NotBlank(v)
                d == TRUE
                e == 1
                o == Position(f, d)
    <2>1. /\ f \in Seq(BOOLEAN) /\ Len(f) = Len(v) /\ (f[1] = TRUE <=> v[1] # "SP")
          /\ Stripped(v) = IF o = 0 THEN << >> ELSE SubSeq(v, o, Len(v))
        <3>1. 1 \in 1..Len(v)
            BY <1>6
        <3>. QED
            BY <1>6, <3>1, StrippedIs
    <2>2. e \in 1..Len(f) /\ f[e] = d /\ \A q \in 1..(e - 1) : f[q] # d
        BY <1>6, <2>1
    <2>. HIDE DEF f, d, e
    <2>3. o = e
        BY <2>1, <2>2, PositionAt
    <2>. HIDE DEF o
    <2>4. SubSeq(v, 1, Len(v)) = v
        BY <1>6, Slices
    <2>. QED
        BY <1>3, <2>1, <2>3, <2>4 DEF e
<1>10. Decoded(FirstCookie(v)) = v
    <2>1. Lacks(v, ";")
        BY <1>6, <1>8 DEF Lacks
    <2>2. Position(v, ";") = 0
        BY <1>6, <2>1, PositionNone
    <2>3. \A k \in 1..Len(v) : v[k] \notin {"%26", "%3D", "+"}
        BY <1>6, <1>8
    <2>. QED
        BY <1>6, <2>2, <2>3, DecodedPlain DEF FirstCookie
<1>11. Position(v, "=") = 2
    <2>. DEFINE e == 2
    <2>1. e \in 1..Len(v) /\ v[e] = "=" /\ \A o \in 1..(e - 1) : v[o] # "="
        BY <1>6
    <2>. HIDE DEF e
    <2>2. Position(v, "=") = e
        BY <1>6, <2>1, PositionAt
    <2>. QED
        BY <2>2 DEF e
<1>12. Until(v, "=") = <<"sid">>
    <2>1. SubSeq(v, 1, 1) = <<"sid">> /\ 2 - 1 = 1
        BY <1>6, Slices
    <2>. QED
        BY <1>11, <2>1 DEF Until
<1>13. ASSUME NEW e PROVE KvFind(<<[key |-> <<"sid">>, value |-> e]>>, <<"sid">>) = e
    <2>. DEFINE name == <<"sid">>
                list == <<[key |-> name, value |-> e]>>
                t == [k \in DOMAIN list |-> list[k].key]
                o == 1
    <2>1. t \in Seq({name}) /\ Len(t) = 1 /\ t[1] = name
        OBVIOUS
    <2>2. KvFind(list, name) = IF Position(t, name) = 0 THEN Null ELSE list[Position(t, name)].value
        BY DEF KvFind
    <2>3. o \in 1..Len(t) /\ t[o] = name /\ \A q \in 1..(o - 1) : t[q] # name
        BY <2>1
    <2>4. list[o].value = e /\ o # 0
        OBVIOUS
    <2>. HIDE DEF t, name, o
    <2>5. Position(t, name) = o
        BY <2>1, <2>3, PositionAt
    <2>. QED
        BY <2>2, <2>4, <2>5 DEF name
<1>. QED
    BY <1>9, <1>10, <1>11, <1>12, <1>13 DEF c

\* What stands between the second slash and the third is the id.
LEMMA IdIs ==
    ASSUME NEW B \in Sendable, \E k \in DOMAIN B.path : B.path[k] \in Numerals,
           Until(Tail(B.path), "/") \in ReadsId
    PROVE  Until(Behind(Tail(B.path), "/"), "/") = SubSeq(B.path, 4, Len(B.path) - 1)
<1>. DEFINE path == B.path
            l == Len(path)
            t == Tail(path)
            id == SubSeq(path, 4, l - 1)
            y == Behind(t, "/")
<1>1. /\ path \in Seq(Tokens) /\ l \in Nat /\ l >= 5 /\ path[3] = "/" /\ path[l] = "/"
      /\ id \in Seq(Numerals)
    <2>1. path \in Seq(Tokens)
        BY AddressIs
    <2>. QED
        BY <2>1, BrowserAssumption
<1>2. "/" \notin Numerals /\ "/" \in Tokens /\ Numerals \subseteq Tokens
    BY Separators, WordsAreWords, HttpRequestAssumption DEF Between, Tokens
<1>. HIDE DEF path, id, l
<1>3. t \in Seq(Tokens) /\ Len(t) = l - 1 /\ \A k \in 1..(l - 1) : t[k] = path[k + 1]
    BY <1>1 DEF l, t
<1>4. id \in Seq(Tokens) /\ Len(id) = l - 4 /\ \A k \in 1..(l - 4) : id[k] = path[k + 3]
    BY <1>1 DEF l, id
<1>. HIDE DEF t
<1>5. Lacks(id, "/")
    BY <1>1, <1>2 DEF Lacks
<1>6. t[1] # "/"
    <2>. SUFFICES ASSUME t[1] = "/" PROVE FALSE
        OBVIOUS
    <2>. DEFINE o == 1
    <2>1. o \in 1..Len(t) /\ t[o] = "/" /\ \A q \in 1..(o - 1) : t[q] # "/"
        BY <1>1, <1>3
    <2>. HIDE DEF o
    <2>2. Position(t, "/") = o
        BY <1>3, <2>1, PositionAt
    <2>3. Until(t, "/") = << >>
        BY <1>3, <2>2 DEF Until, o
    <2>4. << >> \notin ReadsId
        BY DEF ReadsId
    <2>. QED
        BY <2>3, <2>4 DEF t, path
<1>7. Position(t, "/") = 2
    <2>. DEFINE o == 2
    <2>1. o \in 1..Len(t) /\ t[o] = "/" /\ \A q \in 1..(o - 1) : t[q] # "/"
        BY <1>1, <1>3, <1>6
    <2>. HIDE DEF o
    <2>2. Position(t, "/") = o
        BY <1>3, <2>1, PositionAt
    <2>. QED
        BY <2>2 DEF o
<1>8. y = SubSeq(t, 3, l - 1)
    BY <1>3, <1>7 DEF Behind
<1>. HIDE DEF y
<1>9. y \in Seq(Tokens) /\ Len(y) = l - 3 /\ \A k \in 1..(l - 3) : y[k] = path[k + 3]
    <2>1. y \in Seq(Tokens) /\ Len(y) = l - 3 /\ \A k \in 1..(l - 3) : y[k] = t[k + 2]
        BY <1>1, <1>3, <1>8
    <2>2. ASSUME NEW k \in 1..(l - 3) PROVE t[k + 2] = path[k + 3]
        <3>1. k + 2 \in 1..(l - 1) /\ (k + 2) + 1 = k + 3
            BY <1>1
        <3>2. t[k + 2] = path[(k + 2) + 1]
            BY <1>3, <3>1
        <3>. QED
            BY <3>1, <3>2
    <2>. QED
        BY <2>1, <2>2
<1>10. Position(y, "/") = l - 3
    <2>. DEFINE o == l - 3
    <2>1. o \in 1..Len(y) /\ o + 3 = l
        BY <1>1, <1>9
    <2>2. y[o] = "/"
        <3>1. y[o] = path[o + 3]
            BY <1>1, <1>9, <2>1
        <3>. QED
            BY <1>1, <2>1, <3>1
    <2>3. \A q \in 1..(o - 1) : y[q] # "/"
        <3>. TAKE q \in 1..(o - 1)
        <3>1. q \in 1..(l - 4) /\ q \in 1..(l - 3)
            BY <1>1
        <3>2. y[q] = id[q]
            BY <1>4, <1>9, <3>1
        <3>. QED
            BY <1>4, <1>5, <3>1, <3>2 DEF Lacks
    <2>. HIDE DEF o
    <2>4. Position(y, "/") = o
        BY <1>9, <2>1, <2>2, <2>3, PositionAt
    <2>. QED
        BY <2>4 DEF o
<1>11. Until(y, "/") = id
    <2>. DEFINE z == SubSeq(y, 1, l - 4)
    <2>1. /\ z \in Seq(Tokens) /\ Len(z) = l - 4
          /\ \A k \in 1..(l - 4) : z[k] = y[k]
        BY <1>1, <1>9
    <2>2. (l - 3) - 1 = l - 4
        BY <1>1
    <2>3. Until(y, "/") = z
        BY <1>10, <2>2 DEF Until
    <2>. HIDE DEF z
    <2>4. ASSUME NEW k \in 1..(l - 4) PROVE z[k] = id[k]
        <3>1. k \in 1..(l - 3)
            BY <1>1
        <3>. QED
            BY <1>4, <1>9, <2>1, <3>1
    <2>5. z = id
        BY <1>4, <2>1, <2>4
    <2>. QED
        BY <2>3, <2>5
<1>. QED
    BY <1>11 DEF y, t, id, l, path

---------------------------------------------------------------------------
(* The invariant: what was read and what is left make what was sent *)

\* Text t is what is left of text all, but for what recv did not return.
Goes(w, t, all) ==
    /\ t \in Seq(Tokens) /\ all \in Seq(Tokens)
    /\ \E g \in Seq(Tokens) : t \o g = all /\ (w => g = << >>)

\* Entries of a list are fields that were sent, or the beginnings of such.
AllShortened(list, fields) ==
    \E S : list \in Seq(S) /\ \A e \in S : \E f \in Range(fields) : Shortened(e, f)

\* The cookie that was sent, and whether a form was.
SidSent(B)  == FirstHeader(B.headers, <<"cookie">>)
FormSent(B) == FirstHeader(B.headers, <<"content-type">>) = FormType

LineKept(B, r)       == IsRequest(r) /\ r.uri = B.path
QueryKept(B, r)      == FieldsKept(B.query, r.query)
HeadersKept(B, w, r) == w => r.headers = HeadersRead(B.headers, 0)
CookiesKept(B, w, r) ==
    w /\ SidSent(B) # Null => KvFind(r.cookies, <<"sid">>) = Behind(SidSent(B), "=")
SidKept(B, w, r)     == w => r.sid = IF SidSent(B) # Null THEN Behind(SidSent(B), "=") ELSE Null
FormKept(B, w, r)    == IF w THEN IF FormSent(B) THEN FieldsKept(B.form, r.form) ELSE r.form = << >>
                             ELSE Plain(B.form) => AllShortened(r.form, B.form)

InLine(B, w, t, r) == Goes(w, t, RequestText(B)) /\ r = NoRequest

InQuery(B, w, t, d, r) ==
    /\ Goes(w, t, BehindLine(B)) /\ Reading(B.query, d, r.query)
    /\ r.headers = << >> /\ r.form = << >> /\ r.sid = Null

InHeaders(B, w, t, r) ==
    /\ \E k \in 0..Len(B.headers) :
           /\ Goes(w, t, LinesLeft(B.headers, k) \o (<<CRLF>> \o Form(B.form)))
           /\ r.headers = HeadersRead(B.headers, k)
    /\ r.form = << >> /\ r.sid = Null

InBody(B, w, t, r) == Goes(w, t, Form(B.form)) /\ HeadersKept(B, w, r) /\ r.form = << >> /\ r.sid = Null

\* Of a form that was cut, what is left to read has no field, or goes on to the last fields.
FormLeft(B, w, d, r) ==
    IF w THEN FormSent(B) /\ Reading(B.form, d, r.form)
    ELSE Plain(B.form) =>
              /\ AllShortened(r.form, B.form)
              /\ Lexes(d) => \E k \in 1..Len(B.form), g \in Seq(Tokens) : CutLeft(B.form, k, d, g)

IdKept(B, r) ==
    LET id == SubSeq(B.path, 4, Len(B.path) - 1)
    IN  (\E k \in DOMAIN B.path : B.path[k] \in Numerals)
        /\ Until(Tail(r.uri), "/") \in ReadsId /\ Len(id) < IdBuffer => r.id = id

InForm(B, w, d, r)  == /\ HeadersKept(B, w, r) /\ CookiesKept(B, w, r)
                       /\ FormLeft(B, w, d, r) /\ r.sid = Null
InRoute(B, w, r)    == /\ HeadersKept(B, w, r) /\ CookiesKept(B, w, r)
                       /\ FormKept(B, w, r) /\ r.sid = Null
InId(B, w, r)       == HeadersKept(B, w, r) /\ FormKept(B, w, r) /\ SidKept(B, w, r)
InDone(B, w, r)     == /\ HeadersKept(B, w, r) /\ FormKept(B, w, r) /\ IdKept(B, r)
                       /\ Until(Tail(r.uri), "/") # <<"static">> => SidKept(B, w, r)

\* A text without its first p tokens.
Past(t, p) == SubSeq(t, p + 1, Len(t))

\* What is left of the text begins a line.
LineEnded(t, r) == \E p \in 1..Len(t) : t[p] = CRLF /\ r = Past(t, p)

\* As long as nothing behind the terminator was read.
Followed ==
    /\ sent \in Sendable /\ whole \in BOOLEAN /\ got \in Seq(Tokens)
    /\ stage = "line" => InLine(sent, whole, rest, req) /\ rest = got
    /\ stage \in {"query", "headers"} => LineEnded(got, rest)
    /\ stage = "query" => LineKept(sent, req) /\ InQuery(sent, whole, rest, todo, req)
    /\ stage \in {"headers", "cookies", "body", "form", "route", "id", "done"} =>
           LineKept(sent, req) /\ QueryKept(sent, req)
    /\ stage = "headers" => InHeaders(sent, whole, rest, req)
    /\ stage \in {"cookies", "body"} => InBody(sent, whole, rest, req)
    /\ stage = "body" => CookiesKept(sent, whole, req)
    /\ stage = "form" => InForm(sent, whole, todo, req)
    /\ stage = "route" => InRoute(sent, whole, req)
    /\ stage = "id" => InId(sent, whole, req)
    /\ stage = "done" => InDone(sent, whole, req)

ReadInv == behind \in BOOLEAN /\ IF behind THEN ~whole /\ CutAtLineEnd ELSE Followed

LEMMA KeptWhole ==
    ASSUME sent' = sent, got' = got
    PROVE  whole' = whole /\ CutAtLineEnd' = CutAtLineEnd
    BY DEF whole, CutAtLineEnd

\* A text that goes on to u, c and x has c where u ends, or ends there.
LEMMA GoesOn ==
    ASSUME NEW w \in BOOLEAN, NEW t, NEW u \in Seq(Tokens), NEW c \in Tokens, NEW x \in Seq(Tokens),
           Lacks(u, c), Goes(w, t, u \o (<<c>> \o x))
    PROVE  \/ /\ Position(t, c) = Len(u) + 1 /\ Until(t, c) = u
              /\ Goes(w, Behind(t, c), x) /\ t = u \o (<<c>> \o Behind(t, c))
           \/ /\ Position(t, c) = 0 /\ ~w /\ Len(t) <= Len(u)
              /\ \A k \in 1..Len(t) : t[k] = u[k]
<1>1. t \in Seq(Tokens)
    BY DEF Goes
<1>2. PICK g \in Seq(Tokens) : t \o g = u \o (<<c>> \o x) /\ (w => g = << >>)
    BY DEF Goes
<1>3. Cutting(Tokens, t, g, u, c, x)
    BY <1>1, <1>2 DEF Cutting
<1>4. CutThere(Tokens, t, g, u, c, x) \/ CutBefore(t, g, u, c)
    BY <1>3, CutAt
<1>5. CASE CutThere(Tokens, t, g, u, c, x)
    <2>1. PICK b \in Seq(Tokens) : /\ b \o g = x /\ Position(t, c) = Len(u) + 1
                                   /\ Until(t, c) = u /\ Behind(t, c) = b
                                   /\ t = u \o (<<c>> \o b)
        BY <1>5 DEF CutThere
    <2>2. Goes(w, b, x)
        BY <1>2, <2>1 DEF Goes
    <2>. QED
        BY <2>1, <2>2
<1>6. CASE CutBefore(t, g, u, c)
    BY <1>2, <1>6 DEF CutBefore
<1>. QED
    BY <1>4, <1>5, <1>6

LEMMA WholeGoes ==
    ASSUME NEW t \in Seq(Tokens)
    PROVE  Goes(TRUE, t, t)
<1>1. << >> \in Seq(Tokens) /\ t \o << >> = t
    BY NoneJoined
<1>. QED
    BY <1>1 DEF Goes

LEMMA ReadInit == RequestInit => ReadInv
<1>. SUFFICES ASSUME RequestInit PROVE ReadInv
    OBVIOUS
<1>. DEFINE t == RequestText(sent)
<1>1. t \in Seq(Tokens) /\ sent \in Sendable
    BY RequestTextIs DEF RequestInit
<1>2. whole \in BOOLEAN /\ (whole <=> got = t)
    BY DEF whole
<1>3. Goes(whole, got, t)
    <2>1. CASE got = t
        <3>1. Goes(TRUE, t, t)
            BY <1>1, WholeGoes
        <3>. QED
            BY <1>2, <2>1, <3>1
    <2>2. ASSUME got # t, NEW l \in 1..(Len(t) - 1), got = SubSeq(t, 1, l)
          PROVE  Goes(whole, got, t)
        <3>. HIDE DEF t
        <3>. DEFINE a == SubSeq(t, 1, l)
                    b == SubSeq(t, l + 1, Len(t))
        <3>1. l \in 0..Len(t)
            BY <1>1
        <3>2. a \in Seq(Tokens) /\ b \in Seq(Tokens) /\ a \o b = t
            BY <1>1, <3>1, SplitAt
        <3>. HIDE DEF a, b
        <3>3. Goes(FALSE, a, t)
            BY <1>1, <3>2 DEF Goes
        <3>. QED
            BY <1>2, <2>2, <3>3 DEF a
    <2>3. got = t \/ \E l \in 1..(Len(t) - 1) : got = SubSeq(t, 1, l)
        BY DEF RequestInit
    <2>. QED
        BY <2>1, <2>2, <2>3
<1>4. got \in Seq(Tokens)
    BY <1>3 DEF Goes
<1>. QED
    BY <1>1, <1>2, <1>3, <1>4 DEF RequestInit, ReadInv, Followed, InLine

\* What stands behind the first p tokens of a text, and what behind q tokens of that.
PartBehind(t, p, r, q, o) ==
    /\ t \in Seq(Tokens) /\ p \in 0..Len(t) /\ r = Past(t, p) /\ q \in 1..Len(r) /\ o = p + q

LEMMA TwiceBehind ==
    ASSUME NEW t, NEW p, NEW r, NEW q, NEW o, PartBehind(t, p, r, q, o)
    PROVE  o \in 1..Len(t) /\ t[o] = r[q] /\ Past(r, q) = Past(t, o)
<1>. DEFINE S == Tokens
<1>0. t \in Seq(S) /\ p \in 0..Len(t) /\ r = SubSeq(t, p + 1, Len(t)) /\ q \in 1..Len(r) /\ o = p + q
    BY DEF PartBehind, Past
<1>. HIDE DEF S
<1>1. /\ r \in Seq(S) /\ Len(r) = Len(t) - p /\ Len(t) \in Nat
      /\ \A k \in 1..(Len(t) - p) : r[k] = t[p + k]
    BY <1>0
<1>2. o \in 1..Len(t)
    BY <1>0, <1>1
<1>. DEFINE a == Past(r, q)
            b == Past(t, o)
            l == Len(t) - o
<1>3. a \in Seq(S) /\ Len(a) = l /\ \A k \in 1..l : a[k] = r[q + k]
    BY <1>0, <1>1 DEF Past
<1>4. b \in Seq(S) /\ Len(b) = l /\ \A k \in 1..l : b[k] = t[o + k]
    BY <1>0, <1>1, <1>2 DEF Past
<1>5. l \in Nat /\ \A k \in 1..l : q + k \in 1..(Len(t) - p) /\ p + (q + k) = o + k
    BY <1>0, <1>1, <1>2
<1>6. t[o] = r[q]
    BY <1>0, <1>1
<1>. HIDE DEF a, b, l
<1>7. ASSUME NEW k \in 1..l PROVE a[k] = b[k]
    <2>1. r[q + k] = t[p + (q + k)]
        BY <1>1, <1>5
    <2>. QED
        BY <1>3, <1>4, <1>5, <2>1
<1>8. a = b
    BY <1>3, <1>4, <1>7
<1>. QED
    BY <1>2, <1>6, <1>8 DEF a, b

LEMMA LineEndedIs ==
    ASSUME NEW t \in Seq(Tokens), NEW r, LineEnded(t, r), Position(r, CRLF) # 0
    PROVE  LineEnded(t, Behind(r, CRLF))
<1>1. PICK p \in 1..Len(t) : r = Past(t, p)
    BY DEF LineEnded
<1>. DEFINE q == Position(r, CRLF)
            o == p + q
<1>2. p \in 0..Len(t) /\ r \in Seq(Tokens)
    BY <1>1 DEF Past
<1>3. q \in 1..Len(r) /\ r[q] = CRLF
    BY <1>2, PositionIs
<1>4. Behind(r, CRLF) = Past(r, q)
    BY DEF Behind, Past
<1>. HIDE DEF q
<1>5. PartBehind(t, p, r, q, o)
    BY <1>1, <1>2, <1>3 DEF PartBehind
<1>. HIDE DEF o
<1>6. o \in 1..Len(t) /\ t[o] = r[q] /\ Past(r, q) = Past(t, o)
    BY <1>5, TwiceBehind
<1>. QED
    BY <1>3, <1>4, <1>6 DEF LineEnded

\* A text that goes on to u, c and x: what it lacks behind c it lacks.
Going(w, t, u, c, x) ==
    /\ w \in BOOLEAN /\ u \in Seq(Tokens) /\ c \in Tokens /\ x \in Seq(Tokens)
    /\ Lacks(u, c) /\ Goes(w, t, u \o (<<c>> \o x))

LEMMA GoesOnOr ==
    ASSUME NEW w, NEW t, NEW u, NEW c, NEW x, Going(w, t, u, c, x)
    PROVE  \/ Position(t, c) = Len(u) + 1 /\ Until(t, c) = u /\ Goes(w, Behind(t, c), x)
           \/ Position(t, c) = 0 /\ ~w /\ Len(t) <= Len(u)
<1>. w \in BOOLEAN /\ u \in Seq(Tokens) /\ c \in Tokens /\ x \in Seq(Tokens) /\ Lacks(u, c)
    BY DEF Going
<1>1. Goes(w, t, u \o (<<c>> \o x))
    BY DEF Going
<1>. QED
    BY <1>1, GoesOn

LEMMA CutShort ==
    ASSUME NEW w, NEW t, NEW u, NEW c, NEW x, Going(w, t, u, c, x), NEW d, d # c, Lacks(u, d)
    PROVE  \/ Position(t, c) # 0 /\ (Lacks(Behind(t, c), d) => Lacks(t, d))
           \/ Position(t, c) = 0 /\ ~w /\ Lacks(t, d)
<1>. w \in BOOLEAN /\ u \in Seq(Tokens) /\ c \in Tokens /\ x \in Seq(Tokens) /\ Lacks(u, c)
    BY DEF Going
<1>0. Goes(w, t, u \o (<<c>> \o x))
    BY DEF Going
<1>1. CASE Position(t, c) = Len(u) + 1 /\ Goes(w, Behind(t, c), x) /\ t = u \o (<<c>> \o Behind(t, c))
    <2>. DEFINE b == Behind(t, c)
                e == <<c>>
    <2>1. b \in Seq(Tokens) /\ e \in Seq(Tokens) /\ Lacks(e, d)
        BY <1>1 DEF Goes, Lacks
    <2>. HIDE DEF b, e
    <2>2. e \o b \in Seq(Tokens) /\ (Lacks(b, d) => Lacks(e \o b, d))
        BY <2>1, JoinedIs, LacksJoined
    <2>. DEFINE y == e \o b
    <2>. HIDE DEF y
    <2>3. Lacks(y, d) => Lacks(u \o y, d)
        BY <2>2, LacksJoined DEF y
    <2>4. t = u \o y
        BY <1>1 DEF y, e, b
    <2>5. Position(t, c) # 0
        <3>1. Len(u) \in Nat
            OBVIOUS
        <3>. QED
            BY <1>1, <3>1
    <2>. QED
        BY <2>2, <2>3, <2>4, <2>5 DEF y, b
<1>2. CASE /\ Position(t, c) = 0 /\ ~w /\ Len(t) <= Len(u)
           /\ \A k \in 1..Len(t) : t[k] = u[k]
    <2>1. Len(t) \in Nat /\ Len(u) \in Nat
        BY <1>0 DEF Goes
    <2>2. Lacks(t, d)
        BY <1>2, <2>1 DEF Lacks
    <2>. QED
        BY <1>2, <2>2
<1>. QED
    BY <1>0, <1>1, <1>2, GoesOn

\* The parts of a request line, and the text from each of them on.
LineParts(B, M, v, a, z, x, ax) ==
    /\ z = BehindLine(B) /\ x = v \o (<<CRLF>> \o z) /\ ax = a \o (<<"SP">> \o x) /\ a = Address(B)
    /\ RequestText(B) = M \o (<<"SP">> \o ax)
    /\ M \in Seq(Tokens) /\ v \in Seq(Tokens) /\ a \in Seq(Tokens) /\ z \in Seq(Tokens)
    /\ x \in Seq(Tokens) /\ ax \in Seq(Tokens)
    /\ Lacks(M, "SP") /\ Lacks(M, CRLF) /\ Lacks(a, "SP") /\ Lacks(a, CRLF)
    /\ Lacks(v, CRLF) /\ Len(v) = 1

LEMMA LinePartsAre ==
    ASSUME NEW B \in Sendable
    PROVE  \E M, v, a, z, x, ax : LineParts(B, M, v, a, z, x, ax)
<1>. DEFINE sp == "SP"
            z == BehindLine(B)
            cr == <<CRLF>> \o z
            v == <<B.version>>
            x == v \o cr
            a == Address(B)
            e == <<sp>> \o x
            ax == a \o e
            M == <<B.method>>
<1>1. /\ z \in Seq(Tokens) /\ CRLF \in Tokens /\ sp \in Tokens
      /\ M \in Seq(Tokens) /\ v \in Seq(Tokens) /\ a \in Seq(Tokens)
      /\ Lacks(M, sp) /\ Lacks(M, CRLF) /\ Lacks(v, CRLF) /\ Lacks(a, sp) /\ Lacks(a, CRLF)
      /\ Len(v) = 1
    <2>1. B.method \in Words /\ B.version \in Words
        BY SentIs
    <2>0. "SP" \in Between
        BY DEF Between
    <2>2. CRLF \in Tokens /\ "SP" \in Between /\ "SP" \in Tokens
        BY <2>0, WordsAreWords, Separators, Zenon
    <2>3. B.method # sp /\ B.method # CRLF /\ B.version # CRLF /\ B.method \in Tokens /\ B.version \in Tokens
        <3>1. \A c \in Words : c \notin Between /\ c # CRLF /\ c \in Tokens
            BY WordsAreWords, Zenon
        <3>2. sp \in Between
            BY <2>2
        <3>. HIDE DEF sp
        <3>. QED
            BY <2>1, <3>1, <3>2
    <2>4. Lacks(M, sp) /\ Lacks(M, CRLF) /\ Lacks(v, CRLF)
        BY <2>3 DEF Lacks
    <2>5. z \in Seq(Tokens)
        BY RequestTextIs
    <2>6. a \in Seq(Tokens) /\ Lacks(a, sp) /\ Lacks(a, CRLF)
        BY AddressIs
    <2>7. M \in Seq(Tokens) /\ v \in Seq(Tokens) /\ Len(v) = 1
        BY <2>3
    <2>. QED
        BY <2>2, <2>4, <2>5, <2>6, <2>7
<1>2. RequestText(B) = M \o (<<sp>> \o ax)
    BY RequestTextIs, Zenon
<1>. HIDE DEF z, M, a, v
<1>3. cr \in Seq(Tokens)
    BY <1>1, OneToken
<1>. HIDE DEF cr
<1>4. x \in Seq(Tokens)
    BY <1>1, <1>3, JoinedIs
<1>. HIDE DEF x
<1>5. e \in Seq(Tokens)
    BY <1>1, <1>4, OneToken
<1>. HIDE DEF e
<1>6. ax \in Seq(Tokens)
    BY <1>1, <1>5, JoinedIs
<1>7. x = v \o (<<CRLF>> \o z) /\ ax = a \o (<<"SP">> \o x)
    BY DEF x, cr, e, sp
<1>. HIDE DEF ax
<1>8. LineParts(B, M, v, a, z, x, ax)
    BY <1>1, <1>2, <1>4, <1>6, <1>7 DEF LineParts, z, a, sp
<1>. QED
    BY <1>8

\* What stands behind the first separator of a text, and all behind the second.
BehindTwo(t, c, tail, y) ==
    /\ tail = IF Position(t, c) = 0 THEN << >> ELSE Behind(t, c)
    /\ y = IF Position(tail, c) = 0 THEN << >> ELSE Behind(tail, c)

\* The request line: method, address and version are cut at the spaces, or not at all.
LEMMA RequestLineIs ==
    ASSUME NEW B \in Sendable, NEW w \in BOOLEAN, NEW t, Goes(w, t, RequestText(B)),
           NEW tail, NEW y, BehindTwo(t, "SP", tail, y)
    PROVE  /\ Len(y) >= 2 => /\ Until(tail, "SP") = Address(B) /\ LineEnded(t, Past(y, 2))
                             /\ Goes(w, Past(y, 2), BehindLine(B))
           /\ Len(y) < 2 => ~w /\ Position(t, CRLF) = 0
<1>1. PICK M, v, a, z, x, ax : LineParts(B, M, v, a, z, x, ax)
    BY LinePartsAre
<1>. DEFINE sp == "SP"
            cr == CRLF
<1>2. sp \in Tokens /\ cr \in Tokens /\ cr # sp
    <2>0. "SP" \in Between
        BY DEF Between
    <2>1. "SP" \in Between /\ CRLF \in Tokens
        BY <2>0, WordsAreWords, Zenon
    <2>2. CRLF # "SP"
        BY DEF CRLF
    <2>. QED
        BY <2>1, <2>2, Separators
<1>3. /\ z = BehindLine(B) /\ x = v \o (<<cr>> \o z) /\ ax = a \o (<<sp>> \o x) /\ a = Address(B)
      /\ RequestText(B) = M \o (<<sp>> \o ax)
      /\ M \in Seq(Tokens) /\ v \in Seq(Tokens) /\ a \in Seq(Tokens) /\ z \in Seq(Tokens)
      /\ x \in Seq(Tokens) /\ ax \in Seq(Tokens)
      /\ Lacks(M, sp) /\ Lacks(M, cr) /\ Lacks(a, sp) /\ Lacks(a, cr)
      /\ Lacks(v, cr) /\ Len(v) = 1
    BY <1>1, Zenon DEF LineParts
<1>4. t \in Seq(Tokens) /\ Going(w, t, M, sp, ax)
    <2>1. Goes(w, t, M \o (<<sp>> \o ax))
        BY <1>3
    <2>2. t \in Seq(Tokens)
        BY <2>1 DEF Goes
    <2>. QED
        BY <1>2, <1>3, <2>1, <2>2 DEF Going
<1>5. ASSUME NEW u, u \in Seq(Tokens), Lacks(u, cr) PROVE Position(u, cr) = 0
    BY <1>5, PositionNone
<1>6. /\ tail = IF Position(t, sp) = 0 THEN << >> ELSE Behind(t, sp)
      /\ y = IF Position(tail, sp) = 0 THEN << >> ELSE Behind(tail, sp)
    BY Zenon DEF BehindTwo
<1>. HIDE DEF sp, cr
<1>7. CASE Position(t, sp) = 0
    <2>1. ~w /\ Lacks(t, cr)
        BY <1>2, <1>3, <1>4, <1>7, CutShort
    <2>2. Position(<< >>, sp) = 0
        <3>1. << >> \in Seq(Tokens) /\ Lacks(<< >>, sp)
            BY DEF Lacks
        <3>. QED
            BY <3>1, PositionNone
    <2>3. Len(y) = 0
        BY <1>6, <1>7, <2>2
    <2>. QED
        BY <1>4, <1>5, <2>1, <2>3 DEF cr
<1>8. CASE Position(t, sp) # 0
    <2>1. Goes(w, tail, ax) /\ tail \in Seq(Tokens)
        <3>1. Goes(w, tail, ax)
            BY <1>4, <1>6, <1>8, GoesOnOr
        <3>. QED
            BY <3>1 DEF Goes
    <2>2. Lacks(tail, cr) => Lacks(t, cr)
        BY <1>2, <1>3, <1>4, <1>6, <1>8, CutShort
    <2>3. Going(w, tail, a, sp, x)
        <3>1. Goes(w, tail, a \o (<<sp>> \o x))
            BY <1>3, <2>1
        <3>. QED
            BY <1>2, <1>3, <3>1 DEF Going
    <2>4. CASE Position(tail, sp) = 0
        <3>1. ~w /\ Lacks(tail, cr)
            BY <1>2, <1>3, <2>3, <2>4, CutShort
        <3>2. Len(y) = 0
            BY <1>6, <2>4
        <3>. QED
            BY <1>4, <1>5, <2>2, <3>1, <3>2 DEF cr
    <2>5. CASE Position(tail, sp) # 0
        <3>1. Until(tail, sp) = a /\ Goes(w, y, x) /\ y = Behind(tail, sp)
            BY <1>6, <2>3, <2>5, GoesOnOr
        <3>2. y \in Seq(Tokens) /\ Len(y) \in Nat /\ Going(w, y, v, cr, z)
            <4>1. Goes(w, y, v \o (<<cr>> \o z))
                BY <1>3, <3>1
            <4>2. y \in Seq(Tokens) /\ Len(y) \in Nat
                BY <4>1 DEF Goes
            <4>. QED
                BY <1>2, <1>3, <4>1, <4>2 DEF Going
        <3>3. Lacks(y, cr) => Lacks(tail, cr)
            BY <1>2, <1>3, <2>3, <2>5, <3>1, CutShort
        <3>4. \/ Position(y, cr) = 2 /\ Goes(w, Behind(y, cr), z)
              \/ Position(y, cr) = 0 /\ ~w /\ Len(y) <= 1
            <4>1. Len(v) + 1 = 2
                BY <1>3
            <4>. QED
                BY <1>3, <3>2, <4>1, GoesOnOr
        <3>5. CASE Position(y, cr) = 2 /\ Goes(w, Behind(y, cr), z)
            <4>1. 2 \in 1..Len(y) /\ y[2] = cr
                BY <3>2, <3>5, PositionIs
            <4>2. Behind(y, cr) = Past(y, 2)
                BY <3>5 DEF Behind, Past
            <4>3. LineEnded(t, Past(y, 2))
                <5>. DEFINE p == Position(t, sp)
                            q == Position(tail, sp)
                <5>1. p \in 1..Len(t) /\ p \in 0..Len(t) /\ q \in 1..Len(tail)
                    BY <1>4, <1>8, <2>1, <2>5, PositionIs
                <5>2. tail = Past(t, p) /\ y = Past(tail, q)
                    BY <1>6, <1>8, <3>1 DEF Behind, Past
                <5>. DEFINE o == p + q
                            l == o + 2
                <5>3. PartBehind(t, p, tail, q, o)
                    BY <1>4, <5>1, <5>2, Zenon DEF PartBehind
                <5>. HIDE DEF p, q
                <5>. HIDE DEF o
                <5>4. o \in 1..Len(t) /\ y = Past(t, o)
                    BY <5>2, <5>3, TwiceBehind
                <5>5. o \in 0..Len(t)
                    BY <5>4
                <5>6. PartBehind(t, o, y, 2, l)
                    BY <1>4, <4>1, <5>4, <5>5, Zenon DEF PartBehind
                <5>. HIDE DEF l
                <5>7. l \in 1..Len(t) /\ t[l] = y[2] /\ Past(y, 2) = Past(t, l)
                    BY <5>6, TwiceBehind
                <5>. QED
                    BY <4>1, <5>7 DEF LineEnded, cr
            <4>4. Len(y) >= 2
                BY <3>2, <4>1
            <4>5. Goes(w, Past(y, 2), BehindLine(B)) /\ Until(tail, "SP") = Address(B)
                BY <1>3, <3>1, <3>5, <4>2 DEF sp
            <4>6. ~ (Len(y) < 2)
                BY <3>2, <4>4
            <4>. QED
                BY <4>3, <4>5, <4>6
        <3>6. CASE Position(y, cr) = 0 /\ ~w /\ Len(y) <= 1
            <4>1. Lacks(y, cr)
                BY <3>2, <3>6, PositionIs
            <4>2. ~ (Len(y) >= 2)
                BY <3>2, <3>6
            <4>. QED
                BY <1>4, <1>5, <2>2, <3>3, <3>6, <4>1, <4>2 DEF cr
        <3>. QED
            BY <3>4, <3>5, <3>6
    <2>. QED
        BY <2>4, <2>5
<1>. QED
    BY <1>7, <1>8

\* The address: the path up to a question mark, and the query behind it.
LEMMA AddressCut ==
    ASSUME NEW B \in Sendable
    PROVE  /\ UntilOrAll(Address(B), "?") = B.path
           /\ Position(Address(B), "?") = 0 <=> B.query = << >>
           /\ B.query # << >> =>
                  Decoded(Behind(Address(B), "?")) \o <<"&">> = ToRead(B.query, Len(B.query))
<1>1. B.path \in Seq(Tokens) /\ Lacks(B.path, "?") /\ Form(B.query) \in Seq(Tokens)
    BY AddressIs
<1>2. CASE B.query = << >>
    <2>1. Address(B) = B.path
        BY <1>2, AddressIs
    <2>2. Position(B.path, "?") = 0
        BY <1>1, PositionNone
    <2>. QED
        BY <1>2, <2>1, <2>2 DEF UntilOrAll
<1>3. CASE B.query # << >>
    <2>. DEFINE c == "?"
                p == B.path
                f == Form(B.query)
                a == Address(B)
    <2>1. a = p \o (<<c>> \o f)
        BY <1>3, AddressIs, Zenon
    <2>2. c \in Tokens /\ Len(p) \in Nat
        <3>0. "?" \in Between
            BY DEF Between
        <3>1. c \in Tokens
            BY <3>0, Separators
        <3>. QED
            BY <1>1, <3>1
    <2>3. /\ Position(p \o (<<c>> \o f), c) = Len(p) + 1
          /\ Until(p \o (<<c>> \o f), c) = p
          /\ Behind(p \o (<<c>> \o f), c) = f
        <3>1. p \in Seq(Tokens) /\ f \in Seq(Tokens) /\ Lacks(p, c)
            BY <1>1
        <3>. HIDE DEF p, f, c
        <3>. QED
            BY <2>2, <3>1, AtFirst
    <2>4. Decoded(f) \o <<"&">> = ToRead(B.query, Len(B.query))
        BY <1>3, SentIs, ToReadIs
    <2>. HIDE DEF a, p, f
    <2>5. Position(a, c) # 0 /\ Until(a, c) = p /\ Behind(a, c) = f
        BY <2>1, <2>2, <2>3
    <2>. QED
        BY <1>3, <2>4, <2>5 DEF UntilOrAll, a, p, f
<1>. QED
    BY <1>2, <1>3

\* What the step that reads the request line makes of it.
LEMMA LineRead ==
    ASSUME Followed, stage = "line"
    PROVE  /\ Len(FromVersion) >= 2 =>
                  LET y == SubSeq(FromVersion, 3, Len(FromVersion))
                  IN  /\ Until(FromPath, "SP") = Address(sent) /\ LineEnded(got, y)
                      /\ Goes(whole, y, BehindLine(sent))
           /\ Len(FromVersion) < 2 => ~whole /\ CutAtLineEnd
<1>1. /\ sent \in Sendable /\ whole \in BOOLEAN /\ rest = got
      /\ Goes(whole, rest, RequestText(sent))
    BY DEF Followed, InLine
<1>2. /\ FromPath = IF Position(rest, "SP") = 0 THEN << >> ELSE Behind(rest, "SP")
      /\ FromVersion = IF Position(FromPath, "SP") = 0 THEN << >> ELSE Behind(FromPath, "SP")
    BY DEF FromPath, FromVersion
<1>. DEFINE a == FromPath
            b == FromVersion
<1>3. BehindTwo(rest, "SP", a, b)
    BY <1>2 DEF BehindTwo
<1>. HIDE DEF a, b
<1>4. /\ Len(b) >= 2 => /\ Until(a, "SP") = Address(sent) /\ LineEnded(rest, Past(b, 2))
                        /\ Goes(whole, Past(b, 2), BehindLine(sent))
      /\ Len(b) < 2 => ~whole /\ Position(rest, CRLF) = 0
    BY <1>1, <1>3, RequestLineIs
<1>5. Past(b, 2) = SubSeq(b, 3, Len(b))
    BY DEF Past
<1>. QED
    BY <1>1, <1>4, <1>5 DEF CutAtLineEnd, a, b

LEMMA LineStep ==
    ASSUME Followed, ReadRequestLine
    PROVE  Followed'
<1>. DEFINE path == Until(FromPath, "SP")
            method == rest[1]
<1>0. sent' = sent /\ got' = got /\ whole' = whole
    BY KeptWhole DEF ReadRequestLine
<1>1. stage = "line" /\ sent \in Sendable /\ whole \in BOOLEAN /\ req = NoRequest
    BY DEF Followed, InLine, ReadRequestLine
<1>2. path = Address(sent) /\ Goes(whole, rest', BehindLine(sent)) /\ LineEnded(got', rest')
    <2>1. Len(FromVersion) >= 2 /\ rest' = SubSeq(FromVersion, 3, Len(FromVersion))
        BY DEF ReadRequestLine
    <2>. QED
        BY <1>0, <1>1, <2>1, LineRead
<1>3. TakeLine(method, path) \/ Refuse
    BY DEF ReadRequestLine
<1>. HIDE DEF path, method
<1>4. CASE Refuse
    BY <1>0, <1>1, <1>4 DEF Refuse, Followed
<1>5. CASE TakeLine(method, path)
    <2>1. /\ req' = [req EXCEPT !.method = method, !.uri = UntilOrAll(path, "?")]
          /\ stage' = IF Position(path, "?") = 0 THEN "headers" ELSE "query"
          /\ todo' = IF Position(path, "?") = 0 THEN << >> ELSE Decoded(Behind(path, "?")) \o <<"&">>
        BY <1>5 DEF TakeLine
    <2>6. /\ IsRequest(req') /\ req'.query = << >> /\ req'.headers = << >> /\ req'.form = << >>
          /\ req'.sid = Null /\ req'.uri = UntilOrAll(path, "?")
        <3>. DEFINE x == UntilOrAll(path, "?")
        <3>1. req' = [req EXCEPT !.method = method, !.uri = x]
            BY <2>1
        <3>. HIDE DEF x
        <3>2. req' = [method |-> method, uri |-> x, query |-> << >>, headers |-> << >>,
                      cookies |-> << >>, form |-> << >>, sid |-> Null, id |-> << >>]
            BY <1>1, <3>1 DEF NoRequest
        <3>. QED
            BY <3>2 DEF IsRequest, x
    <2>7. LineKept(sent', req')
        BY <1>0, <1>1, <1>2, <2>6, AddressCut DEF LineKept
    <2>8. /\ sent.query \in Seq(FormFields) /\ sent.headers \in Seq(HeaderFields)
          /\ Len(sent.query) \in Nat /\ Len(sent.headers) \in Nat
        BY <1>1, SentIs
    <2>9. CASE sent.query = << >>
        <3>1. stage' = "headers"
            BY <1>1, <1>2, <2>1, <2>9, AddressCut
        <3>2. QueryKept(sent', req')
            <4>1. Reading(sent.query, <<"&">>, << >>)
                BY <2>8, <2>9, ReadingBegins
            <4>2. FieldsKept(sent.query, << >>)
                BY <2>8, <4>1, NothingToLex, ReadingEnds
            <4>. QED
                BY <1>0, <2>6, <4>2 DEF QueryKept
        <3>3. InHeaders(sent', whole', rest', req')
            <4>1. BehindLine(sent) = LinesLeft(sent.headers, Len(sent.headers)) \o (<<CRLF>> \o Form(sent.form))
                BY <2>8, LinesLeftIs DEF BehindLine
            <4>2. HeadersRead(sent.headers, Len(sent.headers)) = << >>
                BY <2>8, HeadersOn
            <4>3. Len(sent.headers) \in 0..Len(sent.headers)
                BY <2>8
            <4>. QED
                BY <1>0, <1>2, <2>6, <4>1, <4>2, <4>3 DEF InHeaders
        <3>. QED
            BY <1>0, <1>1, <1>2, <2>7, <3>1, <3>2, <3>3 DEF Followed
    <2>10. CASE sent.query # << >>
        <3>1. stage' = "query" /\ todo' = ToRead(sent.query, Len(sent.query))
            BY <1>1, <1>2, <2>1, <2>10, AddressCut
        <3>2. Reading(sent.query, todo', << >>)
            BY <2>8, <2>10, <3>1, ReadingBegins
        <3>3. InQuery(sent', whole', rest', todo', req')
            BY <1>0, <1>2, <2>6, <3>2 DEF InQuery
        <3>. QED
            BY <1>0, <1>1, <1>2, <2>7, <3>1, <3>3 DEF Followed
    <2>. QED
        BY <2>9, <2>10
<1>. QED
    BY <1>3, <1>4, <1>5

LEMMA QueryStep ==
    ASSUME Followed, ReadQuery
    PROVE  Followed'
<1>. DEFINE fields == sent.query
<1>0. sent' = sent /\ got' = got /\ whole' = whole /\ rest' = rest
    BY KeptWhole DEF ReadQuery, ReadField, EndFields
<1>1. /\ stage = "query" /\ sent \in Sendable /\ whole \in BOOLEAN /\ LineEnded(got', rest')
      /\ LineKept(sent, req) /\ InQuery(sent, whole, rest, todo, req)
    BY <1>0 DEF Followed, ReadQuery
<1>2. Reading(fields, todo, req.query)
    BY <1>1 DEF InQuery
<1>3. fields \in Seq(FormFields) /\ sent.headers \in Seq(HeaderFields)
    BY <1>1, SentIs
<1>4. IsRequest(req) /\ req.uri = sent.path
    BY <1>1 DEF LineKept
<1>5. /\ Goes(whole, rest, BehindLine(sent))
      /\ req.headers = << >> /\ req.form = << >> /\ req.sid = Null
    BY <1>1 DEF InQuery
<1>. HIDE DEF fields
<1>6. CASE ReadField("query")
    <2>. DEFINE x == <<Lexed(todo)>> \o req.query
    <2>1. /\ Lexes(todo) /\ req' = [req EXCEPT !.query = x]
          /\ todo' = Behind(todo, "&") /\ stage' = stage
        BY <1>6 DEF ReadField
    <2>2. Reading(fields, todo', x)
        BY <1>2, <1>3, <2>1, ReadingOn
    <2>. HIDE DEF x
    <2>3. But(req', req, {"query"}) /\ req'.query = x
        BY <1>4, <2>1, UpdatedQuery
    <2>4. LineKept(sent', req') /\ InQuery(sent', whole', rest', todo', req')
        <3>1. /\ IsRequest(req') /\ req'.uri = req.uri /\ req'.headers = << >> /\ req'.form = << >>
              /\ req'.sid = Null
            BY <1>5, <2>3 DEF But
        <3>. QED
            BY <1>0, <1>4, <1>5, <2>2, <2>3, <3>1 DEF LineKept, InQuery, fields
    <2>. QED
        BY <1>0, <1>1, <2>1, <2>4 DEF Followed
<1>7. CASE EndFields("headers")
    <2>1. ~ Lexes(todo) /\ stage' = "headers" /\ req' = req
        BY <1>7 DEF EndFields
    <2>2. QueryKept(sent', req')
        BY <1>0, <1>2, <1>3, <2>1, ReadingEnds DEF QueryKept, fields
    <2>3. InHeaders(sent', whole', rest', req')
        <3>1. BehindLine(sent) = LinesLeft(sent.headers, Len(sent.headers)) \o (<<CRLF>> \o Form(sent.form))
            BY <1>3, LinesLeftIs DEF BehindLine
        <3>2. HeadersRead(sent.headers, Len(sent.headers)) = << >>
            BY <1>3, HeadersOn
        <3>3. Len(sent.headers) \in 0..Len(sent.headers)
            BY <1>3
        <3>. QED
            BY <1>0, <1>5, <2>1, <3>1, <3>2, <3>3 DEF InHeaders
    <2>4. LineKept(sent', req')
        BY <1>0, <1>1, <2>1
    <2>. QED
        BY <1>0, <1>1, <2>1, <2>2, <2>3, <2>4 DEF Followed
<1>. QED
    BY <1>6, <1>7 DEF ReadQuery

\* The lines that are left: one of a header, or the empty one.
LEMMA LineCut ==
    ASSUME NEW B \in Sendable, NEW w \in BOOLEAN, NEW t, NEW k \in 0..Len(B.headers),
           Goes(w, t, LinesLeft(B.headers, k) \o (<<CRLF>> \o Form(B.form)))
    PROVE  /\ Position(t, CRLF) = 1 => k = 0 /\ Goes(w, Behind(t, CRLF), Form(B.form))
           /\ Position(t, CRLF) \notin {0, 1} =>
                  /\ k # 0 /\ Until(t, CRLF) = Line(B.headers[Len(B.headers) - k + 1])
                  /\ Goes(w, Behind(t, CRLF), LinesLeft(B.headers, k - 1) \o (<<CRLF>> \o Form(B.form)))
           /\ Position(t, CRLF) = 0 => ~w
           /\ t # << >> => k # 0 \/ Position(t, CRLF) = 1
<1>. DEFINE c == CRLF
            f == Form(B.form)
            l == Len(B.headers)
            e == <<c>> \o f
<1>1. c \in Tokens /\ f \in Seq(Tokens) /\ B.headers \in Seq(HeaderFields) /\ l \in Nat
    <2>1. c \in Tokens
        BY WordsAreWords
    <2>2. f \in Seq(Tokens)
        BY RequestTextIs
    <2>3. B.headers \in Seq(HeaderFields)
        BY SentIs
    <2>. QED
        BY <2>1, <2>2, <2>3
<1>2. t \in Seq(Tokens)
    BY DEF Goes
<1>. HIDE DEF c, f, l
<1>2a. e \in Seq(Tokens)
    BY <1>1, OneToken
<1>3. ASSUME k = 0
      PROVE  \/ Position(t, c) = 1 /\ Goes(w, Behind(t, c), f)
             \/ Position(t, c) = 0 /\ ~w /\ t = << >>
    <2>. DEFINE u == << >>
    <2>1. u \in Seq(Tokens) /\ Len(u) = 0 /\ Lacks(u, c) /\ u \o e = e
        BY <1>2a, NoneJoined DEF Lacks
    <2>2. LinesLeft(B.headers, k) = u
        BY <1>1, <1>3, LinesLeftIs
    <2>3. Goes(w, t, LinesLeft(B.headers, k) \o e)
        BY DEF c, f
    <2>. HIDE DEF u
    <2>4. Goes(w, t, u \o (<<c>> \o f))
        BY <2>2, <2>3
    <2>5. \/ Position(t, c) = Len(u) + 1 /\ Goes(w, Behind(t, c), f)
          \/ Position(t, c) = 0 /\ ~w /\ Len(t) <= Len(u)
        BY <1>1, <2>1, <2>4, GoesOn
    <2>6. Len(t) <= 0 => t = << >>
        BY <1>2
    <2>. QED
        BY <2>1, <2>5, <2>6
<1>4. ASSUME k # 0
      PROVE  \/ /\ Position(t, c) \notin {0, 1} /\ Until(t, c) = Line(B.headers[l - k + 1])
                /\ Goes(w, Behind(t, c), LinesLeft(B.headers, k - 1) \o e)
             \/ Position(t, c) = 0 /\ ~w
    <2>. DEFINE h == B.headers[l - k + 1]
                u == Line(h)
                x == LinesLeft(B.headers, k - 1)
    <2>1. k \in 1..l /\ k - 1 \in 0..l
        BY <1>1, <1>4 DEF l
    <2>2. h \in HeaderFields /\ LinesLeft(B.headers, k) = u \o (<<c>> \o x) /\ x \in Seq(Tokens)
        BY <1>1, <2>1, LinesLeftIs DEF l, c
    <2>3. u \in Seq(Tokens) /\ Lacks(u, c) /\ u # << >>
        BY <2>2, LineIs DEF c
    <2>4. Goes(w, t, LinesLeft(B.headers, k) \o e)
        BY DEF c, f
    <2>. HIDE DEF h, u, x, e
    <2>5. (u \o (<<c>> \o x)) \o e = u \o (<<c>> \o (x \o e))
        <3>1. <<c>> \in Seq(Tokens)
            BY <1>1
        <3>. QED
            <4>. DEFINE p == <<c>>
            <4>1. Texts(Tokens, u, p, x, e)
                BY <1>2a, <2>2, <2>3, <3>1 DEF Texts
            <4>. HIDE DEF p
            <4>2. (u \o (p \o x)) \o e = u \o (p \o (x \o e))
                BY <4>1, JoinedInner
            <4>. QED
                BY <4>2 DEF p
    <2>6. x \o e \in Seq(Tokens)
        BY <1>2a, <2>2, JoinedIs
    <2>7. Goes(w, t, u \o (<<c>> \o (x \o e)))
        BY <2>2, <2>4, <2>5
    <2>8. \/ Position(t, c) = Len(u) + 1 /\ Until(t, c) = u /\ Goes(w, Behind(t, c), x \o e)
          \/ Position(t, c) = 0 /\ ~w
        BY <1>1, <2>3, <2>6, <2>7, GoesOn
    <2>9. Len(u) \in Nat /\ Len(u) # 0
        BY <2>3
    <2>10. Len(u) + 1 \notin {0, 1}
        BY <2>9
    <2>. QED
        BY <2>8, <2>10 DEF u, h, x
<1>. HIDE DEF e
<1>5. k = 0 \/ k # 0
    OBVIOUS
<1>. QED
    BY <1>3, <1>4, <1>5 DEF c, f, l, e

LEMMA HeaderStep ==
    ASSUME Followed, ReadHeader
    PROVE  Followed'
<1>. DEFINE headers == sent.headers
            l == Len(headers)
            line == Until(rest, CRLF)
<1>0. sent' = sent /\ got' = got /\ whole' = whole /\ todo' = todo
    BY KeptWhole DEF ReadHeader
<1>1. /\ stage = "headers" /\ sent \in Sendable /\ whole \in BOOLEAN /\ LineEnded(got, rest)
      /\ LineKept(sent, req) /\ QueryKept(sent, req) /\ InHeaders(sent, whole, rest, req)
      /\ rest # << >> /\ Position(rest, CRLF) # 1
    BY DEF Followed, ReadHeader
<1>2. PICK k \in 0..l :
          /\ Goes(whole, rest, LinesLeft(headers, k) \o (<<CRLF>> \o Form(sent.form)))
          /\ req.headers = HeadersRead(headers, k)
    BY <1>1 DEF InHeaders
<1>3. headers \in Seq(HeaderFields) /\ l \in Nat
    BY <1>1, SentIs
<1>4. CASE stage' = "crashed"
    BY <1>0, <1>1, <1>4 DEF Followed
<1>5. CASE stage' # "crashed"
    <2>1. /\ req' = [req EXCEPT !.headers = Append(@, [key   |-> Lower(Until(line, ":")),
                                                       value |-> Stripped(Behind(line, ":"))])]
          /\ rest' = Behind(rest, CRLF) /\ stage' = stage /\ Position(rest, CRLF) # 0
        BY <1>5 DEF ReadHeader
    <2>2. /\ k # 0 /\ line = Line(headers[l - k + 1])
          /\ Goes(whole, rest', LinesLeft(headers, k - 1) \o (<<CRLF>> \o Form(sent.form)))
        BY <1>1, <1>2, <2>1, LineCut
    <2>3. k \in 1..l /\ k - 1 \in 0..l
        BY <1>2, <1>3, <2>2
    <2>. DEFINE h == headers[l - k + 1]
                p == [key |-> Lower(Until(line, ":")), value |-> Stripped(Behind(line, ":"))]
                x == Append(req.headers, p)
    <2>4. p = Parsed(h)
        <3>1. h \in HeaderFields
            BY <1>3, <2>3, LinesLeftIs
        <3>2. Until(line, ":") = h.key /\ Behind(line, ":") = <<"SP">> \o h.value
            BY <2>2, <3>1, LineIs
        <3>. QED
            BY <3>2 DEF Parsed
    <2>5. x = HeadersRead(headers, k - 1)
        BY <1>2, <1>3, <2>3, <2>4, HeadersOn
    <2>6. req' = [req EXCEPT !.headers = x]
        BY <2>1
    <2>. HIDE DEF x
    <2>7. But(req', req, {"headers"}) /\ req'.headers = x
        <3>1. IsRequest(req)
            BY <1>1 DEF LineKept
        <3>. QED
            BY <2>6, <3>1, UpdatedHeaders
    <2>8. IsRequest(req') /\ req'.uri = req.uri /\ req'.query = req.query /\ req'.form = req.form /\ req'.sid = req.sid
        BY <2>7 DEF But
    <2>9. LineKept(sent', req') /\ QueryKept(sent', req')
        BY <1>0, <1>1, <2>8 DEF LineKept, QueryKept
    <2>10. InHeaders(sent', whole', rest', req')
        <3>1. req.form = << >> /\ req.sid = Null
            BY <1>1 DEF InHeaders
        <3>. QED
            BY <1>0, <2>2, <2>3, <2>5, <2>7, <2>8, <3>1 DEF InHeaders
    <2>11. LineEnded(got', rest')
        <3>1. got \in Seq(Tokens)
            BY DEF Followed
        <3>. QED
            BY <1>0, <1>1, <2>1, <3>1, LineEndedIs
    <2>. QED
        BY <1>0, <1>1, <2>1, <2>9, <2>10, <2>11 DEF Followed
<1>. QED
    BY <1>4, <1>5

LEMMA EndHeadersStep ==
    ASSUME Followed, EndHeaders
    PROVE  Followed'
<1>0. sent' = sent /\ got' = got /\ whole' = whole /\ req' = req
    BY KeptWhole DEF EndHeaders
<1>1. /\ stage = "headers" /\ sent \in Sendable /\ whole \in BOOLEAN
      /\ LineKept(sent, req) /\ QueryKept(sent, req) /\ InHeaders(sent, whole, rest, req)
      /\ Position(rest, CRLF) = 1 /\ stage' = "cookies" /\ rest' = Tail(rest)
    BY DEF Followed, EndHeaders
<1>2. PICK k \in 0..Len(sent.headers) :
          /\ Goes(whole, rest, LinesLeft(sent.headers, k) \o (<<CRLF>> \o Form(sent.form)))
          /\ req.headers = HeadersRead(sent.headers, k)
    BY <1>1 DEF InHeaders
<1>3. k = 0 /\ Goes(whole, Behind(rest, CRLF), Form(sent.form))
    BY <1>1, <1>2, LineCut
<1>4. Behind(rest, CRLF) = Tail(rest)
    <2>1. rest \in Seq(Tokens)
        BY <1>2 DEF Goes
    <2>2. Len(rest) \in Nat /\ 1 \in 0..Len(rest)
        BY <1>1, <2>1, PositionIs
    <2>3. SubSeq(rest, 2, Len(rest)) = Tail(rest)
        BY <2>1, <2>2
    <2>. QED
        BY <1>1, <2>3 DEF Behind
<1>5. InBody(sent', whole', rest', req')
    BY <1>0, <1>1, <1>2, <1>3, <1>4 DEF InBody, HeadersKept, InHeaders
<1>6. LineKept(sent', req') /\ QueryKept(sent', req')
    BY <1>0, <1>1
<1>. QED
    BY <1>0, <1>1, <1>5, <1>6 DEF Followed

\* What lies behind the terminator is read only of a request that was cut at a line's end.
LEMMA CutLineStep ==
    ASSUME Followed, CutLine
    PROVE  ~whole' /\ CutAtLineEnd'
<1>1. stage = "line" /\ Len(FromVersion) < 2 /\ sent' = sent /\ got' = got
    BY DEF CutLine
<1>2. ~whole /\ CutAtLineEnd
    BY <1>1, LineRead
<1>. QED
    BY <1>1, <1>2, KeptWhole

LEMMA EndTextStep ==
    ASSUME Followed, EndText
    PROVE  ~whole' /\ CutAtLineEnd'
<1>1. /\ stage = "headers" /\ rest = << >> /\ sent' = sent /\ got' = got
      /\ sent \in Sendable /\ whole \in BOOLEAN /\ LineEnded(got, rest)
      /\ InHeaders(sent, whole, rest, req)
    BY DEF Followed, EndText
<1>2. PICK k \in 0..Len(sent.headers) :
          Goes(whole, rest, LinesLeft(sent.headers, k) \o (<<CRLF>> \o Form(sent.form)))
    BY <1>1 DEF InHeaders
<1>3. Position(rest, CRLF) = 0
    <2>1. rest \in Seq(Tokens) /\ Lacks(rest, CRLF)
        BY <1>1 DEF Lacks
    <2>. QED
        BY <2>1, PositionNone
<1>4. ~whole
    BY <1>1, <1>2, <1>3, LineCut
<1>5. CutAtLineEnd
    <2>1. PICK p \in 1..Len(got) : got[p] = CRLF /\ << >> = Past(got, p)
        BY <1>1, Zenon DEF LineEnded
    <2>2. got \in Seq(Tokens)
        BY DEF Followed
    <2>3. p = Len(got)
        <3>1. Len(Past(got, p)) = Len(got) - p
            BY <2>2 DEF Past
        <3>2. Len(<< >>) = Len(got) - p
            BY <2>1, <3>1
        <3>3. Len(<< >>) = 0 /\ Len(got) \in Nat /\ p \in Nat
            BY <2>2
        <3>. QED
            BY <3>2, <3>3
    <2>. QED
        BY <2>1, <2>3 DEF CutAtLineEnd
<1>. QED
    BY <1>1, <1>4, <1>5, KeptWhole

\* What handlers find among the headers that were read.
LEMMA HeadersFound ==
    ASSUME NEW B \in Sendable, NEW r, r.headers = HeadersRead(B.headers, 0)
    PROVE  /\ KvFind(r.headers, <<"cookie">>) = SidSent(B)
           /\ KvFind(r.headers, <<"content-type">>) = FirstHeader(B.headers, <<"content-type">>)
<1>1. B.headers \in Seq(HeaderFields)
    BY SentIs
<1>2. <<"cookie">> \in DOMAIN Spellings /\ <<"content-type">> \in DOMAIN Spellings
    BY DEF Spellings
<1>. QED
    BY <1>1, <1>2, HeaderFound DEF SidSent

LEMMA CookiesStep ==
    ASSUME Followed, ReadCookies
    PROVE  Followed'
<1>. DEFINE v == KvFind(req.headers, <<"cookie">>)
            c == Decoded(FirstCookie(v))
            x == <<[key |-> Until(c, "="), value |-> Behind(c, "=")]>>
<1>0. sent' = sent /\ got' = got /\ whole' = whole /\ rest' = rest
    BY KeptWhole DEF ReadCookies
<1>1. /\ stage = "cookies" /\ sent \in Sendable /\ whole \in BOOLEAN /\ got \in Seq(Tokens)
      /\ LineKept(sent, req) /\ QueryKept(sent, req) /\ InBody(sent, whole, rest, req)
      /\ stage' = "body"
      /\ req' = IF HasCookies /\ Position(c, "=") > 0 THEN [req EXCEPT !.cookies = x] ELSE req
    BY DEF Followed, ReadCookies
<1>2. IsRequest(req)
    BY <1>1 DEF LineKept
<1>3. /\ IsRequest(req') /\ req'.uri = req.uri /\ req'.query = req.query
      /\ req'.headers = req.headers /\ req'.form = req.form /\ req'.sid = req.sid
    <2>. HIDE DEF x, c
    <2>1. CASE req' = req
        BY <1>2, <2>1
    <2>2. CASE req' = [req EXCEPT !.cookies = x]
        <3>1. But(req', req, {"cookies"})
            BY <1>2, <2>2, UpdatedCookies
        <3>. QED
            BY <3>1 DEF But
    <2>. QED
        BY <1>1, <2>1, <2>2
<1>4. LineKept(sent', req') /\ QueryKept(sent', req')
    BY <1>0, <1>1, <1>3 DEF LineKept, QueryKept
<1>5. InBody(sent', whole', rest', req')
    BY <1>0, <1>1, <1>3 DEF InBody, HeadersKept
<1>6. CookiesKept(sent', whole', req')
    <2>. SUFFICES ASSUME whole, SidSent(sent) # Null
                  PROVE  KvFind(req'.cookies, <<"sid">>) = Behind(SidSent(sent), "=")
        BY <1>0, <1>1 DEF CookiesKept
    <2>1. v = SidSent(sent)
        <3>1. req.headers = HeadersRead(sent.headers, 0)
            BY <1>1 DEF InBody, HeadersKept
        <3>. QED
            BY <1>1, <3>1, HeadersFound
    <2>2. HasCookies
        BY <2>1 DEF HasCookies
    <2>. HIDE DEF v
    <2>3. /\ c = v /\ Position(v, "=") > 0
          /\ KvFind(<<[key |-> Until(v, "="), value |-> Behind(v, "=")]>>, <<"sid">>) = Behind(v, "=")
        BY <1>1, <2>1, CookieIs DEF SidSent
    <2>. HIDE DEF c
    <2>4. Position(c, "=") > 0
        BY <2>3
    <2>5. KvFind(x, <<"sid">>) = Behind(SidSent(sent), "=")
        BY <2>1, <2>3
    <2>. HIDE DEF x
    <2>6. req'.cookies = x
        <3>1. req' = [req EXCEPT !.cookies = x]
            BY <1>1, <2>2, <2>4
        <3>. QED
            BY <1>2, <3>1, UpdatedCookies
    <2>. QED
        BY <2>5, <2>6
<1>. QED
    BY <1>0, <1>1, <1>4, <1>5, <1>6 DEF Followed

LEMMA NothingShortened ==
    ASSUME NEW fields
    PROVE  AllShortened(<< >>, fields)
<1>. SUFFICES \E S : << >> \in Seq(S) /\ \A e \in S : \E f \in Range(fields) : Shortened(e, f)
    BY DEF AllShortened
<1>. DEFINE T == {}
<1>1. << >> \in Seq(T)
    OBVIOUS
<1>2. \A e \in T : \E f \in Range(fields) : Shortened(e, f)
    BY Zenon
<1>. HIDE DEF T
<1>. WITNESS T
<1>. QED
    BY <1>1, <1>2

LEMMA BodyStep ==
    ASSUME Followed, BeginBody
    PROVE  Followed'
<1>. DEFINE fields == sent.form
            l == Len(fields)
<1>0. sent' = sent /\ got' = got /\ whole' = whole /\ req' = req
    BY KeptWhole DEF BeginBody
<1>1. /\ stage = "body" /\ sent \in Sendable /\ whole \in BOOLEAN /\ got \in Seq(Tokens)
      /\ LineKept(sent, req) /\ QueryKept(sent, req) /\ InBody(sent, whole, rest, req)
      /\ CookiesKept(sent, whole, req)
    BY DEF Followed, BeginBody
<1>2. LineKept(sent', req') /\ QueryKept(sent', req') /\ CookiesKept(sent', whole', req')
      /\ HeadersKept(sent', whole', req') /\ req'.sid = Null
    BY <1>0, <1>1 DEF InBody
<1>3. ASSUME whole PROVE IsForm <=> FormSent(sent)
    <2>1. req.headers = HeadersRead(sent.headers, 0)
        BY <1>1, <1>3 DEF InBody, HeadersKept
    <2>. QED
        BY <1>1, <2>1, HeadersFound DEF IsForm, FormSent
<1>4. req.form = << >> /\ AllShortened(req.form, sent.form)
    BY <1>1, NothingShortened DEF InBody
<1>5. CASE ~ IsForm /\ stage' = "route"
    <2>1. FormKept(sent', whole', req')
        BY <1>0, <1>1, <1>3, <1>4, <1>5 DEF FormKept
    <2>. QED
        BY <1>0, <1>1, <1>2, <1>5, <2>1 DEF Followed, InRoute
<1>7. CASE IsForm /\ stage' = "form" /\ todo' = Decoded(rest) \o <<"&">>
    <2>1. fields \in Seq(FormFields) /\ l \in Nat /\ l \in 0..l /\ 0 \in 0..l
        BY <1>1, SentIs
    <2>2. Goes(whole, rest, Form(fields))
        BY <1>1, <1>7 DEF InBody
    <2>3. /\ rest \in Seq(Tokens) /\ Form(fields) \in Seq(Tokens)
          /\ fields = << >> => Form(fields) = << >>
          /\ fields # << >> => Decoded(Form(fields)) \o <<"&">> = ToRead(fields, l)
          /\ Decoded(<< >>) \o <<"&">> = <<"&">>
        <3>1. Decoded(<< >>) = << >>
            BY DEF Decoded
        <3>2. << >> \o <<"&">> = <<"&">>
            OBVIOUS
        <3>. QED
            BY <2>1, <2>2, <3>1, <3>2, ToReadIs DEF Goes
    <2>4. PICK g \in Seq(Tokens) : rest \o g = Form(fields) /\ (whole => g = << >>)
        BY <2>2 DEF Goes
    <2>5. fields = << >> => rest = << >> /\ l = 0
        BY <2>3, <2>4
    <2>6. FormLeft(sent', whole', todo', req')
        <3>1. CASE whole
            <4>1. rest = Form(fields)
                BY <2>3, <2>4, <3>1, NoneJoined
            <4>2. IF fields = << >> THEN todo' = <<"&">> ELSE todo' = ToRead(fields, l)
                BY <1>7, <2>3, <2>5, <4>1
            <4>3. Reading(fields, todo', << >>)
                BY <2>1, <4>2, ReadingBegins
            <4>. QED
                BY <1>0, <1>1, <1>3, <1>4, <1>7, <3>1, <4>3 DEF FormLeft
        <3>2. CASE ~ whole
            <4>1. ASSUME fields = << >> PROVE ~ Lexes(todo')
                BY <1>7, <2>3, <2>5, <4>1, NothingToLex
            <4>2. ASSUME fields # << >>
                  PROVE  \E k \in 1..l, h \in Seq(Tokens) : CutLeft(fields, k, todo', h)
                <5>. DEFINE b == Decoded(rest)
                            h == Decoded(g)
                            e == <<"&">>
                <5>1. b \in Seq(Tokens) /\ h \in Seq(Tokens) /\ Decoded(Form(fields)) = b \o h
                    <6>1. rest \in Seq(Tokens) /\ g \in Seq(Tokens)
                        BY <2>3
                    <6>2. /\ Decoded(rest) \in Seq(Tokens) /\ Decoded(g) \in Seq(Tokens)
                          /\ Decoded(rest \o g) = Decoded(rest) \o Decoded(g)
                        BY <6>1, DecodedJoined
                    <6>. QED
                        BY <2>4, <6>2
                <5>2. e \in Seq(Tokens)
                    <6>1. "&" \in Between
                        BY DEF Between
                    <6>. QED
                        BY <6>1, Separators
                <5>3. (b \o h) \o e = ToRead(fields, l)
                    BY <2>3, <4>2, <5>1
                <5>4. todo' = b \o e
                    BY <1>7
                <5>5. l \in 1..l
                    BY <2>1, <4>2
                <5>. HIDE DEF b, h, e
                <5>6. b \o (h \o e) = ToRead(fields, l)
                    <6>1. (b \o h) \o e = b \o (h \o e)
                        BY <5>1, <5>2, JoinedTwice, SMTT(30)
                    <6>. QED
                        BY <5>3, <6>1
                <5>7. CutLeft(fields, l, todo', h)
                    BY <5>1, <5>4, <5>6 DEF CutLeft, e
                <5>. QED
                    BY <5>1, <5>5, <5>7
            <4>. QED
                BY <1>0, <1>1, <1>4, <3>2, <4>1, <4>2 DEF FormLeft
        <3>. QED
            BY <3>1, <3>2
    <2>. QED
        BY <1>0, <1>1, <1>2, <1>7, <2>6 DEF Followed, InForm
<1>. QED
    BY <1>5, <1>7 DEF BeginBody

LEMMA OneMoreShortened ==
    ASSUME NEW list, NEW fields, AllShortened(list, fields),
           NEW x, NEW f \in Range(fields), Shortened(x, f)
    PROVE  AllShortened(<<x>> \o list, fields)
<1>1. PICK S : list \in Seq(S) /\ \A e \in S : \E y \in Range(fields) : Shortened(e, y)
    BY DEF AllShortened
<1>. SUFFICES \E T : <<x>> \o list \in Seq(T) /\ \A e \in T : \E y \in Range(fields) : Shortened(e, y)
    BY DEF AllShortened
<1>. DEFINE T == S \cup {x}
<1>2. list \in Seq(T) /\ x \in T
    BY <1>1
<1>3. \A e \in T : \E y \in Range(fields) : Shortened(e, y)
    BY <1>1
<1>. HIDE DEF T
<1>4. <<x>> \o list \in Seq(T)
    BY <1>2, OneToken
<1>. WITNESS T
<1>. QED
    BY <1>3, <1>4

LEMMA FormStep ==
    ASSUME Followed, ReadForm
    PROVE  Followed'
<1>. DEFINE fields == sent.form
            l == Len(fields)
<1>0. sent' = sent /\ got' = got /\ whole' = whole
    BY KeptWhole DEF ReadForm, ReadField, EndFields
<1>1. /\ stage = "form" /\ sent \in Sendable /\ whole \in BOOLEAN /\ got \in Seq(Tokens)
      /\ LineKept(sent, req) /\ QueryKept(sent, req) /\ InForm(sent, whole, todo, req)
    BY DEF Followed, ReadForm
<1>2. IsRequest(req) /\ FormLeft(sent, whole, todo, req) /\ HeadersKept(sent, whole, req)
      /\ CookiesKept(sent, whole, req) /\ req.sid = Null
    BY <1>1 DEF LineKept, InForm
<1>3. fields \in Seq(FormFields) /\ l \in Nat
    BY <1>1, SentIs
<1>. HIDE DEF fields, l
<1>4. CASE ReadField("form")
    <2>. DEFINE e == Lexed(todo)
                x == <<e>> \o req.form
    <2>1. /\ Lexes(todo) /\ req' = [req EXCEPT !.form = x]
          /\ todo' = Behind(todo, "&") /\ stage' = stage
        BY <1>4 DEF ReadField
    <2>. HIDE DEF x
    <2>2. But(req', req, {"form"}) /\ req'.form = x
        BY <1>2, <2>1, UpdatedForm
    <2>3. /\ IsRequest(req') /\ req'.uri = req.uri /\ req'.query = req.query
          /\ req'.headers = req.headers /\ req'.cookies = req.cookies /\ req'.sid = req.sid
        BY <2>2 DEF But
    <2>4. LineKept(sent', req') /\ QueryKept(sent', req')
        BY <1>0, <1>1, <2>3 DEF LineKept, QueryKept
    <2>5. HeadersKept(sent', whole', req') /\ CookiesKept(sent', whole', req') /\ req'.sid = Null
        BY <1>0, <1>2, <2>3 DEF HeadersKept, CookiesKept
    <2>6. CASE whole
        <3>1. Reading(fields, todo, req.form) /\ FormSent(sent)
            BY <1>2, <2>6 DEF FormLeft, fields
        <3>2. Reading(fields, todo', x)
            BY <1>3, <2>1, <3>1, ReadingOn DEF x, e
        <3>3. FormLeft(sent', whole', todo', req')
            BY <1>0, <2>2, <2>6, <3>1, <3>2 DEF FormLeft, fields
        <3>. QED
            BY <1>0, <1>1, <2>1, <2>4, <2>5, <3>3 DEF Followed, InForm
    <2>7. CASE ~ whole
        <3>0. ASSUME Plain(fields)
              PROVE  /\ AllShortened(x, fields)
                     /\ Lexes(todo') => \E o \in 1..l, h \in Seq(Tokens) : CutLeft(fields, o, todo', h)
            <4>1. AllShortened(req.form, fields)
                BY <1>2, <2>7, <3>0 DEF FormLeft, fields
            <4>2. PICK k \in 1..l, g \in Seq(Tokens) : CutLeft(fields, k, todo, g)
                BY <1>2, <2>1, <2>7, <3>0 DEF FormLeft, fields, l
            <4>3. /\ Shortened(e, fields[l - k + 1])
                  /\ Behind(todo, "&") = << >> \/ CutLeft(fields, k - 1, Behind(todo, "&"), g)
                BY <1>3, <2>1, <3>0, <4>2, CutField DEF l
            <4>. HIDE DEF e
            <4>4. fields[l - k + 1] \in Range(fields)
                BY <1>3, <4>2 DEF Range, l
            <4>5. AllShortened(x, fields)
                BY <4>1, <4>3, <4>4, OneMoreShortened DEF x
            <4>6. ASSUME Lexes(todo') PROVE \E o \in 1..l, h \in Seq(Tokens) : CutLeft(fields, o, todo', h)
                <5>1. todo' # << >>
                    BY <4>6, NothingToLex
                <5>2. CutLeft(fields, k - 1, todo', g)
                    BY <2>1, <4>3, <5>1
                <5>3. k # 1
                    <6>. SUFFICES ASSUME k = 1 PROVE FALSE
                        OBVIOUS
                    <6>1. CutLeft(fields, 0, todo', g)
                        BY <5>2
                    <6>2. PICK b \in Seq(Tokens) : b \o (g \o <<"&">>) = << >>
                        BY <1>3, <6>1, ToReadIs DEF CutLeft
                    <6>3. g \o <<"&">> \in Seq(Tokens) /\ Len(g \o <<"&">>) = Len(g) + 1
                        <7>0. "&" \in Between
                            BY DEF Between
                        <7>1. <<"&">> \in Seq(Tokens)
                            BY <7>0, Separators
                        <7>. QED
                            BY <7>1
                    <6>. DEFINE y == g \o <<"&">>
                    <6>4. Len(b \o y) = Len(b) + Len(y) /\ Len(b) \in Nat /\ Len(g) \in Nat
                        BY <6>3
                    <6>5. Len(b \o y) = 0
                        BY <6>2
                    <6>. HIDE DEF y
                    <6>6. Len(y) = Len(g) + 1
                        BY <6>3 DEF y
                    <6>. QED
                        BY <6>4, <6>5, <6>6
                <5>4. k - 1 \in 1..l
                    BY <1>3, <4>2, <5>3
                <5>. QED
                    BY <5>2, <5>4
            <4>. QED
                BY <4>5, <4>6
        <3>7. FormLeft(sent', whole', todo', req')
            BY <1>0, <2>2, <2>7, <3>0 DEF FormLeft, fields, l
        <3>. QED
            BY <1>0, <1>1, <2>1, <2>4, <2>5, <3>7 DEF Followed, InForm
    <2>. QED
        BY <1>1, <2>6, <2>7
<1>5. CASE EndFields("route")
    <2>1. ~ Lexes(todo) /\ stage' = "route" /\ req' = req
        BY <1>5 DEF EndFields
    <2>2. FormKept(sent', whole', req')
        <3>1. CASE whole
            <4>1. Reading(fields, todo, req.form) /\ FormSent(sent)
                BY <1>2, <3>1 DEF FormLeft, fields
            <4>2. FieldsKept(fields, req.form)
                BY <1>3, <2>1, <4>1, ReadingEnds
            <4>. QED
                BY <1>0, <2>1, <3>1, <4>1, <4>2 DEF FormKept, fields
        <3>2. CASE ~ whole
            BY <1>0, <1>2, <2>1, <3>2 DEF FormLeft, FormKept
        <3>. QED
            BY <3>1, <3>2
    <2>3. LineKept(sent', req') /\ QueryKept(sent', req') /\ HeadersKept(sent', whole', req')
          /\ CookiesKept(sent', whole', req') /\ req'.sid = Null
        BY <1>0, <1>1, <1>2, <2>1
    <2>. QED
        BY <1>0, <1>1, <2>1, <2>2, <2>3 DEF Followed, InRoute
<1>. QED
    BY <1>4, <1>5 DEF ReadForm

LEMMA AskStep ==
    ASSUME Followed, AskAccount
    PROVE  Followed'
<1>. DEFINE sid == KvFind(req.cookies, <<"sid">>)
<1>0. sent' = sent /\ got' = got /\ whole' = whole
    BY KeptWhole DEF AskAccount
<1>1. /\ stage = "route" /\ sent \in Sendable /\ whole \in BOOLEAN /\ got \in Seq(Tokens)
      /\ LineKept(sent, req) /\ QueryKept(sent, req) /\ InRoute(sent, whole, req)
    BY DEF Followed, AskAccount
<1>2. IsRequest(req) /\ req.sid = Null
    BY <1>1 DEF LineKept, InRoute
<1>3. ASSUME whole PROVE HasCookies <=> SidSent(sent) # Null
    <2>1. req.headers = HeadersRead(sent.headers, 0)
        BY <1>1, <1>3 DEF InRoute, HeadersKept
    <2>. QED
        BY <1>1, <2>1, HeadersFound DEF HasCookies
<1>4. CASE stage' = "crashed"
    BY <1>0, <1>1, <1>4 DEF Followed
<1>5. CASE stage' = "id" /\ HasCookies /\ req' = [req EXCEPT !.sid = sid]
    <2>. HIDE DEF sid
    <2>1. But(req', req, {"sid"}) /\ req'.sid = sid
        BY <1>2, <1>5, UpdatedSid
    <2>2. /\ IsRequest(req') /\ req'.uri = req.uri /\ req'.query = req.query
          /\ req'.headers = req.headers /\ req'.form = req.form
        BY <2>1 DEF But
    <2>3. LineKept(sent', req') /\ QueryKept(sent', req')
        BY <1>0, <1>1, <2>2 DEF LineKept, QueryKept
    <2>4. HeadersKept(sent', whole', req') /\ FormKept(sent', whole', req')
        BY <1>0, <1>1, <2>2 DEF InRoute, HeadersKept, FormKept
    <2>5. SidKept(sent', whole', req')
        BY <1>0, <1>1, <1>3, <1>5, <2>1 DEF InRoute, CookiesKept, SidKept, sid
    <2>. QED
        BY <1>0, <1>1, <1>5, <2>3, <2>4, <2>5 DEF Followed, InId
<1>6. CASE stage' = "id" /\ ~ HasCookies /\ req' = req
    <2>1. SidKept(sent', whole', req')
        BY <1>0, <1>1, <1>2, <1>3, <1>6 DEF SidKept
    <2>. QED
        BY <1>0, <1>1, <1>6, <2>1 DEF Followed, InRoute, InId
<1>. QED
    BY <1>4, <1>5, <1>6 DEF AskAccount

LEMMA DontStep ==
    ASSUME Followed, DontAsk
    PROVE  Followed'
<1>0. sent' = sent /\ got' = got /\ whole' = whole /\ req' = req
    BY KeptWhole DEF DontAsk
<1>1. /\ stage = "route" /\ sent \in Sendable /\ whole \in BOOLEAN /\ got \in Seq(Tokens)
      /\ LineKept(sent, req) /\ QueryKept(sent, req) /\ InRoute(sent, whole, req)
      /\ stage' = "done" /\ Until(Tail(req.uri), "/") = <<"static">>
    BY DEF Followed, DontAsk, Dir
<1>2. <<"static">> \notin ReadsId
    BY DEF ReadsId
<1>3. IdKept(sent', req')
    BY <1>0, <1>1, <1>2 DEF IdKept
<1>. QED
    BY <1>0, <1>1, <1>3 DEF Followed, InRoute, InDone

LEMMA IdStep ==
    ASSUME Followed, ReadId
    PROVE  Followed'
<1>0. sent' = sent /\ got' = got /\ whole' = whole
    BY KeptWhole DEF ReadId
<1>1. /\ stage = "id" /\ sent \in Sendable /\ whole \in BOOLEAN /\ got \in Seq(Tokens)
      /\ LineKept(sent, req) /\ QueryKept(sent, req) /\ InId(sent, whole, req)
    BY DEF Followed, ReadId
<1>2. CASE stage' = "crashed"
    BY <1>0, <1>1, <1>2 DEF Followed
<1>3. ASSUME Dir \in ReadsId, stage' = "done",
             NEW more \in IF Len(Id) < IdBuffer THEN { << >> } ELSE { << >> } \cup {<<d>> : d \in Numerals},
             req' = [req EXCEPT !.id = Id \o more]
      PROVE  Followed'
    <2>. DEFINE x == Id \o more
    <2>0. req' = [req EXCEPT !.id = x]
        BY <1>3
    <2>. HIDE DEF x
    <2>1. But(req', req, {"id"}) /\ req'.id = x
        BY <1>1, <2>0, UpdatedId DEF LineKept
    <2>2. /\ IsRequest(req') /\ req'.uri = req.uri /\ req'.query = req.query
          /\ req'.headers = req.headers /\ req'.form = req.form /\ req'.sid = req.sid
        BY <2>1 DEF But
    <2>3. LineKept(sent', req') /\ QueryKept(sent', req')
        BY <1>0, <1>1, <2>2 DEF LineKept, QueryKept
    <2>4. HeadersKept(sent', whole', req') /\ FormKept(sent', whole', req') /\ SidKept(sent', whole', req')
        BY <1>0, <1>1, <2>2 DEF InId, HeadersKept, FormKept, SidKept
    <2>5. IdKept(sent', req')
        <3>. DEFINE id == SubSeq(sent.path, 4, Len(sent.path) - 1)
        <3>. SUFFICES ASSUME \E k \in DOMAIN sent.path : sent.path[k] \in Numerals,
                             Until(Tail(req.uri), "/") \in ReadsId, Len(id) < IdBuffer
                      PROVE  x = id
            BY <1>0, <2>1, <2>2 DEF IdKept
        <3>1. req.uri = sent.path
            BY <1>1 DEF LineKept
        <3>2. Id = id
            BY <1>1, <3>1, IdIs DEF Id
        <3>3. id \in Seq(Numerals)
            BY <1>1, BrowserAssumption
        <3>. HIDE DEF id
        <3>4. more = << >>
            BY <1>3, <3>2
        <3>5. id \o << >> = id
            BY <3>3, NoneJoined
        <3>. QED
            BY <3>2, <3>4, <3>5 DEF x
    <2>. QED
        BY <1>0, <1>1, <1>3, <2>3, <2>4, <2>5 DEF Followed, InDone
<1>4. CASE Dir \notin ReadsId /\ stage' = "done" /\ req' = req
    <2>1. IdKept(sent', req')
        BY <1>0, <1>4 DEF IdKept, Dir
    <2>. QED
        BY <1>0, <1>1, <1>4, <2>1 DEF Followed, InId, InDone
<1>. QED
    BY <1>2, <1>3, <1>4 DEF ReadId

\* What was read of a request (request.c:123) is what was sent, until something behind its
\* terminator is read, which needs a request that recv cut at a line's end or in the first.
THEOREM ReadInvHolds == RequestSpec => []ReadInv
<1>1. ReadInv /\ [RequestNext]_requestVars => ReadInv'
    <2>. SUFFICES ASSUME ReadInv, [RequestNext]_requestVars PROVE ReadInv'
        OBVIOUS
    <2>1. /\ behind \in BOOLEAN /\ sent' = sent /\ got' = got
          /\ behind' = behind \/ behind' = TRUE
        BY DEF ReadInv, RequestNext, requestVars, ReadRequestLine, CutLine, ReadQuery, ReadHeader,
               EndHeaders, EndText, ReadCookies, BeginBody, ReadForm, AskAccount, DontAsk, ReadId,
               ReadField, EndFields
    <2>2. CASE behind
        <3>1. ~whole /\ CutAtLineEnd
            BY <2>2 DEF ReadInv
        <3>2. behind' /\ behind' \in BOOLEAN
            BY <2>1, <2>2, Zenon
        <3>3. ~whole' /\ CutAtLineEnd'
            BY <2>1, <3>1, KeptWhole
        <3>. QED
            BY <3>2, <3>3 DEF ReadInv
    <2>3. CASE ~behind
        <3>1. Followed /\ behind = FALSE
            BY <2>1, <2>3 DEF ReadInv
        <3>2. CASE CutLine \/ EndText
            <4>1. behind' = TRUE
                BY <3>2 DEF CutLine, EndText
            <4>2. ~whole' /\ CutAtLineEnd'
                BY <3>1, <3>2, CutLineStep, EndTextStep
            <4>. QED
                BY <4>1, <4>2 DEF ReadInv
        <3>3. CASE UNCHANGED requestVars
            BY <3>3 DEF requestVars, ReadInv, Followed, whole, CutAtLineEnd
        <3>4. CASE \/ ReadRequestLine \/ ReadQuery \/ ReadHeader \/ EndHeaders \/ ReadCookies
                   \/ BeginBody \/ ReadForm \/ AskAccount \/ DontAsk \/ ReadId
            <4>1. behind' = FALSE
                BY <3>1, <3>4 DEF ReadRequestLine, ReadQuery, ReadHeader, EndHeaders, ReadCookies,
                       BeginBody, ReadForm, AskAccount, DontAsk, ReadId, ReadField, EndFields
            <4>2. Followed'
                BY <3>1, <3>4, LineStep, QueryStep, HeaderStep, EndHeadersStep, CookiesStep,
                   BodyStep, FormStep, AskStep, DontStep, IdStep
            <4>. QED
                BY <4>1, <4>2 DEF ReadInv
        <3>. QED
            BY <3>2, <3>3, <3>4 DEF RequestNext
    <2>. QED
        BY <2>2, <2>3
<1>. QED
    BY <1>1, ReadInit, PTL DEF RequestSpec

LEMMA DoneIs ==
    ASSUME ReadInv, stage = "done", ~behind
    PROVE  /\ sent \in Sendable /\ whole \in BOOLEAN
           /\ LineKept(sent, req) /\ QueryKept(sent, req) /\ InDone(sent, whole, req)
    BY DEF ReadInv, Followed

\* Of a whole request nothing behind its terminator is read.
LEMMA NotBehind == ReadInv /\ whole => ~behind
    BY DEF ReadInv

LEMMA ArrivedIs ==
    ASSUME NEW fields \in Seq(FormFields), NEW list, FieldsKept(fields, list)
    PROVE  Arrived(list, fields)
<1>1. ASSUME NEW f \in Range(fields)
      PROVE  \E e \in Range(list) : e.key = f.key /\ e.value = UntilOrAll(f.value, "&")
    BY DEF FieldsKept, AllThere, Stands, Range
<1>2. ASSUME Plain(fields), NEW key PROVE KvFind(list, key) = LastOf(fields, key)
    BY <1>2 DEF FieldsKept, LastOf
<1>. QED
    BY <1>1, <1>2 DEF Arrived

\* Each field of a query and of a form arrives with its value, up to a "&" in that, and where
\* there is none its key has the last value that was sent (query.c:33, body.c:45).
THEOREM FieldsAsSentHolds == RequestSpec => []FieldsAsSent
<1>1. ASSUME ReadInv, stage = "done", whole PROVE FieldsAsSent
    <2>1. QueryKept(sent, req) /\ FormKept(sent, whole, req) /\ sent \in Sendable
        BY <1>1, NotBehind, DoneIs DEF InDone
    <2>2. sent.query \in Seq(FormFields) /\ sent.form \in Seq(FormFields)
        BY <2>1, SentIs
    <2>3. Arrived(req.query, sent.query)
        BY <2>1, <2>2, ArrivedIs DEF QueryKept
    <2>4. IF IsFormSent THEN Arrived(req.form, sent.form) ELSE req.form = << >>
        BY <1>1, <2>1, <2>2, ArrivedIs DEF FormKept, FormSent, IsFormSent
    <2>. QED
        BY <2>3, <2>4 DEF FieldsAsSent
<1>2. ReadInv => FieldsAsSent
    BY <1>1 DEF FieldsAsSent
<1>. QED
    BY <1>2, ReadInvHolds, PTL

\* header_parser (header.c:37) keeps every header, to be found by its name in any case.
THEOREM HeadersAsSentHolds == RequestSpec => []HeadersAsSent
<1>1. ASSUME ReadInv, stage = "done", whole PROVE HeadersAsSent
    <2>0. sent \in Sendable /\ InDone(sent, whole, req)
        BY <1>1, NotBehind, DoneIs
    <2>1. sent.headers \in Seq(HeaderFields) /\ HeadersKept(sent, whole, req)
        BY <2>0, SentIs DEF InDone
    <2>2. req.headers = HeadersRead(sent.headers, 0)
        BY <1>1, <2>1 DEF HeadersKept
    <2>. QED
        BY <2>1, <2>2, HeaderFound DEF HeadersAsSent
<1>2. ReadInv => HeadersAsSent
    BY <1>1 DEF HeadersAsSent
<1>. QED
    BY <1>2, ReadInvHolds, PTL

\* The session and the id of a whole request reach the handler (helper.c:7, :18, cookies.c:107),
\* ids as long as get_id's buffer takes them.
THEOREM RoutedAsSentHolds == RequestSpec => []RoutedAsSent
<1>1. ASSUME ReadInv, stage = "done", whole PROVE RoutedAsSent
    <2>1. IdKept(sent, req) /\ (Dir # <<"static">> => SidKept(sent, whole, req))
        <3>1. InDone(sent, whole, req)
            BY <1>1, NotBehind, DoneIs
        <3>. QED
            BY <3>1 DEF InDone, Dir
    <2>2. LET id == SubSeq(sent.path, 4, Len(sent.path) - 1)
          IN  (\E k \in DOMAIN sent.path : sent.path[k] \in Numerals)
              /\ Dir \in ReadsId /\ Len(id) < IdBuffer => req.id = id
        BY <2>1 DEF IdKept, Dir
    <2>3. ASSUME Dir # <<"static">>
          PROVE  LET c == FirstHeader(sent.headers, <<"cookie">>)
                 IN  req.sid = IF c # Null THEN Behind(c, "=") ELSE Null
        BY <1>1, <2>1, <2>3 DEF SidKept, SidSent
    <2>. QED
        BY <2>2, <2>3 DEF RoutedAsSent
<1>2. ReadInv => RoutedAsSent
    BY <1>1 DEF RoutedAsSent
<1>. QED
    BY <1>2, ReadInvHolds, PTL

LEMMA AsSentShortened ==
    ASSUME NEW fields \in Seq(FormFields), NEW e \in Range(Reversed(fields))
    PROVE  \E f \in Range(fields) : Shortened(e, f)
<1>1. PICK k \in 1..Len(fields) : e = fields[Len(fields) + 1 - k]
    BY DEF Range, Reversed
<1>. DEFINE o == Len(fields) + 1 - k
<1>2. o \in 1..Len(fields) /\ e = fields[o]
    BY <1>1
<1>. HIDE DEF o
<1>3. e \in Range(fields) /\ e \in FormFields
    BY <1>2 DEF Range
<1>4. e.value \in Seq(Tokens)
    BY <1>3, FieldIs
<1>5. Shortened(e, e)
    BY <1>4 DEF Shortened
<1>. QED
    BY <1>3, <1>5

\* Wherever recv (server.c:135) cut a request, no field has a value that does not begin one
\* that was sent for its key, unless a cut at a line's end or in the first line has the
\* parsers read on behind the terminator, or a value has a "&" in it.
THEOREM CutNeverInventsHolds == RequestSpec => []CutNeverInvents
<1>1. ASSUME ReadInv, stage = "done", ~behind, Plain(sent.query), Plain(sent.form),
             NEW e \in Range(req.query) \cup Range(req.form)
      PROVE  \E f \in Range(sent.query) \cup Range(sent.form) : Shortened(e, f)
    <2>1. /\ sent.query \in Seq(FormFields) /\ sent.form \in Seq(FormFields)
          /\ whole \in BOOLEAN /\ QueryKept(sent, req) /\ FormKept(sent, whole, req)
        <3>1. sent \in Sendable /\ whole \in BOOLEAN /\ QueryKept(sent, req) /\ InDone(sent, whole, req)
            BY <1>1, DoneIs
        <3>. QED
            BY <3>1, SentIs DEF InDone
    <2>2. CASE e \in Range(req.query)
        <3>1. req.query = Reversed(sent.query)
            BY <1>1, <2>1 DEF QueryKept, FieldsKept
        <3>. QED
            BY <2>1, <2>2, <3>1, AsSentShortened
    <2>3. CASE e \in Range(req.form) /\ whole
        <3>0. req.form = Reversed(sent.form) \/ req.form = << >>
            BY <1>1, <2>1, <2>3 DEF FormKept, FieldsKept
        <3>1. CASE req.form = Reversed(sent.form)
            BY <2>1, <2>3, <3>1, AsSentShortened
        <3>2. CASE req.form = << >>
            BY <2>3, <3>2 DEF Range
        <3>. QED
            BY <3>0, <3>1, <3>2
    <2>4. CASE e \in Range(req.form) /\ ~ whole
        <3>1. PICK S : /\ req.form \in Seq(S)
                       /\ \A d \in S : \E f \in Range(sent.form) : Shortened(d, f)
            BY <1>1, <2>1, <2>4 DEF FormKept, AllShortened
        <3>2. e \in S
            BY <2>4, <3>1 DEF Range
        <3>. QED
            BY <3>1, <3>2
    <2>. QED
        BY <1>1, <2>1, <2>2, <2>3, <2>4
<1>2. ASSUME ReadInv, behind PROVE ~whole /\ CutAtLineEnd
    BY <1>2 DEF ReadInv
<1>3. ReadInv => CutNeverInvents
    BY <1>1, <1>2 DEF CutNeverInvents, Shortened
<1>. QED
    BY <1>3, ReadInvHolds, PTL

---------------------------------------------------------------------------
(* find_first_of *)

TypeInv ==
    /\ txt \in Seq(Alphabet) /\ pat \in Seq(Alphabet \ High)
    /\ search \in {"start", "learn", "compare", "found", "null"}
    /\ badchar \in [Alphabet -> Int]
    /\ i \in Nat /\ s \in Nat /\ j \in Int /\ found \in Int

\* Of the first k bytes of the pattern none that lies behind its note is c.
Noted(k) ==
    \A c \in Alphabet \ High :
        badchar[c] >= -1 /\ \A r \in 0..(k - 1) : r > badchar[c] => At(pat, r) # c

\* Nothing was passed: no match begins in front of the place that is tried.
NonePassed == Ascii => \A q \in 0..(s - 1) : ~ Occurs(q)

LoopInv ==
    /\ search = "learn" => 1 < m /\ m <= n /\ i \in 0..m /\ Noted(i)
    /\ search = "compare" =>
         /\ 1 < m /\ s + m <= n /\ j \in -1..(m - 1) /\ Noted(m)
         /\ \A r \in 0..(m - 1) : r > j => At(pat, r) = At(txt, s + r)
         /\ NonePassed

Inv == TypeInv /\ LoopInv /\ FirstFound

---------------------------------------------------------------------------
\* A text's bytes are bytes.
LEMMA ByteOf ==
    ASSUME NEW S, NEW t \in Seq(S), NEW k \in 0..(Len(t) - 1)
    PROVE  At(t, k) \in S
    BY DEF At

\* A place in front of another, also of one that is primed.
LEMMA Before ==
    ASSUME NEW a \in Nat, NEW b \in Nat, a < b
    PROVE  a \in 0..(b - 1)
    OBVIOUS

\* The rule: between the place that is tried and the one that Step moves to there is no match,
\* for it would put a byte of the pattern, that lies behind its note, on the one compared.
LEMMA RulePassesNothing ==
    ASSUME TypeInv, Ascii, Noted(m), j \in 0..(m - 1), s + m <= n,
           At(pat, j) # At(txt, s + j),
           NEW q \in Nat, s <= q, q < s + Step(At(txt, s + j))
    PROVE  ~ Occurs(q)
<1>. DEFINE c == At(txt, s + j)
            k == j - (q - s)
<1>1. m \in Nat /\ n \in Nat /\ s \in Nat /\ j \in Int
    BY DEF TypeInv, m, n
<1>2. c \in Alphabet \ High
    <2>1. s + j \in 0..(n - 1)
        BY <1>1
    <2>2. c = txt[s + j + 1] /\ s + j + 1 \in 1..n
        BY <2>1, <1>1 DEF At
    <2>. QED
        BY <2>2 DEF Ascii, TypeInv, n
<1>3. badchar[c] \in Int /\ badchar[c] >= -1
    BY <1>2 DEF TypeInv, Noted
<1>4. CASE q = s
    BY <1>4, <1>1 DEF Occurs
<1>5. CASE q > s
    <2>. SUFFICES ASSUME Occurs(q) PROVE FALSE
        OBVIOUS
    <2>1. q - s < j - badchar[c]
        <3>1. Step(c) = IF j - badchar[c] > 1 THEN j - badchar[c] ELSE 1
            BY DEF Step
        <3>2. q < s + Step(c)
            OBVIOUS
        <3>. HIDE DEF c
        <3>. QED
            BY <3>1, <3>2, <1>1, <1>3, <1>5
    <2>2. k \in 0..(m - 1) /\ k > badchar[c]
        <3>. HIDE DEF c
        <3>. QED
            BY <2>1, <1>1, <1>3, <1>5
    <2>3. At(txt, q + k) = At(pat, k)
        BY <2>2 DEF Occurs
    <2>4. q + k = s + j
        BY <1>1
    <2>5. At(pat, k) # c
        BY <2>2, <1>2 DEF Noted
    <2>. QED
        BY <2>3, <2>4, <2>5
<1>. QED
    BY <1>1, <1>4, <1>5

---------------------------------------------------------------------------
\* Nothing is learnt, compared or found yet.
LEMMA InitInv == FindInit => Inv
<1>. SUFFICES ASSUME FindInit PROVE Inv
    OBVIOUS
<1>1. txt \in Seq(Alphabet)
    BY BoyerMooreAssumption DEF FindInit
<1>2. pat \in Seq(Alphabet \ High)
    BY BoyerMooreAssumption DEF FindInit
<1>. QED
    BY <1>1, <1>2 DEF FindInit, Inv, TypeInv, LoopInv, FirstFound

\* One step per action; Learn keeps the notes, Shift is the rule above.
LEMMA StepInv == Inv /\ [FindNext]_findVars => Inv'
<1>. SUFFICES ASSUME Inv, [FindNext]_findVars PROVE Inv'
    OBVIOUS
<1>. USE DEF Inv
<1>0. m \in Nat /\ n \in Nat /\ s \in Nat /\ i \in Nat /\ j \in Int
    BY DEF TypeInv, m, n
<1>1. CASE TooShort
    <2>1. m > 0 => \A q \in 0..n : ~ Occurs(q)
        BY <1>0, <1>1 DEF TooShort, Occurs
    <2>2. TypeInv' /\ LoopInv'
        BY <1>1 DEF TooShort, TypeInv, LoopInv
    <2>. QED
        BY <1>1, <2>1, <2>2 DEF TooShort, FirstFound, Occurs, n, m
<1>2. CASE Strchr
    <2>1. TypeInv' /\ LoopInv'
        BY <1>0, <1>2 DEF Strchr, TypeInv, LoopInv
    <2>2. /\ UNCHANGED <<txt, pat>> /\ m = 1 /\ search' \in {"found", "null"}
        BY <1>2 DEF Strchr
    <2>3. search' = "found" =>
             /\ found' \in Nat /\ Occurs(found')
             /\ \A q \in 0..(found' - 1) : ~ Occurs(q)
        BY <1>0, <1>2 DEF Strchr
    <2>4. search' = "null" => \A q \in 0..n : ~ Occurs(q)
        <3>1. ~ Occurs(n)
            BY <1>0, <2>2 DEF Occurs
        <3>2. search' = "null" => \A q \in 0..(n - 1) : ~ Occurs(q)
            BY <1>2 DEF Strchr
        <3>. QED
            BY <3>1, <3>2, <1>0
    <2>5. \A q : Occurs(q)' <=> (q + m <= n /\ \A k \in 0..(m - 1) : At(txt, q + k) = At(pat, k))
        BY <2>2 DEF Occurs, n, m
    <2>6. m' = m /\ n' = n /\ Place' = found'
        BY <2>2 DEF Place, m, n
    <2>7. FirstFound'
        <3>1. \A q : Occurs(q) <=> (q + m <= n /\ \A k \in 0..(m - 1) : At(txt, q + k) = At(pat, k))
            BY DEF Occurs
        <3>2. search' = "found" => Occurs(Place)' /\ 0 <= Place'
            BY <2>2, <2>3, <2>6 DEF Occurs, m, n
        <3>3. search' = "found" => \A q \in 0..(Place' - 1) : ~ Occurs(q)'
            BY <2>3, <2>5, <2>6, <3>1
        <3>4. search' = "null" => \A q \in 0..n' : ~ Occurs(q)'
            BY <2>4, <2>5, <2>6, <3>1
        <3>. QED
            BY <3>2, <3>3, <3>4 DEF FirstFound
    <2>. QED
        BY <2>1, <2>7
<1>3. CASE Memset
    <2>1. PICK stray \in [High -> Stray] :
              badchar' = [c \in Alphabet |-> IF c \in High THEN stray[c] ELSE -1]
        BY <1>3 DEF Memset
    <2>2. \A c \in Alphabet : badchar'[c] = IF c \in High THEN stray[c] ELSE -1
        BY <2>1
    <2>3. \A c \in High : stray[c] \in Int
        <3>. Stray \subseteq Int
            BY BoyerMooreAssumption
        <3>. QED
            OBVIOUS
    <2>4. badchar' \in [Alphabet -> Int]
        BY <2>1, <2>3
    <2>5. i' = 0 /\ Noted(i)'
        BY <1>3, <2>2 DEF Memset, Noted
    <2>. QED
        BY <1>0, <1>3, <2>4, <2>5 DEF Memset, TypeInv, LoopInv, FirstFound, m, n
<1>4. CASE Learn
    <2>1. At(pat, i) \in Alphabet \ High
        BY <1>0, <1>4, ByteOf DEF Learn, TypeInv, m
    <2>2. badchar' \in [Alphabet -> Int]
        <3>1. badchar' = [badchar EXCEPT ![At(pat, i)] = i]
            BY <1>4 DEF Learn, Note
        <3>. QED
            BY <3>1, <2>1, <1>0 DEF TypeInv
    <2>3. \A c \in Alphabet \ High : badchar'[c] = IF c = At(pat, i) THEN i ELSE badchar[c]
        BY <1>4 DEF Learn, TypeInv, Note
    <2>4. Noted(i)'
        <3>. SUFFICES ASSUME NEW c \in Alphabet \ High
                      PROVE  /\ badchar'[c] >= -1
                             /\ \A r \in 0..i : r > badchar'[c] => At(pat, r) # c
            <4>1. i' = i + 1 /\ (i + 1) - 1 = i /\ \A r : At(pat, r)' = At(pat, r)
                BY <1>0, <1>4 DEF Learn, At
            <4>. QED
                BY <4>1 DEF Noted
        <3>1. Noted(i)
            BY <1>4 DEF Learn, LoopInv
        <3>2. badchar[c] \in Int
            BY DEF TypeInv
        <3>3. CASE c = At(pat, i)
            BY <2>3, <3>3, <1>0
        <3>4. CASE c # At(pat, i)
            <4>1. badchar'[c] = badchar[c]
                BY <2>3, <3>4
            <4>. QED
                BY <4>1, <3>1, <3>2, <3>4, <1>0 DEF Noted
        <3>. QED
            BY <3>3, <3>4
    <2>5. i' = i + 1 /\ search' = "learn" /\ search = "learn" /\ i < m
        BY <1>4 DEF Learn
    <2>. QED
        BY <1>0, <1>4, <2>2, <2>4, <2>5 DEF Learn, TypeInv, LoopInv, FirstFound, m, n
<1>5. CASE FirstTry
    <2>1. Noted(m)'
        BY <1>5 DEF FirstTry, LoopInv, Noted, m
    <2>2. 1 < m /\ m <= n
        BY <1>5 DEF FirstTry, LoopInv
    <2>. QED
        BY <1>0, <1>5, <2>1, <2>2 DEF FirstTry, TypeInv, LoopInv, NonePassed, FirstFound, m, n
<1>6. CASE Match
    <2>1. Noted(m)' /\ NonePassed'
        BY <1>6 DEF Match, LoopInv, Noted, NonePassed, Ascii, Occurs, m, n
    <2>2. \A r \in 0..(m - 1) : r > j - 1 => At(pat, r) = At(txt, s + r)
        BY <1>0, <1>6 DEF Match, LoopInv
    <2>. QED
        BY <1>0, <1>6, <2>1, <2>2 DEF Match, TypeInv, LoopInv, FirstFound, m, n
<1>7. CASE Found
    <2>1. Occurs(s)
        BY <1>0, <1>7 DEF Found, LoopInv, Occurs
    <2>2. NonePassed /\ 1 < m
        BY <1>7 DEF Found, LoopInv
    <2>3. /\ UNCHANGED <<txt, pat>> /\ search' = "found" /\ found' = s - 1
        BY <1>7 DEF Found
    <2>4. Place' = s
        <3>0. m # 1
            BY <2>2, <1>0
        <3>1. m' = m /\ m # 1
            BY <2>3, <3>0 DEF m
        <3>2. Place' = found' + 1
            BY <3>1 DEF Place
        <3>. QED
            BY <3>2, <2>3, <1>0
    <2>5. FirstFound'
        <3>1. Occurs(Place)'
            BY <2>1, <2>3, <2>4 DEF Occurs, m, n
        <3>2. Ascii' => \A q \in 0..(s - 1) : ~ Occurs(q)'
            BY <2>2, <2>3 DEF NonePassed, Ascii, Occurs, m, n
        <3>. QED
            BY <3>1, <3>2, <2>3, <2>4, <1>0 DEF FirstFound
    <2>. QED
        BY <1>0, <1>7, <2>5 DEF Found, TypeInv, LoopInv
<1>8. CASE Shift
    <2>. DEFINE c == At(txt, s + j)
    <2>1. /\ 1 < m /\ s + m <= n /\ j \in 0..(m - 1) /\ Noted(m) /\ NonePassed
          /\ UNCHANGED <<txt, pat, badchar, i, found>> /\ s' = s + Step(c)
        BY <1>0, <1>8 DEF Shift, LoopInv
    <2>2. Step(c) \in Nat
        <3>1. c \in Alphabet
            BY <1>0, <2>1, ByteOf, s + j \in 0..(n - 1) DEF TypeInv, n
        <3>2. badchar[c] \in Int
            BY <3>1 DEF TypeInv
        <3>. HIDE DEF c
        <3>. QED
            BY <3>2, <1>0 DEF Step
    <2>3. Ascii => \A q \in 0..(s' - 1) : ~ Occurs(q)
        <3>. SUFFICES ASSUME Ascii, NEW q \in 0..(s' - 1) PROVE ~ Occurs(q)
            OBVIOUS
        <3>1. CASE q < s
            BY <3>1, <2>1, <1>0 DEF NonePassed
        <3>2. CASE s <= q
            <4>1. q < s + Step(c) /\ q \in Nat
                <5>. HIDE DEF c
                <5>. QED
                    BY <2>1, <2>2, <1>0
            <4>2. At(pat, j) # At(txt, s + j)
                BY <1>8 DEF Shift
            <4>. QED
                BY <3>2, <4>1, <4>2, <2>1, RulePassesNothing
        <3>. QED
            BY <3>1, <3>2, <1>0
    <2>4. Ascii' => \A q \in 0..(s' - 1) : ~ Occurs(q)'
        BY <2>1, <2>3 DEF Ascii, Occurs, m, n
    <2>5. s' \in Nat
        <3>. HIDE DEF c
        <3>. QED
            BY <2>1, <2>2, <1>0
    <2>6. m' = m /\ n' = n
        BY <2>1 DEF m, n
    <2>7. Noted(m)'
        BY <2>1, <2>6 DEF Noted
    <2>8. CASE Try(s')
        <3>1. search' = "compare" /\ j' = m - 1
            BY <1>8, <2>8 DEF Shift
        <3>2. s' + m <= n
            <4>1. s' <= n - m
                BY <2>8 DEF Try
            <4>. QED
                BY <4>1, <2>5, <1>0 DEF m, n
        <3>3. LoopInv'
            BY <3>1, <3>2, <2>1, <2>4, <2>5, <2>6, <2>7, <1>0 DEF LoopInv, NonePassed
        <3>4. TypeInv'
            BY <3>1, <2>1, <2>5, <1>0 DEF TypeInv
        <3>. QED
            BY <3>1, <3>3, <3>4 DEF FirstFound
    <2>9. CASE ~ Try(s')
        <3>1. search' = "null" /\ j' = j
            BY <1>8, <2>9 DEF Shift
        <3>2. Ascii' => \A q \in 0..n : ~ Occurs(q)'
            <4>. SUFFICES ASSUME Ascii', NEW q \in 0..n PROVE ~ Occurs(q)'
                OBVIOUS
            <4>1. CASE q < s'
                <5>1. q \in Nat
                    BY <1>0 DEF n
                <5>2. q \in 0..(s' - 1)
                    BY <5>1, <4>1, <2>5, Before
                <5>. QED
                    BY <5>2, <2>4
            <4>2. CASE q >= s'
                <5>1. ~ (q + m <= n)
                    BY <4>2, <2>9, <2>5, <1>0 DEF Try, m, n
                <5>. QED
                    BY <5>1, <2>6 DEF Occurs
            <4>. QED
                BY <4>1, <4>2, <2>5, <1>0 DEF n
        <3>3. FirstFound'
            BY <3>1, <3>2, <2>6 DEF FirstFound
        <3>. QED
            BY <3>1, <3>3, <2>1, <2>5, <1>0 DEF TypeInv, LoopInv
    <2>. QED
        BY <2>8, <2>9
<1>9. CASE UNCHANGED findVars
    BY <1>9 DEF findVars, TypeInv, LoopInv, NonePassed, Noted, FirstFound, Place, Ascii, Occurs, m, n
<1>. QED
    BY <1>1, <1>2, <1>3, <1>4, <1>5, <1>6, <1>7, <1>8, <1>9 DEF FindNext

---------------------------------------------------------------------------
\* find_first_of (utility.c:93) finds what is there, and in an ASCII text the first of it.
THEOREM FirstFoundHolds == FindSpec => []FirstFound
<1>1. Inv => FirstFound
    BY DEF Inv
<1>2. FindInit => Inv
    BY InitInv
<1>3. Inv /\ [FindNext]_findVars => Inv'
    BY StepInv
<1>. QED
    BY <1>1, <1>2, <1>3, PTL DEF FindSpec

\* boyer_moore (utility.c:114) reads nothing behind the end of a text.
THEOREM ReadsInsideHolds == FindSpec => []ReadsInside
<1>1. Inv => ReadsInside
    BY DEF Inv, TypeInv, LoopInv, ReadsInside, m
<1>2. FindInit => Inv
    BY InitInv
<1>3. Inv /\ [FindNext]_findVars => Inv'
    BY StepInv
<1>. QED
    BY <1>1, <1>2, <1>3, PTL DEF FindSpec
=============================================================================
