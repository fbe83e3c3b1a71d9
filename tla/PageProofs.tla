------------------------------- MODULE PageProofs -------------------------------
(***************************************************************************)
(* What templateRender puts out for any files that include one another to  *)
(* any depth and any values: what the authors of the files mean.  A call   *)
(* of it stands before, on or behind a construct of its file, and has put  *)
(* out what is meant up to there; what a file means is a solution of one   *)
(* equation for each file, and files that do not include themselves have   *)
(* one.  And the map that all templates of a page share is freed once.     *)
(***************************************************************************)
EXTENDS RequestProofs, TemplateProps

---------------------------------------------------------------------------
(* Texts that are put together, and their ink *)

\* Texts of one length that agree everywhere are one.
LEMMA SameText ==
    ASSUME NEW S, NEW a \in Seq(S), NEW b \in Seq(S), Len(a) = Len(b),
           \A k \in 1..Len(a) : a[k] = b[k]
    PROVE  a = b
    OBVIOUS

\* Parts of texts make a text.
LEMMA JoinedIn ==
    ASSUME NEW S, NEW parts \in Seq(Seq(S))
    PROVE  Joined(parts) \in Seq(S) /\ (parts = << >> => Joined(parts) = << >>)
<1>1. Len(parts) \in 0..Len(parts) /\ (parts = << >> => Len(parts) = 0)
    OBVIOUS
<1>. QED
    BY <1>1, EndsAre DEF Joined

\* Joining goes on behind what is joined.
LEMMA JoinedAdds ==
    ASSUME NEW S, NEW a \in Seq(Seq(S)), NEW b \in Seq(Seq(S))
    PROVE  Joined(a \o b) = Joined(a) \o Joined(b)
<1>. DEFINE c == a \o b
            h == Len(a)
            o == Len(b)
            A == Ends(a)
            B == Ends(b)
            C == Ends(c)
<1>1. /\ h \in Nat /\ o \in Nat /\ c \in Seq(Seq(S)) /\ Len(c) = h + o
      /\ \A k \in 1..h : c[k] = a[k] /\ a[k] \in Seq(S)
      /\ \A k \in 1..o : c[h + k] = b[k] /\ b[k] \in Seq(S)
    BY JoinedIs
<1>2. /\ A \in [0..h -> Seq(S)] /\ A[0] = << >>
      /\ \A k \in 1..h : A[k] = a[h - k + 1] \o A[k - 1]
      /\ B \in [0..o -> Seq(S)] /\ B[0] = << >>
      /\ \A k \in 1..o : B[k] = b[o - k + 1] \o B[k - 1]
    BY EndsAre
<1>. HIDE DEF c
<1>3. /\ C[0] = << >>
      /\ \A k \in 1..(h + o) : C[k] = c[(h + o) - k + 1] \o C[k - 1]
    <2>. HIDE DEF h, o
    <2>1. /\ Ends(c)[0] = << >>
          /\ \A k \in 1..Len(c) : Ends(c)[k] = c[Len(c) - k + 1] \o Ends(c)[k - 1]
        BY <1>1, EndsAre
    <2>. DEFINE l == Len(c)
    <2>2. l = h + o /\ h \in Nat /\ o \in Nat /\ l \in Nat
        BY <1>1
    <2>3. /\ Ends(c)[0] = << >>
          /\ \A k \in 1..l : Ends(c)[k] = c[l - k + 1] \o Ends(c)[k - 1]
        BY <2>1
    <2>. HIDE DEF l
    <2>. QED
        <3>1. /\ C[0] = << >>
              /\ \A k \in 1..l : C[k] = c[l - k + 1] \o C[k - 1]
            BY <2>3, Zenon
        <3>. HIDE DEF C
        <3>. QED
            BY <2>2, <3>1, Zenon
<1>. HIDE DEF A, B, C, h, o
<1>4. 0..o \subseteq {k \in 0..o : C[k] = B[k]}
    <2>. DEFINE P == {k \in 0..o : C[k] = B[k]}
    <2>1. 0 \in P
        <3>1. C[0] = B[0]
            BY <1>2, <1>3
        <3>2. 0 \in 0..o
            BY <1>1
        <3>. QED
            BY <3>1, <3>2
    <2>2. ASSUME NEW k \in 0..o, k \in P, k < o PROVE k + 1 \in P
        <3>. DEFINE e == k + 1
        <3>1. /\ e \in 1..o /\ e \in 0..o /\ e - 1 = k /\ e \in 1..(h + o) /\ o - e + 1 \in 1..o
              /\ (h + o) - e + 1 = h + (o - e + 1)
            BY <1>1, <2>2
        <3>. HIDE DEF e
        <3>2. C[e] = c[h + (o - e + 1)] \o C[k] /\ B[e] = b[o - e + 1] \o B[k]
            BY <1>2, <1>3, <3>1
        <3>3. C[e] = B[e]
            BY <1>1, <2>2, <3>1, <3>2
        <3>. QED
            BY <3>1, <3>3 DEF e
    <2>. HIDE DEF P
    <2>3. 0..o \subseteq P
        BY <1>1, <2>1, <2>2, UpTo
    <2>. QED
        BY <2>3 DEF P
<1>5. 0..h \subseteq {k \in 0..h : C[o + k] = A[k] \o B[o]}
    <2>. DEFINE P == {k \in 0..h : C[o + k] = A[k] \o B[o]}
    <2>1. 0 \in P
        <3>1. o \in 0..o /\ o + 0 = o /\ 0 \in 0..h
            BY <1>1
        <3>2. C[o] = B[o] /\ B[o] \in Seq(S)
            BY <1>2, <1>4, <3>1
        <3>3. A[0] \o B[o] = B[o]
            BY <1>2, <3>2, NoneJoined
        <3>. QED
            BY <3>1, <3>2, <3>3
    <2>2. ASSUME NEW k \in 0..h, k \in P, k < h PROVE k + 1 \in P
        <3>. DEFINE e == k + 1
        <3>1. /\ e \in 1..h /\ e \in 0..h /\ e - 1 = k /\ o + e \in 1..(h + o) /\ h - e + 1 \in 1..h
              /\ (h + o) - (o + e) + 1 = h - e + 1 /\ (o + e) - 1 = o + k
              /\ o \in 0..o
            <4>1. h \in Nat /\ o \in Nat
                BY <1>1
            <4>. QED
                BY <2>2, <4>1
        <3>. HIDE DEF e
        <3>. DEFINE x == a[h - e + 1]
                    y == A[k]
                    z == B[o]
        <3>2. x \in Seq(S) /\ y \in Seq(S) /\ z \in Seq(S)
            BY <1>1, <1>2, <3>1
        <3>3. A[e] = x \o y
            BY <1>2, <3>1
        <3>4. C[o + e] = x \o (y \o z)
            <4>1. C[o + e] = c[(h + o) - (o + e) + 1] \o C[(o + e) - 1]
                <5>. DEFINE q == o + e
                <5>1. q \in 1..(h + o)
                    BY <3>1
                <5>. HIDE DEF q
                <5>2. C[q] = c[(h + o) - q + 1] \o C[q - 1]
                    BY <1>3, <5>1, Zenon
                <5>. QED
                    BY <5>2 DEF q
            <4>2. c[(h + o) - (o + e) + 1] = x /\ C[(o + e) - 1] = y \o z
                BY <1>1, <2>2, <3>1
            <4>. QED
                BY <4>1, <4>2
        <3>4a. z = B[o]
            OBVIOUS
        <3>. HIDE DEF x, y, z
        <3>5. Triple(S, x, y, z)
            BY <3>2 DEF Triple
        <3>6. C[o + e] = A[e] \o B[o]
            <4>1. (x \o y) \o z = x \o (y \o z)
                BY <3>5, TripleJoined
            <4>. QED
                BY <3>3, <3>4, <3>4a, <4>1, Zenon
        <3>. QED
            BY <3>1, <3>6 DEF e
    <2>. HIDE DEF P
    <2>3. 0..h \subseteq P
        BY <1>1, <2>1, <2>2, UpTo
    <2>. QED
        BY <2>3 DEF P
<1>6. C[o + h] = A[h] \o B[o]
    <2>1. h \in 0..h
        BY <1>1
    <2>. QED
        BY <1>5, <2>1
<1>7. Joined(c) = C[o + h] /\ Joined(a) = A[h] /\ Joined(b) = B[o]
    BY <1>1 DEF Joined, A, B, C, h, o
<1>. QED
    BY <1>6, <1>7 DEF c

\* The ink of each token.
Inks(text) == [k \in DOMAIN text |-> IF Blank(text[k]) THEN << >> ELSE <<text[k]>>]

\* Each token on its own, and blanks as nothing.
LEMMA InksAre ==
    ASSUME NEW S, NEW a \in Seq(S)
    PROVE  /\ Inks(a) \in Seq(Seq(S)) /\ Len(Inks(a)) = Len(a)
           /\ \A k \in 1..Len(a) : Inks(a)[k] = IF Blank(a[k]) THEN << >> ELSE <<a[k]>>
<1>1. /\ Len(a) \in Nat /\ DOMAIN a = 1..Len(a)
      /\ \A k \in 1..Len(a) : a[k] \in S /\ <<a[k]>> \in Seq(S) /\ << >> \in Seq(S)
    OBVIOUS
<1>2. \A k \in 1..Len(a) : /\ Inks(a)[k] = IF Blank(a[k]) THEN << >> ELSE <<a[k]>>
                           /\ Inks(a)[k] \in Seq(S)
    BY <1>1 DEF Inks
<1>3. Inks(a) = [k \in 1..Len(a) |-> Inks(a)[k]]
    BY <1>1 DEF Inks
<1>. QED
    BY <1>1, <1>2, <1>3, SequenceOf

\* Text without its blanks is text.
LEMMA InkedIs ==
    ASSUME NEW S, NEW a \in Seq(S)
    PROVE  Inked(a) \in Seq(S) /\ (a = << >> => Inked(a) = << >>)
<1>1. Inks(a) \in Seq(Seq(S)) /\ (a = << >> => Inks(a) = << >>)
    BY InksAre
<1>. QED
    BY <1>1, JoinedIn DEF Inked, Inks

\* Blanks go from two texts as they go from both in a row.
LEMMA InkedAdds ==
    ASSUME NEW S, NEW a \in Seq(S), NEW b \in Seq(S)
    PROVE  Inked(a \o b) = Inked(a) \o Inked(b)
<1>. DEFINE c == a \o b
            A == Inks(a)
            B == Inks(b)
            C == Inks(c)
            D == A \o B
<1>1. /\ c \in Seq(S) /\ Len(c) = Len(a) + Len(b) /\ Len(a) \in Nat /\ Len(b) \in Nat
      /\ \A k \in 1..Len(a) : c[k] = a[k]
      /\ \A k \in (Len(a) + 1)..(Len(a) + Len(b)) : c[k] = b[k - Len(a)]
    BY JoinedIs
<1>. HIDE DEF c
<1>2. /\ A \in Seq(Seq(S)) /\ Len(A) = Len(a)
      /\ \A k \in 1..Len(a) : A[k] = IF Blank(a[k]) THEN << >> ELSE <<a[k]>>
      /\ B \in Seq(Seq(S)) /\ Len(B) = Len(b)
      /\ \A k \in 1..Len(b) : B[k] = IF Blank(b[k]) THEN << >> ELSE <<b[k]>>
      /\ C \in Seq(Seq(S)) /\ Len(C) = Len(c)
      /\ \A k \in 1..Len(c) : C[k] = IF Blank(c[k]) THEN << >> ELSE <<c[k]>>
    BY <1>1, InksAre
<1>. HIDE DEF A, B, C
<1>3. /\ D \in Seq(Seq(S)) /\ Len(D) = Len(a) + Len(b)
      /\ \A k \in 1..Len(a) : D[k] = A[k]
      /\ \A k \in (Len(a) + 1)..(Len(a) + Len(b)) : D[k] = B[k - Len(a)]
    <2>1. /\ D \in Seq(Seq(S)) /\ Len(D) = Len(A) + Len(B)
          /\ \A k \in 1..Len(A) : D[k] = A[k]
          /\ \A k \in (Len(A) + 1)..(Len(A) + Len(B)) : D[k] = B[k - Len(A)]
        <3>1. A \in Seq(Seq(S)) /\ B \in Seq(Seq(S))
            BY <1>2
        <3>. QED
            BY <3>1, JoinedIs
    <2>. QED
        BY <1>2, <2>1
<1>. HIDE DEF D
<1>4. ASSUME NEW k \in 1..Len(c) PROVE C[k] = D[k]
    <2>1. CASE k <= Len(a)
        <3>1. k \in 1..Len(a)
            BY <1>1, <2>1
        <3>2. A[k] = IF Blank(a[k]) THEN << >> ELSE <<a[k]>>
            BY <1>2, <3>1
        <3>3. C[k] = (IF Blank(c[k]) THEN << >> ELSE <<c[k]>>) /\ c[k] = a[k] /\ D[k] = A[k]
            BY <1>1, <1>2, <1>3, <3>1
        <3>. QED
            BY <3>2, <3>3
    <2>2. CASE k > Len(a)
        <3>1. k \in (Len(a) + 1)..(Len(a) + Len(b)) /\ k - Len(a) \in 1..Len(b)
            BY <1>1, <2>2
        <3>2. B[k - Len(a)] = IF Blank(b[k - Len(a)]) THEN << >> ELSE <<b[k - Len(a)]>>
            BY <1>2, <3>1
        <3>3. /\ C[k] = (IF Blank(c[k]) THEN << >> ELSE <<c[k]>>)
              /\ c[k] = b[k - Len(a)] /\ D[k] = B[k - Len(a)]
            BY <1>1, <1>2, <1>3, <3>1
        <3>. QED
            BY <3>2, <3>3
    <2>. QED
        BY <1>1, <2>1, <2>2
<1>5. C = D
    <2>1. C \in Seq(Seq(S)) /\ D \in Seq(Seq(S)) /\ Len(C) = Len(c) /\ Len(D) = Len(c)
        BY <1>1, <1>2, <1>3
    <2>. QED
        BY <1>4, <2>1, SameText
<1>6. Joined(D) = Joined(A) \o Joined(B)
    BY <1>2, JoinedAdds DEF D
<1>. QED
    BY <1>5, <1>6 DEF Inked, Inks, A, B, C, c

\* A blank at either end has no ink.
LEMMA InkedInside ==
    ASSUME NEW S, NEW a \in Seq(S), a # << >>
    PROVE  /\ Tail(a) \in Seq(S) /\ Front(a) \in Seq(S)
           /\ Blank(a[1]) => Inked(Tail(a)) = Inked(a)
           /\ Blank(a[Len(a)]) => Inked(Front(a)) = Inked(a)
<1>. DEFINE l == Len(a)
<1>1. l \in Nat /\ l > 0 /\ 1 \in 0..l /\ l - 1 \in 0..l /\ l - 1 + 1 = l
    OBVIOUS
<1>2. /\ a[1] \in S /\ a[l] \in S
      /\ SubSeq(a, 1, 1) = <<a[1]>> /\ SubSeq(a, l, l) = <<a[l]>>
      /\ Tail(a) = SubSeq(a, 1 + 1, l) /\ Front(a) = SubSeq(a, 1, l - 1)
    <2>1. ASSUME NEW q \in 1..l PROVE SubSeq(a, q, q) = <<a[q]>> /\ a[q] \in S
        <3>1. /\ SubSeq(a, q, q) \in Seq(S) /\ Len(SubSeq(a, q, q)) = 1 /\ a[q] \in S
              /\ SubSeq(a, q, q)[1] = a[q]
            BY <1>1
        <3>2. <<a[q]>> \in Seq(S) /\ Len(<<a[q]>>) = 1 /\ <<a[q]>>[1] = a[q]
            BY <3>1
        <3>3. \A k \in 1..1 : k = 1
            OBVIOUS
        <3>. DEFINE t == SubSeq(a, q, q)
                    u == <<a[q]>>
        <3>4. t \in Seq(S) /\ u \in Seq(S) /\ Len(t) = Len(u) /\ \A k \in 1..Len(t) : t[k] = u[k]
            BY <3>1, <3>2, <3>3
        <3>. HIDE DEF t, u
        <3>5. t = u
            BY <3>4, SameText
        <3>. QED
            BY <3>1, <3>5 DEF t, u
    <2>2. Tail(a) = SubSeq(a, 2, l)
        OBVIOUS
    <2>. QED
        BY <1>1, <2>1, <2>2 DEF Front
<1>. HIDE DEF l
<1>3. \A c \in S : <<c>> \in Seq(S) /\ (Blank(c) => Inked(<<c>>) = << >>)
    <2>. TAKE c \in S
    <2>1. <<c>> \in Seq(S) /\ Len(<<c>>) = 1 /\ <<c>>[1] = c
        OBVIOUS
    <2>2. ASSUME Blank(c) PROVE Inked(<<c>>) = << >>
        <3>. DEFINE f == Inks(<<c>>)
        <3>1. f \in Seq(Seq(S)) /\ Len(f) = 1 /\ f[1] = << >>
            <4>1. <<c>> \in Seq(S) /\ Len(<<c>>) = 1 /\ Blank(<<c>>[1]) /\ 1 \in 1..1
                BY <2>1, <2>2
            <4>. DEFINE t == <<c>>
            <4>. HIDE DEF t
            <4>2. /\ Inks(t) \in Seq(Seq(S)) /\ Len(Inks(t)) = 1
                  /\ Inks(t)[1] = IF Blank(t[1]) THEN << >> ELSE <<t[1]>>
                BY <4>1, InksAre DEF t
            <4>. QED
                BY <4>1, <4>2 DEF t
        <3>. HIDE DEF f
        <3>2. Ends(f)[0] = << >> /\ Ends(f)[1] = f[1] \o Ends(f)[0]
            <4>1. 1 - 1 + 1 = 1 /\ 1 - 1 = 0 /\ 1 \in 1..1
                OBVIOUS
            <4>2. Ends(f)[1] = f[Len(f) - 1 + 1] \o Ends(f)[1 - 1]
                BY <3>1, <4>1, EndsAre
            <4>3. Ends(f)[0] = << >>
                BY <3>1, EndsAre
            <4>. QED
                BY <3>1, <4>1, <4>2, <4>3
        <3>3. Joined(f) = << >>
            BY <3>1, <3>2 DEF Joined
        <3>. QED
            BY <3>3 DEF f, Inked, Inks
    <2>. QED
        BY <2>1, <2>2
<1>4. /\ SubSeq(a, 1, 1) \in Seq(S) /\ SubSeq(a, 1 + 1, l) \in Seq(S)
      /\ SubSeq(a, 1, 1) \o SubSeq(a, 1 + 1, l) = a
    BY <1>1, SplitAt DEF l
<1>5. /\ SubSeq(a, 1, l - 1) \in Seq(S) /\ SubSeq(a, l, l) \in Seq(S)
      /\ SubSeq(a, 1, l - 1) \o SubSeq(a, l, l) = a
    <2>1. /\ SubSeq(a, 1, l - 1) \in Seq(S) /\ SubSeq(a, (l - 1) + 1, Len(a)) \in Seq(S)
          /\ SubSeq(a, 1, l - 1) \o SubSeq(a, (l - 1) + 1, Len(a)) = a
        BY <1>1, SplitAt DEF l
    <2>. QED
        BY <1>1, <2>1 DEF l
<1>6. ASSUME Blank(a[1]) PROVE Inked(Tail(a)) = Inked(a)
    <2>1. Inked(a) = Inked(<<a[1]>>) \o Inked(Tail(a))
        BY <1>2, <1>4, InkedAdds
    <2>2. Inked(<<a[1]>>) = << >>
        BY <1>2, <1>3, <1>6
    <2>. QED
        BY <1>2, <1>4, <2>1, <2>2, InkedIs, NoneJoined
<1>7. ASSUME Blank(a[l]) PROVE Inked(Front(a)) = Inked(a)
    <2>1. Inked(a) = Inked(Front(a)) \o Inked(<<a[l]>>)
        BY <1>2, <1>5, InkedAdds
    <2>2. Inked(<<a[l]>>) = << >>
        BY <1>2, <1>3, <1>7
    <2>. QED
        BY <1>2, <1>5, <2>1, <2>2, InkedIs, NoneJoined
<1>. QED
    BY <1>2, <1>4, <1>5, <1>6, <1>7 DEF l

---------------------------------------------------------------------------
(* What files mean *)

\* What a handler may have set.
Pairs == Seq([key : Seq(Symbols), value : Seq(Symbols)])

\* Files, finitely many.
IsSite(files) == files \in [DOMAIN files -> Seq(Part)] /\ IsFiniteSet(DOMAIN files)

\* What the parts of a file mean, one by one.
Meant(c, mean, file) == [k \in DOMAIN file |-> Means(c, mean, file, k)]

\* mean says what files mean, of themselves and of one another.
Explains(files, c, mean) ==
    /\ mean \in [DOMAIN files -> Seq(Symbols)]
    /\ \A name \in DOMAIN files : mean[name] = Joined(Meant(c, mean, files[name]))

\* The fields of each kind of part.
LEMMA PartIs ==
    ASSUME NEW part \in Part
    PROVE  /\ part.kind \in {"text", "odd", "key", "include", "when"}
           /\ part.kind \in {"text", "odd"} => part.text \in Seq(Symbols)
           /\ part.kind = "key" => part.key \in Seq(Symbols)
           /\ part.kind = "include" => part.file \in Symbols
           /\ part.kind = "when" => /\ part.key \in Seq(Symbols) /\ part.value \in Seq(Symbols)
                                    /\ part.text \in Seq(Symbols)
    BY DEF Part

\* A value, or nothing, is text.
LEMMA ValueIs ==
    ASSUME NEW c \in Pairs, NEW key
    PROVE  ValueOf(c, key) \in Seq(Symbols)
<1>. DEFINE keys == [at \in DOMAIN c |-> c[at].key]
            q == Position(keys, key)
<1>1. /\ Len(c) \in Nat /\ DOMAIN c = 1..Len(c)
      /\ \A k \in 1..Len(c) : c[k].key \in Seq(Symbols) /\ c[k].value \in Seq(Symbols)
    <2>. DEFINE Pair == [key : Seq(Symbols), value : Seq(Symbols)]
    <2>1. \A e \in Pair : e.key \in Seq(Symbols) /\ e.value \in Seq(Symbols)
        OBVIOUS
    <2>2. c \in Seq(Pair)
        BY DEF Pairs
    <2>. HIDE DEF Pair
    <2>3. Len(c) \in Nat /\ DOMAIN c = 1..Len(c) /\ \A k \in 1..Len(c) : c[k] \in Pair
        BY <2>2
    <2>. QED
        BY <2>1, <2>3
<1>2. keys \in Seq(Seq(Symbols)) /\ Len(keys) = Len(c)
    <2>1. keys = [k \in 1..Len(c) |-> keys[k]] /\ \A k \in 1..Len(c) : keys[k] \in Seq(Symbols)
        BY <1>1
    <2>. HIDE DEF keys
    <2>. QED
        BY <1>1, <2>1, SequenceOf
<1>3. q \in 0..Len(c)
    <2>. HIDE DEF keys
    <2>. QED
        BY <1>2, PositionIs
<1>4. ValueOf(c, key) = IF q = 0 THEN << >> ELSE c[q].value
    BY DEF ValueOf
<1>. HIDE DEF q
<1>5. << >> \in Seq(Symbols) /\ (q # 0 => q \in 1..Len(c))
    BY <1>1, <1>3
<1>. QED
    BY <1>1, <1>4, <1>5

\* A text without its last token is one.
LEMMA FrontText == ASSUME NEW t \in Seq(Symbols) PROVE Front(t) \in Seq(Symbols)
<1>1. Len(t) \in Nat
    OBVIOUS
<1>2. SubSeq(t, 1, Len(t) - 1) \in Seq(Symbols)
    BY <1>1
<1>. QED
    BY <1>2 DEF Front

\* What a part means is text.
LEMMA MeansIs ==
    ASSUME NEW c \in Pairs, NEW D, NEW mean \in [D -> Seq(Symbols)], NEW file, NEW k,
           file[k] \in Part
    PROVE  Means(c, mean, file, k) \in Seq(Symbols)
<1>. DEFINE part == file[k]
            last == k = Len(file)
<1>1. \A key : ValueOf(c, key) \in Seq(Symbols)
    BY ValueIs
<1>2. << >> \in Seq(Symbols) /\ part \in Part
    OBVIOUS
<1>0. Means(c, mean, file, k)
          = CASE part.kind = "text"    -> IF last THEN Front(part.text) ELSE part.text
              [] part.kind = "key"     -> ValueOf(c, part.key)
              [] part.kind = "include" -> IF part.file \in DOMAIN mean THEN mean[part.file] ELSE << >>
              [] part.kind = "when"    -> IF HasValue(c, part.key) /\ ValueOf(c, part.key) = part.value
                                          THEN part.text ELSE << >>
              [] part.kind = "odd"     -> part.text
    BY DEF Means
<1>. HIDE DEF part, last
<1>3. CASE part.kind = "text"
    <2>1. part.text \in Seq(Symbols)
        BY <1>2, <1>3, PartIs
    <2>2. Front(part.text) \in Seq(Symbols)
        BY <2>1, FrontText
    <2>. QED
        BY <1>0, <1>3, <2>1, <2>2
<1>4. CASE part.kind = "odd"
    BY <1>0, <1>2, <1>4, PartIs
<1>5. CASE part.kind = "key"
    BY <1>0, <1>1, <1>5
<1>6. CASE part.kind = "include"
    BY <1>0, <1>2, <1>6
<1>7. CASE part.kind = "when"
    BY <1>0, <1>2, <1>7, PartIs
<1>. QED
    BY <1>2, <1>3, <1>4, <1>5, <1>6, <1>7, PartIs

\* What a file means is text, part by part.
LEMMA MeantIs ==
    ASSUME NEW c \in Pairs, NEW D, NEW mean \in [D -> Seq(Symbols)], NEW file \in Seq(Part)
    PROVE  /\ Meant(c, mean, file) \in Seq(Seq(Symbols)) /\ Len(Meant(c, mean, file)) = Len(file)
           /\ \A k \in 1..Len(file) : Meant(c, mean, file)[k] = Means(c, mean, file, k)
           /\ Joined(Meant(c, mean, file)) \in Seq(Symbols)
<1>. DEFINE f == Meant(c, mean, file)
<1>1. Len(file) \in Nat /\ DOMAIN file = 1..Len(file) /\ \A k \in 1..Len(file) : file[k] \in Part
    OBVIOUS
<1>2. \A k \in 1..Len(file) : f[k] = Means(c, mean, file, k) /\ f[k] \in Seq(Symbols)
    BY <1>1, MeansIs DEF Meant
<1>3. f = [k \in 1..Len(file) |-> f[k]]
    BY <1>1 DEF Meant
<1>. HIDE DEF f
<1>4. f \in Seq(Seq(Symbols)) /\ Len(f) = Len(file)
    BY <1>1, <1>2, <1>3, SequenceOf
<1>5. Joined(f) \in Seq(Symbols)
    BY <1>4, JoinedIn
<1>. QED
    BY <1>2, <1>4, <1>5 DEF f

\* One level more.
Level(files, c, below) == [name \in DOMAIN files |-> Joined(Meant(c, below, files[name]))]

\* One more include deep, files mean text.
LEMMA LevelIs ==
    ASSUME NEW files, IsSite(files), NEW c \in Pairs, NEW below \in [DOMAIN files -> Seq(Symbols)]
    PROVE  Level(files, c, below) \in [DOMAIN files -> Seq(Symbols)]
<1>1. \A name \in DOMAIN files : files[name] \in Seq(Part)
    BY DEF IsSite
<1>2. \A name \in DOMAIN files : Joined(Meant(c, below, files[name])) \in Seq(Symbols)
    BY <1>1, MeantIs
<1>. QED
    BY <1>2 DEF Level

\* Levels is the recursion its definition says.
LEMMA LevelsAre ==
    ASSUME NEW files, IsSite(files), NEW c \in Pairs
    PROVE  /\ Cardinality(DOMAIN files) \in Nat
           /\ \A d \in 0..Cardinality(DOMAIN files) :
                  Levels(files, c)[d] \in [DOMAIN files -> Seq(Symbols)]
           /\ Levels(files, c)[0] = [name \in DOMAIN files |-> << >>]
           /\ \A d \in 1..Cardinality(DOMAIN files) :
                  Levels(files, c)[d] = Level(files, c, Levels(files, c)[d - 1])
<1>. DEFINE l == Cardinality(DOMAIN files)
            V == [DOMAIN files -> Seq(Symbols)]
            first == [name \in DOMAIN files |-> << >>]
            more == [d \in 1..l |-> [below \in V |-> Level(files, c, below)]]
            Body(f) == [d \in 0..l |->
                           LET below == f[d - 1]
                           IN  [name \in DOMAIN files |->
                                   IF d = 0 THEN << >>
                                   ELSE Joined([at \in DOMAIN files[name] |->
                                                   Means(c, below, files[name], at)])]]
            U == CHOOSE f : f = Body(f)
<1>1. l \in Nat
    BY FS_CardinalityType DEF IsSite
<1>. HIDE DEF l
<1>2. first \in V
    OBVIOUS
<1>3. \A below \in V : Level(files, c, below) \in V
    BY LevelIs
<1>4. Steps(l, V, more)
    <2>. HIDE DEF V
    <2>. QED
        BY <1>3 DEF Steps
<1>5. PICK g : Stepwise(l, V, first, more, g)
    <2>. HIDE DEF first, more, V
    <2>. QED
        BY <1>1, <1>2, <1>4, StepwiseExists
<1>6. \A f : Body(f) = [d \in 0..l |-> IF d = 0 THEN first ELSE Level(files, c, f[d - 1])]
    BY DEF Level, Meant
<1>. HIDE DEF Body
<1>7. /\ g \in [0..l -> V] /\ g[0] = first
      /\ \A d \in 1..l : g[d] = Level(files, c, g[d - 1])
    <2>1. \A d \in 1..l : d - 1 \in 0..l
        BY <1>1
    <2>. HIDE DEF V, first
    <2>. QED
        BY <1>5, <2>1 DEF Stepwise
<1>. HIDE DEF V, first
<1>8. g = Body(g)
    <2>1. \A d \in 0..l : d = 0 \/ d \in 1..l
        BY <1>1
    <2>2. ASSUME NEW d \in 0..l
          PROVE  g[d] = IF d = 0 THEN first ELSE Level(files, c, g[d - 1])
        BY <1>7, <2>1
    <2>3. g = [d \in 0..l |-> g[d]]
        BY <1>7
    <2>. QED
        BY <1>6, <2>2, <2>3
<1>9. U = Body(U)
    BY <1>8
<1>. HIDE DEF U
<1>10. /\ U[0] = first
       /\ \A d \in 1..l : U[d] = Level(files, c, U[d - 1])
    <2>1. U = [d \in 0..l |-> IF d = 0 THEN first ELSE Level(files, c, U[d - 1])]
        BY <1>6, <1>9
    <2>2. 0 \in 0..l /\ \A d \in 1..l : d \in 0..l /\ d # 0
        BY <1>1
    <2>3. \A d \in 0..l : U[d] = IF d = 0 THEN first ELSE Level(files, c, U[d - 1])
        BY <2>1, Zenon
    <2>. QED
        BY <2>2, <2>3
<1>11. \A d \in 0..l : U[d] \in V
    <2>. DEFINE P == {d \in 0..l : U[d] \in V}
    <2>1. 0 \in P
        BY <1>1, <1>2, <1>10
    <2>2. ASSUME NEW d \in 0..l, d \in P, d < l PROVE d + 1 \in P
        <3>. DEFINE e == d + 1
        <3>1. e \in 1..l /\ e - 1 = d /\ e \in 0..l
            BY <1>1, <2>2
        <3>. HIDE DEF e
        <3>2. U[e] = Level(files, c, U[e - 1])
            BY <1>10, <3>1
        <3>3. U[e] \in V
            BY <1>3, <2>2, <3>1, <3>2
        <3>. QED
            BY <3>1, <3>3 DEF e
    <2>. HIDE DEF P
    <2>3. 0..l \subseteq P
        BY <1>1, <2>1, <2>2, UpTo
    <2>. QED
        BY <2>3 DEF P
<1>12. Levels(files, c) = U
    BY DEF Levels, U, Body, l
<1>. QED
    BY <1>1, <1>10, <1>11, <1>12 DEF l, V, first

\* The files that a file includes are of a lower rank.
Ranks(files, rank) ==
    \A name \in DOMAIN files : \A k \in DOMAIN files[name] :
        files[name][k].kind = "include" /\ files[name][k].file \in DOMAIN files
            => rank[files[name][k].file] < rank[name]

\* a and b say the same of the files of less rank than the named one.
AlikeBelow(files, rank, name, a, b) ==
    /\ a \in [DOMAIN files -> Seq(Symbols)] /\ b \in [DOMAIN files -> Seq(Symbols)]
    /\ \A other \in DOMAIN files : rank[other] < rank[name] => a[other] = b[other]

\* Meanings that are the same for what a file includes are the same for the file.
LEMMA LevelSame ==
    ASSUME NEW files, IsSite(files), NEW c, NEW rank, Ranks(files, rank), NEW name \in DOMAIN files,
           NEW a, NEW b, AlikeBelow(files, rank, name, a, b)
    PROVE  Level(files, c, a)[name] = Level(files, c, b)[name]
<1>0. /\ a \in [DOMAIN files -> Seq(Symbols)] /\ b \in [DOMAIN files -> Seq(Symbols)]
      /\ \A other \in DOMAIN files : rank[other] < rank[name] => a[other] = b[other]
    BY DEF AlikeBelow
<1>1. ASSUME NEW k \in DOMAIN files[name]
      PROVE  Means(c, a, files[name], k) = Means(c, b, files[name], k)
    <2>. DEFINE part == files[name][k]
    <2>1. part.kind = "include" /\ part.file \in DOMAIN files => a[part.file] = b[part.file]
        BY <1>0 DEF Ranks
    <2>2. DOMAIN a = DOMAIN files /\ DOMAIN b = DOMAIN files
        BY <1>0
    <2>3. part.kind \in {"text", "odd", "key", "include", "when"}
        <3>1. part \in Part
            BY DEF IsSite
        <3>. QED
            BY <3>1, PartIs
    <2>. HIDE DEF part
    <2>4. Means(c, a, files[name], k) = Means(c, b, files[name], k)
        <3>1. part = files[name][k]
            BY DEF part
        <3>. QED
            BY <2>1, <2>2, <2>3, <3>1 DEF Means
    <2>. QED
        BY <2>4
<1>2. Meant(c, a, files[name]) = Meant(c, b, files[name])
    BY <1>1 DEF Meant
<1>. QED
    BY <1>2 DEF Level

\* Where no file includes itself, following includes as deep as there are files gives
\* meanings that explain one another.
LEMMA MeaningExplains ==
    ASSUME NEW files, IsSite(files), NEW c \in Pairs, Nested(files)
    PROVE  Explains(files, c, Levels(files, c)[Cardinality(DOMAIN files)])
<1>. DEFINE l == Cardinality(DOMAIN files)
            L == Levels(files, c)
            V == [DOMAIN files -> Seq(Symbols)]
<1>1. /\ l \in Nat
      /\ \A d \in 0..l : L[d] \in V
      /\ \A d \in 1..l : L[d] = Level(files, c, L[d - 1])
    BY LevelsAre
<1>2. PICK rank \in [DOMAIN files -> 1..l] : Ranks(files, rank)
    BY DEF Nested, Ranks
<1>. HIDE DEF l, L, V
<1>. DEFINE Fixed(d) == \A name \in DOMAIN files : rank[name] <= d =>
                            \A e \in d..l : L[e][name] = L[d][name]
            P == {d \in 0..l : Fixed(d)}
<1>3. 0 \in P
    <2>1. \A name \in DOMAIN files : rank[name] \in 1..l
        OBVIOUS
    <2>. QED
        BY <1>1, <2>1
<1>4. ASSUME NEW d \in 0..l, d \in P, d < l PROVE d + 1 \in P
    <2>. DEFINE u == d + 1
    <2>1. u \in 1..l /\ u \in 0..l /\ u - 1 = d
        BY <1>1, <1>4
    <2>2. ASSUME NEW name \in DOMAIN files, rank[name] <= u, NEW e \in u..l
          PROVE  L[e][name] = L[u][name]
        <3>1. e \in 1..l /\ e - 1 \in d..l /\ e - 1 \in 0..l
            BY <1>1, <1>4
        <3>2. L[e] = Level(files, c, L[e - 1]) /\ L[u] = Level(files, c, L[d])
            BY <1>1, <2>1, <3>1
        <3>3. \A other \in DOMAIN files : rank[other] < rank[name] => L[e - 1][other] = L[d][other]
            <4>1. \A other \in DOMAIN files : rank[other] \in 1..l /\ rank[name] \in 1..l
                OBVIOUS
            <4>2. \A other \in DOMAIN files : rank[other] < rank[name] => rank[other] <= d
                BY <1>1, <2>2, <4>1
            <4>. QED
                BY <1>4, <3>1, <4>2
        <3>4. L[e - 1] \in V /\ L[d] \in V
            BY <1>1, <3>1
        <3>5. Level(files, c, L[e - 1])[name] = Level(files, c, L[d])[name]
            <4>. DEFINE a == L[e - 1]
                        b == L[d]
            <4>1. AlikeBelow(files, rank, name, a, b)
                BY <3>3, <3>4 DEF V, AlikeBelow
            <4>. HIDE DEF a, b
            <4>2. Level(files, c, a)[name] = Level(files, c, b)[name]
                BY <1>2, <4>1, LevelSame
            <4>. QED
                BY <4>2 DEF a, b
        <3>. QED
            BY <3>2, <3>5
    <2>3. Fixed(u)
        BY <2>2
    <2>. HIDE DEF Fixed
    <2>. QED
        BY <2>1, <2>3
<1>5. 0..l \subseteq P
    <2>. HIDE DEF P
    <2>. QED
        BY <1>1, <1>3, <1>4, UpTo
<1>6. ASSUME NEW name \in DOMAIN files
      PROVE  L[l][name] = Joined(Meant(c, L[l], files[name]))
    <2>1. rank[name] \in 1..l /\ \A other \in DOMAIN files : rank[other] \in 1..l
        OBVIOUS
    <2>2. l \in 1..l /\ l - 1 \in 0..l /\ l \in 0..l /\ l \in (l - 1)..l
        BY <1>1, <2>1
    <2>3. Fixed(l - 1)
        BY <1>5, <2>2
    <2>4. \A other \in DOMAIN files : rank[other] < rank[name] => L[l][other] = L[l - 1][other]
        BY <1>1, <2>1, <2>2, <2>3
    <2>. HIDE DEF Fixed
    <2>5. L[l] = Level(files, c, L[l - 1]) /\ L[l] \in V /\ L[l - 1] \in V
        BY <1>1, <2>2
    <2>6. Level(files, c, L[l])[name] = Level(files, c, L[l - 1])[name]
        <3>. DEFINE a == L[l]
                    b == L[l - 1]
        <3>1. AlikeBelow(files, rank, name, a, b)
            BY <2>4, <2>5 DEF V, AlikeBelow
        <3>. HIDE DEF a, b
        <3>2. Level(files, c, a)[name] = Level(files, c, b)[name]
            BY <1>2, <3>1, LevelSame
        <3>. QED
            BY <3>2 DEF a, b
    <2>7. L[l][name] = Level(files, c, L[l])[name]
        BY <2>5, <2>6
    <2>8. Level(files, c, L[l])[name] = Joined(Meant(c, L[l], files[name]))
        BY DEF Level
    <2>. QED
        BY <2>7, <2>8
<1>7. L[l] \in V
    <2>1. l \in 0..l
        BY <1>1
    <2>. QED
        BY <1>1, <2>1
<1>. QED
    BY <1>6, <1>7 DEF Explains, L, l, V

\* The pairs, and the last one first.
LEMMA PairsReversed ==
    ASSUME NEW c \in Pairs
    PROVE  /\ Len(c) \in Nat /\ Reverse(c) \in Pairs /\ Len(Reverse(c)) = Len(c)
           /\ \A k \in 1..Len(c) : /\ c[k].key \in Seq(Symbols)
                                   /\ (Len(c) - k) + 1 \in 1..Len(c)
                                   /\ Reverse(c)[(Len(c) - k) + 1] = c[k]
                                   /\ Reverse(c)[k] = c[(Len(c) - k) + 1]
<1>. DEFINE Pair == [key : Seq(Symbols), value : Seq(Symbols)]
            r == Reverse(c)
<1>0. \A e \in Pair : e.key \in Seq(Symbols)
    OBVIOUS
<1>. HIDE DEF Pair
<1>1. c \in Seq(Pair) /\ Pairs = Seq(Pair)
    BY DEF Pairs, Pair
<1>2. /\ Len(c) \in Nat /\ \A k \in 1..Len(c) : c[k] \in Pair
      /\ \A k \in 1..Len(c) : (Len(c) - k) + 1 \in 1..Len(c) /\ (Len(c) - ((Len(c) - k) + 1)) + 1 = k
    BY <1>1
<1>3. r = [k \in 1..Len(c) |-> c[(Len(c) - k) + 1]]
    BY DEF Reverse
<1>4. r = [k \in 1..Len(c) |-> r[k]] /\ \A k \in 1..Len(c) : r[k] = c[(Len(c) - k) + 1]
    BY <1>3
<1>. HIDE DEF r
<1>5. \A k \in 1..Len(c) : r[k] \in Pair
    BY <1>2, <1>4
<1>6. r \in Seq(Pair) /\ Len(r) = Len(c)
    BY <1>2, <1>4, <1>5, SequenceOf
<1>7. \A k \in 1..Len(c) : r[(Len(c) - k) + 1] = c[k]
    BY <1>2, <1>4
<1>. QED
    BY <1>0, <1>1, <1>2, <1>4, <1>6, <1>7 DEF r

\* The first pair of a key is one of them.
LEMMA ValueFound ==
    ASSUME NEW c \in Pairs, NEW key
    PROVE  /\ HasValue(c, key) => \E k \in 1..Len(c) : c[k].key = key /\ ValueOf(c, key) = c[k].value
           /\ ~ HasValue(c, key) => ValueOf(c, key) = << >>
<1>. DEFINE keys == [at \in DOMAIN c |-> c[at].key]
            q == Position(keys, key)
<1>1. /\ Len(c) \in Nat /\ DOMAIN c = 1..Len(c)
      /\ \A k \in 1..Len(c) : c[k].key \in Seq(Symbols)
    <2>1. DOMAIN c = 1..Len(c)
        BY DEF Pairs
    <2>. QED
        BY <2>1, PairsReversed
<1>2. keys \in Seq(Seq(Symbols)) /\ Len(keys) = Len(c) /\ \A k \in 1..Len(c) : keys[k] = c[k].key
    <2>1. keys = [k \in 1..Len(c) |-> keys[k]] /\ \A k \in 1..Len(c) : keys[k] = c[k].key
        BY <1>1
    <2>2. \A k \in 1..Len(c) : keys[k] \in Seq(Symbols)
        BY <1>1, <2>1
    <2>. HIDE DEF keys
    <2>. QED
        BY <1>1, <2>1, <2>2, SequenceOf
<1>3. ValueOf(c, key) = IF q = 0 THEN << >> ELSE c[q].value
    BY DEF ValueOf
<1>4. HasValue(c, key) <=> \E k \in 1..Len(c) : c[k].key = key
    BY <1>1 DEF HasValue
<1>. HIDE DEF keys
<1>5. CASE q = 0
    <2>1. Lacks(keys, key)
        BY <1>2, <1>5, PositionIs
    <2>2. ~ HasValue(c, key)
        BY <1>2, <1>4, <2>1 DEF Lacks
    <2>. QED
        BY <1>3, <1>5, <2>2
<1>6. CASE q # 0
    <2>1. q \in 1..Len(c) /\ keys[q] = key
        BY <1>2, <1>6, PositionIs
    <2>. HIDE DEF q
    <2>. QED
        BY <1>2, <1>3, <1>4, <1>6, <2>1
<1>. QED
    BY <1>5, <1>6

\* Where no key has two values, the last of a key's pairs says what the first does.
LEMMA LastIsFirst ==
    ASSUME NEW c \in Pairs, SetOnce(c), NEW key
    PROVE  /\ HasValue(Reverse(c), key) <=> HasValue(c, key)
           /\ ValueOf(Reverse(c), key) = ValueOf(c, key)
<1>. DEFINE r == Reverse(c)
            l == Len(c)
<1>1. /\ l \in Nat /\ r \in Pairs /\ Len(r) = l
      /\ \A k \in 1..l : (l - k) + 1 \in 1..l /\ r[(l - k) + 1] = c[k] /\ r[k] = c[(l - k) + 1]
    BY PairsReversed
<1>2. DOMAIN c = 1..l /\ DOMAIN r = 1..l
    BY <1>1 DEF Pairs
<1>. HIDE DEF r, l
<1>3. HasValue(r, key) <=> HasValue(c, key)
    <2>1. HasValue(r, key) <=> \E k \in 1..l : r[k].key = key
        BY <1>2 DEF HasValue
    <2>2. HasValue(c, key) <=> \E k \in 1..l : c[k].key = key
        BY <1>2 DEF HasValue
    <2>. QED
        BY <1>1, <2>1, <2>2
<1>4. ASSUME HasValue(c, key) PROVE ValueOf(r, key) = ValueOf(c, key)
    <2>1. PICK k \in 1..l : c[k].key = key /\ ValueOf(c, key) = c[k].value
        BY <1>4, ValueFound DEF l
    <2>2. PICK e \in 1..l : r[e].key = key /\ ValueOf(r, key) = r[e].value
        BY <1>1, <1>3, <1>4, ValueFound
    <2>. DEFINE o == (l - e) + 1
    <2>3. o \in 1..l /\ r[e] = c[o]
        BY <1>1
    <2>. HIDE DEF o
    <2>4. c[o].key = c[k].key => c[o].value = c[k].value
        BY <1>2, <2>3 DEF SetOnce
    <2>. QED
        BY <2>1, <2>2, <2>3, <2>4
<1>5. ASSUME ~ HasValue(c, key) PROVE ValueOf(r, key) = ValueOf(c, key)
    BY <1>1, <1>3, <1>5, ValueFound
<1>. QED
    BY <1>3, <1>4, <1>5 DEF r

\* Handlers that set no key to two values mean the same whichever of them counts.
LEMMA MeaningsAgree ==
    ASSUME NEW files, IsSite(files), NEW c \in Pairs, SetOnce(c)
    PROVE  Levels(files, Reverse(c))[Cardinality(DOMAIN files)]
               = Levels(files, c)[Cardinality(DOMAIN files)]
<1>. DEFINE r == Reverse(c)
            l == Cardinality(DOMAIN files)
            L == Levels(files, c)
            M == Levels(files, r)
            P == {d \in 0..l : M[d] = L[d]}
<1>1. r \in Pairs
    BY PairsReversed
<1>2. /\ \A key : HasValue(r, key) <=> HasValue(c, key)
      /\ \A key : ValueOf(r, key) = ValueOf(c, key)
    BY LastIsFirst
<1>. HIDE DEF r
<1>3. \A mean, file, k : Means(r, mean, file, k) = Means(c, mean, file, k)
    BY <1>2 DEF Means
<1>4. \A below : Level(files, r, below) = Level(files, c, below)
    BY <1>3 DEF Level, Meant
<1>5. /\ l \in Nat /\ M[0] = L[0]
      /\ \A d \in 1..l : L[d] = Level(files, c, L[d - 1])
      /\ \A d \in 1..l : M[d] = Level(files, r, M[d - 1])
    <2>1. /\ l \in Nat /\ L[0] = [name \in DOMAIN files |-> << >>]
          /\ \A d \in 1..l : L[d] = Level(files, c, L[d - 1])
        BY LevelsAre, Zenon
    <2>2. /\ M[0] = [name \in DOMAIN files |-> << >>]
          /\ \A d \in 1..l : M[d] = Level(files, r, M[d - 1])
        <3>1. ASSUME NEW e \in Pairs
              PROVE  /\ Levels(files, e)[0] = [name \in DOMAIN files |-> << >>]
                     /\ \A d \in 1..l : Levels(files, e)[d] = Level(files, e, Levels(files, e)[d - 1])
            BY LevelsAre, Zenon
        <3>. HIDE DEF l
        <3>. QED
            BY <1>1, <3>1, Zenon
    <2>. QED
        BY <2>1, <2>2
<1>. HIDE DEF l, L, M
<1>6. 0 \in P
    BY <1>5
<1>7. ASSUME NEW d \in 0..l, d \in P, d < l PROVE d + 1 \in P
    <2>. DEFINE e == d + 1
    <2>1. e \in 1..l /\ e - 1 = d /\ e \in 0..l
        BY <1>5, <1>7
    <2>. HIDE DEF e
    <2>2. L[e] = Level(files, c, L[d]) /\ M[e] = Level(files, c, M[d]) /\ M[d] = L[d]
        BY <1>4, <1>5, <1>7, <2>1
    <2>3. e \in P
        BY <2>1, <2>2
    <2>. QED
        BY <2>3 DEF e
<1>8. 0..l \subseteq P
    <2>. HIDE DEF P
    <2>. QED
        BY <1>5, <1>6, <1>7, UpTo
<1>9. l \in 0..l
    BY <1>5
<1>. QED
    BY <1>8, <1>9 DEF L, M, l, r

---------------------------------------------------------------------------
(* strtok_r *)

\* Nothing has no token.
LEMMA NoneLeft == ASSUME NEW d PROVE NoToken(<< >>, d)
<1>1. Len(<< >>) = 0
    OBVIOUS
<1>2. \A q \in 1..(0 + 1) : q = 1
    OBVIOUS
<1>3. TokenBegin(<< >>, d) = 1
    <2>1. \E q \in 1..(Len(<< >>) + 1) : /\ q > Len(<< >>) \/ << >>[q] # d
                                        /\ \A at \in 1..(q - 1) : << >>[at] = d
        <3>1. 1 \in 1..(0 + 1) /\ 1 > 0 /\ \A at \in 1..(1 - 1) : FALSE
            OBVIOUS
        <3>. QED
            BY <1>1, <3>1
    <2>. QED
        BY <1>1, <1>2, <2>1 DEF TokenBegin
<1>. QED
    BY <1>1, <1>3 DEF NoToken

\* A text that does not begin with a delimiter is cut at the first one, or not at all.
LEMMA TokenFirst ==
    ASSUME NEW S, NEW t \in Seq(S), NEW d, Len(t) > 0, t[1] # d,
           NEW e \in 1..(Len(t) + 1), e > Len(t) \/ t[e] = d, \A k \in 1..(e - 1) : t[k] # d
    PROVE  /\ ~ NoToken(t, d)
           /\ Token(t, d) = SubSeq(t, 1, e - 1) /\ Left(t, d) = SubSeq(t, e + 1, Len(t))
<1>1. Len(t) \in Nat
    OBVIOUS
<1>2. TokenBegin(t, d) = 1
    <2>1. /\ 1 \in 1..(Len(t) + 1) /\ (1 > Len(t) \/ t[1] # d) /\ \A at \in 1..(1 - 1) : t[at] = d
        BY <1>1
    <2>2. ASSUME NEW q \in 1..(Len(t) + 1), q # 1, \A at \in 1..(q - 1) : t[at] = d PROVE FALSE
        <3>1. 1 \in 1..(q - 1)
            BY <1>1, <2>2
        <3>. QED
            BY <2>2, <3>1
    <2>. QED
        BY <2>1, <2>2 DEF TokenBegin
<1>3. TokenEnd(t, d) = e
    <2>1. /\ e \in 1..(Len(t) + 1) /\ (e > Len(t) \/ t[e] = d) /\ \A at \in 1..(e - 1) : t[at] # d
        OBVIOUS
    <2>2. ASSUME NEW q \in 1..(Len(t) + 1), q > Len(t) \/ t[q] = d, \A at \in 1..(q - 1) : t[at] # d
          PROVE  q = e
        <3>1. q < e => q \in 1..(e - 1) /\ q <= Len(t)
            BY <1>1
        <3>2. e < q => e \in 1..(q - 1) /\ e <= Len(t)
            BY <1>1
        <3>. QED
            BY <1>1, <2>2, <3>1, <3>2
    <2>. QED
        BY <1>2, <2>1, <2>2 DEF TokenEnd
<1>. QED
    BY <1>1, <1>2, <1>3 DEF NoToken, Token, Left

\* A text without the delimiter is one token.
LEMMA TokenAll ==
    ASSUME NEW S, NEW t \in Seq(S), NEW d, t # << >>, Lacks(t, d)
    PROVE  ~ NoToken(t, d) /\ Token(t, d) = t /\ Left(t, d) = << >>
<1>. DEFINE e == Len(t) + 1
<1>1. /\ Len(t) \in Nat /\ Len(t) > 0 /\ e \in 1..(Len(t) + 1) /\ e > Len(t) /\ e - 1 = Len(t)
    OBVIOUS
<1>. HIDE DEF e
<1>2. t[1] # d /\ \A k \in 1..(e - 1) : t[k] # d
    BY <1>1 DEF Lacks
<1>3. ~ NoToken(t, d) /\ Token(t, d) = SubSeq(t, 1, e - 1) /\ Left(t, d) = SubSeq(t, e + 1, Len(t))
    BY <1>1, <1>2, TokenFirst
<1>4. SubSeq(t, 1, Len(t)) = t /\ SubSeq(t, e + 1, Len(t)) = << >>
    BY <1>1
<1>. QED
    BY <1>1, <1>3, <1>4

\* A token ends at the first delimiter behind it.
LEMMA TokenCut ==
    ASSUME NEW S, NEW u \in Seq(S), NEW w \in Seq(S), NEW d \in S, u # << >>, Lacks(u, d)
    PROVE  /\ ~ NoToken(u \o (<<d>> \o w), d)
           /\ Token(u \o (<<d>> \o w), d) = u /\ Left(u \o (<<d>> \o w), d) = w
<1>. DEFINE t == u \o (<<d>> \o w)
            e == Len(u) + 1
<1>1. <<d>> \o w \in Seq(S) /\ Len(<<d>> \o w) = Len(w) + 1
    BY OneToken
<1>2. /\ t \in Seq(S) /\ Len(t) = Len(u) + (Len(w) + 1) /\ Len(u) \in Nat /\ Len(w) \in Nat
      /\ \A k \in 1..Len(u) : t[k] = u[k]
    BY <1>1, JoinedIs
<1>3. Position(t, d) = e /\ Until(t, d) = u /\ Behind(t, d) = w
    BY AtFirst
<1>. HIDE DEF t
<1>4. t[e] = d
    <2>1. Position(t, d) # 0 => t[Position(t, d)] = d
        BY <1>2, PositionIs
    <2>. QED
        BY <1>2, <1>3, <2>1
<1>5. Len(u) > 0
    BY <1>2
<1>6. e \in 1..(Len(t) + 1) /\ e - 1 = Len(u) /\ Len(t) > 0 /\ 1 \in 1..Len(u)
    BY <1>2, <1>5
<1>. HIDE DEF e
<1>7. t[1] # d /\ \A k \in 1..(e - 1) : t[k] # d
    BY <1>2, <1>6 DEF Lacks
<1>8. ~ NoToken(t, d) /\ Token(t, d) = SubSeq(t, 1, e - 1) /\ Left(t, d) = SubSeq(t, e + 1, Len(t))
    BY <1>2, <1>4, <1>6, <1>7, TokenFirst
<1>. QED
    BY <1>3, <1>8 DEF t, Until, Behind

---------------------------------------------------------------------------
(* The texts of files *)

\* All but the last token of a text.
LEMMA FrontIs ==
    ASSUME NEW S, NEW t \in Seq(S), t # << >>
    PROVE  /\ Front(t) \in Seq(S) /\ Len(Front(t)) = Len(t) - 1 /\ Len(t) > 0
           /\ \A k \in 1..(Len(t) - 1) : Front(t)[k] = t[k]
<1>1. Len(t) \in Nat /\ Len(t) > 0 /\ Len(t) - 1 \in 0..Len(t)
    OBVIOUS
<1>2. Front(t) = SubSeq(t, 1, Len(t) - 1)
    BY DEF Front
<1>. DEFINE l == Len(t) - 1
<1>3. l \in 0..Len(t)
    BY <1>1
<1>. HIDE DEF l
<1>4. SubSeq(t, 1, l) \in Seq(S) /\ Len(SubSeq(t, 1, l)) = l
    BY <1>3, SplitAt
<1>5. \A k \in 1..l : SubSeq(t, 1, l)[k] = t[k]
    BY <1>1, <1>3
<1>. QED
    BY <1>1, <1>2, <1>4, <1>5 DEF l

\* A text has a length, which tells whether it is empty.
LEMMA NotEmpty ==
    ASSUME NEW S, NEW t \in Seq(S)
    PROVE  Len(t) \in Nat /\ (t # << >> <=> Len(t) > 0)
    OBVIOUS

\* All but the first token of a text.
LEMMA TailIs ==
    ASSUME NEW S, NEW t \in Seq(S), t # << >>
    PROVE  Tail(t) = SubSeq(t, 2, Len(t)) /\ Tail(t) \in Seq(S)
    OBVIOUS

\* The last token is that of the second text.
LEMMA FrontJoined ==
    ASSUME NEW S, NEW u \in Seq(S), NEW w \in Seq(S), w # << >>
    PROVE  u \o w # << >> /\ Front(u \o w) = u \o Front(w)
<1>. DEFINE y == u \o w
            z == u \o Front(w)
<1>1. /\ y \in Seq(S) /\ Len(y) = Len(u) + Len(w) /\ Len(u) \in Nat /\ Len(w) \in Nat
      /\ \A k \in 1..Len(u) : y[k] = u[k]
      /\ \A k \in (Len(u) + 1)..(Len(u) + Len(w)) : y[k] = w[k - Len(u)]
    BY JoinedIs
<1>2. /\ Front(w) \in Seq(S) /\ Len(Front(w)) = Len(w) - 1 /\ Len(w) > 0
      /\ \A k \in 1..(Len(w) - 1) : Front(w)[k] = w[k]
    BY FrontIs
<1>3. /\ z \in Seq(S) /\ Len(z) = Len(u) + Len(Front(w))
      /\ \A k \in 1..Len(u) : z[k] = u[k]
      /\ \A k \in (Len(u) + 1)..(Len(u) + Len(Front(w))) : z[k] = Front(w)[k - Len(u)]
    BY <1>2, JoinedIs
<1>. HIDE DEF y, z
<1>4. y # << >>
    BY <1>1, <1>2
<1>5. /\ Front(y) \in Seq(S) /\ Len(Front(y)) = Len(y) - 1
      /\ \A k \in 1..(Len(y) - 1) : Front(y)[k] = y[k]
    BY <1>1, <1>4, FrontIs
<1>. DEFINE l == Len(y) - 1
<1>6. l = Len(u) + Len(Front(w)) /\ l = Len(u) + (Len(w) - 1)
    BY <1>1, <1>2
<1>7. ASSUME NEW k \in 1..l PROVE Front(y)[k] = z[k]
    <2>1. CASE k <= Len(u)
        <3>1. k \in 1..Len(u)
            BY <1>1, <2>1
        <3>. QED
            BY <1>1, <1>3, <1>5, <3>1
    <2>2. CASE k > Len(u)
        <3>1. /\ k \in (Len(u) + 1)..(Len(u) + Len(w)) /\ k - Len(u) \in 1..(Len(w) - 1)
              /\ k \in (Len(u) + 1)..(Len(u) + Len(Front(w)))
            BY <1>1, <1>2, <1>6, <2>2
        <3>. QED
            BY <1>1, <1>2, <1>3, <1>5, <3>1
    <2>. QED
        BY <1>1, <2>1, <2>2
<1>8. Front(y) = z
    <2>1. Front(y) \in Seq(S) /\ z \in Seq(S) /\ Len(Front(y)) = l /\ Len(z) = l
        BY <1>3, <1>5, <1>6
    <2>. HIDE DEF l
    <2>. QED
        BY <1>7, <2>1, SameText
<1>. QED
    BY <1>4, <1>8 DEF y, z

\* Tokens that templates are written with.
Opening == <<"{">>
Closing == <<"}">>
Space   == <<" ">>
Percent == <<"%">>
IfHead  == <<"%", "when", " ">>
InHead  == <<"%", "include", " ">>

\* The lengths of tuples.
LEMMA Tuples ==
    ASSUME NEW S, NEW a \in S, NEW b \in S, NEW c \in S, NEW d \in S, NEW e \in S
    PROVE  /\ <<a>> \in Seq(S) /\ <<a, b, c>> \in Seq(S) /\ <<a, b, c, d, e>> \in Seq(S)
           /\ Len(<<a>>) = 1 /\ Len(<<a, b, c>>) = 3 /\ Len(<<a, b, c, d, e>>) = 5
    OBVIOUS

\* The braces and the words around values are text.
LEMMA Marks ==
    /\ Opening \in Seq(Symbols) /\ Closing \in Seq(Symbols) /\ Space \in Seq(Symbols)
    /\ Percent \in Seq(Symbols) /\ IfHead \in Seq(Symbols) /\ InHead \in Seq(Symbols)
    /\ Len(Opening) = 1 /\ Len(Closing) = 1 /\ Len(Space) = 1 /\ Len(Percent) = 1
    /\ Len(IfHead) = 3 /\ Len(InHead) = 3
<1>1. /\ "{" \in Symbols /\ "}" \in Symbols /\ " " \in Symbols /\ "%" \in Symbols
      /\ "when" \in Symbols /\ "include" \in Symbols
    BY TemplateAssumption
<1>2. \A a \in Symbols : <<a>> \in Seq(Symbols) /\ Len(<<a>>) = 1
    BY Tuples
<1>3. \A a, b, c \in Symbols : <<a, b, c>> \in Seq(Symbols) /\ Len(<<a, b, c>>) = 3
    BY Tuples
<1>. QED
    BY <1>1, <1>2, <1>3, Zenon DEF Opening, Closing, Space, Percent, IfHead, InHead

\* What stands between the braces is text.
LEMMA InsideIs ==
    ASSUME NEW part \in Part, part.kind \in {"key", "include", "when"}
    PROVE  Inside(part) \in Seq(Symbols)
<1>2. CASE part.kind = "key"
    <2>1. part.key \in Seq(Symbols)
        BY <1>2, PartIs
    <2>2. part.key \o Closing \in Seq(Symbols)
        BY <2>1, Marks, JoinedIs
    <2>3. Opening \o (part.key \o Closing) \in Seq(Symbols)
        BY <2>2, Marks, JoinedIs
    <2>. QED
        BY <1>2, <2>3 DEF Inside, Opening, Closing
<1>3. CASE part.kind = "include"
    <2>1. part.file \in Symbols /\ "%" \in Symbols /\ "include" \in Symbols /\ " " \in Symbols
        BY <1>3, PartIs, TemplateAssumption
    <2>2. <<"%", "include", " ", part.file, "%">> \in Seq(Symbols)
        BY <2>1, Tuples, Zenon
    <2>. QED
        BY <1>3, <2>2 DEF Inside
<1>4. CASE part.kind = "when"
    <2>. DEFINE a == part.key
                b == part.value
                e == part.text
    <2>1. a \in Seq(Symbols) /\ b \in Seq(Symbols) /\ e \in Seq(Symbols)
        BY <1>4, PartIs
    <2>1a. Inside(part) = IfHead \o (a \o (Space \o (b \o (Space \o (e \o Percent)))))
        BY <1>4 DEF Inside, IfHead, Space, Percent
    <2>. HIDE DEF a, b, e
    <2>2. e \o Percent \in Seq(Symbols)
        BY <2>1, Marks, JoinedIs
    <2>3. Space \o (e \o Percent) \in Seq(Symbols)
        BY <2>2, Marks, JoinedIs
    <2>4. b \o (Space \o (e \o Percent)) \in Seq(Symbols)
        BY <2>1, <2>3, JoinedIs
    <2>5. Space \o (b \o (Space \o (e \o Percent))) \in Seq(Symbols)
        BY <2>4, Marks, JoinedIs
    <2>6. a \o (Space \o (b \o (Space \o (e \o Percent)))) \in Seq(Symbols)
        BY <2>1, <2>5, JoinedIs
    <2>7. IfHead \o (a \o (Space \o (b \o (Space \o (e \o Percent))))) \in Seq(Symbols)
        BY <2>6, Marks, JoinedIs
    <2>. QED
        BY <2>1a, <2>7
<1>. QED
    BY <1>2, <1>3, <1>4

\* The text of each part.
Sources(file) == [k \in DOMAIN file |-> Source(file[k])]

\* The text of a part, and its braces.
LEMMA SourceIs ==
    ASSUME NEW part \in Part, WellFormed(part)
    PROVE  /\ Source(part) \in Seq(Symbols) /\ Source(part) # << >>
           /\ part.kind \in {"text", "key", "include", "when"}
           /\ part.kind = "text" => Source(part) = part.text
           /\ part.kind # "text" => /\ Inside(part) \in Seq(Symbols)
                                    /\ Source(part) = Opening \o (Inside(part) \o Closing)
<1>1. part.kind \in {"text", "key", "include", "when"}
    BY PartIs DEF WellFormed
<1>2. CASE part.kind = "text"
    BY <1>2, PartIs DEF WellFormed, Source
<1>3. CASE part.kind # "text"
    <2>. DEFINE a == Inside(part)
    <2>1. a \in Seq(Symbols)
        BY <1>1, <1>3, InsideIs
    <2>2. Source(part) = Opening \o (a \o Closing)
        BY <1>1, <1>3 DEF Source, Opening, Closing
    <2>. HIDE DEF a
    <2>. DEFINE x == a \o Closing
    <2>3. x \in Seq(Symbols) /\ Len(x) \in Nat
        BY <2>1, Marks, JoinedIs
    <2>. HIDE DEF x
    <2>4. Opening \o x \in Seq(Symbols) /\ Len(Opening \o x) = Len(Opening) + Len(x)
        BY <2>3, Marks, JoinedIs
    <2>5. Source(part) \in Seq(Symbols) /\ Len(Source(part)) > 0
        BY <2>2, <2>3, <2>4, Marks DEF x
    <2>6. Source(part) # << >>
        BY <2>5
    <2>. QED
        BY <1>1, <1>3, <2>1, <2>2, <2>5, <2>6 DEF a
<1>. QED
    BY <1>1, <1>2, <1>3

\* A file of its parts' texts.
LEMMA SourcesAre ==
    ASSUME NEW file \in Seq(Part), Regular(file)
    PROVE  /\ Sources(file) \in Seq(Seq(Symbols)) /\ Len(Sources(file)) = Len(file)
           /\ Len(file) \in Nat /\ Len(file) > 0
           /\ \A k \in 1..Len(file) : /\ Sources(file)[k] = Source(file[k])
                                      /\ file[k] \in Part /\ WellFormed(file[k])
<1>1. /\ Len(file) \in Nat /\ DOMAIN file = 1..Len(file) /\ Len(file) > 0
      /\ \A k \in 1..Len(file) : file[k] \in Part /\ WellFormed(file[k])
    BY DEF Regular
<1>2. \A k \in 1..Len(file) : Sources(file)[k] = Source(file[k]) /\ Source(file[k]) \in Seq(Symbols)
    BY <1>1, SourceIs DEF Sources
<1>3. Sources(file) = [k \in 1..Len(file) |-> Sources(file)[k]]
    BY <1>1 DEF Sources
<1>. DEFINE f == Sources(file)
<1>. HIDE DEF f
<1>4. f \in Seq(Seq(Symbols)) /\ Len(f) = Len(file)
    <2>1. f = [k \in 1..Len(file) |-> f[k]] /\ \A k \in 1..Len(file) : f[k] \in Seq(Symbols)
        BY <1>2, <1>3 DEF f
    <2>. QED
        BY <1>1, <2>1, SequenceOf
<1>. QED
    BY <1>1, <1>2, <1>4 DEF f

\* The text of a file from a part on, and what readfile leaves of it: all but the last
\* character.
From(file, k) == Ends(Sources(file))[Len(file) - k + 1]

Shown(file, k) == IF k > Len(file) THEN << >> ELSE Front(From(file, k))

\* The text from a part on is the part and what is behind it.
LEMMA FromIs ==
    ASSUME NEW file \in Seq(Part), Regular(file)
    PROVE  /\ From(file, Len(file) + 1) = << >>
           /\ \A k \in 1..(Len(file) + 1) : From(file, k) \in Seq(Symbols)
           /\ \A k \in 1..Len(file) : /\ From(file, k) = Source(file[k]) \o From(file, k + 1)
                                      /\ From(file, k) # << >>
           /\ TextOf(file) = From(file, 1)
<1>. DEFINE l == Len(file)
            E == Ends(Sources(file))
<1>1. /\ l \in Nat /\ l > 0 /\ Len(Sources(file)) = l /\ Sources(file) \in Seq(Seq(Symbols))
      /\ \A k \in 1..l : Sources(file)[k] = Source(file[k]) /\ file[k] \in Part /\ WellFormed(file[k])
    BY SourcesAre
<1>2. /\ E \in [0..l -> Seq(Symbols)] /\ E[0] = << >>
      /\ \A k \in 1..l : E[k] = Sources(file)[l - k + 1] \o E[k - 1]
    BY <1>1, EndsAre
<1>3. TextOf(file) = E[l]
    <2>1. TextOf(file) = Joined(Sources(file))
        BY DEF TextOf, Sources
    <2>. QED
        BY <1>1, <2>1 DEF Joined
<1>4. \A k : From(file, k) = E[l - k + 1]
    BY DEF From
<1>. HIDE DEF l, E
<1>5. l - (l + 1) + 1 = 0 /\ l - 1 + 1 = l
    BY <1>1
<1>6. \A k \in 1..(l + 1) : l - k + 1 \in 0..l
    BY <1>1
<1>7. ASSUME NEW k \in 1..l
      PROVE  From(file, k) = Source(file[k]) \o From(file, k + 1) /\ From(file, k) # << >>
    <2>. DEFINE q == l - k + 1
    <2>1. q \in 1..l /\ l - q + 1 = k /\ q - 1 = l - (k + 1) + 1 /\ q - 1 \in 0..l
        BY <1>1
    <2>2. From(file, k) = E[q] /\ From(file, k + 1) = E[q - 1]
        BY <1>4, <2>1
    <2>. HIDE DEF q
    <2>3. E[q] = Sources(file)[k] \o E[q - 1] /\ E[q - 1] \in Seq(Symbols)
        BY <1>2, <2>1
    <2>. DEFINE a == Source(file[k])
                b == E[q - 1]
    <2>4. a \in Seq(Symbols) /\ a # << >> /\ Sources(file)[k] = a
        BY <1>1, SourceIs
    <2>. HIDE DEF a, b
    <2>5. E[q] = a \o b /\ b \in Seq(Symbols)
        BY <2>3, <2>4 DEF b
    <2>6. Len(a \o b) = Len(a) + Len(b) /\ Len(a) > 0 /\ Len(b) \in Nat
        BY <2>4, <2>5, JoinedIs
    <2>7. a \o b # << >>
        BY <2>6
    <2>. QED
        BY <2>2, <2>5, <2>7 DEF a, b
<1>8. From(file, l + 1) = << >> /\ TextOf(file) = From(file, 1)
    BY <1>2, <1>3, <1>4, <1>5
<1>9. \A k \in 1..(l + 1) : From(file, k) \in Seq(Symbols)
    BY <1>2, <1>4, <1>6
<1>. QED
    BY <1>7, <1>8, <1>9 DEF l

\* What readfile leaves of it: the last character is missing, the first a blank.
LEMMA ShownIs ==
    ASSUME NEW file \in Seq(Part), Regular(file)
    PROVE  /\ \A k \in 1..(Len(file) + 1) : Shown(file, k) \in Seq(Symbols)
           /\ Shown(file, Len(file) + 1) = << >>
           /\ Shown(file, Len(file)) = Front(Source(file[Len(file)]))
           /\ \A k \in 1..(Len(file) - 1) : Shown(file, k) = Source(file[k]) \o Shown(file, k + 1)
           /\ Buffer(TextOf(file)) = Space \o Shown(file, 1)
<1>. DEFINE l == Len(file)
<1>1. /\ l \in Nat /\ l > 0
      /\ \A k \in 1..l : file[k] \in Part /\ WellFormed(file[k])
    BY SourcesAre
<1>2. /\ From(file, l + 1) = << >>
      /\ \A k \in 1..(l + 1) : From(file, k) \in Seq(Symbols)
      /\ \A k \in 1..l : From(file, k) = Source(file[k]) \o From(file, k + 1) /\ From(file, k) # << >>
      /\ TextOf(file) = From(file, 1)
    BY FromIs
<1>3. /\ \A k \in 1..l : Shown(file, k) = Front(From(file, k))
      /\ Shown(file, l + 1) = << >>
    BY <1>1 DEF Shown
<1>. HIDE DEF l
<1>4. \A k \in 1..(l + 1) : Shown(file, k) \in Seq(Symbols)
    <2>1. \A k \in 1..l : Shown(file, k) \in Seq(Symbols)
        <3>1. \A k \in 1..l : k \in 1..(l + 1)
            BY <1>1
        <3>. QED
            BY <1>2, <1>3, <3>1, FrontIs
    <2>2. << >> \in Seq(Symbols) /\ \A k \in 1..(l + 1) : k \in 1..l \/ k = l + 1
        BY <1>1
    <2>. QED
        BY <1>3, <2>1, <2>2
<1>5. \A k \in 1..l : Source(file[k]) \in Seq(Symbols) /\ Source(file[k]) # << >>
    BY <1>1, SourceIs
<1>6. Shown(file, l) = Front(Source(file[l]))
    <2>1. l \in 1..l
        BY <1>1
    <2>2. From(file, l) = Source(file[l]) \o << >>
        BY <1>2, <2>1
    <2>3. From(file, l) = Source(file[l])
        BY <1>5, <2>1, <2>2, NoneJoined
    <2>. QED
        BY <1>3, <2>1, <2>3
<1>7. ASSUME NEW k \in 1..(l - 1) PROVE Shown(file, k) = Source(file[k]) \o Shown(file, k + 1)
    <2>. DEFINE e == k + 1
    <2>1. k \in 1..l /\ e \in 1..l /\ e \in 1..(l + 1)
        BY <1>1
    <2>2. From(file, k) = Source(file[k]) \o From(file, e)
        BY <1>2, <2>1
    <2>. HIDE DEF e
    <2>3. Front(Source(file[k]) \o From(file, e)) = Source(file[k]) \o Front(From(file, e))
        BY <1>2, <1>5, <2>1, FrontJoined
    <2>4. Shown(file, k) = Source(file[k]) \o Shown(file, e)
        BY <1>3, <2>1, <2>2, <2>3
    <2>. QED
        BY <2>4 DEF e
<1>8. Buffer(TextOf(file)) = Space \o Shown(file, 1)
    <2>1. 1 \in 1..l
        BY <1>1
    <2>. QED
        BY <1>2, <1>3, <2>1 DEF Buffer, Space
<1>. QED
    BY <1>3, <1>4, <1>6, <1>7, <1>8 DEF l

---------------------------------------------------------------------------
(* The ink of files *)

\* The ink of what is meant by the parts of a file from one on.
InkFrom(c, mean, file, k) == Inked(Ends(Meant(c, mean, file))[Len(file) - k + 1])

\* What is meant from a part on is the part and what is behind it.
LEMMA InkFromIs ==
    ASSUME NEW c \in Pairs, NEW D, NEW mean \in [D -> Seq(Symbols)], NEW file \in Seq(Part)
    PROVE  /\ InkFrom(c, mean, file, Len(file) + 1) = << >>
           /\ \A k \in 1..(Len(file) + 1) : InkFrom(c, mean, file, k) \in Seq(Symbols)
           /\ \A k \in 1..Len(file) :
                  InkFrom(c, mean, file, k)
                      = Inked(Means(c, mean, file, k)) \o InkFrom(c, mean, file, k + 1)
           /\ InkFrom(c, mean, file, 1) = Inked(Joined(Meant(c, mean, file)))
<1>. DEFINE l == Len(file)
            M == Meant(c, mean, file)
            E == Ends(M)
            I(k) == InkFrom(c, mean, file, k)
<1>1. /\ l \in Nat /\ M \in Seq(Seq(Symbols)) /\ Len(M) = l
      /\ \A k \in 1..l : M[k] = Means(c, mean, file, k) /\ M[k] \in Seq(Symbols)
    <2>1. Len(file) \in Nat /\ \A k \in 1..Len(file) : file[k] \in Part
        OBVIOUS
    <2>2. M \in Seq(Seq(Symbols)) /\ Len(M) = l /\ \A k \in 1..l : M[k] = Means(c, mean, file, k)
        BY MeantIs
    <2>. QED
        BY <2>1, <2>2, MeansIs
<1>2. /\ E \in [0..l -> Seq(Symbols)] /\ E[0] = << >>
      /\ \A k \in 1..l : E[k] = M[l - k + 1] \o E[k - 1]
    BY <1>1, EndsAre
<1>3. \A k : I(k) = Inked(E[l - k + 1])
    BY DEF InkFrom
<1>4. Joined(M) = E[l]
    BY <1>1 DEF Joined
<1>. HIDE DEF l, M, E, I
<1>5. l - (l + 1) + 1 = 0 /\ l - 1 + 1 = l
    BY <1>1
<1>6. \A k \in 1..(l + 1) : l - k + 1 \in 0..l
    BY <1>1
<1>7. ASSUME NEW k \in 1..l
      PROVE  I(k) = Inked(Means(c, mean, file, k)) \o I(k + 1)
    <2>. DEFINE q == l - k + 1
    <2>1. q \in 1..l /\ l - q + 1 = k /\ q - 1 = l - (k + 1) + 1 /\ q - 1 \in 0..l
        BY <1>1
    <2>2. I(k) = Inked(E[q]) /\ I(k + 1) = Inked(E[q - 1])
        BY <1>3, <2>1
    <2>. HIDE DEF q
    <2>3. E[q] = M[k] \o E[q - 1] /\ E[q - 1] \in Seq(Symbols) /\ M[k] \in Seq(Symbols)
        BY <1>1, <1>2, <2>1
    <2>4. Inked(E[q]) = Inked(M[k]) \o Inked(E[q - 1])
        BY <2>3, InkedAdds
    <2>. QED
        BY <1>1, <2>2, <2>4
<1>8. I(l + 1) = << >> /\ I(1) = Inked(E[l])
    <2>1. << >> \in Seq(Symbols)
        OBVIOUS
    <2>. QED
        BY <1>2, <1>3, <1>5, <2>1, InkedIs
<1>9. \A k \in 1..(l + 1) : I(k) \in Seq(Symbols)
    BY <1>2, <1>3, <1>6, InkedIs
<1>. QED
    BY <1>4, <1>7, <1>8, <1>9 DEF l, M, I

\* From part k on there is the text u, and then the construct at j or nothing.
UpToMark(c, mean, file, k, o, u) ==
    /\ o \in k..(Len(file) + 1) /\ u \in Seq(Symbols)
    /\ Lacks(u, "{") /\ Lacks(u, "}")
    /\ Shown(file, k) = u \o Shown(file, o)
    /\ o <= Len(file) => file[o].kind # "text"
    /\ Inked(u) \o InkFrom(c, mean, file, o) = InkFrom(c, mean, file, k)
    /\ k <= Len(file) /\ file[k].kind = "text"
       => /\ u = << >> => o = Len(file) + 1
          /\ u # << >> => u[1] = file[k].text[1]

\* Text between constructs has no brace.
LEMMA TextIs ==
    ASSUME NEW part \in Part, WellFormed(part), part.kind = "text"
    PROVE  /\ part.text \in Seq(Symbols) /\ part.text # << >> /\ Source(part) = part.text
           /\ Lacks(part.text, "{") /\ Lacks(part.text, "}")
<1>1. Source(part) \in Seq(Symbols) /\ Source(part) = part.text /\ Source(part) # << >>
    BY SourceIs
<1>2. Without(part.text, {"{", "}"})
    BY DEF WellFormed
<1>. DEFINE t == part.text
<1>3. t \in Seq(Symbols)
    BY <1>1
<1>. HIDE DEF t
<1>4. DOMAIN t = 1..Len(t)
    BY <1>3
<1>5. Lacks(t, "{") /\ Lacks(t, "}")
    BY <1>2, <1>4 DEF Without, Lacks, t
<1>. QED
    BY <1>1, <1>5 DEF t

\* A construct stands here, or the end.
LEMMA MarkHere ==
    ASSUME NEW c \in Pairs, NEW D, NEW mean \in [D -> Seq(Symbols)],
           NEW file \in Seq(Part), Regular(file), NEW k \in 1..(Len(file) + 1),
           k <= Len(file) => file[k].kind # "text"
    PROVE  UpToMark(c, mean, file, k, k, << >>)
<1>1. << >> \in Seq(Symbols) /\ Lacks(<< >>, "{") /\ Lacks(<< >>, "}")
    BY DEF Lacks
<1>2. k \in k..(Len(file) + 1)
    OBVIOUS
<1>3. Shown(file, k) \in Seq(Symbols) /\ InkFrom(c, mean, file, k) \in Seq(Symbols)
    BY ShownIs, InkFromIs
<1>4. Shown(file, k) = << >> \o Shown(file, k)
    BY <1>3, NoneJoined
<1>5. Inked(<< >>) \o InkFrom(c, mean, file, k) = InkFrom(c, mean, file, k)
    BY <1>1, <1>3, InkedIs, NoneJoined
<1>. QED
    BY <1>1, <1>2, <1>4, <1>5 DEF UpToMark

\* The last part is text: the end comes behind it.
LEMMA MarkNone ==
    ASSUME NEW c \in Pairs, NEW D, NEW mean \in [D -> Seq(Symbols)],
           NEW file \in Seq(Part), Regular(file), file[Len(file)].kind = "text"
    PROVE  UpToMark(c, mean, file, Len(file), Len(file) + 1, Front(file[Len(file)].text))
<1>. DEFINE l == Len(file)
            t == file[l].text
            u == Front(t)
<1>1. l \in Nat /\ l > 0 /\ file[l] \in Part /\ WellFormed(file[l]) /\ l \in 1..l
    BY SourcesAre
<1>2. /\ t \in Seq(Symbols) /\ t # << >> /\ Source(file[l]) = t
      /\ Lacks(t, "{") /\ Lacks(t, "}")
    BY <1>1, TextIs
<1>4. Means(c, mean, file, l) = u
    BY DEF Means
<1>5. /\ Shown(file, l) = Front(Source(file[l])) /\ Shown(file, l + 1) = << >>
      /\ InkFrom(c, mean, file, l + 1) = << >>
      /\ InkFrom(c, mean, file, l) = Inked(Means(c, mean, file, l)) \o InkFrom(c, mean, file, l + 1)
    BY <1>1, ShownIs, InkFromIs
<1>. HIDE DEF t, l
<1>6. /\ u \in Seq(Symbols) /\ Len(u) = Len(t) - 1 /\ Len(t) > 0 /\ Len(t) \in Nat
      /\ \A k \in 1..(Len(t) - 1) : u[k] = t[k]
    <2>1. t \in Seq(Symbols) /\ t # << >>
        BY <1>2
    <2>. QED
        BY <2>1, FrontIs, NotEmpty
<1>7. Inked(u) \in Seq(Symbols)
    BY <1>6, InkedIs
<1>. HIDE DEF u
<1>8. Lacks(u, "{") /\ Lacks(u, "}")
    <2>1. ASSUME NEW q \in 1..Len(u) PROVE q \in 1..Len(t) /\ u[q] = t[q]
        BY <1>6
    <2>2. \A d : Lacks(t, d) => Lacks(u, d)
        BY <2>1 DEF Lacks
    <2>. QED
        BY <1>2, <2>2
<1>9. u # << >> => u[1] = t[1]
    <2>1. u # << >> => 1 \in 1..(Len(t) - 1)
        BY <1>6
    <2>. QED
        BY <1>6, <2>1
<1>10. Shown(file, l) = u \o Shown(file, l + 1)
    BY <1>2, <1>5, <1>6, NoneJoined DEF u
<1>11. Inked(u) \o InkFrom(c, mean, file, l + 1) = InkFrom(c, mean, file, l)
    BY <1>4, <1>5, <1>7
<1>12. l + 1 \in l..(l + 1) /\ ~(l + 1 <= l)
    BY <1>1
<1>. QED
    BY <1>6, <1>8, <1>9, <1>10, <1>11, <1>12 DEF UpToMark, u, t, l

\* Text goes on to the construct behind it.
LEMMA MarkBehind ==
    ASSUME NEW c \in Pairs, NEW D, NEW mean \in [D -> Seq(Symbols)],
           NEW file \in Seq(Part), Regular(file), NEW k \in 1..(Len(file) - 1),
           file[k].kind = "text", NEW o, NEW w, UpToMark(c, mean, file, k + 1, o, w)
    PROVE  UpToMark(c, mean, file, k, o, file[k].text \o w)
<1>. DEFINE l == Len(file)
            t == file[k].text
            u == t \o w
            I(q) == InkFrom(c, mean, file, q)
<1>1. l \in Nat /\ k \in 1..l /\ file[k] \in Part /\ WellFormed(file[k])
    <2>1. Len(file) \in Nat /\ \A q \in 1..Len(file) : file[q] \in Part /\ WellFormed(file[q])
        BY SourcesAre
    <2>2. k \in 1..Len(file)
        BY <2>1
    <2>. QED
        BY <2>1, <2>2
<1>2. /\ t \in Seq(Symbols) /\ t # << >> /\ Source(file[k]) = t
      /\ Lacks(t, "{") /\ Lacks(t, "}")
    BY <1>1, TextIs
<1>3. Means(c, mean, file, k) = t
    <2>1. k # Len(file)
        BY <1>1
    <2>. QED
        BY <2>1 DEF Means
<1>4. /\ o \in (k + 1)..(l + 1) /\ w \in Seq(Symbols) /\ Lacks(w, "{") /\ Lacks(w, "}")
      /\ Shown(file, k + 1) = w \o Shown(file, o) /\ (o <= l => file[o].kind # "text")
      /\ Inked(w) \o I(o) = I(k + 1)
    BY DEF UpToMark
<1>5. /\ Shown(file, k) = t \o Shown(file, k + 1)
      /\ I(k) = Inked(t) \o I(k + 1)
    <2>1. Shown(file, k) = Source(file[k]) \o Shown(file, k + 1)
        BY ShownIs
    <2>2. I(k) = Inked(Means(c, mean, file, k)) \o I(k + 1)
        BY <1>1, InkFromIs
    <2>. HIDE DEF t, I
    <2>. QED
        BY <1>2, <1>3, <2>1, <2>2
<1>6. o \in 1..(l + 1) /\ o \in k..(l + 1)
    <2>1. l \in Nat /\ k \in 1..l /\ o \in (k + 1)..(l + 1)
        BY <1>1, <1>4
    <2>. HIDE DEF l
    <2>. QED
        BY <2>1
<1>7. Shown(file, o) \in Seq(Symbols) /\ I(o) \in Seq(Symbols)
    BY <1>6, ShownIs, InkFromIs
<1>. HIDE DEF l, t, I
<1>8. u \in Seq(Symbols) /\ Lacks(u, "{") /\ Lacks(u, "}")
    BY <1>2, <1>4, JoinedIs, LacksJoined
<1>9. Shown(file, k) = u \o Shown(file, o)
    <2>. DEFINE x == Shown(file, o)
    <2>1. Triple(Symbols, t, w, x)
        BY <1>2, <1>4, <1>7 DEF Triple
    <2>2. Shown(file, k) = t \o (w \o x)
        BY <1>4, <1>5
    <2>. HIDE DEF x
    <2>3. (t \o w) \o x = t \o (w \o x)
        BY <2>1, TripleJoined
    <2>. QED
        BY <2>2, <2>3 DEF x
<1>10. Inked(u) \o I(o) = I(k)
    <2>. DEFINE a == Inked(t)
                b == Inked(w)
                d == I(o)
    <2>1. Inked(u) = a \o b
        BY <1>2, <1>4, InkedAdds
    <2>2. Triple(Symbols, a, b, d)
        BY <1>2, <1>4, <1>7, InkedIs DEF Triple
    <2>3. I(k) = a \o (b \o d)
        BY <1>4, <1>5
    <2>. HIDE DEF a, b, d, u
    <2>4. (a \o b) \o d = a \o (b \o d)
        BY <2>2, TripleJoined
    <2>5. Inked(u) \o d = I(k)
        BY <2>1, <2>3, <2>4
    <2>. QED
        BY <2>5 DEF d
<1>11. u # << >> /\ u[1] = t[1]
    <2>1. Len(t) > 0 /\ Len(t) \in Nat
        BY <1>2, NotEmpty
    <2>2. /\ Len(u) = Len(t) + Len(w) /\ Len(w) \in Nat
          /\ \A q \in 1..Len(t) : u[q] = t[q]
        <3>1. t \in Seq(Symbols) /\ w \in Seq(Symbols)
            BY <1>2, <1>4
        <3>. QED
            BY <3>1, JoinedIs
    <2>. HIDE DEF u
    <2>3. 1 \in 1..Len(t) /\ Len(u) > 0
        BY <2>1, <2>2
    <2>4. u # << >>
        BY <2>3
    <2>. QED
        BY <2>2, <2>3, <2>4
<1>. HIDE DEF u
<1>. QED
    BY <1>4, <1>6, <1>8, <1>9, <1>10, <1>11 DEF UpToMark, u, t, l, I

\* From each part on there is text, then a construct or the end.
LEMMA TextsUpTo ==
    ASSUME NEW c \in Pairs, NEW D, NEW mean \in [D -> Seq(Symbols)],
           NEW file \in Seq(Part), Regular(file), NEW k \in 1..(Len(file) + 1)
    PROVE  \E o, u : UpToMark(c, mean, file, k, o, u)
<1>. DEFINE l == Len(file)
            Marked(q) == \E o, u : UpToMark(c, mean, file, q, o, u)
            P == {q \in 0..l : Marked((l + 1) - q)}
<1>1. l \in Nat /\ l > 0
    BY SourcesAre
<1>2. ASSUME NEW q \in 1..(l + 1), q <= l => Marked(q + 1) PROVE Marked(q)
    <2>1. CASE q <= l => file[q].kind # "text"
        BY <2>1, MarkHere
    <2>2. CASE q <= l /\ file[q].kind = "text" /\ q = l
        BY <2>2, MarkNone
    <2>3. CASE q <= l /\ file[q].kind = "text" /\ q # l
        <3>1. q \in 1..(l - 1)
            BY <1>1, <2>3
        <3>2. PICK o, w : UpToMark(c, mean, file, q + 1, o, w)
            BY <1>2, <2>3
        <3>3. UpToMark(c, mean, file, q, o, file[q].text \o w)
            BY <2>3, <3>1, <3>2, MarkBehind
        <3>. QED
            BY <3>3
    <2>. QED
        BY <2>1, <2>2, <2>3
<1>. HIDE DEF l, Marked
<1>3. 0 \in P
    <2>1. l + 1 \in 1..(l + 1) /\ ~(l + 1 <= l) /\ (l + 1) - 0 = l + 1 /\ 0 \in 0..l
        BY <1>1
    <2>. QED
        BY <1>2, <2>1
<1>4. ASSUME NEW q \in 0..l, q \in P, q < l PROVE q + 1 \in P
    <2>1. /\ (l + 1) - (q + 1) \in 1..(l + 1) /\ ((l + 1) - (q + 1)) + 1 = (l + 1) - q
          /\ q + 1 \in 0..l
        BY <1>1, <1>4
    <2>. QED
        BY <1>2, <1>4, <2>1
<1>5. 0..l \subseteq P
    <2>. HIDE DEF P
    <2>. QED
        BY <1>1, <1>3, <1>4, UpTo
<1>6. (l + 1) - k \in 0..l /\ (l + 1) - ((l + 1) - k) = k
    BY <1>1 DEF l
<1>7. Marked(k)
    BY <1>5, <1>6
<1>. QED
    BY <1>7 DEF Marked

---------------------------------------------------------------------------
(* Constructs *)

\* A construct.
IsPlaced(part) == part \in Part /\ WellFormed(part) /\ part.kind # "text"

\* The segment that is cut out for a construct.
Piece(part) == IF part.kind = "key" THEN Opening \o part.key ELSE Inside(part)

\* A text without some characters lacks each of them.
LEMMA WithoutLacks ==
    ASSUME NEW S, NEW t \in Seq(S), NEW chars, Without(t, chars), NEW d \in chars
    PROVE  Lacks(t, d)
<1>1. DOMAIN t = 1..Len(t)
    OBVIOUS
<1>. QED
    BY <1>1 DEF Without, Lacks

\* The tokens of the marks.
LEMMA MarksLack ==
    /\ Lacks(Opening, "}") /\ Lacks(Space, "}") /\ Lacks(Percent, "}") /\ Lacks(IfHead, "}")
    /\ Opening[1] = "{" /\ Closing = <<"}">> /\ Opening = <<"{">> /\ Space = <<" ">>
    /\ IfHead[1] = "%" /\ IfHead[2] = "when"
<1>1. /\ Opening[1] = "{" /\ Closing = <<"}">> /\ Opening = <<"{">> /\ Space = <<" ">>
      /\ Percent[1] = "%" /\ Space[1] = " "
      /\ IfHead[1] = "%" /\ IfHead[2] = "when" /\ IfHead[3] = " "
    BY DEF Opening, Closing, Space, Percent, IfHead
<1>2. (\A k \in 1..1 : k = 1) /\ \A k \in 1..3 : k = 1 \/ k = 2 \/ k = 3
    OBVIOUS
<1>3. Lacks(Opening, "}") /\ Lacks(Space, "}") /\ Lacks(Percent, "}")
    BY <1>1, <1>2, Marks DEF Lacks
<1>4. Lacks(IfHead, "}")
    <2>1. \A k \in 1..3 : IfHead[k] # "}"
        BY <1>1, <1>2
    <2>. QED
        BY <2>1, Marks DEF Lacks
<1>. QED
    BY <1>1, <1>3, <1>4

\* A text that strtok_r does not cut at a closing brace.
Free(t) == t \in Seq(Symbols) /\ Lacks(t, "}")

\* Two texts without a closing brace make one.
LEMMA FreeJoined ==
    ASSUME NEW u, NEW w, Free(u), Free(w)
    PROVE  Free(u \o w)
<1>1. u \in Seq(Symbols) /\ w \in Seq(Symbols) /\ Lacks(u, "}") /\ Lacks(w, "}")
    BY DEF Free
<1>2. u \o w \in Seq(Symbols)
    BY <1>1, JoinedIs
<1>3. Lacks(u \o w, "}")
    BY <1>1, LacksJoined
<1>. QED
    BY <1>2, <1>3 DEF Free

\* Marks without a closing brace.
LEMMA FreeMarks == Free(Opening) /\ Free(Space) /\ Free(Percent) /\ Free(IfHead)
    BY Marks, MarksLack DEF Free

\* The segment of {{key}} is an opening brace and the key.
LEMMA KeyPiece ==
    ASSUME NEW part, IsPlaced(part), part.kind = "key"
    PROVE  /\ part.key \in Seq(Symbols)
           /\ Piece(part) \in Seq(Symbols) /\ Piece(part) # << >> /\ Lacks(Piece(part), "}")
           /\ Inside(part) = Piece(part) \o Closing
           /\ Piece(part)[1] = "{" /\ Tail(Piece(part)) = part.key
<1>. DEFINE k == part.key
            y == Opening \o k
<1>1. k \in Seq(Symbols) /\ Without(k, {"{", "}"})
    BY PartIs DEF IsPlaced, WellFormed
<1>2. Inside(part) = Opening \o (k \o Closing) /\ Piece(part) = Opening \o k
    BY DEF Inside, Piece, Opening, Closing
<1>. HIDE DEF k
<1>3. /\ y \in Seq(Symbols) /\ Len(y) = Len(k) + 1 /\ y[1] = "{" /\ SubSeq(y, 2, Len(y)) = k
    <2>. DEFINE c == "{"
    <2>1. c \in Symbols /\ Opening = <<c>> /\ c = "{"
        BY TemplateAssumption, MarksLack
    <2>. HIDE DEF c
    <2>2. /\ <<c>> \o k \in Seq(Symbols) /\ Len(<<c>> \o k) = Len(k) + 1
          /\ (<<c>> \o k)[1] = c /\ SubSeq(<<c>> \o k, 2, Len(<<c>> \o k)) = k
        <3>1. k \in Seq(Symbols) /\ c \in Symbols
            BY <1>1, <2>1
        <3>. QED
            BY <3>1, OneToken
    <2>. QED
        BY <2>1, <2>2
<1>4. Len(k) \in Nat
    BY <1>1, NotEmpty
<1>5. Lacks(k, "}")
    BY <1>1, WithoutLacks
<1>6. Lacks(y, "}")
    BY <1>1, <1>5, Marks, MarksLack, LacksJoined
<1>7. (Opening \o k) \o Closing = Opening \o (k \o Closing)
    <2>1. Triple(Symbols, Opening, k, Closing)
        BY <1>1, Marks DEF Triple
    <2>. QED
        BY <2>1, TripleJoined
<1>. HIDE DEF y
<1>8. y # << >> /\ Tail(y) = SubSeq(y, 2, Len(y))
    <2>1. y \in Seq(Symbols) /\ Len(y) > 0
        <3>1. y \in Seq(Symbols) /\ Len(y) = Len(k) + 1
            BY <1>3
        <3>. QED
            BY <1>4, <3>1
    <2>2. y # << >>
        BY <2>1, NotEmpty
    <2>. QED
        BY <2>1, <2>2, TailIs
<1>. QED
    BY <1>1, <1>2, <1>3, <1>6, <1>7, <1>8 DEF k, y

\* The segment of {%include file%} has the file as its fourth token.
LEMMA IncludePiece ==
    ASSUME NEW part, IsPlaced(part), part.kind = "include"
    PROVE  /\ part.file \in Symbols
           /\ Piece(part) \in Seq(Symbols) /\ Piece(part) # << >> /\ Lacks(Piece(part), "}")
           /\ Inside(part) = Piece(part)
           /\ Piece(part)[1] = "%" /\ Len(Piece(part)) > 1 /\ Piece(part)[2] = "include"
           /\ Piece(part)[4] = part.file
<1>. DEFINE f == part.file
            y == <<"%", "include", " ", f, "%">>
<1>1. f \in Symbols /\ f # "}"
    BY PartIs DEF IsPlaced, WellFormed
<1>2. Piece(part) = Inside(part) /\ Inside(part) = y
    BY DEF Inside, Piece
<1>3. Inside(part) \in Seq(Symbols)
    BY InsideIs DEF IsPlaced
<1>. HIDE DEF f
<1>4. /\ Len(y) = 5 /\ y[1] = "%" /\ y[2] = "include" /\ y[3] = " " /\ y[4] = f /\ y[5] = "%"
    OBVIOUS
<1>. HIDE DEF y
<1>5. \A q \in 1..5 : y[q] # "}"
    <2>1. \A q \in 1..5 : q = 1 \/ q = 2 \/ q = 3 \/ q = 4 \/ q = 5
        OBVIOUS
    <2>. QED
        BY <1>1, <1>4, <2>1
<1>6. y # << >> /\ Len(y) > 1 /\ Lacks(y, "}")
    <2>1. Len(y) = 5
        BY <1>4
    <2>2. Len(y) > 1 /\ y # << >>
        BY <2>1
    <2>. QED
        BY <1>5, <2>1, <2>2 DEF Lacks
<1>. QED
    BY <1>1, <1>2, <1>3, <1>4, <1>6 DEF f

\* What stands behind the head of a when.
Condition(part) == part.key \o (Space \o (part.value \o (Space \o (part.text \o Percent))))

\* The three parts of a when.
LEMMA WhenIs ==
    ASSUME NEW part, IsPlaced(part), part.kind = "when"
    PROVE  /\ part.key \in Seq(Symbols) /\ part.value \in Seq(Symbols) /\ part.text \in Seq(Symbols)
           /\ Lacks(part.key, "}") /\ Lacks(part.key, " ")
           /\ Lacks(part.value, "}") /\ Lacks(part.value, " ") /\ Lacks(part.text, "}")
           /\ Inside(part) = IfHead \o Condition(part) /\ Piece(part) = Inside(part)
           /\ part.text \o Percent \in Seq(Symbols)
           /\ part.value \o (Space \o (part.text \o Percent)) \in Seq(Symbols)
           /\ Condition(part) \in Seq(Symbols)
<1>. DEFINE a == part.key
            b == part.value
            e == part.text
<1>1. /\ a \in Seq(Symbols) /\ b \in Seq(Symbols) /\ e \in Seq(Symbols)
      /\ Without(a, {"{", "}", " "}) /\ Without(b, {"{", "}", " "}) /\ Without(e, {"{", "}"})
    BY PartIs DEF IsPlaced, WellFormed
<1>2. /\ Inside(part) = IfHead \o (a \o (Space \o (b \o (Space \o (e \o Percent)))))
      /\ Piece(part) = Inside(part)
      /\ Condition(part) = a \o (Space \o (b \o (Space \o (e \o Percent))))
    BY DEF Inside, Piece, Condition, IfHead, Space, Percent
<1>. HIDE DEF a, b, e
<1>3. Lacks(a, "}") /\ Lacks(a, " ") /\ Lacks(b, "}") /\ Lacks(b, " ") /\ Lacks(e, "}")
    <2>1. Lacks(a, "}") /\ Lacks(a, " ")
        BY <1>1, WithoutLacks
    <2>2. Lacks(b, "}") /\ Lacks(b, " ")
        BY <1>1, WithoutLacks
    <2>3. Lacks(e, "}")
        BY <1>1, WithoutLacks
    <2>. QED
        BY <2>1, <2>2, <2>3
<1>4. e \o Percent \in Seq(Symbols)
    BY <1>1, Marks, JoinedIs
<1>5. Space \o (e \o Percent) \in Seq(Symbols)
    BY <1>4, Marks, JoinedIs
<1>6. b \o (Space \o (e \o Percent)) \in Seq(Symbols)
    BY <1>1, <1>5, JoinedIs
<1>7. Space \o (b \o (Space \o (e \o Percent))) \in Seq(Symbols)
    BY <1>6, Marks, JoinedIs
<1>8. a \o (Space \o (b \o (Space \o (e \o Percent)))) \in Seq(Symbols)
    BY <1>1, <1>7, JoinedIs
<1>. QED
    BY <1>1, <1>2, <1>3, <1>4, <1>6, <1>8 DEF a, b, e

\* The segment of {%when key value text%} has them behind its third token.
LEMMA WhenPiece ==
    ASSUME NEW part, IsPlaced(part), part.kind = "when"
    PROVE  /\ Piece(part) \in Seq(Symbols) /\ Piece(part) # << >> /\ Lacks(Piece(part), "}")
           /\ Inside(part) = Piece(part)
           /\ Piece(part)[1] = "%" /\ Len(Piece(part)) > 1 /\ Piece(part)[2] = "when"
           /\ SubSeq(Piece(part), 4, Len(Piece(part))) = Condition(part)
<1>. DEFINE a == part.key
            b == part.value
            e == part.text
            y == Condition(part)
            z == IfHead \o y
<1>1. /\ a \in Seq(Symbols) /\ b \in Seq(Symbols) /\ e \in Seq(Symbols)
      /\ Lacks(a, "}") /\ Lacks(b, "}") /\ Lacks(e, "}")
      /\ Inside(part) = z /\ Piece(part) = Inside(part) /\ y \in Seq(Symbols)
    BY WhenIs
<1>2. y = a \o (Space \o (b \o (Space \o (e \o Percent))))
    BY DEF Condition
<1>. HIDE DEF a, b, e, y
<1>3. Free(e \o Percent)
    BY <1>1, FreeMarks, FreeJoined DEF Free
<1>4. Free(Space \o (e \o Percent))
    BY <1>3, FreeMarks, FreeJoined
<1>5. Free(b \o (Space \o (e \o Percent)))
    <2>1. Free(b)
        BY <1>1 DEF Free
    <2>. QED
        BY <1>4, <2>1, FreeJoined
<1>6. Free(Space \o (b \o (Space \o (e \o Percent))))
    BY <1>5, FreeMarks, FreeJoined
<1>7. Free(y)
    <2>1. Free(a)
        BY <1>1 DEF Free
    <2>. QED
        BY <1>2, <1>6, <2>1, FreeJoined
<1>8. /\ z \in Seq(Symbols) /\ Len(z) = Len(IfHead) + Len(y) /\ Len(y) \in Nat
      /\ \A k \in 1..Len(IfHead) : z[k] = IfHead[k]
    <2>1. IfHead \in Seq(Symbols) /\ y \in Seq(Symbols)
        BY <1>1, Marks
    <2>. QED
        BY <2>1, JoinedIs
<1>9. SubSeq(z, 4, Len(z)) = y
    <2>1. SubSeq(z, Len(IfHead) + 1, Len(z)) = y
        BY <1>1, Marks, PartsOf
    <2>. QED
        BY <2>1, Marks
<1>10. Free(z)
    BY <1>7, FreeMarks, FreeJoined
<1>. HIDE DEF z
<1>11. z[1] = "%" /\ z[2] = "when" /\ z # << >> /\ Len(z) > 1
    <2>1. Len(IfHead) = 3
        BY Marks
    <2>2. 1 \in 1..Len(IfHead) /\ 2 \in 1..Len(IfHead) /\ Len(z) > 1
        BY <1>8, <2>1
    <2>3. z[1] = IfHead[1] /\ z[2] = IfHead[2]
        BY <1>8, <2>2
    <2>4. z # << >>
        BY <1>8, <2>2, NotEmpty
    <2>. QED
        BY <2>2, <2>3, <2>4, MarksLack
<1>. QED
    BY <1>1, <1>8, <1>9, <1>10, <1>11 DEF y, Free

\* What strtok_r has left of the file before the closing brace of a construct, and
\* behind it.
AtMark(file, k) == IF k > Len(file) THEN << >> ELSE Tail(Shown(file, k))

RestAt(file, k) ==
    IF k = Len(file) THEN << >>
    ELSE IF file[k].kind = "key" THEN Closing \o Shown(file, k + 1) ELSE Shown(file, k + 1)

\* The segment of a construct.
LEMMA PieceIs ==
    ASSUME NEW part, IsPlaced(part)
    PROVE  /\ part.kind \in {"key", "include", "when"}
           /\ Piece(part) \in Seq(Symbols) /\ Piece(part) # << >> /\ Lacks(Piece(part), "}")
           /\ Inside(part) = IF part.kind = "key" THEN Piece(part) \o Closing ELSE Piece(part)
           /\ Inside(part) \in Seq(Symbols)
           /\ Source(part) = Opening \o (Inside(part) \o Closing)
<1>1. /\ part.kind \in {"key", "include", "when"}
      /\ Inside(part) \in Seq(Symbols)
      /\ Source(part) = Opening \o (Inside(part) \o Closing)
    BY SourceIs DEF IsPlaced
<1>2. CASE part.kind = "key"
    BY <1>1, <1>2, KeyPiece
<1>3. CASE part.kind = "include"
    BY <1>1, <1>3, IncludePiece
<1>4. CASE part.kind = "when"
    BY <1>1, <1>4, WhenPiece
<1>. QED
    BY <1>1, <1>2, <1>3, <1>4

\* One token in front of a text.
LEMMA HeadPut ==
    ASSUME NEW S, NEW u \in Seq(S), NEW x \in Seq(S), Len(x) = 1
    PROVE  x \o u # << >> /\ Tail(x \o u) = u
<1>. DEFINE y == x \o u
<1>1. /\ y \in Seq(S) /\ Len(y) = Len(x) + Len(u) /\ Len(u) \in Nat
      /\ \A k \in 1..Len(u) : y[Len(x) + k] = u[k]
    BY ONLY JoinedIs
<1>. HIDE DEF y
<1>2. y # << >>
    BY <1>1, NotEmpty
<1>3. Tail(y) = SubSeq(y, 2, Len(y)) /\ Tail(y) \in Seq(S)
    BY <1>1, <1>2, TailIs
<1>4. /\ Len(Tail(y)) = Len(u)
      /\ \A k \in 1..Len(u) : Tail(y)[k] = y[k + 1]
    BY <1>1, <1>2
<1>5. \A k \in 1..Len(u) : Tail(y)[k] = u[k]
    BY <1>1, <1>4
<1>6. Tail(y) = u
    BY <1>3, <1>4, <1>5, SameText
<1>. QED
    BY <1>2, <1>6 DEF y

\* What is left before the closing brace is the piece and then, unless the file ends, the
\* brace and what is left behind it.
LEMMA AtMarkIs ==
    ASSUME NEW file \in Seq(Part), Regular(file), NEW k \in 1..Len(file), file[k].kind # "text"
    PROVE  /\ IsPlaced(file[k])
           /\ Shown(file, k) = Opening \o AtMark(file, k) /\ AtMark(file, k) \in Seq(Symbols)
           /\ RestAt(file, k) \in Seq(Symbols)
           /\ \/ AtMark(file, k) = Piece(file[k]) \o (Closing \o RestAt(file, k))
              \/ AtMark(file, k) = Piece(file[k]) /\ RestAt(file, k) = << >>
<1>. DEFINE l == Len(file)
            part == file[k]
            a == Inside(part)
            g == Piece(part)
<1>1. /\ l \in Nat /\ l > 0 /\ IsPlaced(part)
    <2>1. \A q \in 1..Len(file) : file[q] \in Part /\ WellFormed(file[q])
        BY SourcesAre
    <2>. QED
        BY <2>1, SourcesAre DEF IsPlaced
<1>2. /\ g \in Seq(Symbols) /\ g # << >>
      /\ a = (IF part.kind = "key" THEN g \o Closing ELSE g)
      /\ a \in Seq(Symbols)
      /\ Source(part) = Opening \o (a \o Closing)
    BY <1>1, PieceIs
<1>. HIDE DEF a, g
<1>3. \A x \in Seq(Symbols) : Opening \o x # << >> /\ Tail(Opening \o x) = x
    BY Marks, HeadPut
<1>4. CASE k = l
    <2>1. Shown(file, k) = Front(Opening \o (a \o Closing))
        BY <1>2, <1>4, ShownIs
    <2>2. Closing # << >> /\ Front(Closing) = << >>
        <3>1. Closing \in Seq(Symbols) /\ Len(Closing) = 1 /\ Len(Closing) > 0
            BY Marks
        <3>2. Closing # << >>
            BY <3>1, NotEmpty
        <3>3. Front(Closing) \in Seq(Symbols) /\ Len(Front(Closing)) = 0
            BY <3>1, <3>2, FrontIs
        <3>. QED
            BY <3>2, <3>3, NotEmpty
    <2>3. a \o Closing \in Seq(Symbols) /\ a \o Closing # << >> /\ Front(a \o Closing) = a
        <3>1. a \o Closing # << >> /\ Front(a \o Closing) = a \o Front(Closing)
            BY <1>2, <2>2, Marks, FrontJoined
        <3>2. a \o << >> = a
            BY <1>2, NoneJoined
        <3>3. a \o Closing \in Seq(Symbols)
            BY <1>2, Marks, JoinedIs
        <3>. QED
            BY <2>2, <3>1, <3>2, <3>3
    <2>4. Shown(file, k) = Opening \o a
        <3>. DEFINE x == a \o Closing
        <3>. HIDE DEF x
        <3>1. Front(Opening \o x) = Opening \o Front(x)
            BY <2>3, Marks, FrontJoined DEF x
        <3>. QED
            BY <2>1, <2>3, <3>1 DEF x
    <2>5. AtMark(file, k) = a /\ RestAt(file, k) = << >>
        <3>1. ~(k > l)
            BY <1>1
        <3>. QED
            BY <1>2, <1>3, <1>4, <2>4, <3>1 DEF AtMark, RestAt
    <2>6. << >> \in Seq(Symbols) /\ Closing \o << >> = Closing
        BY Marks, NoneJoined
    <2>7. a = g \o (Closing \o << >>) \/ a = g
        BY <1>2, <2>6
    <2>. QED
        BY <1>1, <1>2, <2>4, <2>5, <2>6, <2>7 DEF g
<1>5. CASE k # l
    <2>. DEFINE x == Shown(file, k + 1)
                y == Closing \o x
    <2>1. k \in 1..(l - 1) /\ k + 1 \in 1..(l + 1) /\ ~(k > l)
        BY <1>1, <1>5
    <2>2. Shown(file, k) = (Opening \o (a \o Closing)) \o x /\ x \in Seq(Symbols)
        BY <1>2, <2>1, ShownIs
    <2>2a. RestAt(file, k) = IF part.kind = "key" THEN Closing \o x ELSE x
        BY <1>5 DEF RestAt
    <2>. HIDE DEF x
    <2>3. y \in Seq(Symbols)
        BY <2>2, Marks, JoinedIs
    <2>4. Shown(file, k) = Opening \o (a \o y)
        <3>1. Texts(Symbols, Opening, a, Closing, x)
            BY <1>2, <2>2, Marks DEF Texts
        <3>2. (Opening \o (a \o Closing)) \o x = Opening \o (a \o (Closing \o x))
            BY ONLY <3>1, JoinedInner, SMTT(20)
        <3>. QED
            BY <2>2, <3>2 DEF y
    <2>. HIDE DEF y
    <2>5. a \o y \in Seq(Symbols)
        BY <1>2, <2>3, JoinedIs
    <2>6. AtMark(file, k) = a \o y /\ Shown(file, k) = Opening \o AtMark(file, k)
        BY <1>3, <2>1, <2>4, <2>5 DEF AtMark
    <2>7. CASE part.kind = "key"
        <3>1. RestAt(file, k) = y /\ a = g \o Closing
            BY <1>2, <2>2a, <2>7 DEF y
        <3>2. Triple(Symbols, g, Closing, y)
            BY <1>2, <2>3, Marks DEF Triple
        <3>3. (g \o Closing) \o y = g \o (Closing \o y)
            BY <3>2, TripleJoined
        <3>. QED
            BY <1>1, <2>3, <2>5, <2>6, <3>1, <3>3 DEF g
    <2>8. CASE part.kind # "key"
        <3>1. RestAt(file, k) = x /\ a = g
            BY <1>2, <2>2a, <2>8
        <3>. QED
            BY <1>1, <2>2, <2>5, <2>6, <3>1 DEF g, y
    <2>. QED
        BY <2>7, <2>8
<1>. QED
    BY <1>4, <1>5

---------------------------------------------------------------------------
(* Rendering *)

\* The files, the handler's values and what they mean.
Setting(files, c, mean) ==
    /\ IsSite(files) /\ \A name \in DOMAIN files : Regular(files[name])
    /\ c \in Pairs /\ Explains(files, c, mean)

\* What a file means; one that is not there says nothing.
Said(mean, name) == IF name \in DOMAIN mean THEN mean[name] ELSE << >>

\* What was put out, and what is meant by the parts from k on, is what the file means.
ReadTo(c, mean, file, out, k) ==
    Inked(out) \o InkFrom(c, mean, file, k) = InkFrom(c, mean, file, 1)

\* A file, what it means and what is to be put out of it.
LEMMA FileIs ==
    ASSUME NEW files, NEW c, NEW mean, Setting(files, c, mean), NEW name \in DOMAIN files
    PROVE  /\ c \in Pairs /\ mean \in [DOMAIN files -> Seq(Symbols)]
           /\ files[name] \in Seq(Part) /\ Regular(files[name])
           /\ mean[name] \in Seq(Symbols) /\ Said(mean, name) = mean[name]
           /\ InkFrom(c, mean, files[name], 1) = Inked(mean[name])
<1>1. /\ c \in Pairs /\ mean \in [DOMAIN files -> Seq(Symbols)]
      /\ files[name] \in Seq(Part) /\ Regular(files[name])
      /\ mean[name] = Joined(Meant(c, mean, files[name]))
    BY DEF Setting, IsSite, Explains
<1>2. mean[name] \in Seq(Symbols) /\ Said(mean, name) = mean[name]
    BY <1>1 DEF Said
<1>3. InkFrom(c, mean, files[name], 1) = Inked(Joined(Meant(c, mean, files[name])))
    BY <1>1, InkFromIs
<1>. QED
    BY <1>1, <1>2, <1>3

\* What is put out of a file, whose meaning is told.
Scene(c, mean, file, out) ==
    /\ c \in Pairs /\ mean \in [DOMAIN mean -> Seq(Symbols)]
    /\ file \in Seq(Part) /\ Regular(file) /\ out \in Seq(Symbols)

\* What is put out goes on with what is meant next.
LEMMA ReadsOn ==
    ASSUME NEW c, NEW mean, NEW file, NEW out, Scene(c, mean, file, out), NEW v \in Seq(Symbols),
           NEW k \in 1..(Len(file) + 1), NEW o \in 1..(Len(file) + 1),
           ReadTo(c, mean, file, out, k),
           Inked(v) \o InkFrom(c, mean, file, o) = InkFrom(c, mean, file, k)
    PROVE  out \o v \in Seq(Symbols) /\ ReadTo(c, mean, file, out \o v, o)
<1>. DEFINE x == Inked(out)
            y == Inked(v)
            z == InkFrom(c, mean, file, o)
<1>0. /\ c \in Pairs /\ mean \in [DOMAIN mean -> Seq(Symbols)]
      /\ file \in Seq(Part) /\ out \in Seq(Symbols)
    BY DEF Scene
<1>1. x \in Seq(Symbols) /\ y \in Seq(Symbols) /\ z \in Seq(Symbols)
    BY <1>0, InkedIs, InkFromIs
<1>2. Inked(out \o v) = x \o y
    BY <1>0, InkedAdds
<1>3. x \o (y \o z) = InkFrom(c, mean, file, 1)
    BY DEF ReadTo
<1>4. out \o v \in Seq(Symbols)
    BY <1>0, JoinedIs
<1>. HIDE DEF x, y, z
<1>5. Triple(Symbols, x, y, z)
    BY <1>1 DEF Triple
<1>6. (x \o y) \o z = x \o (y \o z)
    BY ONLY <1>5, TripleJoined
<1>. QED
    BY <1>2, <1>3, <1>4, <1>6 DEF ReadTo, z

\* A file that was read to its end is what it means.
LEMMA ReadToEnd ==
    ASSUME NEW files, NEW c, NEW mean, Setting(files, c, mean), NEW name \in DOMAIN files,
           NEW out \in Seq(Symbols), NEW k \in 1..(Len(files[name]) + 1),
           ReadTo(c, mean, files[name], out, k), InkFrom(c, mean, files[name], k) = << >>
    PROVE  Inked(out) = Inked(Said(mean, name))
<1>1. InkFrom(c, mean, files[name], 1) = Inked(mean[name]) /\ Said(mean, name) = mean[name]
    BY FileIs
<1>2. Inked(out) \o << >> = Inked(out)
    BY InkedIs, NoneJoined
<1>. QED
    BY <1>1, <1>2 DEF ReadTo

\* A place at or behind another, inside or at the end.
LEMMA Within ==
    ASSUME NEW l \in Nat, NEW k \in 1..(l + 1), NEW o \in k..(l + 1)
    PROVE  /\ o \in 1..(l + 1)
           /\ o <= l => o \in 1..l
           /\ ~(o <= l) => o = l + 1 /\ o > l
    OBVIOUS

\* The k-th part of a file is inside or at its end, o is where its next construct stands,
\* u is the text before it, and x, which holds no mark, was put before them.
CutsAt(c, mean, file, k, o, u, x) ==
    /\ c \in Pairs /\ mean \in [DOMAIN mean -> Seq(Symbols)]
    /\ file \in Seq(Part) /\ Regular(file) /\ k \in 1..(Len(file) + 1)
    /\ UpToMark(c, mean, file, k, o, u)
    /\ x \in Seq(Symbols) /\ Lacks(x, "{") /\ x \o u # << >>

\* What strtok_r makes of a text.
CutUp(t, d, token, left) == ~ NoToken(t, d) /\ Token(t, d) = token /\ Left(t, d) = left

\* strtok_r goes up to the next construct, or to the end.
LEMMA CutAtMark ==
    ASSUME NEW c, NEW mean, NEW file, NEW k, NEW o, NEW u, NEW x,
           CutsAt(c, mean, file, k, o, u, x)
    PROVE  CutUp(x \o Shown(file, k), "{", x \o u, AtMark(file, o))
<1>. DEFINE l == Len(file)
            y == Shown(file, o)
            v == x \o u
            t == x \o Shown(file, k)
<1>0. /\ c \in Pairs /\ mean \in [DOMAIN mean -> Seq(Symbols)]
      /\ file \in Seq(Part) /\ Regular(file) /\ k \in 1..(Len(file) + 1)
      /\ UpToMark(c, mean, file, k, o, u)
      /\ x \in Seq(Symbols) /\ Lacks(x, "{") /\ x \o u # << >>
    BY DEF CutsAt
<1>1. /\ o \in k..(l + 1) /\ u \in Seq(Symbols) /\ Lacks(u, "{")
      /\ Shown(file, k) = u \o y /\ (o <= l => file[o].kind # "text")
    BY <1>0 DEF UpToMark
<1>2. /\ l \in Nat /\ o \in 1..(l + 1)
      /\ o <= l => o \in 1..l
      /\ ~(o <= l) => o = l + 1 /\ o > l
    <2>1. l \in Nat /\ k \in 1..(l + 1)
        BY <1>0, SourcesAre
    <2>. HIDE DEF l
    <2>. QED
        BY <1>1, <2>1, Within
<1>3. y \in Seq(Symbols)
    BY <1>0, <1>2, ShownIs
<1>4. t = v \o y
    <2>1. Triple(Symbols, x, u, y)
        BY <1>0, <1>1, <1>3 DEF Triple
    <2>. DEFINE z == Shown(file, k)
    <2>1a. z = u \o y
        BY <1>1
    <2>. HIDE DEF y, z
    <2>1b. x \o z = x \o (u \o y)
        BY <2>1a
    <2>1c. t = x \o z
        BY DEF z
    <2>. HIDE DEF t
    <2>2. t = x \o (u \o y)
        BY <2>1b, <2>1c
    <2>. HIDE DEF v, l
    <2>3. (x \o u) \o y = x \o (u \o y)
        BY ONLY <2>1, TripleJoined
    <2>4. v \o y = x \o (u \o y)
        BY <2>3 DEF v
    <2>. QED
        BY <2>2, <2>4
<1>5. v \in Seq(Symbols) /\ Lacks(v, "{") /\ v # << >>
    BY <1>0, <1>1, JoinedIs, LacksJoined
<1>. HIDE DEF v, t
<1>6. CASE o <= l
    <2>1. o \in 1..l
        BY <1>2, <1>6
    <2>1a. file[o].kind # "text"
        BY <1>1, <1>6
    <2>2. y = Opening \o AtMark(file, o) /\ AtMark(file, o) \in Seq(Symbols)
        BY <1>0, <2>1, <2>1a, AtMarkIs
    <2>. DEFINE w == AtMark(file, o)
    <2>. HIDE DEF w, y
    <2>3. w \in Seq(Symbols) /\ y = <<"{">> \o w /\ "{" \in Symbols
        BY <2>2, MarksLack, TemplateAssumption DEF w
    <2>. DEFINE d == "{"
    <2>4. d \in Symbols /\ Lacks(v, d) /\ t = v \o (<<d>> \o w)
        BY <1>4, <1>5, <2>3
    <2>4a. w \in Seq(Symbols)
        BY <2>3
    <2>. HIDE DEF d
    <2>5. /\ ~ NoToken(v \o (<<d>> \o w), d)
          /\ Token(v \o (<<d>> \o w), d) = v /\ Left(v \o (<<d>> \o w), d) = w
        BY <1>5, <2>4, <2>4a, TokenCut
    <2>6. ~ NoToken(t, d) /\ Token(t, d) = v /\ Left(t, d) = w
        BY <2>4, <2>5
    <2>. QED
        BY <2>6 DEF v, t, w, d, CutUp
<1>7. CASE ~(o <= l)
    <2>1. o = l + 1 /\ o > l
        BY <1>2, <1>7
    <2>2. y = << >> /\ AtMark(file, o) = << >>
        BY <1>0, <2>1, ShownIs DEF AtMark
    <2>. HIDE DEF y
    <2>3. t = v
        BY <1>4, <1>5, <2>2, NoneJoined
    <2>. DEFINE d == "{"
    <2>3a. Lacks(v, d)
        BY <1>5
    <2>. HIDE DEF d
    <2>4. ~ NoToken(v, d) /\ Token(v, d) = v /\ Left(v, d) = << >>
        BY <1>5, <2>3a, TokenAll
    <2>5. ~ NoToken(t, d) /\ Token(t, d) = v /\ Left(t, d) = AtMark(file, o)
        BY <2>2, <2>3, <2>4
    <2>. QED
        BY <2>5 DEF v, t, d, CutUp
<1>. QED
    BY <1>6, <1>7

\* strtok_r cuts a construct out at its closing brace.
LEMMA PieceCut ==
    ASSUME NEW file \in Seq(Part), Regular(file), NEW k \in 1..Len(file), file[k].kind # "text"
    PROVE  /\ ~ NoToken(AtMark(file, k), "}")
           /\ Token(AtMark(file, k), "}") = Piece(file[k])
           /\ Left(AtMark(file, k), "}") = RestAt(file, k)
<1>. DEFINE g == Piece(file[k])
            w == RestAt(file, k)
            t == AtMark(file, k)
            d == "}"
<1>1. /\ w \in Seq(Symbols) /\ (t = g \o (Closing \o w) \/ (t = g /\ w = << >>))
      /\ IsPlaced(file[k])
    BY AtMarkIs
<1>2. g \in Seq(Symbols) /\ g # << >> /\ Lacks(g, d)
    BY <1>1, PieceIs
<1>3. d \in Symbols /\ Closing = <<d>>
    BY TemplateAssumption, MarksLack
<1>. HIDE DEF g, w, t, d
<1>4. CASE t = g \o (Closing \o w)
    <2>1. w \in Seq(Symbols) /\ d \in Symbols
        BY <1>1, <1>3
    <2>2. /\ ~ NoToken(g \o (<<d>> \o w), d)
          /\ Token(g \o (<<d>> \o w), d) = g /\ Left(g \o (<<d>> \o w), d) = w
        BY <1>2, <2>1, TokenCut
    <2>3. t = g \o (<<d>> \o w)
        BY <1>3, <1>4
    <2>. QED
        BY <2>2, <2>3 DEF g, w, t, d
<1>5. CASE t = g /\ w = << >>
    <2>1. ~ NoToken(g, d) /\ Token(g, d) = g /\ Left(g, d) = << >>
        BY <1>2, TokenAll
    <2>. QED
        BY <1>5, <2>1 DEF g, w, t, d
<1>. QED
    BY <1>1, <1>4, <1>5

---------------------------------------------------------------------------
(* What the calls of one file do *)

\* rest stands behind the opening brace of a construct, or there is none left.
OnToken(c, mean, file, left, out) ==
    \E k \in 1..(Len(file) + 1) :
        /\ k <= Len(file) => file[k].kind # "text"
        /\ left = AtMark(file, k) /\ ReadTo(c, mean, file, out, k)

\* seg is a construct, rest what stands behind it.
OnPiece(c, mean, file, seg, left, out) ==
    \E k \in 1..Len(file) :
        /\ file[k].kind # "text" /\ seg = Piece(file[k])
        /\ left = RestAt(file, k) /\ ReadTo(c, mean, file, out, k)

\* A construct is put out; rest stands behind it.
OnText(c, mean, file, left, out) ==
    \E k \in 1..Len(file) :
        /\ file[k].kind # "text"
        /\ left = RestAt(file, k) /\ ReadTo(c, mean, file, out, k + 1)

\* The file waits for what it includes.
Waits(c, mean, file, left, out, name) ==
    \E k \in 1..Len(file) :
        /\ file[k].kind = "include" /\ file[k].file = name
        /\ left = RestAt(file, k) /\ ReadTo(c, mean, file, out, k)

\* All that is meant is put out.
Whole(c, mean, file, out) == Inked(out) = InkFrom(c, mean, file, 1)

\* One token behind a text.
LEMMA LastPut ==
    ASSUME NEW S, NEW u \in Seq(S), NEW x \in Seq(S), Len(x) = 1
    PROVE  Front(u \o x) = u
<1>1. x # << >>
    <2>1. Len(x) > 0
        OBVIOUS
    <2>. QED
        BY <2>1, NotEmpty
<1>2. Front(u \o x) = u \o Front(x)
    BY <1>1, FrontJoined
<1>3. Front(x) \in Seq(S) /\ Len(Front(x)) = 0
    BY <1>1, FrontIs
<1>4. Front(x) = << >>
    BY <1>3, NotEmpty
<1>. QED
    BY <1>2, <1>4, NoneJoined

\* Marks without an opening brace.
LEMMA Unopened == Lacks(Space, "{") /\ Lacks(Closing, "{") /\ Lacks(<< >>, "{")
<1>1. /\ Len(Space) = 1 /\ Space[1] # "{" /\ Len(Closing) = 1 /\ Closing[1] # "{"
      /\ Len(<< >>) = 0
    BY DEF Space, Closing
<1>2. (\A k \in 1..1 : k = 1) /\ \A k \in 1..0 : FALSE
    OBVIOUS
<1>3. Lacks(Space, "{") /\ Lacks(Closing, "{")
    BY <1>1, <1>2 DEF Lacks
<1>4. Lacks(<< >>, "{")
    BY <1>1, <1>2 DEF Lacks
<1>. QED
    BY <1>3, <1>4

\* What is left at a construct is text.
LEMMA AtMarkText ==
    ASSUME NEW file \in Seq(Part), Regular(file), NEW k \in 1..(Len(file) + 1),
           k <= Len(file) => file[k].kind # "text"
    PROVE  AtMark(file, k) \in Seq(Symbols)
<1>1. Len(file) \in Nat
    BY SourcesAre
<1>2. CASE k <= Len(file)
    <2>1. k \in 1..Len(file) /\ file[k].kind # "text"
        BY <1>1, <1>2
    <2>. QED
        BY <2>1, AtMarkIs
<1>3. CASE ~(k <= Len(file))
    <2>1. AtMark(file, k) = << >>
        BY <1>1, <1>3 DEF AtMark
    <2>. QED
        BY <2>1, NoneJoined
<1>. QED
    BY <1>2, <1>3

\* With nothing left to mean, all is put out.
LEMMA WholeIs ==
    ASSUME NEW c, NEW mean, NEW file, NEW out \in Seq(Symbols), NEW k,
           ReadTo(c, mean, file, out, k), InkFrom(c, mean, file, k) = << >>
    PROVE  Whole(c, mean, file, out)
<1>1. Inked(out) \o << >> = Inked(out)
    BY InkedIs, NoneJoined
<1>. QED
    BY <1>1 DEF ReadTo, Whole

\* The text before the first construct, without the blank of readfile.
LEMMA FirstStep ==
    ASSUME NEW c, NEW mean, NEW file, Scene(c, mean, file, << >>), NEW t, t = Space \o Shown(file, 1)
    PROVE  /\ ~ NoToken(t, "{")
           /\ Left(t, "{") \in Seq(Symbols) /\ Tail(Token(t, "{")) \in Seq(Symbols)
           /\ OnToken(c, mean, file, Left(t, "{"), Tail(Token(t, "{")))
<1>1. /\ c \in Pairs /\ mean \in [DOMAIN mean -> Seq(Symbols)]
      /\ file \in Seq(Part) /\ Regular(file)
    BY DEF Scene
<1>2. Len(file) \in Nat /\ Len(file) > 0 /\ 1 \in 1..(Len(file) + 1)
    BY <1>1, SourcesAre
<1>3. PICK o, u : UpToMark(c, mean, file, 1, o, u)
    BY <1>1, <1>2, TextsUpTo
<1>4. /\ o \in 1..(Len(file) + 1) /\ u \in Seq(Symbols)
      /\ o <= Len(file) => file[o].kind # "text"
      /\ Inked(u) \o InkFrom(c, mean, file, o) = InkFrom(c, mean, file, 1)
    BY <1>3 DEF UpToMark
<1>5. Space \in Seq(Symbols) /\ Len(Space) = 1
    BY Marks
<1>5a. Space \o u # << >> /\ Tail(Space \o u) = u
    BY <1>4, <1>5, HeadPut
<1>5b. Lacks(Space, "{")
    BY Unopened
<1>6. ~ NoToken(t, "{") /\ Token(t, "{") = Space \o u /\ Left(t, "{") = AtMark(file, o)
    <2>0. CutsAt(c, mean, file, 1, o, u, Space)
        BY <1>1, <1>2, <1>3, <1>5, <1>5a, <1>5b DEF CutsAt
    <2>1. CutUp(Space \o Shown(file, 1), "{", Space \o u, AtMark(file, o))
        BY <2>0, CutAtMark
    <2>2. CutUp(t, "{", Space \o u, AtMark(file, o))
        BY <2>1, Zenon
    <2>. QED
        BY <2>2, Zenon DEF CutUp
<1>7. AtMark(file, o) \in Seq(Symbols)
    BY <1>1, <1>2, <1>4, AtMarkText
<1>8. ReadTo(c, mean, file, u, o)
    BY <1>4 DEF ReadTo
<1>. QED
    BY <1>4, <1>5a, <1>6, <1>7, <1>8 DEF OnToken

\* The segment is the next construct, or all is put out.
LEMMA TokenStep ==
    ASSUME NEW c, NEW mean, NEW file, NEW t, NEW out, Scene(c, mean, file, out),
           OnToken(c, mean, file, t, out)
    PROVE  /\ NoToken(t, "}") => Whole(c, mean, file, out)
           /\ ~ NoToken(t, "}") => /\ Left(t, "}") \in Seq(Symbols) /\ Token(t, "}") \in Seq(Symbols)
                                   /\ OnPiece(c, mean, file, Token(t, "}"), Left(t, "}"), out)
<1>1. /\ c \in Pairs /\ mean \in [DOMAIN mean -> Seq(Symbols)]
      /\ file \in Seq(Part) /\ Regular(file) /\ out \in Seq(Symbols)
    BY DEF Scene
<1>2. PICK k \in 1..(Len(file) + 1) :
          /\ k <= Len(file) => file[k].kind # "text"
          /\ t = AtMark(file, k) /\ ReadTo(c, mean, file, out, k)
    BY DEF OnToken
<1>3. Len(file) \in Nat
    BY <1>1, SourcesAre
<1>4. CASE k <= Len(file)
    <2>1. k \in 1..Len(file) /\ file[k].kind # "text"
        BY <1>2, <1>3, <1>4
    <2>2. ~ NoToken(t, "}") /\ Token(t, "}") = Piece(file[k]) /\ Left(t, "}") = RestAt(file, k)
        BY <1>1, <1>2, <2>1, PieceCut
    <2>3. RestAt(file, k) \in Seq(Symbols) /\ Piece(file[k]) \in Seq(Symbols)
        BY <1>1, <2>1, AtMarkIs, PieceIs
    <2>. QED
        BY <1>2, <2>1, <2>2, <2>3 DEF OnPiece
<1>5. CASE ~(k <= Len(file))
    <2>1. k = Len(file) + 1 /\ k > Len(file)
        BY <1>2, <1>3, <1>5
    <2>2. t = << >>
        BY <1>2, <2>1 DEF AtMark
    <2>3. NoToken(t, "}")
        BY <2>2, NoneLeft
    <2>4. InkFrom(c, mean, file, k) = << >>
        BY <1>1, <2>1, InkFromIs
    <2>5. Whole(c, mean, file, out)
        BY <1>1, <1>2, <2>4, WholeIs
    <2>. QED
        BY <2>3, <2>5
<1>. QED
    BY <1>4, <1>5

\* What a part means is put out, blanks aside.
LEMMA PutsOut ==
    ASSUME NEW c, NEW mean, NEW file, NEW out, Scene(c, mean, file, out),
           NEW k \in 1..Len(file), ReadTo(c, mean, file, out, k),
           NEW v \in Seq(Symbols), Inked(v) = Inked(Means(c, mean, file, k))
    PROVE  out \o v \in Seq(Symbols) /\ ReadTo(c, mean, file, out \o v, k + 1)
<1>1. /\ c \in Pairs /\ mean \in [DOMAIN mean -> Seq(Symbols)]
      /\ file \in Seq(Part) /\ Regular(file)
    BY DEF Scene
<1>2. Len(file) \in Nat
    BY <1>1, SourcesAre
<1>3. k \in 1..(Len(file) + 1) /\ k + 1 \in 1..(Len(file) + 1)
    BY <1>2
<1>4. InkFrom(c, mean, file, k) = Inked(Means(c, mean, file, k)) \o InkFrom(c, mean, file, k + 1)
    BY <1>1, InkFromIs
<1>5. Inked(v) \o InkFrom(c, mean, file, k + 1) = InkFrom(c, mean, file, k)
    BY <1>4
<1>. QED
    BY <1>3, <1>5, ReadsOn

\* The kinds of constructs are told by how they begin.
LEMMA PieceKinds ==
    ASSUME NEW part, IsPlaced(part)
    PROVE  /\ Piece(part) \in Seq(Symbols) /\ Piece(part) # << >>
           /\ Piece(part)[1] = "{" <=> part.kind = "key"
           /\ part.kind # "key" => Piece(part)[1] = "%" /\ Len(Piece(part)) > 1
           /\ part.kind = "include" <=> part.kind # "key" /\ Piece(part)[2] = "include"
           /\ part.kind = "when" <=> part.kind # "key" /\ Piece(part)[2] = "when"
<1>1. /\ part.kind \in {"key", "include", "when"}
      /\ Piece(part) \in Seq(Symbols) /\ Piece(part) # << >>
    BY PieceIs
<1>2. CASE part.kind = "key"
    BY <1>1, <1>2, KeyPiece
<1>3. CASE part.kind = "include"
    BY <1>1, <1>3, IncludePiece
<1>4. CASE part.kind = "when"
    BY <1>1, <1>4, WhenPiece
<1>. QED
    BY <1>1, <1>2, <1>3, <1>4

\* The segment is of a construct.
LEMMA OnPieceIs ==
    ASSUME NEW c, NEW mean, NEW file, NEW seg, NEW left, NEW out, Scene(c, mean, file, out),
           OnPiece(c, mean, file, seg, left, out)
    PROVE  \E k \in 1..Len(file) :
               /\ IsPlaced(file[k]) /\ file[k].kind # "text" /\ seg = Piece(file[k])
               /\ left = RestAt(file, k) /\ ReadTo(c, mean, file, out, k)
<1>1. PICK k \in 1..Len(file) :
          /\ file[k].kind # "text" /\ seg = Piece(file[k])
          /\ left = RestAt(file, k) /\ ReadTo(c, mean, file, out, k)
    BY DEF OnPiece
<1>2. file \in Seq(Part) /\ Regular(file)
    BY DEF Scene
<1>3. IsPlaced(file[k])
    BY <1>1, <1>2, AtMarkIs
<1>. QED
    BY <1>1, <1>3

\* How a segment begins.
LEMMA SegmentIs ==
    ASSUME NEW c, NEW mean, NEW file, NEW seg, NEW left, NEW out, Scene(c, mean, file, out),
           OnPiece(c, mean, file, seg, left, out)
    PROVE  /\ seg \in Seq(Symbols) /\ seg # << >> /\ seg[1] \in {"{", "%"}
           /\ seg[1] = "%" => Len(seg) > 1 /\ seg[2] \in {"include", "when"}
<1>1. PICK k \in 1..Len(file) : IsPlaced(file[k]) /\ file[k].kind # "text" /\ seg = Piece(file[k])
    BY OnPieceIs
<1>2. file[k].kind \in {"key", "include", "when"}
    BY <1>1, PieceIs
<1>. QED
    BY <1>1, <1>2, PieceKinds

\* {{key}}
LEMMA KeyStep ==
    ASSUME NEW c, NEW mean, NEW file, NEW seg, NEW left, NEW out, Scene(c, mean, file, out),
           OnPiece(c, mean, file, seg, left, out), seg[1] = "{"
    PROVE  /\ ValueOf(c, Tail(seg)) \in Seq(Symbols) /\ out \o ValueOf(c, Tail(seg)) \in Seq(Symbols)
           /\ OnText(c, mean, file, left, out \o ValueOf(c, Tail(seg)))
<1>1. PICK k \in 1..Len(file) :
          /\ IsPlaced(file[k]) /\ file[k].kind # "text" /\ seg = Piece(file[k])
          /\ left = RestAt(file, k) /\ ReadTo(c, mean, file, out, k)
    BY OnPieceIs
<1>2. file[k].kind = "key"
    BY <1>1, PieceKinds
<1>3. Tail(seg) = file[k].key
    BY <1>1, <1>2, KeyPiece
<1>. DEFINE v == ValueOf(c, Tail(seg))
<1>4. v \in Seq(Symbols)
    BY ValueIs DEF Scene
<1>5. v = Means(c, mean, file, k)
    BY <1>2, <1>3 DEF Means
<1>. HIDE DEF v
<1>6. out \o v \in Seq(Symbols) /\ ReadTo(c, mean, file, out \o v, k + 1)
    BY <1>1, <1>4, <1>5, PutsOut
<1>. QED
    BY <1>1, <1>4, <1>6 DEF OnText, v

\* {%include file%}
LEMMA IncludeStep ==
    ASSUME NEW c, NEW mean, NEW file, NEW seg, NEW left, NEW out, Scene(c, mean, file, out),
           OnPiece(c, mean, file, seg, left, out), seg[1] = "%", seg[2] = "include"
    PROVE  seg[4] \in Symbols /\ Waits(c, mean, file, left, out, seg[4])
<1>1. PICK k \in 1..Len(file) :
          /\ IsPlaced(file[k]) /\ file[k].kind # "text" /\ seg = Piece(file[k])
          /\ left = RestAt(file, k) /\ ReadTo(c, mean, file, out, k)
    BY OnPieceIs
<1>2. file[k].kind = "include"
    BY <1>1, PieceKinds
<1>3. seg[4] = file[k].file /\ file[k].file \in Symbols
    BY <1>1, <1>2, IncludePiece
<1>. QED
    BY <1>1, <1>2, <1>3 DEF Waits

\* What an included file means stands for its include.
LEMMA WaitsStep ==
    ASSUME NEW c, NEW mean, NEW file, NEW left, NEW out, Scene(c, mean, file, out),
           NEW name, Waits(c, mean, file, left, out, name),
           NEW v \in Seq(Symbols), Inked(v) = Inked(Said(mean, name))
    PROVE  out \o v \in Seq(Symbols) /\ OnText(c, mean, file, left, out \o v)
<1>1. PICK k \in 1..Len(file) :
          /\ file[k].kind = "include" /\ file[k].file = name
          /\ left = RestAt(file, k) /\ ReadTo(c, mean, file, out, k)
    BY DEF Waits
<1>2. Means(c, mean, file, k) = Said(mean, name)
    BY <1>1 DEF Means, Said
<1>3. out \o v \in Seq(Symbols) /\ ReadTo(c, mean, file, out \o v, k + 1)
    BY <1>1, <1>2, PutsOut
<1>4. file[k].kind # "text"
    BY <1>1
<1>. QED
    BY <1>1, <1>3, <1>4 DEF OnText

\* A text up to a delimiter, and behind it.
Parted(S, u, w, d, y) ==
    u \in Seq(S) /\ w \in Seq(S) /\ d \in S /\ Lacks(u, d) /\ y = u \o (<<d>> \o w)

\* strchr finds the delimiter between them.
LEMMA PartedAt ==
    ASSUME NEW S, NEW u, NEW w, NEW d, NEW y, Parted(S, u, w, d, y)
    PROVE  Position(y, d) # 0 /\ Until(y, d) = u /\ Behind(y, d) = w
<1>1. u \in Seq(S) /\ w \in Seq(S) /\ d \in S /\ Lacks(u, d) /\ y = u \o (<<d>> \o w)
    BY DEF Parted
<1>2. Position(y, d) = Len(u) + 1 /\ Until(y, d) = u /\ Behind(y, d) = w
    BY <1>1, AtFirst
<1>3. Len(u) \in Nat
    BY <1>1, NotEmpty
<1>. QED
    BY <1>2, <1>3

\* The two calls of strchr part a text in three.
LEMMA PartedTwice ==
    ASSUME NEW S, NEW u, NEW w, NEW y, NEW b, NEW f, NEW d, Parted(S, u, w, d, y), Parted(S, b, f, d, w)
    PROVE  /\ Position(y, d) # 0 /\ UntilOrAll(y, d) = u
           /\ Position(Behind(y, d), d) # 0 /\ Until(Behind(y, d), d) = b
           /\ Behind(Behind(y, d), d) = f
<1>1. Position(y, d) # 0 /\ Until(y, d) = u /\ Behind(y, d) = w
    BY PartedAt
<1>2. Position(w, d) # 0 /\ Until(w, d) = b /\ Behind(w, d) = f
    BY PartedAt
<1>. QED
    BY <1>1, <1>2 DEF UntilOrAll

\* The condition of a when falls into its three parts.
LEMMA ConditionIs ==
    ASSUME NEW part, IsPlaced(part), part.kind = "when"
    PROVE  /\ \E w : /\ Parted(Symbols, part.key, w, " ", Condition(part))
                     /\ Parted(Symbols, part.value, part.text \o Percent, " ", w)
           /\ Front(part.text \o Percent) = part.text
<1>. DEFINE a == part.key
            b == part.value
            e == part.text
            f == e \o Percent
            g == b \o (Space \o f)
            d == " "
<1>1. /\ a \in Seq(Symbols) /\ b \in Seq(Symbols) /\ e \in Seq(Symbols)
      /\ f \in Seq(Symbols) /\ g \in Seq(Symbols) /\ Lacks(a, d) /\ Lacks(b, d)
    BY WhenIs
<1>2. d \in Symbols /\ Space = <<d>>
    BY TemplateAssumption, MarksLack
<1>3. Front(f) = e
    <2>1. Percent \in Seq(Symbols) /\ Len(Percent) = 1
        BY Marks
    <2>2. e \in Seq(Symbols)
        BY <1>1
    <2>. HIDE DEF e
    <2>. QED
        BY <2>1, <2>2, LastPut
<1>. DEFINE y == Condition(part)
<1>4. y = a \o (Space \o g)
    BY DEF Condition
<1>. HIDE DEF a, b, e, f, d, y
<1>5. Parted(Symbols, b, f, d, g)
    BY <1>1, <1>2 DEF Parted
<1>. HIDE DEF g
<1>6. Parted(Symbols, a, g, d, y)
    BY <1>1, <1>2, <1>4 DEF Parted
<1>7. \E w : Parted(Symbols, a, w, d, y) /\ Parted(Symbols, b, f, d, w)
    BY <1>5, <1>6
<1>. QED
    BY <1>3, <1>7 DEF a, b, d, e, f, y

\* {%when key value text%}
LEMMA WhenStep ==
    ASSUME NEW c, NEW mean, NEW file, NEW seg, NEW left, NEW out, Scene(c, mean, file, out),
           OnPiece(c, mean, file, seg, left, out), seg[1] = "%", seg[2] = "when",
           NEW x, x = SubSeq(seg, 4, Len(seg)), NEW d, d = " "
    PROVE  /\ Position(x, d) # 0 /\ Position(Behind(x, d), d) # 0
           /\ HasValue(c, UntilOrAll(x, d)) /\ ValueOf(c, UntilOrAll(x, d)) = Until(Behind(x, d), d)
              => /\ Front(Behind(Behind(x, d), d)) \in Seq(Symbols)
                 /\ out \o Front(Behind(Behind(x, d), d)) \in Seq(Symbols)
                 /\ OnText(c, mean, file, left, out \o Front(Behind(Behind(x, d), d)))
           /\ ~(HasValue(c, UntilOrAll(x, d)) /\ ValueOf(c, UntilOrAll(x, d)) = Until(Behind(x, d), d))
              => OnText(c, mean, file, left, out)
<1>1. PICK k \in 1..Len(file) :
          /\ IsPlaced(file[k]) /\ file[k].kind # "text" /\ seg = Piece(file[k])
          /\ left = RestAt(file, k) /\ ReadTo(c, mean, file, out, k)
    BY OnPieceIs
<1>. DEFINE part == file[k]
            then == part.text
<1>2. part.kind = "when"
    BY <1>1, PieceKinds
<1>3. x = Condition(part)
    BY <1>1, <1>2, WhenPiece
<1>3a. PICK w : Parted(Symbols, part.key, w, d, x) /\ Parted(Symbols, part.value, then \o Percent, d, w)
    BY <1>1, <1>2, <1>3, ConditionIs
<1>3b. Front(then \o Percent) = then
    BY <1>1, <1>2, ConditionIs
<1>4. /\ Position(x, d) # 0 /\ UntilOrAll(x, d) = part.key
      /\ Position(Behind(x, d), d) # 0 /\ Until(Behind(x, d), d) = part.value
      /\ Front(Behind(Behind(x, d), d)) = then
    <2>1. /\ Position(x, d) # 0 /\ UntilOrAll(x, d) = part.key
          /\ Position(Behind(x, d), d) # 0 /\ Until(Behind(x, d), d) = part.value
          /\ Behind(Behind(x, d), d) = then \o Percent
        <3>. DEFINE a == part.key
                    b == part.value
                    f == then \o Percent
        <3>1. Parted(Symbols, a, w, d, x) /\ Parted(Symbols, b, f, d, w)
            BY <1>3a
        <3>. HIDE DEF a, b, f
        <3>2. /\ Position(x, d) # 0 /\ UntilOrAll(x, d) = a
              /\ Position(Behind(x, d), d) # 0 /\ Until(Behind(x, d), d) = b
              /\ Behind(Behind(x, d), d) = f
            BY ONLY <3>1, PartedTwice
        <3>. QED
            BY <3>2 DEF a, b, f
    <2>. QED
        BY <1>3b, <2>1
<1>5. then \in Seq(Symbols) /\ out \in Seq(Symbols)
    BY <1>1, <1>2, WhenIs DEF Scene
<1>6. CASE HasValue(c, part.key) /\ ValueOf(c, part.key) = part.value
    <2>1. Means(c, mean, file, k) = then
        BY <1>2, <1>6 DEF Means
    <2>. HIDE DEF then
    <2>2. out \o then \in Seq(Symbols) /\ ReadTo(c, mean, file, out \o then, k + 1)
        BY <1>1, <1>5, <2>1, PutsOut
    <2>3. OnText(c, mean, file, left, out \o then)
        BY <1>1, <2>2 DEF OnText
    <2>. QED
        BY <1>4, <1>5, <1>6, <2>2, <2>3
<1>7. CASE ~(HasValue(c, part.key) /\ ValueOf(c, part.key) = part.value)
    <2>1. Means(c, mean, file, k) = << >>
        BY <1>2, <1>7 DEF Means
    <2>2. << >> \in Seq(Symbols) /\ out \o << >> = out
        BY <1>5, NoneJoined
    <2>. DEFINE v == << >>
    <2>3. v \in Seq(Symbols) /\ Means(c, mean, file, k) = v /\ out \o v = out
        BY <2>1, <2>2
    <2>. HIDE DEF v
    <2>4. ReadTo(c, mean, file, out \o v, k + 1)
        BY <1>1, <2>3, PutsOut
    <2>5. OnText(c, mean, file, left, out)
        BY <1>1, <2>3, <2>4 DEF OnText
    <2>. QED
        BY <1>4, <1>7, <2>5
<1>. QED
    BY <1>6, <1>7

\* Behind a construct the text goes on to the next one, or to the end.
LEMMA TextStep ==
    ASSUME NEW c, NEW mean, NEW file, NEW t, NEW out, Scene(c, mean, file, out),
           OnText(c, mean, file, t, out)
    PROVE  \/ NoToken(t, "{") /\ Whole(c, mean, file, out)
           \/ /\ ~ NoToken(t, "{")
              /\ Left(t, "{") \in Seq(Symbols) /\ Tail(Token(t, "{")) \in Seq(Symbols)
              /\ out \o Tail(Token(t, "{")) \in Seq(Symbols)
              /\ OnToken(c, mean, file, Left(t, "{"), out \o Tail(Token(t, "{")))
<1>1. PICK k \in 1..Len(file) :
          /\ file[k].kind # "text" /\ t = RestAt(file, k) /\ ReadTo(c, mean, file, out, k + 1)
    BY DEF OnText
<1>2. /\ c \in Pairs /\ mean \in [DOMAIN mean -> Seq(Symbols)]
      /\ file \in Seq(Part) /\ Regular(file) /\ out \in Seq(Symbols)
    BY DEF Scene
<1>3. Len(file) \in Nat
    BY <1>2, SourcesAre
<1>4. CASE k = Len(file)
    <2>1. t = << >>
        BY <1>1, <1>4 DEF RestAt
    <2>2. NoToken(t, "{")
        BY <2>1, NoneLeft
    <2>3. InkFrom(c, mean, file, k + 1) = << >>
        BY <1>2, <1>4, InkFromIs
    <2>. QED
        BY <1>1, <1>2, <2>2, <2>3, WholeIs
<1>5. CASE k # Len(file)
    <2>. DEFINE h == k + 1
    <2>1. k \in 1..(Len(file) - 1) /\ h \in 1..(Len(file) + 1) /\ h \in 2..Len(file)
        BY <1>3, <1>5
    <2>2. PICK o, u : UpToMark(c, mean, file, h, o, u)
        BY <1>2, <2>1, TextsUpTo
    <2>. HIDE DEF h
    <2>2a. h <= Len(file)
        BY <1>3, <2>1
    <2>3. /\ o \in h..(Len(file) + 1) /\ u \in Seq(Symbols)
          /\ o <= Len(file) => file[o].kind # "text"
          /\ Shown(file, h) = u \o Shown(file, o)
          /\ Inked(u) \o InkFrom(c, mean, file, o) = InkFrom(c, mean, file, h)
          /\ file[h].kind = "text" => /\ u = << >> => o = Len(file) + 1
                                      /\ u # << >> => u[1] = file[h].text[1]
        BY <2>2, <2>2a DEF UpToMark
    <2>4. o \in 1..(Len(file) + 1)
        BY <1>3, <2>1, <2>3, Within
    <2>5. AtMark(file, o) \in Seq(Symbols)
        BY <1>2, <2>3, <2>4, AtMarkText
    <2>6. ASSUME NEW x \in Seq(Symbols), Lacks(x, "{"), x \o u # << >>, t = x \o Shown(file, h),
                 NEW v \in Seq(Symbols), v = Tail(x \o u), Inked(v) = Inked(u)
          PROVE  /\ ~ NoToken(t, "{")
                 /\ Left(t, "{") \in Seq(Symbols) /\ Tail(Token(t, "{")) \in Seq(Symbols)
                 /\ out \o Tail(Token(t, "{")) \in Seq(Symbols)
                 /\ OnToken(c, mean, file, Left(t, "{"), out \o Tail(Token(t, "{")))
        <3>1. CutsAt(c, mean, file, h, o, u, x)
            BY <1>2, <2>1, <2>2, <2>6 DEF CutsAt
        <3>2. CutUp(x \o Shown(file, h), "{", x \o u, AtMark(file, o))
            BY <3>1, CutAtMark
        <3>3. CutUp(t, "{", x \o u, AtMark(file, o))
            BY <2>6, <3>2, Zenon
        <3>4. ~ NoToken(t, "{") /\ Token(t, "{") = x \o u /\ Left(t, "{") = AtMark(file, o)
            BY <3>3 DEF CutUp
        <3>5. Tail(Token(t, "{")) = v
            BY <2>6, <3>4
        <3>6. Inked(v) \o InkFrom(c, mean, file, o) = InkFrom(c, mean, file, h)
            BY <2>3, <2>6
        <3>7. out \o v \in Seq(Symbols) /\ ReadTo(c, mean, file, out \o v, o)
            BY <1>1, <2>1, <2>4, <3>6, ReadsOn DEF h
        <3>8. OnToken(c, mean, file, AtMark(file, o), out \o v)
            BY <2>3, <2>4, <3>7 DEF OnToken
        <3>. QED
            BY <2>5, <3>4, <3>5, <3>7, <3>8
    <2>7. CASE file[k].kind = "key"
        <3>1. t = Closing \o Shown(file, h)
            BY <1>1, <1>5, <2>7 DEF RestAt, h
        <3>2. Closing \in Seq(Symbols) /\ Len(Closing) = 1 /\ Lacks(Closing, "{")
            BY Marks, Unopened
        <3>3. Closing \o u # << >> /\ Tail(Closing \o u) = u
            BY <2>3, <3>2, HeadPut
        <3>. QED
            BY <2>3, <2>6, <3>1, <3>2, <3>3
    <2>8. CASE file[k].kind # "key"
        <3>. DEFINE w == Shown(file, h)
        <3>1. t = w
            BY <1>1, <1>5, <2>8 DEF RestAt, h
        <3>2. file[h].kind = "text" /\ Blank(file[h].text[1])
            <4>1. IsPlaced(file[k])
                BY <1>1, <1>2, AtMarkIs
            <4>2. file[k].kind \in {"include", "when"}
                BY <2>8, <4>1, PieceIs
            <4>3. k = h - 1
                BY <1>3, <2>1 DEF h
            <4>4. IsConstruct(file[h - 1])
                BY <4>2, <4>3 DEF IsConstruct
            <4>5. file[h].kind = "text" /\ Blank(Head(file[h].text))
                BY <1>2, <2>1, <4>4 DEF Regular
            <4>. QED
                BY <4>5
        <3>3. w \in Seq(Symbols)
            BY <1>2, <2>1, ShownIs
        <3>. HIDE DEF w
        <3>4. CASE u = << >>
            <4>1. o = Len(file) + 1
                BY <2>3, <3>2, <3>4
            <4>2. Shown(file, o) = << >> /\ InkFrom(c, mean, file, o) = << >>
                BY <1>2, <4>1, ShownIs, InkFromIs
            <4>3. w = << >> /\ InkFrom(c, mean, file, h) = << >>
                <5>1. << >> \o << >> = << >> /\ Inked(<< >>) = << >>
                    BY <2>3, <3>4, NoneJoined, InkedIs
                <5>. QED
                    BY <2>3, <3>4, <4>2, <5>1 DEF w
            <4>4. NoToken(t, "{")
                BY <3>1, <4>3, NoneLeft
            <4>5. ReadTo(c, mean, file, out, h)
                BY <1>1 DEF h
            <4>6. Whole(c, mean, file, out)
                BY <1>2, <4>3, <4>5, WholeIs
            <4>. QED
                BY <4>4, <4>6
        <3>5. CASE u # << >>
            <4>1. /\ << >> \in Seq(Symbols) /\ Lacks(<< >>, "{")
                  /\ << >> \o u = u /\ << >> \o w = w
                BY <2>3, <3>3, NoneJoined, Unopened
            <4>2. Blank(u[1])
                BY <2>3, <3>2, <3>5
            <4>3. Tail(u) \in Seq(Symbols) /\ Inked(Tail(u)) = Inked(u)
                BY <2>3, <3>5, <4>2, InkedInside
            <4>. DEFINE x == << >>
                        v == Tail(u)
            <4>4. x \in Seq(Symbols) /\ Lacks(x, "{") /\ x \o u # << >> /\ t = x \o w
                BY <3>1, <3>5, <4>1
            <4>5. v \in Seq(Symbols) /\ v = Tail(x \o u) /\ Inked(v) = Inked(u)
                BY <4>1, <4>3
            <4>. HIDE DEF x, v
            <4>6. t = x \o Shown(file, h)
                BY <4>4 DEF w
            <4>. QED
                BY <2>6, <4>4, <4>5, <4>6
        <3>. QED
            BY <3>4, <3>5
    <2>. QED
        BY <2>7, <2>8
<1>. QED
    BY <1>4, <1>5

---------------------------------------------------------------------------
(* What the calls of all files do *)

\* The calls of templateRender.
Frames == [file : Symbols, segment : Seq(Symbols), rest : Seq(Symbols), out : Seq(Symbols),
           rep : BOOLEAN, map : {1}]

\* What is known of the call that runs, at each place.
TopAt(files, c, mean, pl, fr) ==
    \/ pl = "open"
    \/ /\ fr.file \in DOMAIN files
       /\ \/ pl = "first" /\ fr.rest = Space \o Shown(files[fr.file], 1)
          \/ pl = "token" /\ OnToken(c, mean, files[fr.file], fr.rest, fr.out)
          \/ pl = "construct" /\ OnPiece(c, mean, files[fr.file], fr.segment, fr.rest, fr.out)
          \/ pl = "text" /\ fr.rep = TRUE /\ OnText(c, mean, files[fr.file], fr.rest, fr.out)

\* What is known of a call that waits for the one above it.
WaitsAt(files, c, mean, fr, name) ==
    fr.file \in DOMAIN files /\ fr.rep = TRUE
    /\ Waits(c, mean, files[fr.file], fr.rest, fr.out, name)

\* The calls that run, from the handler's file on.
Stacked(files, c, mean, pl, st, r) ==
    /\ st \in Seq(Frames) /\ st # << >> /\ st[1].file = r
    /\ \A k \in 1..(Len(st) - 1) : WaitsAt(files, c, mean, st[k], st[k + 1].file)
    /\ TopAt(files, c, mean, pl, st[Len(st)])

\* The fields of a call.
LEMMA FrameIs ==
    ASSUME NEW fr \in Frames
    PROVE  /\ fr.file \in Symbols /\ fr.segment \in Seq(Symbols) /\ fr.rest \in Seq(Symbols)
           /\ fr.out \in Seq(Symbols) /\ fr.rep \in BOOLEAN /\ fr.map = 1
    BY DEF Frames

\* The call that runs is one, at its place.
LEMMA StackIs ==
    ASSUME NEW files, NEW c, NEW mean, NEW pl, NEW st, NEW r, Stacked(files, c, mean, pl, st, r)
    PROVE  /\ st \in Seq(Frames) /\ st # << >> /\ Len(st) \in Nat /\ Len(st) > 0
           /\ \A k \in 1..Len(st) : st[k] \in Frames
           /\ st[Len(st)] \in Frames /\ Last(st) = st[Len(st)]
           /\ TopAt(files, c, mean, pl, Last(st))
<1>1. st \in Seq(Frames) /\ st # << >> /\ TopAt(files, c, mean, pl, st[Len(st)])
    BY DEF Stacked
<1>2. Len(st) \in Nat /\ Len(st) > 0
    BY <1>1, NotEmpty
<1>3. \A k \in 1..Len(st) : st[k] \in Frames
    BY <1>1
<1>. QED
    BY <1>1, <1>2, <1>3 DEF Last

\* The call that runs goes on.
LEMMA TurnKeeps ==
    ASSUME NEW files, NEW c, NEW mean, NEW pl, NEW st, NEW r, Stacked(files, c, mean, pl, st, r),
           NEW fr \in Frames, fr.file = st[Len(st)].file, NEW next, TopAt(files, c, mean, next, fr)
    PROVE  Stacked(files, c, mean, next, [st EXCEPT ![Len(st)] = fr], r)
<1>. DEFINE l == Len(st)
            new == [st EXCEPT ![l] = fr]
<1>1. /\ st \in Seq(Frames) /\ l \in Nat /\ l > 0 /\ st[1].file = r
      /\ \A k \in 1..(l - 1) : WaitsAt(files, c, mean, st[k], st[k + 1].file)
    BY StackIs DEF Stacked
<1>2. /\ new \in Seq(Frames) /\ Len(new) = l /\ new[l] = fr
      /\ \A k \in 1..(l - 1) : new[k] = st[k]
    BY <1>1
<1>. HIDE DEF new
<1>3. \A k \in 1..l : new[k].file = st[k].file
    <2>1. \A k \in 1..l : k = l \/ k \in 1..(l - 1)
        BY <1>1
    <2>. QED
        BY <1>2, <2>1
<1>4. \A k \in 1..(l - 1) : WaitsAt(files, c, mean, new[k], new[k + 1].file)
    <2>1. \A k \in 1..(l - 1) : k + 1 \in 1..l
        BY <1>1
    <2>. QED
        BY <1>1, <1>2, <1>3, <2>1
<1>5. new # << >> /\ new[1].file = r
    <2>1. 1 \in 1..l
        BY <1>1
    <2>2. new # << >>
        BY <1>1, <1>2, NotEmpty
    <2>. QED
        BY <1>1, <1>3, <2>1, <2>2
<1>. QED
    BY <1>2, <1>4, <1>5 DEF Stacked, new, l

\* The call that runs calls for another file.
LEMMA IncludeKeeps ==
    ASSUME NEW files, NEW c, NEW mean, NEW pl, NEW st, NEW r, Stacked(files, c, mean, pl, st, r),
           NEW fr \in Frames, fr.file = st[Len(st)].file,
           NEW above \in Frames, WaitsAt(files, c, mean, fr, above.file)
    PROVE  Stacked(files, c, mean, "open", Append([st EXCEPT ![Len(st)] = fr], above), r)
<1>. DEFINE l == Len(st)
            t == [st EXCEPT ![l] = fr]
            new == Append(t, above)
<1>1. /\ st \in Seq(Frames) /\ l \in Nat /\ l > 0 /\ st[1].file = r
      /\ \A k \in 1..(l - 1) : WaitsAt(files, c, mean, st[k], st[k + 1].file)
    BY StackIs DEF Stacked
<1>2. /\ t \in Seq(Frames) /\ Len(t) = l /\ t[l] = fr
      /\ \A k \in 1..(l - 1) : t[k] = st[k]
    BY <1>1
<1>. HIDE DEF t
<1>3. /\ new \in Seq(Frames) /\ Len(new) = l + 1 /\ new[l + 1] = above
      /\ \A k \in 1..l : new[k] = t[k]
    BY <1>1, <1>2
<1>. HIDE DEF new
<1>4. \A k \in 1..l : k = l \/ k \in 1..(l - 1)
    BY <1>1
<1>5. \A k \in 1..l : new[k].file = st[k].file
    BY <1>2, <1>3, <1>4
<1>6. new[l] = fr /\ \A k \in 1..(l - 1) : new[k] = st[k]
    <2>1. l \in 1..l /\ \A k \in 1..(l - 1) : k \in 1..l
        BY <1>1
    <2>. QED
        BY <1>2, <1>3, <2>1
<1>7. \A k \in 1..l : WaitsAt(files, c, mean, new[k], new[k + 1].file)
    <2>1. WaitsAt(files, c, mean, new[l], new[l + 1].file)
        BY <1>3, <1>6
    <2>2. ASSUME NEW k \in 1..(l - 1) PROVE WaitsAt(files, c, mean, new[k], new[k + 1].file)
        <3>1. k + 1 \in 1..l
            BY <1>1
        <3>. QED
            BY <1>1, <1>5, <1>6, <3>1
    <2>. QED
        BY <1>4, <2>1, <2>2
<1>8. new # << >> /\ new[1].file = r
    <2>1. 1 \in 1..l
        BY <1>1
    <2>2. Len(new) > 0
        BY <1>1, <1>3
    <2>3. new # << >>
        BY <1>3, <2>2, NotEmpty
    <2>. QED
        BY <1>1, <1>5, <2>1, <2>3
<1>9. Len(new) - 1 = l
    BY <1>1, <1>3
<1>. QED
    BY <1>3, <1>7, <1>8, <1>9 DEF Stacked, TopAt, new, t, l

\* The file of a call has a meaning.
LEMMA SceneIs ==
    ASSUME NEW files, NEW c, NEW mean, Setting(files, c, mean), NEW name \in DOMAIN files,
           NEW out \in Seq(Symbols)
    PROVE  Scene(c, mean, files[name], out)
<1>1. /\ c \in Pairs /\ mean \in [DOMAIN files -> Seq(Symbols)]
      /\ files[name] \in Seq(Part) /\ Regular(files[name])
    BY FileIs
<1>2. mean \in [DOMAIN mean -> Seq(Symbols)]
    BY <1>1
<1>. QED
    BY <1>1, <1>2 DEF Scene

\* A call returns; what it rendered is put into the page that includes it.
LEMMA LeaveKeeps ==
    ASSUME NEW files, NEW c, NEW mean, Setting(files, c, mean), NEW pl, NEW st, NEW r,
           Stacked(files, c, mean, pl, st, r),
           NEW out \in Seq(Symbols), Inked(out) = Inked(Said(mean, st[Len(st)].file))
    PROVE  /\ Len(st) = 1 => Inked(out) = Inked(Said(mean, r))
           /\ Len(st) # 1 => Stacked(files, c, mean, "text",
                                     [Front(st) EXCEPT ![Len(st) - 1].out = @ \o out], r)
<1>. DEFINE l == Len(st)
            h == l - 1
            t == Front(st)
<1>1. /\ st \in Seq(Frames) /\ l \in Nat /\ l > 0 /\ st[1].file = r /\ st # << >>
      /\ \A k \in 1..(l - 1) : WaitsAt(files, c, mean, st[k], st[k + 1].file)
    BY StackIs DEF Stacked
<1>2. CASE l = 1
    BY <1>1, <1>2
<1>3. CASE l # 1
    <2>1. /\ t \in Seq(Frames) /\ Len(t) = h /\ \A k \in 1..h : t[k] = st[k]
        BY <1>1, FrontIs
    <2>2. h \in Nat /\ h > 0 /\ h \in 1..h /\ h + 1 = l /\ h \in 1..(l - 1) /\ 1 \in 1..h
        <3>1. l \in Nat /\ l > 0 /\ l # 1
            BY <1>1, <1>3
        <3>. HIDE DEF l
        <3>. QED
            BY ONLY <3>1
    <2>. DEFINE below == st[h]
    <2>3. below \in Frames /\ t[h] = below
        BY <1>1, <2>1, <2>2
    <2>4. below.file \in DOMAIN files /\ below.rep = TRUE
          /\ Waits(c, mean, files[below.file], below.rest, below.out, st[l].file)
        BY <1>1, <2>2 DEF WaitsAt
    <2>. DEFINE more == below.out \o out
                fr == [below EXCEPT !.out = more]
                new == [t EXCEPT ![h].out = @ \o out]
    <2>. HIDE DEF t, h, l, below
    <2>5. below.out \in Seq(Symbols)
        BY <2>3, FrameIs
    <2>6. Scene(c, mean, files[below.file], below.out)
        BY <2>4, <2>5, SceneIs
    <2>7. more \in Seq(Symbols) /\ OnText(c, mean, files[below.file], below.rest, more)
        BY <2>4, <2>6, WaitsStep DEF l
    <2>8. new = [t EXCEPT ![h] = fr]
        BY <2>3
    <2>. HIDE DEF more
    <2>9. fr \in Frames /\ fr.file = below.file /\ fr.rep = TRUE /\ fr.rest = below.rest
          /\ fr.out = more
        BY <2>3, <2>4, <2>7 DEF Frames
    <2>. HIDE DEF fr, new
    <2>10. TopAt(files, c, mean, "text", fr)
        BY <2>4, <2>7, <2>9 DEF TopAt
    <2>11. /\ new \in Seq(Frames) /\ Len(new) = h /\ new[h] = fr
           /\ \A k \in 1..(h - 1) : new[k] = st[k]
        <3>1. \A k \in 1..(h - 1) : k \in 1..h /\ k # h
            BY <2>2
        <3>. QED
            BY <2>1, <2>2, <2>8, <2>9, <3>1
    <2>12. \A k \in 1..h : k = h \/ k \in 1..(h - 1)
        BY <2>2
    <2>13. \A k \in 1..h : new[k].file = st[k].file
        BY <2>9, <2>11, <2>12 DEF below
    <2>14. \A k \in 1..(h - 1) : WaitsAt(files, c, mean, new[k], new[k + 1].file)
        <3>1. \A k \in 1..(h - 1) : k + 1 \in 1..h /\ k \in 1..(l - 1)
            BY <2>2
        <3>. QED
            BY <1>1, <2>11, <2>13, <3>1
    <2>15. new # << >> /\ new[1].file = r
        BY <1>1, <2>2, <2>11, <2>13, NotEmpty
    <2>16. Stacked(files, c, mean, "text", new, r)
        BY <2>10, <2>11, <2>14, <2>15 DEF Stacked
    <2>. QED
        BY <1>3, <2>16 DEF new, t, h, l
<1>. QED
    BY <1>2, <1>3 DEF l

---------------------------------------------------------------------------
(* Every page says what is meant *)

\* What the files mean to the running render.
Meanings == Levels(site, context)[Cardinality(DOMAIN site)]

\* Nothing is rendered yet or any more, or the page says what is meant, or calls run.
Kept(files, c, mean, pl, st, out, r) ==
    \/ pl \in {"handler", "done"}
    \/ pl = "rendered" /\ Inked(out) = Inked(Said(mean, r))
    \/ Stacked(files, c, mean, pl, st, r)

\* Each call of templateRender stands before, on or behind a part of its file and has put
\* out what is meant up to there; those below the last wait for the file above them.
PageInv ==
    /\ site \in Sites /\ root \in Roots /\ context \in Pairs
    /\ (Nested(site) /\ \A name \in DOMAIN site : Regular(site[name]))
       => Kept(site, context, Meanings, place, stack, rendered, root)

\* The state in which a call of templateRender takes a step.
CallAt(pl) ==
    /\ Setting(site, context, Meanings) /\ place = pl
    /\ Stacked(site, context, Meanings, pl, stack, root)

\* What holds behind a step.
Onward == Kept(site, context, Meanings, place', stack', rendered', root)

\* What is known of the call that takes the step.
LEMMA TopIs ==
    ASSUME NEW pl, CallAt(pl)
    PROVE  /\ Top \in Frames /\ TopAt(site, context, Meanings, pl, Top)
           /\ Top.file = stack[Len(stack)].file
           /\ pl # "open" => /\ Top.file \in DOMAIN site
                            /\ Scene(context, Meanings, site[Top.file], Top.out)
<1>1. Top \in Frames /\ TopAt(site, context, Meanings, pl, Top) /\ Top = stack[Len(stack)]
    BY StackIs DEF CallAt, Top
<1>2. Top.out \in Seq(Symbols)
    BY <1>1, FrameIs
<1>3. pl # "open" => Top.file \in DOMAIN site
    BY <1>1 DEF TopAt
<1>4. pl # "open" => Scene(context, Meanings, site[Top.file], Top.out)
    BY <1>2, <1>3, SceneIs DEF CallAt
<1>. QED
    BY <1>1, <1>3, <1>4

\* The call goes on at another place.
LEMMA TurnStep ==
    ASSUME NEW pl, CallAt(pl), NEW next, NEW fr \in Frames, fr.file = Top.file,
           TopAt(site, context, Meanings, next, fr), Turn(next, fr)
    PROVE  Onward
<1>1. stack' = [stack EXCEPT ![Len(stack)] = fr] /\ place' = next
    BY DEF Turn
<1>2. fr.file = stack[Len(stack)].file
    BY TopIs
<1>3. Stacked(site, context, Meanings, next, [stack EXCEPT ![Len(stack)] = fr], root)
    BY <1>2, TurnKeeps DEF CallAt
<1>. QED
    BY <1>1, <1>3 DEF Onward, Kept

\* The call returns what its file means.
LEMMA LeaveStep ==
    ASSUME NEW pl, CallAt(pl), NEW out \in Seq(Symbols), Inked(out) = Inked(Said(Meanings, Top.file)),
           Leave(out)
    PROVE  Onward
<1>1. Inked(out) = Inked(Said(Meanings, stack[Len(stack)].file))
    BY TopIs
<1>2. /\ Len(stack) = 1 => Inked(out) = Inked(Said(Meanings, root))
      /\ Len(stack) # 1 => Stacked(site, context, Meanings, "text",
                                   [Front(stack) EXCEPT ![Len(stack) - 1].out = @ \o out], root)
    BY <1>1, LeaveKeeps DEF CallAt
<1>3. CASE Len(stack) = 1
    <2>1. rendered' = out /\ place' = "rendered"
        BY <1>3 DEF Leave
    <2>. QED
        BY <1>2, <1>3, <2>1 DEF Onward, Kept
<1>4. CASE Len(stack) # 1
    <2>1. /\ stack' = [Front(stack) EXCEPT ![Len(stack) - 1].out = @ \o out]
          /\ place' = "text"
        BY <1>4 DEF Leave
    <2>. QED
        BY <1>2, <1>4, <2>1 DEF Onward, Kept
<1>. QED
    BY <1>3, <1>4

\* A call that has put all out returns it.
LEMMA WholeLeaves ==
    ASSUME NEW pl, CallAt(pl), pl # "open", Whole(context, Meanings, site[Top.file], Top.out),
           Leave(Top.out)
    PROVE  Onward
<1>1. Top \in Frames /\ Top.file \in DOMAIN site
    BY TopIs
<1>2. Top.out \in Seq(Symbols)
    BY <1>1, FrameIs
<1>3. /\ InkFrom(context, Meanings, site[Top.file], 1) = Inked(Meanings[Top.file])
      /\ Said(Meanings, Top.file) = Meanings[Top.file]
    BY <1>1, FileIs DEF CallAt
<1>4. Inked(Top.out) = Inked(Said(Meanings, Top.file))
    BY <1>3 DEF Whole
<1>. QED
    BY <1>2, <1>4, LeaveStep

\* A file that is there is read, one that is not is empty.
LEMMA OpenStep == ASSUME CallAt("open"), Open PROVE Onward
<1>1. Top \in Frames
    BY TopIs
<1>2. CASE Top.file \in DOMAIN site
    <2>. DEFINE t == Buffer(TextOf(site[Top.file]))
                fr == [Top EXCEPT !.rest = t]
    <2>1. Turn("first", fr)
        BY <1>2 DEF Open
    <2>2. site[Top.file] \in Seq(Part) /\ Regular(site[Top.file])
        BY <1>2, FileIs DEF CallAt
    <2>3. t = Space \o Shown(site[Top.file], 1) /\ t \in Seq(Symbols)
        <3>1. 1 \in 1..(Len(site[Top.file]) + 1)
            BY <2>2, SourcesAre
        <3>2. Shown(site[Top.file], 1) \in Seq(Symbols) /\ t = Space \o Shown(site[Top.file], 1)
            BY <2>2, <3>1, ShownIs
        <3>. HIDE DEF t
        <3>. QED
            BY <3>2, Marks, JoinedIs
    <2>. HIDE DEF t
    <2>4. fr \in Frames /\ fr.file = Top.file /\ fr.rest = t
        BY <1>1, <2>3 DEF Frames
    <2>. HIDE DEF fr
    <2>5. TopAt(site, context, Meanings, "first", fr)
        BY <1>2, <2>3, <2>4 DEF TopAt
    <2>. QED
        BY <2>1, <2>4, <2>5, TurnStep
<1>3. CASE Top.file \notin DOMAIN site
    <2>1. Leave(<< >>)
        BY <1>3 DEF Open
    <2>2. DOMAIN Meanings = DOMAIN site
        BY DEF CallAt, Setting, Explains
    <2>3. Said(Meanings, Top.file) = << >> /\ << >> \in Seq(Symbols)
        BY <1>3, <2>2, NoneJoined DEF Said
    <2>. DEFINE v == << >>
    <2>4. v \in Seq(Symbols) /\ Inked(v) = Inked(Said(Meanings, Top.file)) /\ Leave(v)
        BY <2>1, <2>3
    <2>. HIDE DEF v
    <2>. QED
        BY <2>4, LeaveStep
<1>. QED
    BY <1>2, <1>3

\* The first text is put out, and never missing.
LEMMA FirstTextStep == ASSUME CallAt("first"), FirstText PROVE Onward
<1>. DEFINE t == Top.rest
            u == Left(t, "{")
            v == Tail(Token(t, "{"))
            fr == [Top EXCEPT !.out = v, !.rest = u]
<1>1. /\ Top \in Frames /\ TopAt(site, context, Meanings, "first", Top)
      /\ Top.file \in DOMAIN site
    BY TopIs
<1>2. t = Space \o Shown(site[Top.file], 1)
    BY <1>1 DEF TopAt
<1>3. Scene(context, Meanings, site[Top.file], << >>)
    <2>1. Scene(context, Meanings, site[Top.file], Top.out)
        BY TopIs
    <2>2. << >> \in Seq(Symbols)
        OBVIOUS
    <2>. QED
        BY <2>1, <2>2 DEF Scene
<1>4. /\ ~ NoToken(t, "{") /\ u \in Seq(Symbols) /\ v \in Seq(Symbols)
      /\ OnToken(context, Meanings, site[Top.file], u, v)
    BY <1>2, <1>3, FirstStep
<1>5. Turn("token", fr)
    BY <1>4 DEF FirstText
<1>. HIDE DEF u, v
<1>6. fr \in Frames /\ fr.file = Top.file /\ fr.rest = u /\ fr.out = v
    BY <1>1, <1>4 DEF Frames
<1>. HIDE DEF fr
<1>7. TopAt(site, context, Meanings, "token", fr)
    BY <1>1, <1>4, <1>6 DEF TopAt
<1>. QED
    BY <1>5, <1>6, <1>7, TurnStep

\* The next construct, or the end of the file.
LEMMA NextTokenStep == ASSUME CallAt("token"), NextToken PROVE Onward
<1>. DEFINE t == Top.rest
            u == Left(t, "}")
            v == Token(t, "}")
            fr == [Top EXCEPT !.segment = v, !.rest = u]
<1>1. /\ Top \in Frames /\ TopAt(site, context, Meanings, "token", Top)
      /\ Top.file \in DOMAIN site /\ Scene(context, Meanings, site[Top.file], Top.out)
    BY TopIs
<1>2. OnToken(context, Meanings, site[Top.file], t, Top.out)
    BY <1>1 DEF TopAt
<1>3. /\ NoToken(t, "}") => Whole(context, Meanings, site[Top.file], Top.out)
      /\ ~ NoToken(t, "}") => /\ u \in Seq(Symbols) /\ v \in Seq(Symbols)
                              /\ OnPiece(context, Meanings, site[Top.file], v, u, Top.out)
    BY <1>1, <1>2, TokenStep
<1>4. CASE NoToken(t, "}")
    <2>1. Leave(Top.out)
        BY <1>4 DEF NextToken
    <2>. QED
        BY <1>3, <1>4, <2>1, WholeLeaves
<1>5. CASE ~ NoToken(t, "}")
    <2>1. Turn("construct", fr)
        BY <1>5 DEF NextToken
    <2>. HIDE DEF u, v
    <2>2. /\ fr \in Frames /\ fr.file = Top.file /\ fr.rest = u /\ fr.segment = v
          /\ fr.out = Top.out
        BY <1>1, <1>3, <1>5 DEF Frames
    <2>. HIDE DEF fr
    <2>3. TopAt(site, context, Meanings, "construct", fr)
        BY <1>1, <1>3, <1>5, <2>2 DEF TopAt
    <2>. QED
        BY <2>1, <2>2, <2>3, TurnStep
<1>. QED
    BY <1>4, <1>5

\* The first token.
LEMMA HeadIs == ASSUME NEW S, NEW t \in Seq(S), t # << >> PROVE Head(t) = t[1]
    OBVIOUS

\* The segment of the call is a construct of its file.
LEMMA ConstructIs ==
    ASSUME CallAt("construct")
    PROVE  /\ Top \in Frames /\ Top.file \in DOMAIN site
           /\ Scene(context, Meanings, site[Top.file], Top.out)
           /\ OnPiece(context, Meanings, site[Top.file], Segment, Top.rest, Top.out)
           /\ Head(Segment) = Segment[1] /\ Segment[1] \in {"{", "%"}
           /\ Segment[1] = "%" => Len(Segment) > 1 /\ Segment[2] \in {"include", "when"}
<1>1. /\ Top \in Frames /\ TopAt(site, context, Meanings, "construct", Top)
      /\ Top.file \in DOMAIN site /\ Scene(context, Meanings, site[Top.file], Top.out)
    BY TopIs
<1>2. OnPiece(context, Meanings, site[Top.file], Segment, Top.rest, Top.out)
    BY <1>1 DEF TopAt, Segment
<1>3. /\ Segment \in Seq(Symbols) /\ Segment # << >> /\ Segment[1] \in {"{", "%"}
      /\ Segment[1] = "%" => Len(Segment) > 1 /\ Segment[2] \in {"include", "when"}
    BY <1>1, <1>2, SegmentIs
<1>4. Head(Segment) = Segment[1]
    BY <1>3, HeadIs
<1>. QED
    BY <1>1, <1>2, <1>3, <1>4

\* What a call puts out behind a construct.
LEMMA LaterStep ==
    ASSUME CallAt("construct"), NEW out \in Seq(Symbols), NEW fr,
           fr = [Top EXCEPT !.rep = TRUE, !.out = out],
           OnText(context, Meanings, site[Top.file], Top.rest, out), Turn("text", fr)
    PROVE  Onward
<1>1. Top \in Frames /\ Top.file \in DOMAIN site
    BY ConstructIs
<1>2. /\ fr \in Frames /\ fr.file = Top.file /\ fr.rep = TRUE /\ fr.rest = Top.rest
      /\ fr.out = out
    BY <1>1 DEF Frames
<1>3. TopAt(site, context, Meanings, "text", fr)
    BY <1>1, <1>2 DEF TopAt
<1>. QED
    BY <1>2, <1>3, TurnStep

\* {{key}}: a value is put out.
LEMMA PlaceholderStep == ASSUME CallAt("construct"), Placeholder PROVE Onward
<1>. DEFINE v == ValueOf(context, Tail(Segment))
            out == Top.out \o v
            fr == [Later EXCEPT !.out = @ \o v]
<1>1. Turn("text", fr) /\ Head(Segment) = "{"
    BY DEF Placeholder, InConstruct
<1>2. /\ Top \in Frames /\ Scene(context, Meanings, site[Top.file], Top.out)
      /\ OnPiece(context, Meanings, site[Top.file], Segment, Top.rest, Top.out)
      /\ Segment[1] = "{"
    BY <1>1, ConstructIs
<1>3. out \in Seq(Symbols) /\ OnText(context, Meanings, site[Top.file], Top.rest, out)
    BY <1>2, KeyStep
<1>. HIDE DEF v
<1>4. fr = [Top EXCEPT !.rep = TRUE, !.out = out]
    BY <1>2 DEF Later, Frames
<1>. HIDE DEF out, fr
<1>. QED
    BY <1>1, <1>3, <1>4, LaterStep

\* {%include file%}: another call, the first one waits.
LEMMA IncludeCallStep == ASSUME CallAt("construct"), Include PROVE Onward
<1>. DEFINE fr == Later
            above == Frame(Segment[4], Top.map)
<1>1. /\ Head(Segment) = "%" /\ Segment[2] = "include"
      /\ stack' = Append([stack EXCEPT ![Len(stack)] = fr], above) /\ place' = "open"
    BY DEF Include, InConstruct
<1>2. /\ Top \in Frames /\ Top.file \in DOMAIN site
      /\ Scene(context, Meanings, site[Top.file], Top.out)
      /\ OnPiece(context, Meanings, site[Top.file], Segment, Top.rest, Top.out)
      /\ Segment[1] = "%"
    BY <1>1, ConstructIs
<1>3. /\ Segment[4] \in Symbols
      /\ Waits(context, Meanings, site[Top.file], Top.rest, Top.out, Segment[4])
    BY <1>1, <1>2, IncludeStep
<1>4. /\ fr \in Frames /\ fr.file = Top.file /\ fr.rep = TRUE /\ fr.rest = Top.rest
      /\ fr.out = Top.out
    BY <1>2 DEF Later, Frames
<1>5. above \in Frames /\ above.file = Segment[4]
    <2>1. << >> \in Seq(Symbols) /\ Top.map = 1 /\ FALSE \in BOOLEAN
        BY <1>2, FrameIs
    <2>. QED
        BY <1>3, <2>1 DEF Frame, Frames
<1>. HIDE DEF fr, above
<1>6. WaitsAt(site, context, Meanings, fr, above.file)
    BY <1>2, <1>3, <1>4, <1>5 DEF WaitsAt
<1>7. fr.file = stack[Len(stack)].file
    BY <1>4, TopIs
<1>8. Stacked(site, context, Meanings, "open", Append([stack EXCEPT ![Len(stack)] = fr], above), root)
    BY <1>4, <1>5, <1>6, <1>7, IncludeKeeps DEF CallAt
<1>. QED
    BY <1>1, <1>8 DEF Onward, Kept

\* {%when key value text%}: the text or nothing, and no pointer is NULL.
LEMMA WhenCallStep == ASSUME CallAt("construct"), When PROVE Onward
<1>. DEFINE x == SubSeq(Segment, 4, Len(Segment))
            d == " "
            key == UntilOrAll(x, d)
            then == Front(Behind(Behind(x, d), d))
            Holds == HasValue(context, key) /\ ValueOf(context, key) = Until(Behind(x, d), d)
            fr == IF Holds THEN [Later EXCEPT !.out = @ \o then] ELSE Later
<1>1. /\ Head(Segment) = "%" /\ Segment[2] = "when"
      /\ IF Position(x, d) = 0 \/ (HasValue(context, key) /\ Position(Behind(x, d), d) = 0)
         THEN Fault ELSE Turn("text", fr)
    BY DEF When, InConstruct
<1>2. /\ Top \in Frames /\ Scene(context, Meanings, site[Top.file], Top.out)
      /\ OnPiece(context, Meanings, site[Top.file], Segment, Top.rest, Top.out)
      /\ Segment[1] = "%"
    BY <1>1, ConstructIs
<1>3. /\ Position(x, d) # 0 /\ Position(Behind(x, d), d) # 0
      /\ Holds => /\ then \in Seq(Symbols) /\ Top.out \o then \in Seq(Symbols)
                  /\ OnText(context, Meanings, site[Top.file], Top.rest, Top.out \o then)
      /\ ~ Holds => OnText(context, Meanings, site[Top.file], Top.rest, Top.out)
    BY <1>1, <1>2, WhenStep
<1>4. Turn("text", fr)
    BY <1>1, <1>3
<1>5. Top.out \in Seq(Symbols)
    BY <1>2, FrameIs
<1>. HIDE DEF Holds, then
<1>6. CASE Holds
    <2>. DEFINE out == Top.out \o then
    <2>1. out \in Seq(Symbols) /\ OnText(context, Meanings, site[Top.file], Top.rest, out)
        BY <1>3, <1>6
    <2>2. fr = [Top EXCEPT !.rep = TRUE, !.out = out]
        BY <1>2, <1>6 DEF Later, Frames
    <2>. HIDE DEF out, fr
    <2>. QED
        BY <1>4, <2>1, <2>2, LaterStep
<1>7. CASE ~ Holds
    <2>. DEFINE out == Top.out
    <2>1. out \in Seq(Symbols) /\ OnText(context, Meanings, site[Top.file], Top.rest, out)
        BY <1>3, <1>5, <1>7
    <2>2. fr = [Top EXCEPT !.rep = TRUE, !.out = out]
        BY <1>2, <1>7 DEF Later, Frames
    <2>. HIDE DEF out, fr
    <2>. QED
        BY <1>4, <2>1, <2>2, LaterStep
<1>. QED
    BY <1>6, <1>7

\* The text behind a construct.
LEMMA TextCallStep == ASSUME CallAt("text"), Text PROVE Onward
<1>. DEFINE t == Top.rest
            u == Left(t, "{")
            v == Tail(Token(t, "{"))
            out == Top.out \o v
            fr == [Top EXCEPT !.rep = FALSE, !.rest = u, !.out = out]
<1>1. /\ Top \in Frames /\ TopAt(site, context, Meanings, "text", Top)
      /\ Top.file \in DOMAIN site /\ Scene(context, Meanings, site[Top.file], Top.out)
    BY TopIs
<1>2. Top.rep = TRUE /\ OnText(context, Meanings, site[Top.file], t, Top.out)
    BY <1>1 DEF TopAt
<1>3. CASE NoToken(t, "{") /\ Whole(context, Meanings, site[Top.file], Top.out)
    <2>1. Leave(Top.out)
        BY <1>3 DEF Text
    <2>. QED
        BY <1>3, <2>1, WholeLeaves
<1>4. CASE /\ ~ NoToken(t, "{")
           /\ u \in Seq(Symbols) /\ v \in Seq(Symbols) /\ out \in Seq(Symbols)
           /\ OnToken(context, Meanings, site[Top.file], u, out)
    <2>1. Turn("token", fr)
        BY <1>2, <1>4 DEF Text
    <2>. HIDE DEF u, v, out
    <2>2. fr \in Frames /\ fr.file = Top.file /\ fr.rest = u /\ fr.out = out
        BY <1>1, <1>4 DEF Frames
    <2>. HIDE DEF fr
    <2>3. TopAt(site, context, Meanings, "token", fr)
        BY <1>1, <1>4, <2>2 DEF TopAt
    <2>. QED
        BY <2>1, <2>2, <2>3, TurnStep
<1>. QED
    BY <1>1, <1>2, <1>3, <1>4, TextStep

\* It holds at first.
LEMMA PageInit == TemplateInit => PageInv
<1>. SUFFICES ASSUME TemplateInit PROVE PageInv
    OBVIOUS
<1>1. site \in Sites /\ root \in Roots /\ context = << >> /\ place = "handler"
    BY DEF TemplateInit
<1>2. context \in Pairs
    BY <1>1 DEF Pairs
<1>3. Kept(site, context, Meanings, place, stack, rendered, root)
    BY <1>1 DEF Kept
<1>. QED
    BY <1>1, <1>2, <1>3 DEF PageInv

\* The files of templates/ have parts.
LEMMA SiteIs == ASSUME site \in Sites PROVE IsSite(site)
    BY TemplateAssumption DEF IsSite

\* A call that runs has its files and their meaning.
LEMMA CallIs ==
    ASSUME PageInv, Nested(site), \A name \in DOMAIN site : Regular(site[name]), NEW pl, place = pl,
           pl \in {"open", "first", "token", "construct", "text"}
    PROVE  CallAt(pl)
<1>1. /\ site \in Sites /\ context \in Pairs
      /\ Kept(site, context, Meanings, place, stack, rendered, root)
    BY DEF PageInv
<1>2. IsSite(site)
    BY <1>1, SiteIs
<1>3. Explains(site, context, Meanings)
    BY <1>1, <1>2, MeaningExplains DEF Meanings
<1>4. Setting(site, context, Meanings)
    BY <1>1, <1>2, <1>3 DEF Setting
<1>5. Stacked(site, context, Meanings, pl, stack, root)
    BY <1>1 DEF Kept
<1>. QED
    BY <1>4, <1>5 DEF CallAt

\* Each step of templateRender keeps it; no construct is unknown and no brace stray.
LEMMA RenderKeeps ==
    ASSUME PageInv, Nested(site), \A name \in DOMAIN site : Regular(site[name]), TemplateRender
    PROVE  Onward
<1>. USE CallIs
<1>1. CASE Open
    <2>1. place = "open"
        BY <1>1 DEF Open
    <2>. QED
        BY <1>1, <2>1, OpenStep
<1>2. CASE FirstText
    <2>1. place = "first"
        BY <1>2 DEF FirstText
    <2>. QED
        BY <1>2, <2>1, FirstTextStep
<1>3. CASE NextToken
    <2>1. place = "token"
        BY <1>3 DEF NextToken
    <2>. QED
        BY <1>3, <2>1, NextTokenStep
<1>4. CASE Placeholder
    <2>1. place = "construct"
        BY <1>4 DEF Placeholder, InConstruct
    <2>. QED
        BY <1>4, <2>1, PlaceholderStep
<1>5. CASE Include
    <2>1. place = "construct"
        BY <1>5 DEF Include, InConstruct
    <2>. QED
        BY <1>5, <2>1, IncludeCallStep
<1>6. CASE When
    <2>1. place = "construct"
        BY <1>6 DEF When, InConstruct
    <2>. QED
        BY <1>6, <2>1, WhenCallStep
<1>7. CASE Unknown
    <2>1. place = "construct" /\ Head(Segment) = "%"
          /\ (Len(Segment) = 1 \/ Segment[2] \notin {"include", "when"})
        BY <1>7 DEF Unknown, InConstruct
    <2>2. Segment[1] = "%" /\ Len(Segment) > 1 /\ Segment[2] \in {"include", "when"}
        BY <2>1, ConstructIs
    <2>. QED
        BY <2>1, <2>2
<1>8. CASE Brace
    <2>1. place = "construct" /\ Head(Segment) \notin {"{", "%"}
        BY <1>8 DEF Brace
    <2>2. Head(Segment) \in {"{", "%"}
        BY <2>1, ConstructIs
    <2>. QED
        BY <2>1, <2>2
<1>9. CASE Text
    <2>1. place = "text"
        BY <1>9 DEF Text
    <2>. QED
        BY <1>9, <2>1, TextCallStep
<1>. QED
    BY <1>1, <1>2, <1>3, <1>4, <1>5, <1>6, <1>7, <1>8, <1>9 DEF TemplateRender

\* No step of a render touches the files or the handler's values.
LEMMA RenderLeaves ==
    ASSUME TemplateRender PROVE site' = site /\ root' = root /\ context' = context
    BY DEF TemplateRender, Open, FirstText, NextToken, Placeholder, Include, When, Unknown,
           Brace, Text, Turn, Leave, Fault

\* Each step keeps it.
LEMMA PageNext == PageInv /\ [TemplateNext]_templateVars => PageInv'
<1>. SUFFICES ASSUME PageInv, [TemplateNext]_templateVars PROVE PageInv'
    OBVIOUS
<1>1. /\ site \in Sites /\ root \in Roots /\ context \in Pairs
      /\ (Nested(site) /\ \A name \in DOMAIN site : Regular(site[name]))
         => Kept(site, context, Meanings, place, stack, rendered, root)
    BY DEF PageInv
<1>2. CASE TemplateSet
    <2>1. site' = site /\ root' = root /\ place' = "handler"
        BY <1>2 DEF TemplateSet
    <2>2. PICK k \in ContextKeys, v \in ContextValues :
              context' = Append(context, [key |-> k, value |-> v])
        BY <1>2 DEF TemplateSet
    <2>3. [key |-> k, value |-> v] \in [key : Seq(Symbols), value : Seq(Symbols)]
        BY TemplateAssumption
    <2>4. context' \in Pairs
        BY <1>1, <2>2, <2>3 DEF Pairs
    <2>5. Kept(site, context, Meanings, place, stack, rendered, root)'
        BY <2>1 DEF Kept
    <2>. QED
        BY <1>1, <2>1, <2>4, <2>5 DEF PageInv
<1>3. CASE Render
    <2>1. /\ site' = site /\ root' = root /\ context' = context /\ place' = "open"
          /\ stack' = <<Frame(root, 1)>>
        BY <1>3 DEF Render
    <2>. DEFINE fr == Frame(root, 1)
    <2>2. fr \in Frames /\ fr.file = root
        <3>1. Roots \subseteq Symbols
            BY TemplateAssumption
        <3>2. root \in Symbols
            BY <1>1, <3>1
        <3>3. << >> \in Seq(Symbols) /\ FALSE \in BOOLEAN
            OBVIOUS
        <3>. QED
            BY <3>2, <3>3 DEF Frame, Frames
    <2>. HIDE DEF fr
    <2>3. <<fr>> \in Seq(Frames) /\ Len(<<fr>>) = 1 /\ <<fr>>[1] = fr /\ <<fr>> # << >>
        BY <2>2
    <2>. DEFINE st == <<fr>>
    <2>4. st \in Seq(Frames) /\ Len(st) = 1 /\ st[1] = fr /\ st # << >>
        BY <2>3
    <2>. HIDE DEF st
    <2>5. \A k \in 1..(Len(st) - 1) : FALSE
        BY <2>4
    <2>6. Stacked(site', context', Meanings', "open", st, root')
        BY <2>1, <2>2, <2>4, <2>5 DEF Stacked, TopAt
    <2>7. Kept(site, context, Meanings, place, stack, rendered, root)'
        BY <2>1, <2>6 DEF Kept, st, fr
    <2>. QED
        BY <1>1, <2>1, <2>7 DEF PageInv
<1>4. CASE TemplateRender
    <2>1. site' = site /\ root' = root /\ context' = context
        BY <1>4, RenderLeaves
    <2>2. Meanings' = Meanings
        BY <2>1 DEF Meanings
    <2>3. ASSUME Nested(site), \A name \in DOMAIN site : Regular(site[name])
          PROVE  Kept(site, context, Meanings, place, stack, rendered, root)'
        <3>1. Onward
            BY <1>4, <2>3, RenderKeeps
        <3>. QED
            BY <2>1, <2>2, <3>1 DEF Onward
    <2>. QED
        BY <1>1, <2>1, <2>3 DEF PageInv
<1>5. CASE TemplateDel
    <2>1. site' = site /\ root' = root /\ context' = context /\ place' = "done"
        BY <1>5 DEF TemplateDel
    <2>2. Kept(site, context, Meanings, place, stack, rendered, root)'
        BY <2>1 DEF Kept
    <2>. QED
        BY <1>1, <2>1, <2>2 DEF PageInv
<1>6. CASE UNCHANGED templateVars
    <2>1. /\ site' = site /\ root' = root /\ context' = context /\ place' = place
          /\ stack' = stack /\ rendered' = rendered
        BY <1>6 DEF templateVars
    <2>. QED
        BY <1>1, <2>1 DEF PageInv, Meanings
<1>. QED
    BY <1>2, <1>3, <1>4, <1>5, <1>6 DEF TemplateNext

\* What every call of templateRender has put out, at every place of its file, is what the
\* authors of the files and the handler mean up to there (templateRender).
THEOREM PageInvHolds == TemplateSpec => []PageInv
<1>. QED
    BY PageInit, PageNext, PTL DEF TemplateSpec

\* No render of well-formed files that do not include themselves crashes, and the page it
\* returns is what its files stand for, blanks aside, if the handler sets no key to two
\* values: for any files, values and depth of includes (templateRender, readfile).
THEOREM RenderedAsWrittenHolds == TemplateSpec => []RenderedAsWritten
<1>1. ASSUME PageInv PROVE RenderedAsWritten
    <2>. SUFFICES ASSUME Nested(site), \A name \in DOMAIN site : Regular(site[name])
                  PROVE  /\ place # "crashed"
                         /\ place = "rendered" /\ SetOnce(context)
                            => Inked(rendered) = Inked(Meaning(root))
        BY DEF RenderedAsWritten, Sound
    <2>1. /\ Kept(site, context, Meanings, place, stack, rendered, root)
          /\ site \in Sites /\ context \in Pairs
        BY <1>1 DEF PageInv
    <2>2. SetOnce(context) => Said(Meanings, root) = Meaning(root)
        <3>1. IsSite(site)
            BY <2>1, SiteIs
        <3>2. SetOnce(context) =>
                  Meanings = Levels(site, Reverse(context))[Cardinality(DOMAIN site)]
            BY <2>1, <3>1, MeaningsAgree DEF Meanings
        <3>. QED
            BY <3>2 DEF Said, Meaning
    <2>3. CASE Stacked(site, context, Meanings, place, stack, root)
        BY <2>3 DEF Stacked, TopAt
    <2>4. CASE ~ Stacked(site, context, Meanings, place, stack, root)
        BY <2>1, <2>2, <2>4 DEF Kept
    <2>. QED
        BY <2>3, <2>4
<1>. QED
    BY <1>1, PageInvHolds, PTL

---------------------------------------------------------------------------
(* The map of a page *)

\* The places at which no call of templateRender is running.
AtRest == {"handler", "rendered", "done"}

\* A frame whose template has the handler's map.
HasTheMap(frame) == "map" \in DOMAIN frame /\ frame.map = 1

\* A sequence of calls that have the map.
Calls(st) == /\ \E F : st \in Seq(F)
            /\ \A k \in DOMAIN st : HasTheMap(st[k])

\* As long as any call runs, and until the handler deletes it, there is the one map.
TemplateInv ==
    /\ Calls(stack)
    /\ stack = << >> <=> place \in AtRest
    /\ maps = IF place = "done" THEN {} ELSE {1}

\* The sequence of the calls has a length, and its last one the map.
LEMMA CallsHaveLength ==
    ASSUME NEW st, Calls(st)
    PROVE  /\ Len(st) \in Nat /\ DOMAIN st = 1..Len(st)
           /\ st # << >> => Len(st) > 0 /\ HasTheMap(Last(st))
<1>1. PICK F : st \in Seq(F)
    BY DEF Calls
<1>2. Len(st) \in Nat /\ DOMAIN st = 1..Len(st) /\ (st # << >> => Len(st) > 0)
    BY <1>1
<1>3. ASSUME st # << >> PROVE HasTheMap(Last(st))
    BY <1>2, <1>3 DEF Calls, Last
<1>. QED
    BY <1>2, <1>3

\* The last call goes on.
LEMMA LastGoesOn ==
    ASSUME NEW st, Calls(st), st # << >>, NEW frame, HasTheMap(frame)
    PROVE  /\ Calls([st EXCEPT ![Len(st)] = frame])
           /\ [st EXCEPT ![Len(st)] = frame] # << >>
           /\ Len([st EXCEPT ![Len(st)] = frame]) = Len(st)
<1>1. PICK F : st \in Seq(F)
    BY DEF Calls
<1>2. Len(st) \in Nat /\ DOMAIN st = 1..Len(st) /\ Len(st) > 0
    BY CallsHaveLength
<1>3. PICK t : t = [st EXCEPT ![Len(st)] = frame]
    OBVIOUS
<1>4. t \in Seq(F \cup {frame}) /\ Len(t) = Len(st)
    BY <1>1, <1>2, <1>3
<1>5. DOMAIN t = DOMAIN st /\ \A k \in DOMAIN t : t[k] = IF k = Len(st) THEN frame ELSE st[k]
    BY <1>2, <1>3
<1>6. \A k \in DOMAIN t : HasTheMap(t[k])
    BY <1>5 DEF Calls
<1>7. Calls(t) /\ t # << >>
    BY <1>2, <1>4, <1>6 DEF Calls
<1>. QED
    BY <1>3, <1>4, <1>7

\* A call of a file that is included.
LEMMA AnotherCall ==
    ASSUME NEW st, Calls(st), NEW frame, HasTheMap(frame)
    PROVE  Calls(Append(st, frame)) /\ Append(st, frame) # << >>
<1>1. PICK F : st \in Seq(F)
    BY DEF Calls
<1>2. Len(st) \in Nat /\ DOMAIN st = 1..Len(st)
    BY CallsHaveLength
<1>3. st \in Seq(F \cup {frame})
    BY <1>1, <1>2
<1>4. Append(st, frame) \in Seq(F \cup {frame})
    BY <1>3
<1>5. /\ DOMAIN Append(st, frame) = 1..(Len(st) + 1)
      /\ \A k \in 1..(Len(st) + 1) : Append(st, frame)[k] = IF k = Len(st) + 1 THEN frame ELSE st[k]
    BY <1>2, <1>3
<1>6. \A k \in DOMAIN Append(st, frame) : HasTheMap(Append(st, frame)[k])
    BY <1>2, <1>5 DEF Calls
<1>7. Append(st, frame) # << >>
    BY <1>2, <1>5
<1>. QED
    BY <1>4, <1>6, <1>7 DEF Calls

\* The last call returns to the one that included it.
LEMMA LastReturns ==
    ASSUME NEW st, Calls(st), st # << >>, Len(st) # 1, NEW out
    PROVE  LET t == [Front(st) EXCEPT ![Len(st) - 1].out = @ \o out]
           IN  Calls(t) /\ t # << >>
<1>1. PICK F : st \in Seq(F)
    BY DEF Calls
<1>2. Len(st) \in Nat /\ DOMAIN st = 1..Len(st) /\ Len(st) > 1
    BY CallsHaveLength
<1>3. PICK f : f = Front(st)
    OBVIOUS
<1>4. f \in Seq(F) /\ DOMAIN f = 1..(Len(st) - 1) /\ \A k \in DOMAIN f : f[k] = st[k]
    BY <1>1, <1>2, <1>3 DEF Front
<1>5. PICK h : h = Len(st) - 1 /\ h \in DOMAIN f
    BY <1>2, <1>4
<1>6. PICK g : g = [f[h] EXCEPT !.out = @ \o out]
    OBVIOUS
<1>7. HasTheMap(f[h])
    BY <1>2, <1>4, <1>5 DEF Calls
<1>8. HasTheMap(g)
    BY <1>6, <1>7 DEF HasTheMap
<1>9. PICK t : t = [f EXCEPT ![h] = g]
    OBVIOUS
<1>10. t = [Front(st) EXCEPT ![Len(st) - 1].out = @ \o out]
    BY <1>3, <1>5, <1>6, <1>9
<1>11. DOMAIN t = DOMAIN f /\ \A k \in DOMAIN t : t[k] = IF k = h THEN g ELSE f[k]
    BY <1>9
<1>12. t \in Seq(F \cup {g})
    <2>1. f \in Seq(F \cup {g}) /\ h \in 1..Len(f)
        BY <1>4, <1>5
    <2>. QED
        BY <1>9, <2>1
<1>13. \A k \in DOMAIN t : HasTheMap(t[k])
    BY <1>2, <1>4, <1>8, <1>11 DEF Calls
<1>14. t # << >>
    BY <1>5, <1>11
<1>. QED
    BY <1>10, <1>12, <1>13, <1>14 DEF Calls

\* A step of the call that runs.
LEMMA MapKeptInTurn ==
    ASSUME TemplateInv, place \notin AtRest, NEW where, where \notin AtRest,
           NEW frame, HasTheMap(frame), Turn(where, frame)
    PROVE  TemplateInv'
<1>1. Calls(stack) /\ stack # << >> /\ maps = {1}
    BY DEF TemplateInv, AtRest
<1>2. stack' = [stack EXCEPT ![Len(stack)] = frame] /\ place' = where /\ maps' = maps
    BY DEF Turn
<1>3. Calls(stack') /\ stack' # << >>
    BY <1>1, <1>2, LastGoesOn
<1>. QED
    BY <1>1, <1>2, <1>3 DEF TemplateInv, AtRest, Calls

\* The end of a call.
LEMMA MapKeptInLeave ==
    ASSUME TemplateInv, place \notin AtRest, NEW out, Leave(out)
    PROVE  TemplateInv'
<1>1. Calls(stack) /\ stack # << >> /\ maps = {1}
    BY DEF TemplateInv, AtRest
<1>2. CASE Len(stack) = 1
    <2>1. stack' = << >> /\ place' = "rendered" /\ maps' = {1}
        BY <1>1, <1>2 DEF Leave
    <2>2. Calls(<< >>)
        BY DEF Calls
    <2>. QED
        BY <2>1, <2>2 DEF TemplateInv, AtRest, Calls
<1>3. CASE Len(stack) # 1
    <2>1. stack' = [Front(stack) EXCEPT ![Len(stack) - 1].out = @ \o out]
          /\ place' = "text" /\ maps' = {1}
        BY <1>1, <1>3 DEF Leave, Freed
    <2>2. Calls(stack') /\ stack' # << >>
        BY <1>1, <1>3, <2>1, LastReturns
    <2>. QED
        BY <2>1, <2>2 DEF TemplateInv, AtRest, Calls
<1>. QED
    BY <1>2, <1>3

\* The end of the process.
LEMMA MapKeptInFault ==
    ASSUME TemplateInv, place \notin AtRest, Fault
    PROVE  TemplateInv'
BY DEF TemplateInv, AtRest, Fault, Calls

\* Each turn of templateRender.
LEMMA MapKeptInRender ==
    ASSUME TemplateInv, TemplateRender
    PROVE  TemplateInv'
<1>0. place \notin AtRest
    BY DEF TemplateRender, Open, FirstText, NextToken, Placeholder, Include, When, Unknown,
           Brace, Text, InConstruct, AtRest
<1>1. HasTheMap(Top) /\ Calls(stack) /\ stack # << >> /\ maps = {1}
    BY <1>0, CallsHaveLength DEF TemplateInv, Top, AtRest
<1>2. HasTheMap(Later)
    BY <1>1 DEF HasTheMap, Later
<1>3. CASE Open
    <2>1. HasTheMap([Top EXCEPT !.rest = Buffer(TextOf(site[Top.file]))])
        BY <1>1 DEF HasTheMap
    <2>. QED
        BY <1>0, <1>3, <2>1, MapKeptInTurn, MapKeptInLeave DEF Open, AtRest
<1>4. CASE FirstText
    <2>1. HasTheMap([Top EXCEPT !.out = Tail(Token(Top.rest, "{")), !.rest = Left(Top.rest, "{")])
        BY <1>1 DEF HasTheMap
    <2>. QED
        BY <1>0, <1>4, <2>1, MapKeptInTurn, MapKeptInFault DEF FirstText, AtRest
<1>5. CASE NextToken
    <2>1. HasTheMap([Top EXCEPT !.segment = Token(Top.rest, "}"), !.rest = Left(Top.rest, "}")])
        BY <1>1 DEF HasTheMap
    <2>. QED
        BY <1>0, <1>5, <2>1, MapKeptInTurn, MapKeptInLeave DEF NextToken, AtRest
<1>6. CASE Placeholder
    <2>1. HasTheMap([Later EXCEPT !.out = @ \o ValueOf(context, Tail(Segment))])
        BY <1>2 DEF HasTheMap
    <2>. QED
        BY <1>0, <1>6, <2>1, MapKeptInTurn DEF Placeholder, AtRest
<1>7. CASE Include
    <2>1. /\ stack' = Append([stack EXCEPT ![Len(stack)] = Later], Frame(Segment[4], Top.map))
          /\ place' = "open" /\ maps' = {1}
        BY <1>1, <1>7 DEF Include
    <2>2. HasTheMap(Frame(Segment[4], Top.map))
        BY <1>1 DEF HasTheMap, Frame
    <2>3. Calls([stack EXCEPT ![Len(stack)] = Later])
        BY <1>1, <1>2, LastGoesOn
    <2>4. Calls(stack') /\ stack' # << >>
        BY <2>1, <2>2, <2>3, AnotherCall
    <2>. QED
        BY <2>1, <2>4 DEF TemplateInv, AtRest, Calls
<1>8. CASE When
    <2>1. \A text : HasTheMap([Later EXCEPT !.out = @ \o text])
        BY <1>2 DEF HasTheMap
    <2>2. Fault \/ \E frame : HasTheMap(frame) /\ Turn("text", frame)
        BY <1>2, <1>8, <2>1 DEF When
    <2>. QED
        BY <1>0, <2>2, MapKeptInTurn, MapKeptInFault DEF AtRest
<1>9. CASE Unknown
    BY <1>0, <1>9, MapKeptInLeave DEF Unknown
<1>10. CASE Brace
    <2>1. HasTheMap([Later EXCEPT !.out = @ \o <<"{">>, !.rep = FALSE])
        BY <1>2 DEF HasTheMap
    <2>. QED
        BY <1>0, <1>10, <2>1, MapKeptInTurn DEF Brace, AtRest
<1>11. CASE Text
    <2>1. \A text : HasTheMap([Top EXCEPT !.rep = FALSE, !.rest = Left(Top.rest, "{"), !.out = @ \o text])
        BY <1>1 DEF HasTheMap
    <2>2. Leave(Top.out) \/ \E frame : HasTheMap(frame) /\ Turn("token", frame)
        BY <1>11, <2>1 DEF Text
    <2>. QED
        BY <1>0, <2>2, MapKeptInTurn, MapKeptInLeave DEF AtRest
<1>. QED
    BY <1>3, <1>4, <1>5, <1>6, <1>7, <1>8, <1>9, <1>10, <1>11 DEF TemplateRender

\* The map of a handler's template is there as long as it or an included file looks into
\* it, and it is freed once: for any files, including one another to any depth
\* (templateRender, templateDel).
THEOREM ContextOwnedHolds == TemplateSpec => []ContextOwned
<1>1. TemplateInit => TemplateInv
    BY DEF TemplateInit, TemplateInv, AtRest, Calls
<1>2. TemplateInv /\ [TemplateNext]_templateVars => TemplateInv'
    <2>. SUFFICES ASSUME TemplateInv, [TemplateNext]_templateVars PROVE TemplateInv'
        OBVIOUS
    <2>1. CASE TemplateSet
        BY <2>1 DEF TemplateSet, TemplateInv, Calls
    <2>2. CASE Render
        <3>1. stack' = Append(<< >>, Frame(root, 1)) /\ place' = "open" /\ maps' = {1}
            BY <2>2 DEF Render, TemplateInv
        <3>2. HasTheMap(Frame(root, 1)) /\ Calls(<< >>)
            BY DEF HasTheMap, Frame, Calls
        <3>3. Calls(stack') /\ stack' # << >>
            BY <3>1, <3>2, AnotherCall
        <3>. QED
            BY <3>1, <3>3 DEF TemplateInv, AtRest, Calls
    <2>3. CASE TemplateRender
        BY <2>3, MapKeptInRender
    <2>4. CASE TemplateDel
        BY <2>4 DEF TemplateDel, TemplateInv, AtRest, Calls
    <2>5. CASE UNCHANGED templateVars
        BY <2>5 DEF templateVars, TemplateInv, Calls
    <2>. QED
        BY <2>1, <2>2, <2>3, <2>4, <2>5 DEF TemplateNext
<1>3. TemplateInv => ContextOwned
    <2>. SUFFICES ASSUME TemplateInv PROVE ContextOwned
        OBVIOUS
    <2>1. \A k \in DOMAIN stack : stack[k].map = 1
        BY DEF TemplateInv, Calls, HasTheMap
    <2>2. place = "done" => DOMAIN stack = {}
        BY DEF TemplateInv, AtRest
    <2>. QED
        BY <2>1, <2>2 DEF TemplateInv, ContextOwned
<1>. QED
    BY <1>1, <1>2, <1>3, PTL DEF TemplateSpec
=============================================================================
