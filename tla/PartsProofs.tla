------------------------------ MODULE PartsProofs -----------------------------
(***************************************************************************)
(* Proofs about the parts that share nothing with one another.  Texts:     *)
(* html_escape_trans and newline_to_br stay inside their buffers and fill  *)
(* them, and together show what was entered; base64_decode gives back what *)
(* base64_encode was given; a search finds what Base64 leaves              *)
(* recognizable; and the pieces of pages fit.  The process: what its       *)
(* signal handler, which frees what main uses, and the handler of static   *)
(* files, whose files are written meanwhile, end it of; and a file that is *)
(* left alone arrives whole.                                               *)
(***************************************************************************)
EXTENDS PostText, Base64, Search, Fragments, StaticFiles, Lifecycle, LeastNumber,
        FiniteSetTheorems, TLAPS

\* What a text is made of, before and after.
Symbols == Chars \cup {"&", "#", "3", "4", "9", "8", "6", "0", "2", ";", "<", "b", "r", ">"}

\* The characters to be replaced among the first k.
Marked(k) == {j \in 1..k : body[j] \in Counted}

TypeInv ==
    /\ pass \in {"escape", "breaks"}
    /\ phase \in {"post", "count", "write", "stored", "shown", "refused"}
    /\ body \in Seq(Symbols) /\ size = Len(body)
    /\ at \in 0..size /\ counter \in Nat /\ capacity \in Int
    /\ buf \in Seq(Symbols)

\* The first loop has counted what it passed; the second has written one symbol for each
\* character and More for each of those.
LoopInv ==
    /\ phase = "post"  => at = 0 /\ counter = 0
    /\ phase = "count" => counter = Cardinality(Marked(at))
    /\ phase = "write" => /\ counter = Cardinality(Marked(size))
                       /\ capacity = size + More * counter + 1
                       /\ Len(buf) = at + More * Cardinality(Marked(at))

Inv == TypeInv /\ LoopInv

---------------------------------------------------------------------------
\* Texts of one symbol, of four and of five.
LEMMA ShortText ==
    ASSUME NEW S, NEW c1 \in S, NEW c2 \in S, NEW c3 \in S, NEW c4 \in S, NEW c5 \in S
    PROVE  /\ <<c1>> \in Seq(S) /\ Len(<<c1>>) = 1
           /\ <<c1, c2, c3, c4>> \in Seq(S) /\ Len(<<c1, c2, c3, c4>>) = 4
           /\ <<c1, c2, c3, c4, c5>> \in Seq(S) /\ Len(<<c1, c2, c3, c4, c5>>) = 5
    OBVIOUS

\* A text of some symbols is one of more symbols.
LEMMA WiderText ==
    ASSUME NEW S, NEW W, S \subseteq W, NEW t \in Seq(S)
    PROVE  t \in Seq(W)
    OBVIOUS

\* A replacement is More longer than what it replaces.
LEMMA WrittenLength ==
    ASSUME NEW c \in Symbols, pass \in {"escape", "breaks"}
    PROVE  /\ Written(c) \in Seq(Symbols)
           /\ Len(Written(c)) = IF c \in Counted THEN More + 1 ELSE 1
<1>1. CASE pass = "escape"
    <2>1. /\ Written(c) = Escape(c) /\ More = 4
          /\ Counted = {"\"", "'", "&", "<", ">"}
        BY <1>1 DEF Written, Counted, More
    <2>2. CASE c \in Counted
        <3>1. \E d, e \in Symbols : Escape(c) = <<"&", "#", d, e, ";">>
            <4> {"3", "4", "9", "8", "6", "0", "2"} \subseteq Symbols
                BY DEF Symbols
            <4> QED BY <2>1, <2>2 DEF Escape
        <3>2. PICK d \in Symbols, e \in Symbols : Escape(c) = <<"&", "#", d, e, ";">>
            BY <3>1
        <3>3. "&" \in Symbols /\ "#" \in Symbols /\ ";" \in Symbols
            BY DEF Symbols
        <3>4. <<"&", "#", d, e, ";">> \in Seq(Symbols) /\ Len(<<"&", "#", d, e, ";">>) = 5
            BY <3>3, ShortText
        <3>5. Written(c) = <<"&", "#", d, e, ";">>
            BY <2>1, <3>2
        <3>6. Written(c) \in Seq(Symbols) /\ Len(Written(c)) = 5
            BY <3>4, <3>5
        <3>7. More + 1 = 5
            BY <1>1 DEF More
        <3> QED BY <2>2, <3>6, <3>7
    <2>3. CASE c \notin Counted
        <3>1. Escape(c) = <<c>>
            BY <2>1, <2>3 DEF Escape
        <3>2. <<c>> \in Seq(Symbols) /\ Len(<<c>>) = 1
            BY ShortText
        <3>3. Written(c) = <<c>>
            BY <2>1, <3>1
        <3>4. Written(c) \in Seq(Symbols) /\ Len(Written(c)) = 1
            BY <3>2, <3>3
        <3> QED BY <2>1, <2>3, <3>4
    <2> QED BY <2>2, <2>3
<1>2. CASE pass = "breaks"
    <2>1. More = 3 /\ Counted = {"\n"}
        BY <1>2 DEF Counted, More
    <2>2. Written(c) = IF c = "\n" THEN <<"<", "b", "r", ">">> ELSE <<c>>
        BY <1>2 DEF Written
    <2>3. CASE c = "\n"
        <3>1. "<" \in Symbols /\ "b" \in Symbols /\ "r" \in Symbols /\ ">" \in Symbols
            BY DEF Symbols
        <3>2. <<"<", "b", "r", ">">> \in Seq(Symbols) /\ Len(<<"<", "b", "r", ">">>) = 4
            BY <3>1
        <3> QED BY <2>1, <2>2, <2>3, <3>2
    <2>4. CASE c # "\n"
        BY <2>1, <2>2, <2>4
    <2> QED BY <2>3, <2>4
<1> QED BY <1>1, <1>2

\* The marked characters are finitely many, grow by one with each marked one, and are no
\* more than all.
LEMMA MarkedCounts ==
    ASSUME NEW n \in Nat, NEW k \in 0..n
    PROVE  /\ IsFiniteSet(Marked(k)) /\ Cardinality(Marked(k)) \in Nat
           /\ Cardinality(Marked(k)) <= Cardinality(Marked(n)) /\ Cardinality(Marked(n)) \in Nat
           /\ Cardinality(Marked(0)) = 0
           /\ Cardinality(Marked(k + 1)) =
                  IF body[k + 1] \in Counted THEN Cardinality(Marked(k)) + 1
                                             ELSE Cardinality(Marked(k))
<1>1. \A m \in Nat : IsFiniteSet(Marked(m))
    <2> TAKE m \in Nat
    <2>1. IsFiniteSet(1..m)
        BY FS_Interval
    <2>2. Marked(m) \subseteq 1..m
        BY DEF Marked
    <2> QED BY <2>1, <2>2, FS_Subset
<1>2. \A m \in Nat : Cardinality(Marked(m)) \in Nat
    BY <1>1, FS_CardinalityType
<1>3. Marked(k) \subseteq Marked(n)
    BY DEF Marked
<1>4. Cardinality(Marked(k)) <= Cardinality(Marked(n))
    BY <1>1, <1>3, FS_Subset
<1>5. Marked(0) = {}
    BY DEF Marked
<1>6. Cardinality(Marked(0)) = 0
    BY <1>5, FS_EmptySet
<1>7. CASE body[k + 1] \in Counted
    <2>1. Marked(k + 1) = Marked(k) \cup {k + 1} /\ k + 1 \notin Marked(k)
        BY <1>7 DEF Marked
    <2> QED BY <1>1, <1>2, <1>4, <1>6, <1>7, <2>1, FS_AddElement
<1>8. CASE body[k + 1] \notin Counted
    <2>1. Marked(k + 1) = Marked(k)
        BY <1>8 DEF Marked
    <2> QED BY <1>1, <1>2, <1>4, <1>6, <1>8, <2>1
<1> QED BY <1>7, <1>8

LEMMA InvInit == PostInit => Inv
<1> SUFFICES ASSUME PostInit PROVE Inv
    OBVIOUS
<1>1. entered \in Seq(Chars)
    BY PostTextAssumption DEF PostInit, Texts
<1>2. body \in Seq(Symbols)
    <2>1. Chars \subseteq Symbols
        BY DEF Symbols
    <2>2. entered \in Seq(Symbols)
        BY <1>1, <2>1, WiderText
    <2> QED BY <2>2 DEF PostInit
<1> QED BY <1>2 DEF PostInit, Inv, TypeInv, LoopInv

LEMMA InvNext == Inv /\ [PostNext]_postVars => Inv'
<1> SUFFICES ASSUME Inv, [PostNext]_postVars PROVE Inv'
    OBVIOUS
<1> USE DEF Inv, TypeInv
<1>0. Len(body) \in Nat /\ size \in Nat
    OBVIOUS
<1>1. CASE Post
    <2>1. counter = Cardinality(Marked(at)) \/ phase' # "count"
        BY <1>0, <1>1, MarkedCounts DEF Post, LoopInv
    <2> QED BY <1>1, <2>1 DEF Post, LoopInv, Marked, Counted, More
<1>2. CASE Count
    <2>1. at \in 0..size /\ at' = at + 1 /\ at' \in 0..size
        BY <1>0, <1>2 DEF Count
    <2>2. counter' = Cardinality(Marked(at + 1)) /\ counter' \in Nat
        <3>1. counter = Cardinality(Marked(at))
            BY <1>2 DEF Count, LoopInv
        <3>2. Cardinality(Marked(at + 1)) = IF body[at + 1] \in Counted
                                           THEN Cardinality(Marked(at)) + 1
                                           ELSE Cardinality(Marked(at))
            BY <1>0, <2>1, MarkedCounts
        <3>3. counter' = IF body[at + 1] \in Counted THEN counter + 1 ELSE counter
            BY <1>2 DEF Count
        <3> QED BY <3>1, <3>2, <3>3
    <2>3. Cardinality(Marked(at + 1)) = Cardinality(Marked(at))'
        BY <1>2 DEF Count, Marked, Counted
    <2> QED BY <1>2, <2>1, <2>2, <2>3 DEF Count, LoopInv
<1>3. CASE Keep
    BY <1>3 DEF Keep, LoopInv, Done
<1>4. CASE Allocate
    <2>1. counter = Cardinality(Marked(size)) /\ Cardinality(Marked(0)) = 0
        BY <1>0, <1>4, MarkedCounts DEF Allocate, LoopInv
    <2>2. /\ Cardinality(Marked(size))' = Cardinality(Marked(size))
          /\ Cardinality(Marked(at))' = Cardinality(Marked(0)) /\ More' = More
        BY <1>4 DEF Allocate, Marked, Counted, More
    <2>3. More \in {3, 4}
        BY DEF More
    <2>4. capacity' \in Int /\ buf' \in Seq(Symbols) /\ Len(buf') = 0 /\ at' = 0
        BY <1>0, <1>4, <2>3 DEF Allocate
    <2>5. Len(buf') = at' + More' * Cardinality(Marked(at))'
        BY <2>1, <2>2, <2>3, <2>4
    <2> QED BY <1>0, <1>4, <2>1, <2>2, <2>4, <2>5 DEF Allocate, LoopInv
<1>5. CASE Write
    <2>1. at \in 0..size /\ at' = at + 1 /\ at' \in 0..size /\ at + 1 \in 1..Len(body)
        BY <1>0, <1>5 DEF Write
    <2>2. body[at + 1] \in Symbols
        BY <2>1
    <2>3. /\ Written(body[at + 1]) \in Seq(Symbols)
          /\ Len(Written(body[at + 1])) = IF body[at + 1] \in Counted THEN More + 1 ELSE 1
        BY <2>2, WrittenLength
    <2>4. /\ buf' \in Seq(Symbols)
          /\ Len(buf') = Len(buf) + Len(Written(body[at + 1]))
        BY <1>5, <2>3 DEF Write
    <2>5. /\ Cardinality(Marked(at)) \in Nat
          /\ Cardinality(Marked(at + 1)) = IF body[at + 1] \in Counted THEN Cardinality(Marked(at)) + 1
                                          ELSE Cardinality(Marked(at))
        BY <1>0, <2>1, MarkedCounts
    <2>6. Len(buf) = at + More * Cardinality(Marked(at)) /\ More \in {3, 4}
        BY <1>5 DEF Write, LoopInv, More
    <2>7. Len(buf') = at + 1 + More * Cardinality(Marked(at + 1))
        <3>1. CASE body[at + 1] \in Counted
            BY <2>1, <2>3, <2>4, <2>5, <2>6, <3>1
        <3>2. CASE body[at + 1] \notin Counted
            BY <2>1, <2>3, <2>4, <2>5, <2>6, <3>2
        <3> QED BY <3>1, <3>2
    <2>8. /\ Cardinality(Marked(at))' = Cardinality(Marked(at + 1))
          /\ Cardinality(Marked(size))' = Cardinality(Marked(size)) /\ More' = More
        BY <1>5 DEF Write, Marked, Counted, More
    <2> QED BY <1>5, <2>1, <2>4, <2>7, <2>8 DEF Write, LoopInv
<1>6. CASE Replace
    <2>1. /\ counter = Cardinality(Marked(size)) /\ Len(buf) = at + More * Cardinality(Marked(at))
          /\ at = size
        BY <1>6 DEF Replace, LoopInv
    <2>2. Len(buf) = size + More * counter
        BY <2>1
    <2>3. size' = Len(body') /\ size' \in Nat /\ at \in 0..size'
        <3>1. More \in {3, 4}
            BY DEF More
        <3> QED BY <1>0, <1>6, <2>1, <2>2, <3>1 DEF Replace
    <2> QED BY <1>6, <2>3 DEF Replace, LoopInv, Done
<1>7. CASE Read
    <2>1. Cardinality(Marked(at))' = 0
        <3>1. Marked(at)' = {}
            BY <1>7 DEF Read, Marked
        <3> QED BY <3>1, FS_EmptySet
    <2> QED BY <1>0, <1>7, <2>1 DEF Read, LoopInv
<1>8. CASE UNCHANGED postVars
    BY <1>8 DEF postVars, LoopInv, Marked, Counted, More
<1> QED BY <1>1, <1>2, <1>3, <1>4, <1>5, <1>6, <1>7, <1>8 DEF PostNext

LEMMA InvBounds == Inv => InBounds
<1> SUFFICES ASSUME Inv PROVE InBounds
    OBVIOUS
<1>1. size \in Nat /\ at \in 0..size /\ size = Len(body)
    BY DEF Inv, TypeInv
<1>2. /\ Cardinality(Marked(at)) \in Nat /\ Cardinality(Marked(size)) \in Nat
      /\ Cardinality(Marked(at)) <= Cardinality(Marked(size))
    BY <1>1, MarkedCounts
<1>3. More \in {3, 4}
    BY DEF More
<1>4. ASSUME phase = "write"
      PROVE  Len(buf) < capacity /\ (at = size => Len(buf) + 1 = capacity)
    <2>1. /\ capacity = size + More * Cardinality(Marked(size)) + 1
          /\ Len(buf) = at + More * Cardinality(Marked(at))
        BY <1>4 DEF Inv, LoopInv
    <2>2. CASE More = 3
        BY <1>1, <1>2, <2>1, <2>2
    <2>3. CASE More = 4
        BY <1>1, <1>2, <2>1, <2>3
    <2> QED BY <1>3, <2>2, <2>3
<1> QED BY <1>1, <1>4 DEF InBounds

\* For every text that a member enters, both passes write exactly what they allocated.
THEOREM InBoundsHolds == PostSpec => []InBounds
<1>1. PostInit => Inv
    BY InvInit
<1>2. Inv /\ [PostNext]_postVars => Inv'
    BY InvNext
<1>3. Inv => InBounds
    BY InvBounds
<1> QED BY <1>1, <1>2, <1>3, PTL DEF PostSpec

---------------------------------------------------------------------------
(* What is shown *)

\* Where each character begins in a text in which the n-th takes l[n] places.
Places(l, f) ==
    /\ f \in [1..(MaxText + 1) -> Nat]
    /\ f[1] = 0
    /\ \A n \in 1..MaxText : f[n + 1] = f[n] + l[n]

FileLens == [n \in 1..MaxText |-> Len(Escape(entered[n]))]
PageLens == [n \in 1..MaxText |-> Len(OnPage(entered[n]))]

\* Where the n-th character of what was entered begins in the file; Begin says where it
\* begins on the page.
Filed == CHOOSE f : Places(FileLens, f)

\* Text t has s behind its first b symbols.
Holds(t, b, s) == \A i \in 1..Len(s) : t[b + i] = s[i]

InFile(t, m)   == \A n \in 1..m : Holds(t, Filed[n], Escape(entered[n]))
OnScreen(t, m) == \A n \in 1..m : Holds(t, Begin[n], OnPage(entered[n]))

\* The second pass has written m characters of what was entered and the first r symbols of
\* the entity of the next one.
WrittenTo(m, r) ==
    /\ at = Filed[m + 1] + r /\ Len(buf) = Begin[m + 1] + r
    /\ OnScreen(buf, m)
    /\ r > 0 => /\ m < Len(entered) /\ r < Len(Escape(entered[m + 1]))
                /\ \A i \in 1..r : buf[Begin[m + 1] + i] = Escape(entered[m + 1])[i]

ShowInv ==
    /\ entered \in Seq(Chars) /\ Len(entered) <= MaxText
    /\ phase \in {"post", "stored"} => pass = "escape"
    /\ phase = "shown" => pass = "breaks"
    /\ pass = "escape" /\ phase \in {"post", "count", "write"} => body = entered
    /\ pass = "escape" /\ phase = "write" => Len(buf) = Filed[at + 1] /\ InFile(buf, at)
    /\ phase = "stored" \/ (pass = "breaks" /\ phase \in {"count", "write"}) =>
           Len(body) = Filed[Len(entered) + 1] /\ InFile(body, Len(entered))
    /\ pass = "breaks" /\ phase = "write" => \E m \in 0..Len(entered), r \in Nat : WrittenTo(m, r)
    /\ phase = "shown" => Len(body) = Begin[Len(entered) + 1] /\ OnScreen(body, Len(entered))

\* Entities have no line end in them.
LEMMA EscapeIs ==
    ASSUME NEW c
    PROVE  /\ Len(Escape(c)) \in Nat \ {0} /\ Len(OnPage(c)) \in Nat \ {0}
           /\ c # "\n" => OnPage(c) = Escape(c) /\ \A i \in 1..Len(Escape(c)) : Escape(c)[i] # "\n"
           /\ c = "\n" => Escape(c) = <<c>> /\ OnPage(c) = <<"<", "b", "r", ">">>
           /\ c \notin {"\"", "'", "&", "<", ">"} => Escape(c) = <<c>>
<1>1. CASE c \in {"\"", "'", "&", "<", ">"}
    <2>1. \E d, e : d # "\n" /\ e # "\n" /\ Escape(c) = <<"&", "#", d, e, ";">>
        BY <1>1 DEF Escape
    <2>2. \E c1, c2, c3, c4, c5 : /\ c1 # "\n" /\ c2 # "\n" /\ c3 # "\n" /\ c4 # "\n" /\ c5 # "\n"
                                  /\ Escape(c) = <<c1, c2, c3, c4, c5>>
        <3>1. "&" # "\n" /\ "#" # "\n" /\ ";" # "\n"
            OBVIOUS
        <3>. QED
            BY <2>1, <3>1, Zenon
    <2>3. PICK c1, c2, c3, c4, c5 : /\ c1 # "\n" /\ c2 # "\n" /\ c3 # "\n" /\ c4 # "\n" /\ c5 # "\n"
                                    /\ Escape(c) = <<c1, c2, c3, c4, c5>>
        BY <2>2
    <2>4. c # "\n" /\ OnPage(c) = Escape(c)
        BY <1>1 DEF OnPage
    <2>5. /\ Len(Escape(c)) = 5 /\ Escape(c)[1] = c1 /\ Escape(c)[2] = c2
          /\ Escape(c)[3] = c3 /\ Escape(c)[4] = c4 /\ Escape(c)[5] = c5
        BY <2>3
    <2>6. ASSUME NEW i \in 1..Len(Escape(c)) PROVE Escape(c)[i] # "\n"
        <3>1. i = 1 \/ i = 2 \/ i = 3 \/ i = 4 \/ i = 5
            BY <2>5
        <3>. QED
            BY <2>3, <2>5, <3>1
    <2>7. Len(Escape(c)) \in Nat \ {0} /\ Len(OnPage(c)) \in Nat \ {0}
        BY <2>4, <2>5
    <2>. QED
        BY <1>1, <2>4, <2>6, <2>7
<1>2. CASE c \notin {"\"", "'", "&", "<", ">"}
    <2>1. Escape(c) = <<c>>
        BY <1>2 DEF Escape
    <2>2. Len(<<c>>) = 1 /\ <<c>>[1] = c /\ Len(<<"<", "b", "r", ">">>) = 4
        OBVIOUS
    <2>3. CASE c = "\n"
        <3>1. OnPage(c) = <<"<", "b", "r", ">">>
            BY <2>3 DEF OnPage
        <3>. QED
            BY <2>1, <2>2, <2>3, <3>1
    <2>4. CASE c # "\n"
        <3>1. OnPage(c) = Escape(c)
            BY <2>4 DEF OnPage
        <3>. QED
            BY <2>1, <2>2, <2>4, <3>1
    <2>. QED
        BY <2>3, <2>4
<1>. QED
    BY <1>1, <1>2

\* What stands for a character on the page is a text.
LEMMA PageSeq ==
    ASSUME NEW c
    PROVE  \E S : OnPage(c) \in Seq(S)
<1>1. \E c1, c2, c3, c4, c5 : \/ OnPage(c) = <<c1>> \/ OnPage(c) = <<c1, c2, c3, c4>>
                              \/ OnPage(c) = <<c1, c2, c3, c4, c5>>
    BY DEF OnPage, Escape
<1>2. PICK c1, c2, c3, c4, c5 : \/ OnPage(c) = <<c1>> \/ OnPage(c) = <<c1, c2, c3, c4>>
                                \/ OnPage(c) = <<c1, c2, c3, c4, c5>>
    BY <1>1
<1>3. OnPage(c) \in Seq({c1, c2, c3, c4, c5})
    <2>1. CASE OnPage(c) = <<c1>>
        BY <2>1
    <2>2. CASE OnPage(c) = <<c1, c2, c3, c4>>
        BY <2>2
    <2>3. CASE OnPage(c) = <<c1, c2, c3, c4, c5>>
        BY <2>3
    <2>. QED
        BY <1>2, <2>1, <2>2, <2>3
<1>. QED
    BY <1>3

LEMMA PlacesExist ==
    ASSUME NEW l \in [1..MaxText -> Nat]
    PROVE  \E f : Places(l, f)
<1>. DEFINE more == [k \in 1..MaxText |-> [x \in Nat |-> x + l[k]]]
<1>1. Steps(MaxText, Nat, more)
    BY DEF Steps
<1>2. PICK g : Stepwise(MaxText, Nat, 0, more, g)
    <2>. HIDE DEF more
    <2>. QED
        BY <1>1, PostTextAssumption, StepwiseExists
<1>3. /\ g \in [0..MaxText -> Nat] /\ g[0] = 0
      /\ \A k \in 1..MaxText : g[k] = g[k - 1] + l[k]
    <2>1. \A k \in 1..MaxText : g[k - 1] \in Nat
        BY <1>2, PostTextAssumption DEF Stepwise
    <2>. QED
        BY <1>2, <2>1 DEF Stepwise
<1>. DEFINE f == [n \in 1..(MaxText + 1) |-> g[n - 1]]
<1>4. f \in [1..(MaxText + 1) -> Nat] /\ f[1] = 0
    BY <1>3, PostTextAssumption
<1>5. ASSUME NEW n \in 1..MaxText PROVE f[n + 1] = f[n] + l[n]
    BY <1>3, PostTextAssumption
<1>. QED
    BY <1>4, <1>5 DEF Places

\* Places do not come before earlier ones.
LEMMA PlacesRise ==
    ASSUME NEW l \in [1..MaxText -> Nat], NEW f, Places(l, f),
           NEW a \in 1..(MaxText + 1), NEW b \in 1..(MaxText + 1), a <= b
    PROVE  f[a] <= f[b]
<1>. DEFINE P == {k \in Nat : k <= b - a => f[a] <= f[a + k]}
<1>1. 0 \in P
    BY DEF Places
<1>2. ASSUME NEW k \in 0..(b - a), k \in P, k < b - a PROVE k + 1 \in P
    <2>1. a + k \in 1..MaxText /\ f[a] <= f[a + k] /\ a + (k + 1) = (a + k) + 1
        BY <1>2, PostTextAssumption
    <2>2. f[(a + k) + 1] = f[a + k] + l[a + k]
        BY <2>1 DEF Places
    <2>3. f[a] \in Nat /\ f[a + k] \in Nat /\ l[a + k] \in Nat
        BY <2>1, PostTextAssumption DEF Places
    <2>4. f[a] <= f[a + (k + 1)]
        BY <2>1, <2>2, <2>3
    <2>. QED
        BY <2>4
<1>3. 0..(b - a) \subseteq P
    <2>. HIDE DEF P
    <2>. QED
        BY <1>1, <1>2, UpTo
<1>4. b - a \in 0..(b - a) /\ a + (b - a) = b
    OBVIOUS
<1>. QED
    BY <1>3, <1>4

LEMMA LensTypes == FileLens \in [1..MaxText -> Nat] /\ PageLens \in [1..MaxText -> Nat]
    BY EscapeIs DEF FileLens, PageLens

LEMMA FiledPlaces == Places(FileLens, Filed)
    BY LensTypes, PlacesExist DEF Filed

LEMMA BeginPlaces == Places(PageLens, Begin)
<1>. DEFINE Body(f) == [n \in 1..(MaxText + 1) |->
                           IF n = 1 THEN 0 ELSE f[n - 1] + Len(OnPage(entered[n - 1]))]
<1>1. PICK f : Places(PageLens, f)
    BY LensTypes, PlacesExist
<1>2. f = Body(f)
    <2>1. ASSUME NEW n \in 1..(MaxText + 1)
          PROVE  f[n] = IF n = 1 THEN 0 ELSE f[n - 1] + Len(OnPage(entered[n - 1]))
        <3>1. CASE n = 1
            BY <1>1, <3>1 DEF Places
        <3>2. CASE n # 1
            <4>1. n - 1 \in 1..MaxText /\ (n - 1) + 1 = n
                BY <3>2, PostTextAssumption
            <4>2. f[(n - 1) + 1] = f[n - 1] + PageLens[n - 1]
                BY <1>1, <4>1 DEF Places
            <4>3. PageLens[n - 1] = Len(OnPage(entered[n - 1]))
                BY <4>1 DEF PageLens
            <4>. QED
                BY <3>2, <4>1, <4>2, <4>3
        <3>. QED
            BY <3>1, <3>2
    <2>2. f \in [1..(MaxText + 1) -> Nat]
        BY <1>1 DEF Places
    <2>. QED
        BY <2>1, <2>2
<1>3. Begin = Body(Begin)
    <2>1. Begin = CHOOSE g : g = Body(g)
        BY DEF Begin
    <2>. HIDE DEF Body
    <2>. QED
        BY <1>2, <2>1
<1>4. Begin[1] = 0
    BY <1>3, PostTextAssumption
<1>5. ASSUME NEW n \in 1..MaxText PROVE Begin[n + 1] = Begin[n] + PageLens[n]
    <2>1. n + 1 \in 1..(MaxText + 1) /\ n + 1 # 1 /\ (n + 1) - 1 = n
        BY PostTextAssumption
    <2>2. Body(Begin)[n + 1] = Begin[n] + Len(OnPage(entered[n]))
        BY <2>1
    <2>3. PageLens[n] = Len(OnPage(entered[n]))
        BY DEF PageLens
    <2>. HIDE DEF Body
    <2>. QED
        BY <1>3, <2>2, <2>3
<1>6. \A n \in 1..(MaxText + 1) : Begin[n] \in Nat
    <2>. DEFINE P == {k \in Nat : k <= MaxText => Begin[k + 1] \in Nat}
    <2>1. 0 \in P
        BY <1>4
    <2>2. ASSUME NEW k \in 0..MaxText, k \in P, k < MaxText PROVE k + 1 \in P
        <3>1. k + 1 \in 1..MaxText
            BY <2>2, PostTextAssumption
        <3>2. Begin[(k + 1) + 1] = Begin[k + 1] + PageLens[k + 1] /\ PageLens[k + 1] \in Nat
            BY <1>5, <3>1, LensTypes
        <3>. QED
            BY <2>2, <3>1, <3>2
    <2>3. 0..MaxText \subseteq P
        <3>. HIDE DEF P
        <3>. QED
            BY <2>1, <2>2, UpTo, PostTextAssumption
    <2>4. ASSUME NEW n \in 1..(MaxText + 1) PROVE Begin[n] \in Nat
        <3>1. n - 1 \in 0..MaxText /\ (n - 1) + 1 = n
            BY PostTextAssumption
        <3>. QED
            BY <2>3, <3>1
    <2>. QED
        BY <2>4
<1>7. Begin \in [1..(MaxText + 1) -> Nat]
    <2>1. Begin = [n \in 1..(MaxText + 1) |-> Begin[n]]
        BY <1>3
    <2>. QED
        BY <1>6, <2>1
<1>. QED
    BY <1>4, <1>5, <1>7 DEF Places


---------------------------------------------------------------------------
\* What stands in a text stays there when something is put behind it.
LEMMA BehindIt ==
    ASSUME NEW s \in Seq(Symbols), NEW t \in Seq(Symbols)
    PROVE  /\ s \o t \in Seq(Symbols) /\ Len(s \o t) = Len(s) + Len(t)
           /\ Holds(s \o t, Len(s), t)
           /\ \A b \in Nat : \A w : Len(w) \in Nat /\ b + Len(w) <= Len(s) /\ Holds(s, b, w)
                                        => Holds(s \o t, b, w)
<1>1. s \o t \in Seq(Symbols) /\ Len(s \o t) = Len(s) + Len(t)
    OBVIOUS
<1>2. Holds(s \o t, Len(s), t)
    BY DEF Holds
<1>3. ASSUME NEW b \in Nat, NEW w, Len(w) \in Nat, b + Len(w) <= Len(s), Holds(s, b, w)
      PROVE  Holds(s \o t, b, w)
    <2>1. ASSUME NEW i \in 1..Len(w) PROVE (s \o t)[b + i] = w[i]
        <3>1. b + i \in 1..Len(s)
            BY <1>3
        <3>2. (s \o t)[b + i] = s[b + i]
            BY <3>1
        <3>. QED
            BY <1>3, <3>2 DEF Holds
    <2>. QED
        BY <2>1 DEF Holds
<1>. QED
    BY <1>1, <1>2, <1>3

\* Where characters begin and end.
LEMMA FiledEnds ==
    ASSUME Len(entered) \in Nat, Len(entered) <= MaxText
    PROVE  /\ Filed[1] = 0 /\ \A n \in 1..(Len(entered) + 1) : Filed[n] \in Nat
           /\ \A n \in 1..Len(entered) : Filed[n + 1] = Filed[n] + Len(Escape(entered[n]))
           /\ \A n, k \in 1..(Len(entered) + 1) : n <= k => Filed[n] <= Filed[k]
<1>1. Places(FileLens, Filed) /\ FileLens \in [1..MaxText -> Nat]
    BY FiledPlaces, LensTypes
<1>2. \A n \in 1..Len(entered) : n \in 1..MaxText /\ FileLens[n] = Len(Escape(entered[n]))
    BY PostTextAssumption DEF FileLens
<1>3. \A n \in 1..(Len(entered) + 1) : n \in 1..(MaxText + 1)
    BY PostTextAssumption
<1>4. \A n, k \in 1..(Len(entered) + 1) : n <= k => Filed[n] <= Filed[k]
    BY <1>1, <1>3, PlacesRise
<1>. QED
    BY <1>1, <1>2, <1>3, <1>4 DEF Places

LEMMA BeginEnds ==
    ASSUME Len(entered) \in Nat, Len(entered) <= MaxText
    PROVE  /\ Begin[1] = 0 /\ \A n \in 1..(Len(entered) + 1) : Begin[n] \in Nat
           /\ \A n \in 1..Len(entered) : Begin[n + 1] = Begin[n] + Len(OnPage(entered[n]))
           /\ \A n, k \in 1..(Len(entered) + 1) : n <= k => Begin[n] <= Begin[k]
<1>1. Places(PageLens, Begin) /\ PageLens \in [1..MaxText -> Nat]
    BY BeginPlaces, LensTypes
<1>2. \A n \in 1..Len(entered) : n \in 1..MaxText /\ PageLens[n] = Len(OnPage(entered[n]))
    BY PostTextAssumption DEF PageLens
<1>3. \A n \in 1..(Len(entered) + 1) : n \in 1..(MaxText + 1)
    BY PostTextAssumption
<1>4. \A n, k \in 1..(Len(entered) + 1) : n <= k => Begin[n] <= Begin[k]
    BY <1>1, <1>3, PlacesRise
<1>. QED
    BY <1>1, <1>2, <1>3, <1>4 DEF Places

\* The first pass has nothing to replace: the text is already what is to be stored.
LEMMA NothingToEscape ==
    ASSUME Inv, ShowInv, pass = "escape", phase = "count", at = size, counter = 0
    PROVE  Len(body) = Filed[Len(entered) + 1] /\ InFile(body, Len(entered))
<1>. DEFINE L == Len(entered)
<1>1. body = entered /\ L \in Nat /\ L <= MaxText /\ size = L
    BY DEF Inv, TypeInv, ShowInv
<1>2. Marked(size) = {}
    <2>1. IsFiniteSet(Marked(size)) /\ Cardinality(Marked(size)) = 0
        BY <1>1, MarkedCounts DEF Inv, LoopInv
    <2>. QED
        BY <2>1, FS_EmptySet
<1>3. ASSUME NEW n \in 1..L PROVE Escape(entered[n]) = <<entered[n]>>
    <2>1. entered[n] \notin Counted
        BY <1>1, <1>2 DEF Marked
    <2>2. entered[n] \notin {"\"", "'", "&", "<", ">"}
        BY <2>1 DEF Counted
    <2>. QED
        BY <2>2, EscapeIs
<1>4. \A k \in 0..L : Filed[k + 1] = k
    <2>. DEFINE P == {k \in Nat : k <= L => Filed[k + 1] = k}
    <2>1. 0 \in P
        BY <1>1, FiledEnds
    <2>2. ASSUME NEW k \in 0..L, k \in P, k < L PROVE k + 1 \in P
        <3>1. k + 1 \in 1..L /\ Filed[k + 1] = k
            BY <1>1, <2>2
        <3>2. Filed[(k + 1) + 1] = Filed[k + 1] + Len(Escape(entered[k + 1]))
            BY <1>1, <3>1, FiledEnds
        <3>3. Escape(entered[k + 1]) = <<entered[k + 1]>>
            BY <1>3, <3>1
        <3>4. Len(Escape(entered[k + 1])) = 1
            BY <3>3
        <3>. QED
            BY <3>1, <3>2, <3>4
    <2>3. 0..L \subseteq P
        <3>. HIDE DEF P, L
        <3>. QED
            BY <1>1, <2>1, <2>2, UpTo
    <2>. QED
        BY <2>3
<1>5. ASSUME NEW n \in 1..L PROVE Holds(body, Filed[n], Escape(entered[n]))
    <2>1. n - 1 \in 0..L /\ (n - 1) + 1 = n
        BY <1>1
    <2>2. Filed[n] = n - 1
        BY <1>4, <2>1
    <2>3. \A i \in 1..Len(<<entered[n]>>) : body[(n - 1) + i] = <<entered[n]>>[i]
        BY <1>1
    <2>. QED
        BY <1>3, <2>2, <2>3 DEF Holds
<1>6. Filed[L + 1] = L
    BY <1>1, <1>4
<1>. QED
    BY <1>1, <1>5, <1>6 DEF InFile

\* The second pass has nothing to replace: what is stored is what is to be shown.
LEMMA NothingToBreak ==
    ASSUME Inv, ShowInv, pass = "breaks", phase = "count", at = size, counter = 0
    PROVE  Len(body) = Begin[Len(entered) + 1] /\ OnScreen(body, Len(entered))
<1>. DEFINE L == Len(entered)
<1>1. L \in Nat /\ L <= MaxText /\ size = Len(body) /\ size \in Nat
    BY DEF Inv, TypeInv, ShowInv
<1>2. Len(body) = Filed[L + 1] /\ InFile(body, L)
    BY DEF ShowInv
<1>3. Marked(size) = {}
    <2>1. IsFiniteSet(Marked(size)) /\ Cardinality(Marked(size)) = 0
        BY <1>1, MarkedCounts DEF Inv, LoopInv
    <2>. QED
        BY <2>1, FS_EmptySet
<1>4. ASSUME NEW n \in 1..L PROVE OnPage(entered[n]) = Escape(entered[n])
    <2>1. CASE entered[n] = "\n"
        <3>1. Escape(entered[n]) = <<"\n">>
            BY <2>1, EscapeIs
        <3>2. Holds(body, Filed[n], <<"\n">>)
            BY <1>2, <3>1 DEF InFile
        <3>3. body[Filed[n] + 1] = "\n"
            BY <3>2 DEF Holds
        <3>4. /\ Filed[n] \in Nat /\ Filed[n + 1] = Filed[n] + Len(Escape(entered[n]))
              /\ Filed[n + 1] <= Filed[L + 1]
            <4>1. n \in 1..(L + 1) /\ n + 1 \in 1..(L + 1) /\ L + 1 \in 1..(L + 1) /\ n + 1 <= L + 1
                BY <1>1
            <4>. QED
                BY <1>1, <4>1, FiledEnds
        <3>5. Filed[n] + 1 \in 1..size
            BY <1>1, <1>2, <3>1, <3>4
        <3>6. Filed[n] + 1 \in Marked(size)
            BY <3>3, <3>5 DEF Marked, Counted
        <3>. QED
            BY <1>3, <3>6
    <2>. QED
        BY <2>1, EscapeIs
<1>5. \A k \in 0..L : Begin[k + 1] = Filed[k + 1]
    <2>. DEFINE P == {k \in Nat : k <= L => Begin[k + 1] = Filed[k + 1]}
    <2>1. 0 \in P
        BY <1>1, FiledEnds, BeginEnds
    <2>2. ASSUME NEW k \in 0..L, k \in P, k < L PROVE k + 1 \in P
        <3>1. k + 1 \in 1..L /\ Begin[k + 1] = Filed[k + 1]
            BY <1>1, <2>2
        <3>2. /\ Filed[(k + 1) + 1] = Filed[k + 1] + Len(Escape(entered[k + 1]))
              /\ Begin[(k + 1) + 1] = Begin[k + 1] + Len(OnPage(entered[k + 1]))
            BY <1>1, <3>1, FiledEnds, BeginEnds
        <3>. QED
            BY <1>4, <3>1, <3>2
    <2>3. 0..L \subseteq P
        <3>. HIDE DEF P, L
        <3>. QED
            BY <1>1, <2>1, <2>2, UpTo
    <2>. QED
        BY <2>3
<1>6. ASSUME NEW n \in 1..L PROVE Holds(body, Begin[n], OnPage(entered[n]))
    <2>1. n - 1 \in 0..L /\ (n - 1) + 1 = n
        BY <1>1
    <2>2. Begin[n] = Filed[n]
        BY <1>5, <2>1
    <2>. QED
        BY <1>2, <1>4, <2>2 DEF InFile
<1>7. Begin[L + 1] = Filed[L + 1]
    BY <1>1, <1>5
<1>. QED
    BY <1>2, <1>6, <1>7 DEF OnScreen


\* One turn of the second loop in the first pass.
LEMMA EntityWritten ==
    ASSUME Inv, ShowInv, pass = "escape", Write
    PROVE  Len(buf') = Filed[at + 2] /\ InFile(buf', at + 1)
<1>. DEFINE c == entered[at + 1]
<1>1. /\ body = entered /\ Len(buf) = Filed[at + 1] /\ InFile(buf, at) /\ at \in Nat
      /\ Len(entered) \in Nat /\ Len(entered) <= MaxText /\ at + 1 \in 1..Len(entered)
      /\ buf \in Seq(Symbols) /\ buf' = buf \o Written(c)
    <2>1. phase = "write" /\ at < size /\ buf' = buf \o Written(body[at + 1])
        BY DEF Write
    <2>2. at \in 0..size /\ size = Len(body) /\ body \in Seq(Symbols) /\ buf \in Seq(Symbols)
        BY DEF Inv, TypeInv
    <2>3. /\ body = entered /\ Len(buf) = Filed[at + 1] /\ InFile(buf, at)
          /\ entered \in Seq(Chars) /\ Len(entered) <= MaxText
        BY <2>1 DEF ShowInv
    <2>. QED
        BY <2>1, <2>2, <2>3
<1>2. Written(c) = Escape(c)
    BY DEF Written
<1>3. Escape(c) \in Seq(Symbols)
    <2>1. c \in Symbols
        BY <1>1 DEF Inv, TypeInv
    <2>. QED
        BY <1>2, <2>1, WrittenLength
<1>4. Filed[(at + 1) + 1] = Filed[at + 1] + Len(Escape(c))
    BY <1>1, FiledEnds
<1>5. /\ Len(buf') = Len(buf) + Len(Escape(c)) /\ Holds(buf', Len(buf), Escape(c))
      /\ \A b \in Nat : \A w : Len(w) \in Nat /\ b + Len(w) <= Len(buf) /\ Holds(buf, b, w)
                                   => Holds(buf', b, w)
    BY <1>1, <1>2, <1>3, BehindIt
<1>6. ASSUME NEW n \in 1..(at + 1) PROVE Holds(buf', Filed[n], Escape(entered[n]))
    <2>1. CASE n = at + 1
        BY <1>1, <1>5, <2>1
    <2>2. CASE n # at + 1
        <3>1. /\ n \in 1..at /\ n \in 1..Len(entered) /\ n + 1 <= at + 1
              /\ n \in 1..(Len(entered) + 1) /\ n + 1 \in 1..(Len(entered) + 1)
              /\ at + 1 \in 1..(Len(entered) + 1)
            BY <1>1, <2>2
        <3>2. /\ Filed[n + 1] = Filed[n] + Len(Escape(entered[n])) /\ Filed[n] \in Nat
              /\ Filed[n + 1] <= Filed[at + 1]
            BY <1>1, <3>1, FiledEnds
        <3>3. Holds(buf, Filed[n], Escape(entered[n])) /\ Len(Escape(entered[n])) \in Nat
            BY <1>1, <3>1, EscapeIs DEF InFile
        <3>4. Filed[n] + Len(Escape(entered[n])) <= Len(buf)
            BY <1>1, <3>2
        <3>. QED
            BY <1>5, <3>2, <3>3, <3>4
    <2>. QED
        BY <2>1, <2>2
<1>7. (at + 1) + 1 = at + 2
    BY <1>1
<1>. QED
    BY <1>1, <1>4, <1>5, <1>6, <1>7 DEF InFile

\* How far the second pass is.
LEMMA WrittenSofar ==
    ASSUME Inv, ShowInv, pass = "breaks", phase = "write",
           NEW m \in 0..Len(entered), NEW r \in Nat, WrittenTo(m, r)
    PROVE  /\ at = size => m = Len(entered) /\ r = 0
           /\ at < size => /\ m < Len(entered) /\ r < Len(Escape(entered[m + 1]))
                           /\ body[at + 1] = Escape(entered[m + 1])[r + 1]
<1>. DEFINE L == Len(entered)
<1>1. /\ L \in Nat /\ L <= MaxText /\ size = Len(body) /\ size = Filed[L + 1] /\ InFile(body, L)
      /\ at = Filed[m + 1] + r /\ (r > 0 => m < L /\ r < Len(Escape(entered[m + 1])))
    BY DEF Inv, TypeInv, ShowInv, WrittenTo
<1>2. ASSUME m < L
      PROVE  /\ m + 1 \in 1..L /\ r < Len(Escape(entered[m + 1])) /\ Filed[m + 1] \in Nat
             /\ Len(Escape(entered[m + 1])) \in Nat
             /\ Filed[m + 1] + Len(Escape(entered[m + 1])) <= size
    <2>1. /\ m + 1 \in 1..L /\ m + 1 \in 1..(L + 1) /\ (m + 1) + 1 \in 1..(L + 1)
          /\ L + 1 \in 1..(L + 1) /\ (m + 1) + 1 <= L + 1
        BY <1>1, <1>2
    <2>2. Len(Escape(entered[m + 1])) \in Nat \ {0}
        BY EscapeIs
    <2>3. /\ Filed[(m + 1) + 1] = Filed[m + 1] + Len(Escape(entered[m + 1])) /\ Filed[m + 1] \in Nat
          /\ Filed[(m + 1) + 1] <= Filed[L + 1]
        BY <1>1, <2>1, FiledEnds
    <2>4. r < Len(Escape(entered[m + 1]))
        BY <1>1, <2>2
    <2>. QED
        BY <1>1, <2>1, <2>2, <2>3, <2>4
<1>3. ASSUME at = size PROVE m = L /\ r = 0
    <2>1. ~ (m < L)
        BY <1>1, <1>2, <1>3
    <2>. QED
        BY <1>1, <2>1
<1>4. ASSUME at < size
      PROVE  /\ m < L /\ r < Len(Escape(entered[m + 1]))
             /\ body[at + 1] = Escape(entered[m + 1])[r + 1]
    <2>1. m < L
        <3>1. size \in Nat /\ m <= L
            BY DEF Inv, TypeInv
        <3>2. ASSUME m = L PROVE FALSE
            <4>1. at = size + r
                BY <1>1, <3>2
            <4>. QED
                BY <1>4, <3>1, <4>1
        <3>. QED
            BY <1>1, <3>1, <3>2
    <2>2. Holds(body, Filed[m + 1], Escape(entered[m + 1])) /\ r + 1 \in 1..Len(Escape(entered[m + 1]))
        BY <1>1, <1>2, <2>1 DEF InFile
    <2>3. body[Filed[m + 1] + (r + 1)] = Escape(entered[m + 1])[r + 1]
        BY <2>2 DEF Holds
    <2>4. Filed[m + 1] + (r + 1) = at + 1
        BY <1>1, <1>2, <2>1
    <2>. QED
        BY <1>2, <2>1, <2>3, <2>4
<1>. QED
    BY <1>3, <1>4


\* One turn of the second loop in the second pass: an entity's symbol is copied, a line
\* end becomes a break.
LEMMA BreakWritten ==
    ASSUME Inv, ShowInv, pass = "breaks", Write,
           NEW m \in 0..Len(entered), NEW r \in Nat, WrittenTo(m, r)
    PROVE  \/ /\ m + 1 \in 0..Len(entered) /\ at + 1 = Filed[(m + 1) + 1] + 0
              /\ Len(buf') = Begin[(m + 1) + 1] + 0 /\ OnScreen(buf', m + 1)
           \/ /\ at + 1 = Filed[m + 1] + (r + 1) /\ Len(buf') = Begin[m + 1] + (r + 1)
              /\ OnScreen(buf', m)
              /\ m < Len(entered) /\ r + 1 < Len(Escape(entered[m + 1]))
              /\ \A i \in 1..(r + 1) : buf'[Begin[m + 1] + i] = Escape(entered[m + 1])[i]
<1>. DEFINE L == Len(entered)
            c == entered[m + 1]
            e == Escape(entered[m + 1])
            p == OnPage(entered[m + 1])
            x == body[at + 1]
<1>1. phase = "write" /\ at < size /\ at \in Nat /\ buf' = buf \o Written(x)
    BY DEF Write, Inv, TypeInv
<1>2. /\ L \in Nat /\ L <= MaxText /\ buf \in Seq(Symbols) /\ size = Len(body) /\ body \in Seq(Symbols)
    BY DEF Inv, TypeInv, ShowInv
<1>3. m < L /\ r < Len(e) /\ x = e[r + 1]
    BY <1>1, WrittenSofar
<1>4. Len(e) \in Nat \ {0} /\ Len(p) \in Nat \ {0}
    BY EscapeIs
<1>5. /\ m + 1 \in 1..L /\ (m + 1) + 1 \in 1..(L + 1)
      /\ Filed[(m + 1) + 1] = Filed[m + 1] + Len(e) /\ Filed[m + 1] \in Nat
      /\ Begin[(m + 1) + 1] = Begin[m + 1] + Len(p) /\ Begin[m + 1] \in Nat
    BY <1>2, <1>3, FiledEnds, BeginEnds
<1>6. /\ at = Filed[m + 1] + r /\ Len(buf) = Begin[m + 1] + r /\ OnScreen(buf, m)
      /\ r > 0 => \A i \in 1..r : buf[Begin[m + 1] + i] = e[i]
    BY DEF WrittenTo
<1>7. Written(x) \in Seq(Symbols)
    <2>1. x \in Symbols
        BY <1>1, <1>2
    <2>. QED
        BY <2>1, WrittenLength
<1>8. /\ Len(buf') = Len(buf) + Len(Written(x)) /\ Holds(buf', Len(buf), Written(x))
      /\ \A b \in Nat : \A w : Len(w) \in Nat /\ b + Len(w) <= Len(buf) /\ Holds(buf, b, w)
                                   => Holds(buf', b, w)
    BY <1>1, <1>2, <1>7, BehindIt
<1>9. ASSUME NEW n \in 1..m PROVE Holds(buf', Begin[n], OnPage(entered[n]))
    <2>1. /\ n \in 1..L /\ n + 1 <= m + 1 /\ n \in 1..(L + 1) /\ n + 1 \in 1..(L + 1)
          /\ m + 1 \in 1..(L + 1)
        BY <1>2, <1>3
    <2>2. /\ Begin[n + 1] = Begin[n] + Len(OnPage(entered[n])) /\ Begin[n] \in Nat
          /\ Begin[n + 1] <= Begin[m + 1]
        BY <1>2, <2>1, BeginEnds
    <2>3. Holds(buf, Begin[n], OnPage(entered[n])) /\ Len(OnPage(entered[n])) \in Nat
        BY <1>6, EscapeIs DEF OnScreen
    <2>4. Begin[n] + Len(OnPage(entered[n])) <= Begin[m + 1] /\ Begin[m + 1] <= Begin[m + 1] + r
        BY <1>5, <2>2, <2>3
    <2>5. Begin[n] + Len(OnPage(entered[n])) <= Len(buf)
        <3>1. Len(buf) = Begin[m + 1] + r
            BY <1>6
        <3>2. Begin[n] \in Nat /\ Len(OnPage(entered[n])) \in Nat /\ Begin[m + 1] \in Nat
            BY <1>5, <2>2, <2>3
        <3>. QED
            BY <2>4, <3>1, <3>2
    <2>. QED
        BY <1>8, <2>2, <2>3, <2>5
<1>10. CASE c = "\n"
    <2>1. e = <<c>> /\ p = <<"<", "b", "r", ">">>
        BY <1>10, EscapeIs
    <2>2. r = 0 /\ x = "\n" /\ Len(e) = 1
        BY <1>3, <1>10, <2>1
    <2>3. Written(x) = p
        BY <2>1, <2>2 DEF Written
    <2>4. ASSUME NEW n \in 1..(m + 1) PROVE Holds(buf', Begin[n], OnPage(entered[n]))
        <3>1. CASE n = m + 1
            BY <1>5, <1>6, <1>8, <2>2, <2>3, <3>1
        <3>2. CASE n # m + 1
            BY <1>9, <3>2
        <3>. QED
            BY <3>1, <3>2
    <2>5. OnScreen(buf', m + 1)
        BY <2>4 DEF OnScreen
    <2>6. at + 1 = Filed[(m + 1) + 1] + 0 /\ Len(buf') = Begin[(m + 1) + 1] + 0
        BY <1>4, <1>5, <1>6, <1>8, <2>2, <2>3
    <2>. QED
        BY <1>2, <1>3, <2>5, <2>6
<1>11. CASE c # "\n"
    <2>1. p = e /\ x # "\n"
        <3>1. r + 1 \in 1..Len(e)
            BY <1>3, <1>4
        <3>. QED
            BY <1>3, <1>11, <3>1, EscapeIs
    <2>2. Written(x) = <<x>>
        BY <2>1 DEF Written
    <2>3. Len(buf') = Begin[m + 1] + (r + 1) /\ buf'[Begin[m + 1] + (r + 1)] = x
        <3>1. Len(<<x>>) = 1 /\ <<x>>[1] = x
            OBVIOUS
        <3>2. buf'[Len(buf) + 1] = x
            BY <1>8, <2>2, <3>1 DEF Holds
        <3>3. Len(buf') = Len(buf) + 1
            BY <1>8, <2>2, <3>1
        <3>4. Len(buf) + 1 = Begin[m + 1] + (r + 1)
            <4>1. Len(buf) = Begin[m + 1] + r /\ Begin[m + 1] \in Nat
                BY <1>5, <1>6
            <4>. QED
                BY <4>1
        <3>. QED
            BY <3>2, <3>3, <3>4
    <2>4. ASSUME NEW i \in 1..(r + 1) PROVE buf'[Begin[m + 1] + i] = e[i]
        <3>1. CASE i = r + 1
            BY <1>3, <2>3, <3>1
        <3>2. CASE i # r + 1
            <4>1. i \in 1..r /\ r > 0
                BY <3>2
            <4>2. buf[Begin[m + 1] + i] = e[i]
                BY <1>6, <4>1
            <4>4. Begin[m + 1] + i \in 1..Len(buf)
                <5>1. Len(buf) = Begin[m + 1] + r /\ Begin[m + 1] \in Nat
                    BY <1>5, <1>6
                <5>. QED
                    BY <4>1, <5>1
            <4>3. buf'[Begin[m + 1] + i] = buf[Begin[m + 1] + i]
                BY <1>1, <1>2, <1>7, <4>4
            <4>. QED
                BY <4>2, <4>3
        <3>. QED
            BY <3>1, <3>2
    <2>5. at + 1 = Filed[m + 1] + (r + 1) /\ OnScreen(buf', m)
        <3>1. at = Filed[m + 1] + r /\ Filed[m + 1] \in Nat
            BY <1>5, <1>6
        <3>2. at + 1 = Filed[m + 1] + (r + 1)
            BY <3>1
        <3>. QED
            BY <1>9, <3>2 DEF OnScreen
    <2>6. CASE r + 1 < Len(e)
        BY <1>3, <2>3, <2>4, <2>5, <2>6
    <2>7. CASE ~ (r + 1 < Len(e))
        <3>1. r + 1 = Len(e)
            BY <1>3, <1>4, <2>7
        <3>2. Holds(buf', Begin[m + 1], p)
            BY <2>1, <2>4, <3>1 DEF Holds
        <3>3. ASSUME NEW n \in 1..(m + 1) PROVE Holds(buf', Begin[n], OnPage(entered[n]))
            <4>1. CASE n = m + 1
                BY <3>2, <4>1
            <4>2. CASE n # m + 1
                BY <1>9, <4>2
            <4>. QED
                BY <4>1, <4>2
        <3>4. at + 1 = Filed[(m + 1) + 1] + 0 /\ Len(buf') = Begin[(m + 1) + 1] + 0
            <4>1. /\ Filed[(m + 1) + 1] = Filed[m + 1] + Len(e) /\ Filed[m + 1] \in Nat
                  /\ Begin[(m + 1) + 1] = Begin[m + 1] + Len(e) /\ Begin[m + 1] \in Nat
                BY <1>5, <2>1
            <4>. QED
                BY <1>4, <2>3, <2>5, <3>1, <4>1
        <3>5. m + 1 \in 0..L
            BY <1>2, <1>3
        <3>. QED
            BY <3>3, <3>4, <3>5 DEF OnScreen
    <2>. QED
        BY <2>6, <2>7
<1>. QED
    BY <1>10, <1>11

LEMMA ShowInit == PostInit => ShowInv
    BY PostTextAssumption DEF PostInit, Texts, ShowInv

LEMMA ShowNext == Inv /\ ShowInv /\ [PostNext]_postVars => ShowInv'
<1>. SUFFICES ASSUME Inv, ShowInv, [PostNext]_postVars PROVE ShowInv'
    OBVIOUS
<1>0. /\ entered' = entered /\ Filed' = Filed /\ Begin' = Begin
      /\ entered \in Seq(Chars) /\ Len(entered) \in Nat /\ Len(entered) <= MaxText
      /\ body \in Seq(Symbols) /\ size = Len(body) /\ pass \in {"escape", "breaks"}
    <2>1. entered' = entered
        BY DEF PostNext, Post, Count, Keep, Allocate, Write, Replace, Read, postVars
    <2>2. Filed' = Filed /\ Begin' = Begin
        BY <2>1 DEF Filed, Begin, Places, FileLens
    <2>. QED
        BY <2>1, <2>2 DEF ShowInv, Inv, TypeInv
<1>1. CASE Post
    <2>1. phase = "post" /\ UNCHANGED <<entered, pass, body>> /\ phase' \in {"count", "refused"}
        BY <1>1 DEF Post
    <2>2. pass = "escape" /\ body = entered
        BY <2>1 DEF ShowInv
    <2>. QED
        BY <1>0, <2>1, <2>2 DEF ShowInv
<1>2. CASE Count \/ UNCHANGED postVars
    <2>1. UNCHANGED <<pass, phase, body, buf>> /\ (phase = "write" => at' = at)
        BY <1>2 DEF Count, postVars
    <2>2. ASSUME NEW m \in 0..Len(entered), NEW r \in Nat, WrittenTo(m, r), phase = "write"
          PROVE  WrittenTo(m, r)'
        BY <1>0, <2>1, <2>2 DEF WrittenTo, OnScreen
    <2>3. /\ InFile(body, Len(entered)) => InFile(body, Len(entered))'
          /\ OnScreen(body, Len(entered)) => OnScreen(body, Len(entered))'
          /\ phase = "write" /\ InFile(buf, at) => InFile(buf, at)'
        BY <1>0, <2>1 DEF InFile, OnScreen
    <2>. QED
        BY <1>0, <2>1, <2>2, <2>3 DEF ShowInv
<1>3. CASE Keep
    <2>1. CASE pass = "escape"
        <3>1. Len(body) = Filed[Len(entered) + 1] /\ InFile(body, Len(entered))
            BY <1>3, <2>1, NothingToEscape DEF Keep
        <3>. QED
            BY <1>0, <1>3, <2>1, <3>1 DEF Keep, Done, ShowInv, InFile
    <2>2. CASE pass = "breaks"
        <3>1. Len(body) = Begin[Len(entered) + 1] /\ OnScreen(body, Len(entered))
            BY <1>3, <2>2, NothingToBreak DEF Keep
        <3>. QED
            BY <1>0, <1>3, <2>2, <3>1 DEF Keep, Done, ShowInv, OnScreen
    <2>. QED
        BY <1>0, <2>1, <2>2
<1>4. CASE Allocate
    <2>1. Filed[1] = 0 /\ Begin[1] = 0
        BY <1>0, FiledEnds, BeginEnds
    <2>2. WrittenTo(0, 0)' /\ InFile(buf, at)'
        BY <1>0, <1>4, <2>1 DEF Allocate, WrittenTo, OnScreen, InFile
    <2>. QED
        BY <1>0, <1>4, <2>1, <2>2 DEF Allocate, ShowInv, InFile
<1>5. CASE Write
    <2>1. CASE pass = "escape"
        <3>1. Len(buf') = Filed[at + 2] /\ InFile(buf', at + 1) /\ (at + 1) + 1 = at + 2
            BY <1>5, <2>1, EntityWritten DEF Inv, TypeInv
        <3>. QED
            BY <1>0, <1>5, <2>1, <3>1 DEF Write, ShowInv, InFile
    <2>2. CASE pass = "breaks"
        <3>1. PICK m \in 0..Len(entered), r \in Nat : WrittenTo(m, r)
            BY <1>5, <2>2 DEF ShowInv, Write
        <3>2. \E k \in 0..Len(entered), q \in Nat : WrittenTo(k, q)'
            <4>1. CASE /\ m + 1 \in 0..Len(entered) /\ at + 1 = Filed[(m + 1) + 1] + 0
                       /\ Len(buf') = Begin[(m + 1) + 1] + 0 /\ OnScreen(buf', m + 1)
                <5>1. WrittenTo(m + 1, 0)'
                    <6>1. at' = Filed'[(m + 1) + 1] + 0 /\ Len(buf') = Begin'[(m + 1) + 1] + 0
                        BY <1>0, <1>5, <4>1 DEF Write
                    <6>2. OnScreen(buf, m + 1)'
                        BY <1>0, <4>1 DEF OnScreen
                    <6>. QED
                        BY <6>1, <6>2 DEF WrittenTo
                <5>. QED
                    BY <4>1, <5>1
            <4>2. CASE /\ at + 1 = Filed[m + 1] + (r + 1) /\ Len(buf') = Begin[m + 1] + (r + 1)
                       /\ OnScreen(buf', m)
                       /\ m < Len(entered) /\ r + 1 < Len(Escape(entered[m + 1]))
                       /\ \A i \in 1..(r + 1) : buf'[Begin[m + 1] + i] = Escape(entered[m + 1])[i]
                <5>1. WrittenTo(m, r + 1)'
                    BY <1>0, <1>5, <4>2 DEF Write, WrittenTo, OnScreen
                <5>. QED
                    BY <5>1
            <4>. QED
                BY <1>5, <2>2, <3>1, <4>1, <4>2, BreakWritten
        <3>. QED
            BY <1>0, <1>5, <2>2, <3>2 DEF Write, ShowInv, InFile
    <2>. QED
        BY <1>0, <2>1, <2>2
<1>6. CASE Replace
    <2>1. CASE pass = "escape"
        <3>1. Len(buf) = Filed[Len(entered) + 1] /\ InFile(buf, Len(entered))
            BY <1>6, <2>1 DEF Replace, ShowInv, Inv, TypeInv
        <3>. QED
            BY <1>0, <1>6, <2>1, <3>1 DEF Replace, Done, ShowInv, InFile
    <2>2. CASE pass = "breaks"
        <3>1. PICK m \in 0..Len(entered), r \in Nat : WrittenTo(m, r)
            BY <1>6, <2>2 DEF ShowInv, Replace
        <3>2. m = Len(entered) /\ r = 0
            BY <1>6, <2>2, <3>1, WrittenSofar DEF Replace
        <3>3. Len(buf) = Begin[Len(entered) + 1] /\ OnScreen(buf, Len(entered))
            <4>1. Begin[Len(entered) + 1] \in Nat
                BY <1>0, BeginEnds
            <4>. QED
                BY <3>1, <3>2, <4>1 DEF WrittenTo
        <3>. QED
            BY <1>0, <1>6, <2>2, <3>3 DEF Replace, Done, ShowInv, OnScreen
    <2>. QED
        BY <1>0, <2>1, <2>2
<1>7. CASE Read
    BY <1>0, <1>7 DEF Read, ShowInv, InFile
<1>. QED
    BY <1>1, <1>2, <1>3, <1>4, <1>5, <1>6, <1>7 DEF PostNext

LEMMA PartOf ==
    ASSUME NEW S, NEW s \in Seq(S), NEW b \in Nat, NEW k \in Nat, b + k <= Len(s)
    PROVE  /\ SubSeq(s, b + 1, b + k) \in Seq(S) /\ Len(SubSeq(s, b + 1, b + k)) = k
           /\ \A i \in 1..k : SubSeq(s, b + 1, b + k)[i] = s[b + i]
<1>. DEFINE part == [i \in 1..k |-> s[b + i]]
<1>1. SubSeq(s, b + 1, b + k) = part
    OBVIOUS
<1>2. Len(s) \in Nat /\ \A h \in 1..Len(s) : s[h] \in S
    OBVIOUS
<1>3. ASSUME NEW i \in 1..k
      PROVE  s[b + i] \in S
    <2>1. b + i \in 1..Len(s)
        BY <1>2
    <2>. QED
        BY <1>2, <2>1
<1>4. part \in [1..k -> S]
    BY <1>3
<1>5. DOMAIN part = 1..k /\ \A i \in 1..k : part[i] = s[b + i]
    OBVIOUS
<1>. HIDE DEF part
<1>6. part \in Seq(S) /\ Len(part) = k
    BY <1>4, <1>5
<1>. QED
    BY <1>1, <1>5, <1>6

LEMMA ShowsEntered == Inv /\ ShowInv => ShownAsEntered
<1>. SUFFICES ASSUME Inv, ShowInv, phase = "shown"
              PROVE  /\ Len(body) = Begin[Len(entered) + 1]
                     /\ \A n \in DOMAIN entered :
                            SubSeq(body, Begin[n] + 1, Begin[n + 1]) = OnPage(entered[n])
    BY DEF ShownAsEntered
<1>1. /\ entered \in Seq(Chars) /\ Len(entered) \in Nat /\ Len(entered) <= MaxText
      /\ body \in Seq(Symbols) /\ Len(body) = Begin[Len(entered) + 1]
      /\ OnScreen(body, Len(entered))
    BY DEF ShowInv, Inv, TypeInv
<1>2. ASSUME NEW n \in DOMAIN entered
      PROVE  SubSeq(body, Begin[n] + 1, Begin[n + 1]) = OnPage(entered[n])
    <2>. DEFINE w == OnPage(entered[n])
    <2>1. /\ n \in 1..Len(entered) /\ n \in 1..(Len(entered) + 1)
          /\ n + 1 \in 1..(Len(entered) + 1) /\ n + 1 <= Len(entered) + 1
          /\ Len(entered) + 1 \in 1..(Len(entered) + 1)
        BY <1>1
    <2>2. /\ Begin[n] \in Nat /\ Begin[n + 1] = Begin[n] + Len(w)
          /\ Begin[n + 1] <= Begin[Len(entered) + 1]
        BY <1>1, <2>1, BeginEnds
    <2>3. Len(w) \in Nat /\ Holds(body, Begin[n], w)
        BY <1>1, <2>1, EscapeIs DEF OnScreen
    <2>4. \E S : w \in Seq(S)
        BY PageSeq
    <2>5. PICK S : w \in Seq(S)
        BY <2>4
    <2>. HIDE DEF w
    <2>6. /\ SubSeq(body, Begin[n] + 1, Begin[n + 1]) \in Seq(Symbols)
          /\ Len(SubSeq(body, Begin[n] + 1, Begin[n + 1])) = Len(w)
          /\ \A i \in 1..Len(w) : SubSeq(body, Begin[n] + 1, Begin[n + 1])[i] = body[Begin[n] + i]
        <3>1. Begin[n + 1] = Begin[n] + Len(w) /\ Begin[n] + Len(w) <= Len(body)
            BY <1>1, <2>2, <2>3
        <3>. QED
            <4>1. PICK b, k : b = Begin[n] /\ k = Len(w)
                OBVIOUS
            <4>2. b \in Nat /\ k \in Nat /\ b + k <= Len(body) /\ body \in Seq(Symbols)
                BY <1>1, <2>2, <2>3, <3>1, <4>1
            <4>3. /\ SubSeq(body, b + 1, b + k) \in Seq(Symbols) /\ Len(SubSeq(body, b + 1, b + k)) = k
                  /\ \A i \in 1..k : SubSeq(body, b + 1, b + k)[i] = body[b + i]
                BY <4>2, PartOf
            <4>4. b + k = Begin[n + 1]
                BY <3>1, <4>1
            <4>. QED
                BY <4>1, <4>3, <4>4
    <2>7. \A i \in 1..Len(w) : SubSeq(body, Begin[n] + 1, Begin[n + 1])[i] = w[i]
        <3>. SUFFICES ASSUME NEW i \in 1..Len(w)
                      PROVE  SubSeq(body, Begin[n] + 1, Begin[n + 1])[i] = w[i]
            OBVIOUS
        <3>1. body[Begin[n] + i] = w[i]
            BY <2>3 DEF Holds
        <3>2. SubSeq(body, Begin[n] + 1, Begin[n + 1])[i] = body[Begin[n] + i]
            BY <2>6
        <3>. QED
            BY <3>1, <3>2
    <2>. DEFINE u == SubSeq(body, Begin[n] + 1, Begin[n + 1])
    <2>8. u \in Seq(Symbols) /\ Len(u) = Len(w) /\ \A i \in 1..Len(w) : u[i] = w[i]
        BY <2>6, <2>7
    <2>. HIDE DEF u
    <2>9. u = w
        BY <2>5, <2>8
    <2>. QED
        BY <2>9 DEF u, w
<1>. QED
    BY <1>1, <1>2

\* Whatever a member enters, the page shows it character by character and nothing else.
THEOREM ShownAsEnteredHolds == PostSpec => []ShownAsEntered
<1>1. PostInit => Inv /\ ShowInv
    BY InvInit, ShowInit
<1>2. (Inv /\ ShowInv) /\ [PostNext]_postVars => (Inv /\ ShowInv)'
    BY InvNext, ShowNext
<1>3. Inv /\ ShowInv => ShownAsEntered
    BY ShowsEntered
<1>. QED
    BY <1>1, <1>2, <1>3, PTL DEF PostSpec


---------------------------------------------------------------------------
(* base64.c: six bits to a character and back *)

\* base64_decode's table takes back what base64_encode's gives, which is never the padding.
LEMMA Values == \A v \in 0..63 : Value(Char(v)) = v /\ Char(v) # Pad /\ Char(v) \in Nat
BY DEF Value, Char, Pad

\* The six bits of each character of a quadruple of three bytes.
First6(a)     == a \div 4
Second6(a, b) == (a % 4) * 16 + (b \div 16)
Third6(b, c)  == (b % 16) * 4 + (c \div 64)
Fourth6(c)    == c % 64

\* Each of them fits six bits.
LEMMA Sixes ==
    ASSUME NEW a \in Byte, NEW b \in Byte, NEW c \in Byte
    PROVE  /\ First6(a) \in 0..63 /\ Second6(a, b) \in 0..63
           /\ Third6(b, c) \in 0..63 /\ Fourth6(c) \in 0..63
<1>1. First6(a) \in 0..63 /\ Fourth6(c) \in 0..63
    BY DEF First6, Fourth6, Byte
<1>2. Second6(a, b) \in 0..63
    BY DEF Second6, Byte
<1>3. Third6(b, c) \in 0..63
    BY DEF Third6, Byte
<1>. QED
    BY <1>1, <1>2, <1>3

\* A byte cut after six, four and two bits.
LEMMA Halves ==
    ASSUME NEW a \in Byte
    PROVE  /\ \E h \in 0..63, l \in 0..3 : a = 4 * h + l /\ a \div 4 = h /\ a % 4 = l
           /\ \E h \in 0..15, l \in 0..15 : a = 16 * h + l /\ a \div 16 = h /\ a % 16 = l
           /\ \E h \in 0..3, l \in 0..63 : a = 64 * h + l /\ a \div 64 = h /\ a % 64 = l
<1>0. a \in Int /\ 0 <= a /\ a <= 255
    BY DEF Byte
<1>1. \E h \in 0..63, l \in 0..3 : a = 4 * h + l /\ a \div 4 = h /\ a % 4 = l
    <2>1. PICK h, l : h = a \div 4 /\ l = a % 4
        OBVIOUS
    <2>2. h \in 0..63
        BY <1>0, <2>1
    <2>3. l \in 0..3
        BY <1>0, <2>1
    <2>4. a = 4 * h + l
        BY <1>0, <2>1
    <2>. QED
        BY <2>1, <2>2, <2>3, <2>4
<1>2. \E h \in 0..15, l \in 0..15 : a = 16 * h + l /\ a \div 16 = h /\ a % 16 = l
    <2>1. PICK h, l : h = a \div 16 /\ l = a % 16
        OBVIOUS
    <2>2. h \in 0..15
        BY <1>0, <2>1
    <2>3. l \in 0..15
        BY <1>0, <2>1
    <2>4. a = 16 * h + l
        BY <1>0, <2>1
    <2>. QED
        BY <2>1, <2>2, <2>3, <2>4
<1>3. \E h \in 0..3, l \in 0..63 : a = 64 * h + l /\ a \div 64 = h /\ a % 64 = l
    <2>1. PICK h, l : h = a \div 64 /\ l = a % 64
        OBVIOUS
    <2>2. h \in 0..3
        BY <1>0, <2>1
    <2>3. l \in 0..63
        BY <1>0, <2>1
    <2>4. a = 64 * h + l
        BY <1>0, <2>1
    <2>. QED
        BY <2>1, <2>2, <2>3, <2>4
<1>. QED
    BY <1>1, <1>2, <1>3

\* The lowest six bits.
LEMMA Modulo64 == \A x \in Nat, r \in 0..63 : (64 * x + r) % 64 = r
OBVIOUS

\* What the shifts and masks of base64_encode make of three bytes.
LEMMA TripleCut ==
    ASSUME NEW a \in Byte, NEW b \in Byte, NEW c \in Byte,
           NEW t, t = a * 65536 + b * 256 + c
    PROVE  /\ (t \div 262144) % 64 = First6(a) /\ (t \div 4096) % 64 = Second6(a, b)
           /\ (t \div 64) % 64 = Third6(b, c) /\ t % 64 = Fourth6(c)
<1>1. PICK a1 \in 0..63, a0 \in 0..3 : a = 4 * a1 + a0 /\ a \div 4 = a1 /\ a % 4 = a0
    BY Halves
<1>2. PICK b1 \in 0..15, b0 \in 0..15 : b = 16 * b1 + b0 /\ b \div 16 = b1 /\ b % 16 = b0
    BY Halves
<1>3. PICK c1 \in 0..3, c0 \in 0..63 : c = 64 * c1 + c0 /\ c \div 64 = c1 /\ c % 64 = c0
    BY Halves
<1>4. t = 262144 * a1 + 65536 * a0 + 4096 * b1 + 256 * b0 + 64 * c1 + c0
    BY <1>1, <1>2, <1>3
<1>5. t \div 262144 = a1 /\ a1 % 64 = a1
    BY <1>4
<1>6. t \div 4096 = 64 * a1 + 16 * a0 + b1 /\ (64 * a1 + 16 * a0 + b1) % 64 = 16 * a0 + b1
    BY <1>4
<1>7. t \div 64 = 4096 * a1 + 1024 * a0 + 64 * b1 + 4 * b0 + c1
      /\ (4096 * a1 + 1024 * a0 + 64 * b1 + 4 * b0 + c1) % 64 = 4 * b0 + c1
    BY <1>4
<1>8. t % 64 = c0
    <2>1. PICK x \in Nat : x = 4096 * a1 + 1024 * a0 + 64 * b1 + 4 * b0 + c1
        OBVIOUS
    <2>2. t = 64 * x + c0
        BY <1>4, <2>1
    <2>. QED
        BY <2>2, Modulo64
<1>9. First6(a) = a1 /\ Second6(a, b) = 16 * a0 + b1 /\ Third6(b, c) = 4 * b0 + c1 /\ Fourth6(c) = c0
    BY <1>1, <1>2, <1>3 DEF First6, Second6, Third6, Fourth6
<1>10. (t \div 262144) % 64 = First6(a)
    BY <1>5, <1>9
<1>11. (t \div 4096) % 64 = Second6(a, b)
    BY <1>6, <1>9
<1>12. (t \div 64) % 64 = Third6(b, c)
    BY <1>7, <1>9
<1>13. t % 64 = Fourth6(c)
    BY <1>8, <1>9
<1>. QED
    BY <1>10, <1>11, <1>12, <1>13

\* What base64_decode makes of the four values.
LEMMA QuadCut ==
    ASSUME NEW a \in Byte, NEW b \in Byte, NEW c \in Byte,
           NEW w, w = First6(a) * 262144 + Second6(a, b) * 4096 + Third6(b, c) * 64 + Fourth6(c)
    PROVE  (w \div 65536) % 256 = a /\ (w \div 256) % 256 = b /\ w % 256 = c
<1>1. PICK a1 \in 0..63, a0 \in 0..3 : a = 4 * a1 + a0 /\ a \div 4 = a1 /\ a % 4 = a0
    BY Halves
<1>2. PICK b1 \in 0..15, b0 \in 0..15 : b = 16 * b1 + b0 /\ b \div 16 = b1 /\ b % 16 = b0
    BY Halves
<1>3. PICK c1 \in 0..3, c0 \in 0..63 : c = 64 * c1 + c0 /\ c \div 64 = c1 /\ c % 64 = c0
    BY Halves
<1>4. w = a1 * 262144 + (a0 * 16 + b1) * 4096 + (b0 * 4 + c1) * 64 + c0
    BY <1>1, <1>2, <1>3 DEF First6, Second6, Third6, Fourth6
<1>5. w = 65536 * a + 256 * b + c
    BY <1>1, <1>2, <1>3, <1>4
<1>6. w \div 65536 = a /\ a % 256 = a
    BY <1>5 DEF Byte
<1>7. w \div 256 = 256 * a + b /\ (256 * a + b) % 256 = b
    BY <1>5 DEF Byte
<1>8. w % 256 = c
    BY <1>5 DEF Byte
<1>. QED
    BY <1>6, <1>7, <1>8

\* What it makes of a rest of two and of three characters.
LEMMA RestCut ==
    ASSUME NEW a \in Byte, NEW b \in Byte
    PROVE  /\ One(First6(a), Second6(a, 0)) = <<a>>
           /\ Two(First6(a), Second6(a, b), Third6(b, 0)) = <<a, b>>
<1>1. PICK a1 \in 0..63, a0 \in 0..3 : a = 4 * a1 + a0 /\ a \div 4 = a1 /\ a % 4 = a0
    BY Halves
<1>2. PICK b1 \in 0..15, b0 \in 0..15 : b = 16 * b1 + b0 /\ b \div 16 = b1 /\ b % 16 = b0
    BY Halves
<1>3. First6(a) = a1 /\ Second6(a, 0) = a0 * 16 /\ Second6(a, b) = a0 * 16 + b1 /\ Third6(b, 0) = b0 * 4
    BY <1>1, <1>2 DEF First6, Second6, Third6
<1>4. ((a0 * 16) \div 16) % 4 = a0 /\ ((a0 * 16 + b1) \div 16) % 4 = a0
    BY <1>1, <1>2
<1>5. (a1 * 4 + a0) % 256 = a
    BY <1>1
<1>6. ((a0 * 16 + b1) * 16 + ((b0 * 4) \div 4)) % 256 = b
    <2>1. (b0 * 4) \div 4 = b0
        BY <1>2
    <2>2. (a0 * 16 + b1) * 16 + b0 = 256 * a0 + b /\ (256 * a0 + b) % 256 = b
        BY <1>2 DEF Byte
    <2>. QED
        BY <2>1, <2>2
<1>. QED
    BY <1>3, <1>4, <1>5, <1>6 DEF One, Two

---------------------------------------------------------------------------
(* base64.c: quadruples of a text *)

\* A length in quadruples and a rest, and what the code of that length is.
LEMMA Threes ==
    ASSUME NEW l \in Nat
    PROVE  \E g \in Nat, e \in 0..2 :
               /\ l = 3 * g + e /\ l % 3 = e
               /\ EncodedLen(l) = IF e = 0 THEN 4 * g ELSE 4 * (g + 1)
<1>1. PICK g, e : g = l \div 3 /\ e = l % 3
    OBVIOUS
<1>2. g \in Nat /\ e \in 0..2
    BY <1>1
<1>3. l = 3 * g + e
    BY <1>1
<1>4. CASE e = 0
    <2>1. (l + 2) \div 3 = g
        BY <1>2, <1>3, <1>4
    <2>. QED
        BY <1>1, <1>2, <1>3, <1>4, <2>1 DEF EncodedLen
<1>5. CASE e # 0
    <2>1. (l + 2) \div 3 = g + 1
        BY <1>2, <1>3, <1>5
    <2>. QED
        BY <1>1, <1>2, <1>3, <1>5, <2>1 DEF EncodedLen
<1>. QED
    BY <1>4, <1>5

\* Where a character is.
LEMMA Fours ==
    ASSUME NEW k \in Nat \ {0}
    PROVE  /\ \E p \in Nat, r \in 1..4 : k = 4 * p + r
           /\ \A p \in Nat, r \in 1..4 : k = 4 * p + r => (k - 1) \div 4 = p /\ ((k - 1) % 4) + 1 = r
<1>1. PICK p, r : p = (k - 1) \div 4 /\ r = ((k - 1) % 4) + 1
    OBVIOUS
<1>2. p \in Nat /\ r \in 1..4
    BY <1>1
<1>3. k = 4 * p + r
    BY <1>1
<1>4. ASSUME NEW x \in Nat, NEW y \in 1..4, k = 4 * x + y
      PROVE  (k - 1) \div 4 = x /\ ((k - 1) % 4) + 1 = y
    <2>1. (k - 1) \div 4 = x
        BY <1>4
    <2>2. (k - 1) % 4 = y - 1
        BY <1>4
    <2>. QED
        BY <1>4, <2>1, <2>2
<1>. QED
    BY <1>2, <1>3, <1>4

\* What the code has at one place.
LEMMA EncodeAt ==
    ASSUME NEW s \in Seq(Byte)
    PROVE  /\ DOMAIN Encode(s) = 1..EncodedLen(Len(s)) /\ EncodedLen(Len(s)) \in Nat
           /\ \A p \in Nat, r \in 1..4 :
                  4 * p + r <= EncodedLen(Len(s)) => Encode(s)[4 * p + r] = Sextet(s, p, r)
<1>1. EncodedLen(Len(s)) \in Nat
    BY Threes
<1>2. ASSUME NEW p \in Nat, NEW r \in 1..4, 4 * p + r <= EncodedLen(Len(s))
      PROVE  Encode(s)[4 * p + r] = Sextet(s, p, r)
    <2>1. PICK k : k = 4 * p + r
        OBVIOUS
    <2>2. k \in Nat \ {0} /\ k \in 1..EncodedLen(Len(s))
        BY <1>1, <1>2, <2>1
    <2>3. (k - 1) \div 4 = p /\ ((k - 1) % 4) + 1 = r
        BY <2>1, <2>2, Fours
    <2>4. Encode(s)[k] = Sextet(s, (k - 1) \div 4, ((k - 1) % 4) + 1)
        BY <2>2 DEF Encode
    <2>. QED
        BY <2>1, <2>3, <2>4
<1>. QED
    BY <1>1, <1>2 DEF Encode

\* The characters for three bytes, for two and for one.
LEMMA SextetIs ==
    ASSUME NEW s \in Seq(Byte), NEW p \in Nat
    PROVE  /\ 3 * p + 2 < Len(s) =>
                  LET a == s[3 * p + 1]  b == s[3 * p + 2]  c == s[3 * p + 3]
                  IN  /\ a \in Byte /\ b \in Byte /\ c \in Byte
                      /\ Sextet(s, p, 1) = Char(First6(a)) /\ Sextet(s, p, 2) = Char(Second6(a, b))
                      /\ Sextet(s, p, 3) = Char(Third6(b, c)) /\ Sextet(s, p, 4) = Char(Fourth6(c))
           /\ 3 * p + 2 = Len(s) =>
                  LET a == s[3 * p + 1]  b == s[3 * p + 2]
                  IN  /\ a \in Byte /\ b \in Byte
                      /\ Sextet(s, p, 1) = Char(First6(a)) /\ Sextet(s, p, 2) = Char(Second6(a, b))
                      /\ Sextet(s, p, 3) = Char(Third6(b, 0)) /\ Sextet(s, p, 4) = Pad
           /\ 3 * p + 1 = Len(s) =>
                  LET a == s[3 * p + 1]
                  IN  /\ a \in Byte
                      /\ Sextet(s, p, 1) = Char(First6(a)) /\ Sextet(s, p, 2) = Char(Second6(a, 0))
                      /\ Sextet(s, p, 3) = Pad /\ Sextet(s, p, 4) = Pad
<1>1. PICK x, l : x = 3 * p /\ l = Len(s)
    OBVIOUS
<1>2. x \in Nat /\ l \in Nat
    BY <1>1
<1>3. \A n \in Nat : ByteAt(s, n) = IF n < l THEN s[n + 1] ELSE 0
    BY <1>1 DEF ByteAt
<1>4. /\ Sextet(s, p, 1) = Char(ByteAt(s, x) \div 4)
      /\ Sextet(s, p, 2) = Char((ByteAt(s, x) % 4) * 16 + (ByteAt(s, x + 1) \div 16))
      /\ Sextet(s, p, 3) = IF x + 1 >= l THEN Pad
                           ELSE Char((ByteAt(s, x + 1) % 16) * 4 + (ByteAt(s, x + 2) \div 64))
      /\ Sextet(s, p, 4) = IF x + 2 >= l THEN Pad ELSE Char(ByteAt(s, x + 2) % 64)
    BY <1>1 DEF Sextet
<1>5. \A n \in 1..l : s[n] \in Byte
    BY <1>1
<1>6. /\ x + 2 < l => /\ ByteAt(s, x) = s[x + 1] /\ ByteAt(s, x + 1) = s[x + 2]
                      /\ ByteAt(s, x + 2) = s[x + 3]
      /\ x + 2 = l => /\ ByteAt(s, x) = s[x + 1] /\ ByteAt(s, x + 1) = s[x + 2]
                      /\ ByteAt(s, x + 2) = 0
      /\ x + 1 = l => ByteAt(s, x) = s[x + 1] /\ ByteAt(s, x + 1) = 0
    <2>1. x + 1 \in Nat /\ x + 2 \in Nat /\ (x + 1) + 1 = x + 2 /\ (x + 2) + 1 = x + 3
        BY <1>2
    <2>. QED
        BY <1>2, <1>3, <2>1
<1>7. 0 \div 16 = 0 /\ 0 \div 64 = 0
    OBVIOUS
<1>8. ASSUME x + 2 < l
      PROVE  LET a == s[x + 1]  b == s[x + 2]  c == s[x + 3]
             IN  /\ a \in Byte /\ b \in Byte /\ c \in Byte
                 /\ Sextet(s, p, 1) = Char(First6(a)) /\ Sextet(s, p, 2) = Char(Second6(a, b))
                 /\ Sextet(s, p, 3) = Char(Third6(b, c)) /\ Sextet(s, p, 4) = Char(Fourth6(c))
    <2>1. s[x + 1] \in Byte /\ s[x + 2] \in Byte /\ s[x + 3] \in Byte
        BY <1>2, <1>5, <1>8
    <2>2. ~(x + 1 >= l) /\ ~(x + 2 >= l)
        BY <1>2, <1>8
    <2>. QED
        BY <1>4, <1>6, <1>8, <2>1, <2>2 DEF First6, Second6, Third6, Fourth6
<1>9. ASSUME x + 2 = l
      PROVE  LET a == s[x + 1]  b == s[x + 2]
             IN  /\ a \in Byte /\ b \in Byte
                 /\ Sextet(s, p, 1) = Char(First6(a)) /\ Sextet(s, p, 2) = Char(Second6(a, b))
                 /\ Sextet(s, p, 3) = Char(Third6(b, 0)) /\ Sextet(s, p, 4) = Pad
    <2>1. s[x + 1] \in Byte /\ s[x + 2] \in Byte
        BY <1>2, <1>5, <1>9
    <2>2. ~(x + 1 >= l) /\ x + 2 >= l
        BY <1>2, <1>9
    <2>. QED
        BY <1>4, <1>6, <1>9, <2>1, <2>2 DEF First6, Second6, Third6
<1>10. ASSUME x + 1 = l
       PROVE  LET a == s[x + 1]
              IN  /\ a \in Byte
                  /\ Sextet(s, p, 1) = Char(First6(a)) /\ Sextet(s, p, 2) = Char(Second6(a, 0))
                  /\ Sextet(s, p, 3) = Pad /\ Sextet(s, p, 4) = Pad
    <2>1. s[x + 1] \in Byte
        BY <1>2, <1>5, <1>10
    <2>2. x + 1 >= l /\ x + 2 >= l
        BY <1>2, <1>10
    <2>. QED
        BY <1>4, <1>6, <1>10, <2>1, <2>2 DEF First6, Second6
<1>. QED
    BY <1>1, <1>8, <1>9, <1>10

\* A text and four characters more.
LEMMA Chained ==
    ASSUME NEW S, NEW u \in Seq(S), NEW v \in Seq(S)
    PROVE  /\ u \o v \in Seq(S) /\ Len(u \o v) = Len(u) + Len(v)
           /\ \A k \in 1..Len(u) : (u \o v)[k] = u[k]
           /\ \A k \in 1..Len(v) : (u \o v)[Len(u) + k] = v[k]
OBVIOUS

\* Text t is the first q quadruples of what stands for s.
Quads(t, s, q) == /\ t \in Seq(Nat) /\ Len(t) = 4 * q
                  /\ \A p \in 0..(q - 1), r \in 1..4 : t[4 * p + r] = Sextet(s, p, r)

\* One round of base64_encode's loop adds one quadruple.
LEMMA QuadAdded ==
    ASSUME NEW t, NEW s, NEW q \in Nat, Quads(t, s, q),
           NEW a \in Nat, NEW b \in Nat, NEW c \in Nat, NEW d \in Nat,
           a = Sextet(s, q, 1), b = Sextet(s, q, 2), c = Sextet(s, q, 3), d = Sextet(s, q, 4)
    PROVE  Quads(t \o <<a, b, c, d>>, s, q + 1)
<1>. DEFINE z == <<a, b, c, d>>
            u == t \o z
<1>1. t \in Seq(Nat) /\ Len(t) = 4 * q /\ z \in Seq(Nat) /\ Len(z) = 4
    BY DEF Quads
<1>2. z[1] = a /\ z[2] = b /\ z[3] = c /\ z[4] = d
    OBVIOUS
<1>. HIDE DEF z
<1>3. /\ u \in Seq(Nat) /\ Len(u) = 4 * q + 4
      /\ \A k \in 1..(4 * q) : u[k] = t[k]
      /\ \A r \in 1..4 : u[4 * q + r] = z[r]
    <2>1. PICK x \in Nat : x = 4 * q
        OBVIOUS
    <2>2. t \in Seq(Nat) /\ Len(t) = x /\ z \in Seq(Nat) /\ Len(z) = 4
        BY <1>1, <2>1
    <2>0. /\ t \o z \in Seq(Nat) /\ Len(t \o z) = Len(t) + Len(z)
          /\ \A k \in 1..Len(t) : (t \o z)[k] = t[k]
          /\ \A k \in 1..Len(z) : (t \o z)[Len(t) + k] = z[k]
        <3>1. t \in Seq(Nat) /\ z \in Seq(Nat)
            BY <1>1
        <3>. QED
            BY <3>1, Chained
    <2>3. u \in Seq(Nat) /\ Len(u) = x + 4
        BY <2>0, <2>2
    <2>4. \A k \in 1..x : u[k] = t[k]
        BY <2>0, <2>2
    <2>5. \A r \in 1..4 : u[x + r] = z[r]
        BY <2>0, <2>2
    <2>. QED
        BY <2>1, <2>3, <2>4, <2>5
<1>. HIDE DEF u
<1>4. ASSUME NEW p \in 0..q, NEW r \in 1..4
      PROVE  u[4 * p + r] = Sextet(s, p, r)
    <2>1. CASE p = q
        <3>1. u[4 * q + r] = z[r]
            BY <1>3
        <3>2. z[r] = Sextet(s, q, r)
            <4>1. r = 1 \/ r = 2 \/ r = 3 \/ r = 4
                OBVIOUS
            <4>. QED
                BY <1>2, <4>1
        <3>. QED
            BY <2>1, <3>1, <3>2
    <2>2. CASE p # q
        <3>1. p \in 0..(q - 1) /\ 4 * p + r \in 1..(4 * q)
            BY <2>2
        <3>. QED
            BY <1>3, <3>1 DEF Quads
    <2>. QED
        BY <2>1, <2>2
<1>5. q + 1 - 1 = q /\ Len(u) = 4 * (q + 1)
    BY <1>3
<1>6. Quads(u, s, q + 1)
    BY <1>3, <1>4, <1>5 DEF Quads
<1>. QED
    BY <1>6 DEF u, z

\* All of them are the whole.
LEMMA QuadsAreAll ==
    ASSUME NEW s \in Seq(Byte), NEW t, NEW q \in Nat, Quads(t, s, q), EncodedLen(Len(s)) = 4 * q
    PROVE  t = Encode(s)
<1>1. /\ t = [k \in 1..(4 * q) |-> t[k]]
      /\ DOMAIN Encode(s) = 1..(4 * q)
    BY EncodeAt DEF Quads
<1>2. Encode(s) = [k \in 1..(4 * q) |-> Encode(s)[k]]
    <2>1. \E e : Encode(s) = [k \in 1..(4 * q) |-> e[k]]
        <3>. DEFINE e == [k \in 1..(4 * q) |-> Sextet(s, (k - 1) \div 4, ((k - 1) % 4) + 1)]
        <3>1. Encode(s) = e
            BY DEF Encode
        <3>2. e = [k \in 1..(4 * q) |-> e[k]]
            OBVIOUS
        <3>. HIDE DEF e
        <3>. QED
            BY <3>1, <3>2
    <2>. QED
        BY <2>1
<1>3. ASSUME NEW k \in 1..(4 * q) PROVE t[k] = Encode(s)[k]
    <2>0. k \in Nat \ {0}
        OBVIOUS
    <2>1. PICK p \in Nat, r \in 1..4 : k = 4 * p + r
        BY <2>0, Fours
    <2>2. p \in 0..(q - 1) /\ 4 * p + r <= 4 * q
        BY <2>1
    <2>3. t[4 * p + r] = Sextet(s, p, r)
        BY <2>2 DEF Quads
    <2>4. Encode(s)[4 * p + r] = Sextet(s, p, r)
        BY <2>2, EncodeAt
    <2>. QED
        BY <2>1, <2>3, <2>4
<1>. QED
    BY <1>1, <1>2, <1>3

---------------------------------------------------------------------------
(* base64.c: the loops *)

\* Bytes d are the first l of s.
FirstBytes(d, s, l) == d \in Seq(Byte) /\ Len(d) = l /\ \A k \in 1..l : d[k] = s[k]

\* How many characters a rest of e bytes leaves before the padding.
RestLen(e) == IF e = 0 THEN 0 ELSE e + 1

\* While encoding, the text is the quadruples of the triples passed; while decoding, what was
\* written is the bytes of the quadruples passed, and the rest is what the padding says.
CodeInv ==
    /\ data \in Seq(Byte) /\ coding \in {"encode", "size", "decode", "done", "crashed"}
    /\ coding = "encode" =>
           /\ dst = << >>
           /\ \E q \in Nat : offset = 3 * q /\ 3 * q <= Len(data) /\ Quads(text, data, q)
    /\ coding # "encode" => text = Encode(data)
    /\ coding = "size" => offset = 0 /\ dst = << >>
    /\ coding = "decode" =>
           \E g \in Nat, e \in 0..2, q \in Nat :
               /\ Len(data) = 3 * g + e /\ stripped = 4 * g + RestLen(e)
               /\ offset = 4 * q /\ q <= g /\ FirstBytes(dst, data, 3 * q)
    /\ coding = "done" => dst = data

\* A round of base64_encode.
LEMMA TripleStep ==
    ASSUME CodeInv, EncodeTriple
    PROVE  CodeInv'
<1>1. PICK q \in Nat : offset = 3 * q /\ 3 * q <= Len(data) /\ Quads(text, data, q)
    BY DEF CodeInv, EncodeTriple
<1>2. /\ data \in Seq(Byte) /\ data' = data /\ coding = "encode" /\ coding' = "encode"
      /\ dst = << >> /\ dst' = dst /\ offset' = offset + 3 /\ Len(data) - offset > 2
    BY DEF CodeInv, EncodeTriple
<1>3. 3 * q + 2 < Len(data)
    BY <1>1, <1>2
<1>4. PICK a, b, c : a = data[3 * q + 1] /\ b = data[3 * q + 2] /\ c = data[3 * q + 3]
    OBVIOUS
<1>5. /\ a \in Byte /\ b \in Byte /\ c \in Byte
      /\ Sextet(data, q, 1) = Char(First6(a)) /\ Sextet(data, q, 2) = Char(Second6(a, b))
      /\ Sextet(data, q, 3) = Char(Third6(b, c)) /\ Sextet(data, q, 4) = Char(Fourth6(c))
    BY <1>2, <1>3, <1>4, SextetIs
<1>6. PICK t : t = Triple(offset)
    OBVIOUS
<1>7. t = a * 65536 + b * 256 + c
    <2>1. Data(offset) = a /\ Data(offset + 1) = b /\ Data(offset + 2) = c
        <3>1. offset + 1 = 3 * q + 1 /\ offset + 1 + 1 = 3 * q + 2 /\ offset + 2 + 1 = 3 * q + 3
            BY <1>1
        <3>. QED
            BY <1>4, <3>1 DEF Data
    <2>. QED
        BY <1>6, <2>1 DEF Triple
<1>8. /\ (t \div 262144) % 64 = First6(a) /\ (t \div 4096) % 64 = Second6(a, b)
      /\ (t \div 64) % 64 = Third6(b, c) /\ t % 64 = Fourth6(c)
    BY <1>5, <1>7, TripleCut
<1>9. text' = text \o <<Char((t \div 262144) % 64), Char((t \div 4096) % 64),
                        Char((t \div 64) % 64), Char(t % 64)>>
    BY <1>6 DEF EncodeTriple
<1>10. PICK w, x, y, z : /\ w = Char(First6(a)) /\ x = Char(Second6(a, b))
                         /\ y = Char(Third6(b, c)) /\ z = Char(Fourth6(c))
    OBVIOUS
<1>11. text' = text \o <<w, x, y, z>>
    BY <1>8, <1>9, <1>10
<1>12. w \in Nat /\ x \in Nat /\ y \in Nat /\ z \in Nat
    BY <1>5, <1>10, Sixes, Values
<1>13. Quads(text', data, q + 1)
    BY <1>1, <1>5, <1>10, <1>11, <1>12, QuadAdded
<1>14. offset' = 3 * (q + 1) /\ 3 * (q + 1) <= Len(data)
    BY <1>1, <1>2, <1>3
<1>15. \E p \in Nat : offset' = 3 * p /\ 3 * p <= Len(data) /\ Quads(text', data, p)
    BY <1>13, <1>14
<1>. QED
    BY <1>2, <1>15 DEF CodeInv

\* Its end: with the rest the text is the whole code.
LEMMA RestStep ==
    ASSUME CodeInv, EncodeRest
    PROVE  CodeInv'
<1>1. PICK q \in Nat : offset = 3 * q /\ 3 * q <= Len(data) /\ Quads(text, data, q)
    BY DEF CodeInv, EncodeRest
<1>2. /\ data \in Seq(Byte) /\ data' = data /\ coding' = "size" /\ dst = << >> /\ dst' = dst
      /\ offset' = 0 /\ ~(Len(data) - offset > 2) /\ text' = text \o Rest
    BY DEF CodeInv, EncodeRest
<1>3. PICK g \in Nat, e \in 0..2 :
          /\ Len(data) = 3 * g + e /\ Len(data) % 3 = e
          /\ EncodedLen(Len(data)) = IF e = 0 THEN 4 * g ELSE 4 * (g + 1)
    <2>1. Len(data) \in Nat
        BY <1>2
    <2>. QED
        BY ONLY <2>1, Threes
<1>4. g = q
    BY <1>1, <1>2, <1>3
<1>5. \A a : Second6(a, 0) = (a % 4) * 16 + 0 /\ Third6(a, 0) = (a % 16) * 4 + 0
    BY DEF Second6, Third6
<1>6. Pad \in Nat
    BY DEF Pad
<1>7. text' = Encode(data)
    <2>1. CASE e = 0
        <3>1. Rest = << >>
            <4>1. Len(data) % 3 = 0 /\ ~(Len(data) % 3 = 1) /\ ~(Len(data) % 3 = 2)
                BY <1>3, <2>1
            <4>. QED
                BY <4>1, Zenon DEF Rest
        <3>2. text' = text
            BY <1>1, <1>2, <3>1 DEF Quads
        <3>. QED
            BY <1>1, <1>2, <1>3, <1>4, <2>1, <3>2, QuadsAreAll
    <2>2. CASE e = 1
        <3>1. PICK a : a = data[3 * q + 1]
            OBVIOUS
        <3>2. /\ a \in Byte
              /\ Sextet(data, q, 1) = Char(First6(a)) /\ Sextet(data, q, 2) = Char(Second6(a, 0))
              /\ Sextet(data, q, 3) = Pad /\ Sextet(data, q, 4) = Pad
            BY <1>2, <1>3, <1>4, <2>2, <3>1, SextetIs
        <3>3. Data(Len(data) - 1) = a
            <4>1. Len(data) - 1 + 1 = 3 * q + 1
                BY <1>3, <1>4, <2>2
            <4>. QED
                BY <3>1, <4>1 DEF Data
        <3>4. Rest = <<Char(a \div 4), Char((a % 4) * 16), Pad, Pad>>
            <4>1. Len(data) % 3 = 1 /\ ~(Len(data) % 3 = 0) /\ ~(Len(data) % 3 = 2)
                BY <1>3, <2>2
            <4>. QED
                BY <3>3, <4>1, Zenon DEF Rest
        <3>5. a \div 4 = First6(a) /\ (a % 4) * 16 = Second6(a, 0)
            BY <1>5, <3>2 DEF First6, Byte
        <3>6. PICK w, x : w = Char(First6(a)) /\ x = Char(Second6(a, 0))
            OBVIOUS
        <3>7. w \in Nat /\ x \in Nat
            <4>1. 0 \in Byte
                BY DEF Byte
            <4>. QED
                BY <3>2, <3>6, <4>1, Sixes, Values
        <3>8. text' = text \o <<w, x, Pad, Pad>>
            BY <1>2, <3>4, <3>5, <3>6
        <3>9. Quads(text', data, q + 1)
            BY <1>1, <1>6, <3>2, <3>6, <3>7, <3>8, QuadAdded
        <3>. QED
            <4>1. q + 1 \in Nat /\ EncodedLen(Len(data)) = 4 * (q + 1)
                BY <1>3, <1>4, <2>2
            <4>. QED
                BY <1>2, <3>9, <4>1, QuadsAreAll
    <2>3. CASE e = 2
        <3>1. PICK a, b : a = data[3 * q + 1] /\ b = data[3 * q + 2]
            OBVIOUS
        <3>2. /\ a \in Byte /\ b \in Byte
              /\ Sextet(data, q, 1) = Char(First6(a)) /\ Sextet(data, q, 2) = Char(Second6(a, b))
              /\ Sextet(data, q, 3) = Char(Third6(b, 0)) /\ Sextet(data, q, 4) = Pad
            BY <1>2, <1>3, <1>4, <2>3, <3>1, SextetIs
        <3>3. Data(Len(data) - 2) = a /\ Data(Len(data) - 1) = b
            <4>1. Len(data) - 2 + 1 = 3 * q + 1 /\ Len(data) - 1 + 1 = 3 * q + 2
                BY <1>3, <1>4, <2>3
            <4>. QED
                BY <3>1, <4>1 DEF Data
        <3>4. Rest = <<Char(a \div 4), Char((a % 4) * 16 + b \div 16), Char((b % 16) * 4), Pad>>
            BY <1>3, <2>3, <3>3 DEF Rest
        <3>5. a \div 4 = First6(a) /\ (a % 4) * 16 + b \div 16 = Second6(a, b)
              /\ (b % 16) * 4 = Third6(b, 0)
            BY <1>5, <3>2 DEF First6, Second6, Byte
        <3>6. PICK w, x, y : w = Char(First6(a)) /\ x = Char(Second6(a, b)) /\ y = Char(Third6(b, 0))
            OBVIOUS
        <3>7. w \in Nat /\ x \in Nat /\ y \in Nat
            <4>1. 0 \in Byte
                BY DEF Byte
            <4>. QED
                BY <3>2, <3>6, <4>1, Sixes, Values
        <3>8. text' = text \o <<w, x, y, Pad>>
            BY <1>2, <3>4, <3>5, <3>6
        <3>9. Quads(text', data, q + 1)
            BY <1>1, <1>6, <3>2, <3>6, <3>7, <3>8, QuadAdded
        <3>. QED
            <4>1. q + 1 \in Nat /\ EncodedLen(Len(data)) = 4 * (q + 1)
                BY <1>3, <1>4, <2>3
            <4>. QED
                BY <1>2, <3>9, <4>1, QuadsAreAll
    <2>. QED
        BY <2>1, <2>2, <2>3
<1>. QED
    BY <1>2, <1>7 DEF CodeInv

\* The code is as long as it is meant to be.
LEMMA EncodeLen ==
    ASSUME NEW s \in Seq(Byte)
    PROVE  Len(Encode(s)) = EncodedLen(Len(s))
<1>1. EncodedLen(Len(s)) \in Nat
    BY EncodeAt
<1>2. \E f : Encode(s) = [k \in 1..EncodedLen(Len(s)) |-> f[k]]
    <2>1. PICK e : e = Encode(s)
        OBVIOUS
    <2>2. e = [k \in 1..EncodedLen(Len(s)) |-> e[k]]
        BY <2>1 DEF Encode
    <2>. QED
        BY <2>1, <2>2
<1>. QED
    BY <1>1, <1>2

\* What base64_decode reads.
LEMMA SrcIs ==
    ASSUME data \in Seq(Byte), text = Encode(data), NEW p \in Nat, NEW r \in 1..4,
           4 * p + r <= EncodedLen(Len(data))
    PROVE  Src(4 * p + r - 1) = Sextet(data, p, r)
<1>1. 4 * p + r - 1 + 1 = 4 * p + r
    OBVIOUS
<1>. QED
    BY <1>1, EncodeAt DEF Src

\* base64_decode finds as many characters of padding as the rest has left.
LEMMA SizeStep ==
    ASSUME CodeInv, Size
    PROVE  CodeInv'
<1>1. /\ data \in Seq(Byte) /\ data' = data /\ text = Encode(data) /\ text' = text
      /\ dst = << >> /\ dst' = dst /\ offset = 0 /\ offset' = offset
    BY DEF CodeInv, Size
<1>2. PICK g \in Nat, e \in 0..2 :
          /\ Len(data) = 3 * g + e
          /\ EncodedLen(Len(data)) = IF e = 0 THEN 4 * g ELSE 4 * (g + 1)
    BY <1>1, Threes
<1>3. Len(text) = EncodedLen(Len(data))
    BY <1>1, EncodeLen
<1>4. CASE text = << >>
    <2>1. Len(data) = 0
        BY <1>2, <1>3, <1>4
    <2>2. data = << >>
        BY <1>1, <2>1
    <2>3. coding' \in {"done", "crashed"}
        BY <1>4 DEF Size
    <2>. QED
        BY <1>1, <2>2, <2>3 DEF CodeInv
<1>5. CASE text # << >>
    <2>1. coding' = "decode" /\ stripped' = Len(text) - Padding
        BY <1>5 DEF Size
    <2>2. Len(text) > 0
        <3>1. EncodedLen(Len(data)) # 0
            <4>1. ASSUME EncodedLen(Len(data)) = 0 PROVE FALSE
                <5>1. text = [k \in 1..0 |-> text[k]]
                    BY <1>1, <4>1 DEF Encode
                <5>2. 1..0 = {}
                    OBVIOUS
                <5>. QED
                    BY <1>5, <5>1, <5>2
            <4>. QED
                BY <4>1
        <3>. QED
            BY <1>2, <1>3, <3>1
    <2>3. stripped' = 4 * g + RestLen(e)
        <3>1. CASE e = 0
            <4>1. PICK p \in Nat : p = g - 1
                BY <1>2, <1>3, <2>2, <3>1
            <4>2. 3 * p + 2 < Len(data) /\ 4 * p + 4 = EncodedLen(Len(data))
                BY <1>2, <3>1, <4>1
            <4>3. PICK a, b, c : a = data[3 * p + 1] /\ b = data[3 * p + 2] /\ c = data[3 * p + 3]
                OBVIOUS
            <4>4. /\ a \in Byte /\ b \in Byte /\ c \in Byte
                  /\ Sextet(data, p, 3) = Char(Third6(b, c)) /\ Sextet(data, p, 4) = Char(Fourth6(c))
                BY <1>1, <4>2, <4>3, SextetIs
            <4>5. Src(4 * p + 4 - 1) # Pad /\ Src(4 * p + 3 - 1) # Pad
                <5>1. Sextet(data, p, 3) # Pad /\ Sextet(data, p, 4) # Pad
                    BY <4>4, Sixes, Values
                <5>2. Src(4 * p + 4 - 1) = Sextet(data, p, 4)
                    BY <1>1, <4>2, SrcIs
                <5>3. Src(4 * p + 3 - 1) = Sextet(data, p, 3)
                    BY <1>1, <4>2, SrcIs
                <5>. QED
                    BY <5>1, <5>2, <5>3
            <4>6. Len(text) - 1 = 4 * p + 4 - 1 /\ Len(text) - 2 = 4 * p + 3 - 1
                BY <1>3, <4>2
            <4>7. Padding = 0
                BY <4>5, <4>6 DEF Padding
            <4>. QED
                BY <1>2, <1>3, <2>1, <3>1, <4>7 DEF RestLen
        <3>2. CASE e = 1
            <4>1. Sextet(data, g, 3) = Pad /\ Sextet(data, g, 4) = Pad
                BY <1>1, <1>2, <3>2, SextetIs
            <4>2. 4 * g + 4 = EncodedLen(Len(data))
                BY <1>2, <3>2
            <4>3. Src(4 * g + 4 - 1) = Pad
                BY <1>1, <4>1, <4>2, SrcIs
            <4>4. Src(4 * g + 3 - 1) = Pad
                BY <1>1, <4>1, <4>2, SrcIs
            <4>5. Len(text) - 1 = 4 * g + 4 - 1 /\ Len(text) - 2 = 4 * g + 3 - 1
                BY <1>3, <4>2
            <4>6. Padding = 2
                BY <4>3, <4>4, <4>5 DEF Padding
            <4>. QED
                BY <1>3, <2>1, <3>2, <4>2, <4>6 DEF RestLen
        <3>3. CASE e = 2
            <4>0. PICK b : b = data[3 * g + 2]
                OBVIOUS
            <4>1. b \in Byte /\ Sextet(data, g, 3) = Char(Third6(b, 0)) /\ Sextet(data, g, 4) = Pad
                BY <1>1, <1>2, <3>3, <4>0, SextetIs
            <4>2. 4 * g + 4 = EncodedLen(Len(data))
                BY <1>2, <3>3
            <4>3. Src(4 * g + 4 - 1) = Pad
                BY <1>1, <4>1, <4>2, SrcIs
            <4>4. Src(4 * g + 3 - 1) # Pad
                <5>1. 0 \in Byte
                    BY DEF Byte
                <5>2. Sextet(data, g, 3) # Pad
                    BY <4>1, <5>1, Sixes, Values
                <5>. QED
                    BY <1>1, <4>2, <5>2, SrcIs
            <4>5. Len(text) - 1 = 4 * g + 4 - 1 /\ Len(text) - 2 = 4 * g + 3 - 1
                BY <1>3, <4>2
            <4>6. Padding = 1
                BY <4>3, <4>4, <4>5 DEF Padding
            <4>. QED
                BY <1>3, <2>1, <3>3, <4>2, <4>6 DEF RestLen
        <3>. QED
            BY <3>1, <3>2, <3>3
    <2>4. offset' = 4 * 0 /\ 0 <= g /\ 0 \in Nat /\ FirstBytes(dst', data, 3 * 0)
        BY <1>1 DEF FirstBytes
    <2>5. \E x \in Nat, y \in 0..2, q \in Nat :
              /\ Len(data) = 3 * x + y /\ stripped' = 4 * x + RestLen(y)
              /\ offset' = 4 * q /\ q <= x /\ FirstBytes(dst', data, 3 * q)
        BY <1>2, <2>3, <2>4
    <2>. QED
        BY <1>1, <2>1, <2>5 DEF CodeInv
<1>. QED
    BY <1>4, <1>5

\* A text that is the first bytes of another, and the next ones.
LEMMA BytesAdded ==
    ASSUME NEW s \in Seq(Byte), NEW d, NEW l \in Nat, FirstBytes(d, s, l), NEW z \in Seq(Byte),
           \A k \in 1..Len(z) : z[k] = s[l + k]
    PROVE  FirstBytes(d \o z, s, l + Len(z))
<1>1. PICK n : n = Len(z)
    OBVIOUS
<1>2. d \in Seq(Byte) /\ Len(d) = l /\ \A k \in 1..l : d[k] = s[k]
    BY DEF FirstBytes
<1>3. n \in Nat /\ \A k \in 1..n : z[k] = s[l + k]
    BY <1>1
<1>4. PICK u : u = d \o z
    OBVIOUS
<1>5. /\ u \in Seq(Byte) /\ Len(u) = l + n
      /\ \A k \in 1..l : u[k] = d[k]
      /\ \A k \in 1..n : u[l + k] = z[k]
    <2>1. d \in Seq(Byte) /\ z \in Seq(Byte)
        BY <1>2
    <2>2. /\ d \o z \in Seq(Byte) /\ Len(d \o z) = Len(d) + Len(z)
          /\ \A k \in 1..Len(d) : (d \o z)[k] = d[k]
          /\ \A k \in 1..Len(z) : (d \o z)[Len(d) + k] = z[k]
        BY <2>1, Chained
    <2>. QED
        BY <1>1, <1>2, <1>4, <2>2
<1>6. ASSUME NEW k \in 1..(l + n) PROVE u[k] = s[k]
    <2>1. CASE k \in 1..l
        BY <1>2, <1>5, <2>1
    <2>2. CASE k \notin 1..l
        <3>1. PICK r \in 1..n : k = l + r
            <4>1. k - l \in 1..n /\ k = l + (k - l)
                BY <1>3, <2>2
            <4>. QED
                BY <4>1
        <3>. QED
            BY <1>3, <1>5, <3>1
    <2>. QED
        BY <2>1, <2>2
<1>. QED
    BY <1>1, <1>4, <1>5, <1>6 DEF FirstBytes

\* All of the first bytes are all bytes.
LEMMA FirstIsAll ==
    ASSUME NEW s \in Seq(Byte), NEW d, FirstBytes(d, s, Len(s))
    PROVE  d = s
<1>1. d \in Seq(Byte) /\ Len(d) = Len(s) /\ \A k \in 1..Len(s) : d[k] = s[k]
    BY DEF FirstBytes
<1>2. d = [k \in 1..Len(s) |-> d[k]] /\ s = [k \in 1..Len(s) |-> s[k]]
    BY <1>1
<1>. QED
    BY <1>1, <1>2

\* A round of base64_decode.
LEMMA QuadStep ==
    ASSUME CodeInv, DecodeQuad
    PROVE  CodeInv'
<1>1. /\ data \in Seq(Byte) /\ data' = data /\ text = Encode(data) /\ text' = text
      /\ coding = "decode" /\ coding' = "decode" /\ stripped' = stripped /\ stripped - offset > 3
      /\ offset' = offset + 4
    BY DEF CodeInv, DecodeQuad
<1>2. PICK g \in Nat, e \in 0..2, q \in Nat :
          /\ Len(data) = 3 * g + e /\ stripped = 4 * g + RestLen(e)
          /\ offset = 4 * q /\ q <= g /\ FirstBytes(dst, data, 3 * q)
    BY <1>1 DEF CodeInv
<1>3. q < g
    BY <1>1, <1>2 DEF RestLen
<1>4. 3 * q + 2 < Len(data)
    BY <1>2, <1>3
<1>5. 4 * q + 4 <= EncodedLen(Len(data))
    <2>1. PICK h \in Nat, f \in 0..2 :
              /\ Len(data) = 3 * h + f
              /\ EncodedLen(Len(data)) = IF f = 0 THEN 4 * h ELSE 4 * (h + 1)
        BY <1>1, Threes
    <2>2. h = g
        BY <1>2, <2>1
    <2>. QED
        BY <1>3, <2>1, <2>2
<1>6. PICK a, b, c : a = data[3 * q + 1] /\ b = data[3 * q + 2] /\ c = data[3 * q + 3]
    OBVIOUS
<1>7. /\ a \in Byte /\ b \in Byte /\ c \in Byte
      /\ Sextet(data, q, 1) = Char(First6(a)) /\ Sextet(data, q, 2) = Char(Second6(a, b))
      /\ Sextet(data, q, 3) = Char(Third6(b, c)) /\ Sextet(data, q, 4) = Char(Fourth6(c))
    BY <1>1, <1>4, <1>6, SextetIs
<1>8. /\ Value(Src(offset)) = First6(a) /\ Value(Src(offset + 1)) = Second6(a, b)
      /\ Value(Src(offset + 2)) = Third6(b, c) /\ Value(Src(offset + 3)) = Fourth6(c)
    <2>1. /\ 4 * q + 1 <= EncodedLen(Len(data)) /\ 4 * q + 2 <= EncodedLen(Len(data))
          /\ 4 * q + 3 <= EncodedLen(Len(data))
        BY <1>1, <1>5, EncodeAt
    <2>2. /\ Src(4 * q + 1 - 1) = Sextet(data, q, 1) /\ Src(4 * q + 2 - 1) = Sextet(data, q, 2)
          /\ Src(4 * q + 3 - 1) = Sextet(data, q, 3) /\ Src(4 * q + 4 - 1) = Sextet(data, q, 4)
        BY <1>1, <1>5, <2>1, SrcIs
    <2>3. /\ offset = 4 * q + 1 - 1 /\ offset + 1 = 4 * q + 2 - 1
          /\ offset + 2 = 4 * q + 3 - 1 /\ offset + 3 = 4 * q + 4 - 1
        BY <1>2
    <2>. QED
        BY <1>7, <2>2, <2>3, Sixes, Values
<1>9. PICK w : w = Quad(offset)
    OBVIOUS
<1>10. w = First6(a) * 262144 + Second6(a, b) * 4096 + Third6(b, c) * 64 + Fourth6(c)
    BY <1>8, <1>9 DEF Quad
<1>11. (w \div 65536) % 256 = a /\ (w \div 256) % 256 = b /\ w % 256 = c
    BY <1>7, <1>10, QuadCut
<1>12. dst' = dst \o <<a, b, c>>
    <2>1. dst' = dst \o <<(w \div 65536) % 256, (w \div 256) % 256, w % 256>>
        BY <1>9 DEF DecodeQuad
    <2>. QED
        BY <1>11, <2>1
<1>13. FirstBytes(dst', data, 3 * (q + 1))
    <2>1. PICK z : z = <<a, b, c>>
        OBVIOUS
    <2>2. z \in Seq(Byte) /\ Len(z) = 3 /\ \A k \in 1..3 : z[k] = data[3 * q + k]
        BY <1>6, <1>7, <2>1
    <2>3. FirstBytes(dst \o z, data, 3 * q + 3)
        <3>1. 3 * q \in Nat /\ \A k \in 1..Len(z) : z[k] = data[3 * q + k]
            BY <2>2
        <3>2. FirstBytes(dst \o z, data, 3 * q + Len(z))
            BY <1>1, <1>2, <2>2, <3>1, BytesAdded
        <3>. QED
            BY <2>2, <3>2
    <2>4. 3 * q + 3 = 3 * (q + 1)
        OBVIOUS
    <2>. QED
        BY <1>12, <2>1, <2>3, <2>4
<1>14. offset' = 4 * (q + 1) /\ q + 1 <= g /\ q + 1 \in Nat
    BY <1>1, <1>2, <1>3
<1>15. \E x \in Nat, y \in 0..2, p \in Nat :
          /\ Len(data) = 3 * x + y /\ stripped' = 4 * x + RestLen(y)
          /\ offset' = 4 * p /\ p <= x /\ FirstBytes(dst', data, 3 * p)
    BY <1>1, <1>2, <1>13, <1>14
<1>. QED
    BY <1>1, <1>15 DEF CodeInv

\* Its end: the rest of two or three characters is the last bytes.
LEMMA LastStep ==
    ASSUME CodeInv, DecodeRest
    PROVE  CodeInv'
<1>1. /\ data \in Seq(Byte) /\ data' = data /\ text = Encode(data) /\ text' = text
      /\ coding = "decode" /\ coding' = "done" /\ ~(stripped - offset > 3)
    BY DEF CodeInv, DecodeRest
<1>2. PICK g \in Nat, e \in 0..2, q \in Nat :
          /\ Len(data) = 3 * g + e /\ stripped = 4 * g + RestLen(e)
          /\ offset = 4 * q /\ q <= g /\ FirstBytes(dst, data, 3 * q)
    BY <1>1 DEF CodeInv
<1>3. q = g
    BY <1>1, <1>2 DEF RestLen
<1>4. Len(text) = EncodedLen(Len(data))
    BY <1>1, EncodeLen
<1>5. EncodedLen(Len(data)) = IF e = 0 THEN 4 * g ELSE 4 * g + 4
    <2>1. PICK h \in Nat, f \in 0..2 :
              /\ Len(data) = 3 * h + f
              /\ EncodedLen(Len(data)) = IF f = 0 THEN 4 * h ELSE 4 * (h + 1)
        BY <1>1, Threes
    <2>2. h = g /\ f = e
        BY <1>2, <2>1
    <2>. QED
        BY <2>1, <2>2
<1>6. PICK z : z = (CASE Len(text) - stripped = 0 -> << >>
                      [] Len(text) - stripped = 1 -> Two(Trailing(3), Trailing(2), Trailing(1))
                      [] Len(text) - stripped = 2 -> One(Trailing(2), Trailing(1)))
    OBVIOUS
<1>7. dst' = dst \o z
    BY <1>6 DEF DecodeRest
<1>8. z \in Seq(Byte) /\ Len(z) = e /\ \A k \in 1..Len(z) : z[k] = data[3 * g + k]
    <2>1. CASE e = 0
        <3>1. Len(text) - stripped = 0 /\ ~(Len(text) - stripped = 1) /\ ~(Len(text) - stripped = 2)
            BY <1>2, <1>4, <1>5, <2>1 DEF RestLen
        <3>2. z = << >>
            BY <1>6, <3>1, Zenon
        <3>. QED
            BY <2>1, <3>2
    <2>2. CASE e = 1
        <3>1. Len(text) - stripped = 2 /\ ~(Len(text) - stripped = 0) /\ ~(Len(text) - stripped = 1)
            BY <1>2, <1>4, <1>5, <2>2 DEF RestLen
        <3>2. z = One(Trailing(2), Trailing(1))
            BY <1>6, <3>1, Zenon
        <3>3. PICK a : a = data[3 * g + 1]
            OBVIOUS
        <3>4. /\ a \in Byte
              /\ Sextet(data, g, 1) = Char(First6(a)) /\ Sextet(data, g, 2) = Char(Second6(a, 0))
            BY <1>1, <1>2, <2>2, <3>3, SextetIs
        <3>5. Trailing(2) = First6(a) /\ Trailing(1) = Second6(a, 0)
            <4>1. stripped - 2 = 4 * g + 1 - 1 /\ stripped - 1 = 4 * g + 2 - 1
                BY <1>2, <2>2 DEF RestLen
            <4>2. 4 * g + 1 <= EncodedLen(Len(data)) /\ 4 * g + 2 <= EncodedLen(Len(data))
                BY <1>5, <2>2
            <4>3. Src(4 * g + 1 - 1) = Sextet(data, g, 1) /\ Src(4 * g + 2 - 1) = Sextet(data, g, 2)
                BY <1>1, <4>2, SrcIs
            <4>4. 0 \in Byte
                BY DEF Byte
            <4>. QED
                BY <3>4, <4>1, <4>3, <4>4, Sixes, Values DEF Trailing
        <3>6. z = <<a>>
            BY <3>2, <3>4, <3>5, RestCut
        <3>. QED
            BY <2>2, <3>3, <3>4, <3>6
    <2>3. CASE e = 2
        <3>1. Len(text) - stripped = 1 /\ ~(Len(text) - stripped = 0) /\ ~(Len(text) - stripped = 2)
            BY <1>2, <1>4, <1>5, <2>3 DEF RestLen
        <3>2. z = Two(Trailing(3), Trailing(2), Trailing(1))
            BY <1>6, <3>1, Zenon
        <3>3. PICK a, b : a = data[3 * g + 1] /\ b = data[3 * g + 2]
            OBVIOUS
        <3>4. /\ a \in Byte /\ b \in Byte
              /\ Sextet(data, g, 1) = Char(First6(a)) /\ Sextet(data, g, 2) = Char(Second6(a, b))
              /\ Sextet(data, g, 3) = Char(Third6(b, 0))
            BY <1>1, <1>2, <2>3, <3>3, SextetIs
        <3>5. Trailing(3) = First6(a) /\ Trailing(2) = Second6(a, b) /\ Trailing(1) = Third6(b, 0)
            <4>1. /\ stripped - 3 = 4 * g + 1 - 1 /\ stripped - 2 = 4 * g + 2 - 1
                  /\ stripped - 1 = 4 * g + 3 - 1
                BY <1>2, <2>3 DEF RestLen
            <4>2. /\ 4 * g + 1 <= EncodedLen(Len(data)) /\ 4 * g + 2 <= EncodedLen(Len(data))
                  /\ 4 * g + 3 <= EncodedLen(Len(data))
                BY <1>5, <2>3
            <4>3. /\ Src(4 * g + 1 - 1) = Sextet(data, g, 1) /\ Src(4 * g + 2 - 1) = Sextet(data, g, 2)
                  /\ Src(4 * g + 3 - 1) = Sextet(data, g, 3)
                BY <1>1, <4>2, SrcIs
            <4>4. 0 \in Byte
                BY DEF Byte
            <4>. QED
                BY <3>4, <4>1, <4>3, <4>4, Sixes, Values DEF Trailing
        <3>6. z = <<a, b>>
            BY <3>2, <3>4, <3>5, RestCut
        <3>7. z \in Seq(Byte) /\ Len(z) = 2 /\ z[1] = a /\ z[2] = b
            BY <3>4, <3>6
        <3>. QED
            <4>1. \A k \in 1..2 : k = 1 \/ k = 2
                OBVIOUS
            <4>. QED
                BY <2>3, <3>3, <3>7, <4>1
    <2>. QED
        BY <2>1, <2>2, <2>3
<1>9. FirstBytes(dst', data, Len(data))
    <2>1. 3 * g \in Nat /\ FirstBytes(dst, data, 3 * g)
        BY <1>2, <1>3
    <2>2. FirstBytes(dst \o z, data, 3 * g + Len(z))
        BY <1>1, <1>8, <2>1, BytesAdded
    <2>. QED
        BY <1>2, <1>7, <1>8, <2>2
<1>10. dst' = data
    BY <1>1, <1>9, FirstIsAll
<1>. QED
    BY <1>1, <1>10 DEF CodeInv

\* base64_decode gives back every text of bytes that base64_encode has written, and what
\* that has written is Base64 (src/base64.c).
THEOREM CodedAndBackHolds == CodeSpec => []CodedAndBack
<1>1. CodeInit => CodeInv
    <2>. SUFFICES ASSUME CodeInit PROVE CodeInv
        OBVIOUS
    <2>1. /\ data \in Seq(Byte) /\ coding = "encode" /\ offset = 0 /\ text = << >> /\ dst = << >>
        BY InputsAssumption DEF CodeInit
    <2>2. Quads(text, data, 0)
        BY <2>1 DEF Quads
    <2>3. 0 \in Nat /\ offset = 3 * 0 /\ 3 * 0 <= Len(data)
        BY <2>1
    <2>. QED
        BY <2>1, <2>2, <2>3 DEF CodeInv
<1>2. CodeInv /\ [CodeNext]_codeVars => CodeInv'
    <2>. SUFFICES ASSUME CodeInv, [CodeNext]_codeVars PROVE CodeInv'
        OBVIOUS
    <2>1. CASE UNCHANGED codeVars
        BY <2>1 DEF CodeInv, codeVars
    <2>. QED
        BY <2>1, TripleStep, RestStep, SizeStep, QuadStep, LastStep DEF CodeNext
<1>3. CodeInv => CodedAndBack
    BY DEF CodeInv, CodedAndBack
<1>. QED
    BY <1>1, <1>2, <1>3, PTL DEF CodeSpec
---------------------------------------------------------------------------
(* Fragments *)

\* An int has ten digits at most.
LEMMA DigitsOf == \A id : Digits(id) \in 1..10
BY SMT DEF Digits

\* What is shorter than what snprintf is told is whole; it fits if that is not more than the
\* room, or if it is shorter than the room itself.
LEMMA WholeIfTold ==
    ASSUME NEW what, NEW chars \in Nat, NEW told \in Nat, NEW space \in Nat,
           Snprintf(what, chars, told, space),
           what = "profile_id" \/ chars < told,
           what \in {"not_connected", "search_row"} \/ told <= space
               \/ (chars < told /\ chars < space)
    PROVE  PiecesPrinted'
<1>1. piece' = what /\ length' = chars /\ limit' = told /\ room' = space
    BY DEF Snprintf
<1>2. PICK p \in Int : p = IF chars < told THEN chars ELSE told - 1
    BY SMT
<1>3. what # "profile_id" => p = chars
    BY <1>2
<1>4. what \notin {"not_connected", "search_row"} => p + 1 <= space
    BY <1>2
<1>. QED
    BY <1>1, <1>2, <1>3, <1>4 DEF PiecesPrinted, PiecesWhole, PiecesFit, Printed

\* Whatever members are called and post, and however many there are, no piece of markup is
\* cut or overflows its buffer, but for those that are named (snprintf of the handlers).
THEOREM PiecesPrintedHolds == PieceSpec => []PiecesPrinted
<1>1. PieceInit => PiecesPrinted
    BY DEF PieceInit, PiecesPrinted, PiecesWhole, PiecesFit, Printed
<1>2. PiecesPrinted /\ [PieceNext]_pieceVars => PiecesPrinted'
    <2>. SUFFICES ASSUME PiecesPrinted, [PieceNext]_pieceVars PROVE PiecesPrinted'
        OBVIOUS
    <2>1. ASSUME NEW n \in NameLens, NEW b \in BodyLens, DashboardEntry(n, b)
          PROVE  PiecesPrinted'
        <3>1. n \in 0..50 /\ b \in Nat
            BY FragmentsAssumption
        <3>2. Snprintf("dashboard_entry", 85 + n + b, b + n + 86, b + n + 87)
            BY <2>1 DEF DashboardEntry
        <3>. QED
            BY <3>1, <3>2, WholeIfTold
    <2>2. ASSUME NEW id \in Numbers, UnlikeLink(id) \/ LikeLink(id) \/ ProfileId(id) \/ RedirectTo(id)
          PROVE  PiecesPrinted'
        <3>1. PICK d \in 1..10 : d = Digits(id)
            BY DigitsOf
        <3>2. \/ Snprintf("unlike_link", 44 + d, 55, 128)
              \/ Snprintf("like_link", 41 + d, 52, 128)
              \/ Snprintf("profile_id", d, 10, 11)
              \/ Snprintf("redirect", 10 + d, 32, 32)
            BY <2>2, <3>1 DEF UnlikeLink, LikeLink, ProfileId, RedirectTo
        <3>. QED
            BY <3>2, WholeIfTold
    <2>3. ASSUME NEW b \in BodyLens, ProfileEntry(b)
          PROVE  PiecesPrinted'
        <3>1. b \in Nat
            BY FragmentsAssumption
        <3>2. Snprintf("profile_entry", 53 + b, 54 + b, b + 55)
            BY <2>3 DEF ProfileEntry
        <3>. QED
            BY <3>1, <3>2, WholeIfTold
    <2>4. ASSUME NEW n \in NameLens, Connected(n)
          PROVE  PiecesPrinted'
        <3>1. n \in 0..50
            BY FragmentsAssumption
        <3>2. Snprintf("connected", 23 + n, 26 + n, 128)
            BY <2>4 DEF Connected
        <3>. QED
            BY <3>1, <3>2, WholeIfTold
    <2>5. ASSUME NEW n \in NameLens, NEW id \in Numbers, NotConnected(n, id)
          PROVE  PiecesPrinted'
        <3>1. n \in 0..50
            BY FragmentsAssumption
        <3>2. PICK d \in 1..10 : d = Digits(id)
            BY DigitsOf
        <3>3. Snprintf("not_connected", 75 + n + d, 86 + n, 128)
            BY <2>5, <3>2 DEF NotConnected
        <3>. QED
            BY <3>1, <3>3, WholeIfTold
    <2>6. ASSUME NEW id \in Numbers, NEW n \in NameLens, NEW m \in EmailLens, SearchRow(id, n, m)
          PROVE  PiecesPrinted'
        <3>1. n \in 0..50 /\ m \in 0..50
            BY FragmentsAssumption
        <3>2. PICK d \in 1..10 : d = Digits(id)
            BY DigitsOf
        <3>3. Snprintf("search_row", 51 + d + n + m, 62 + n + m, 128)
            BY <2>6, <3>2 DEF SearchRow
        <3>. QED
            BY <3>1, <3>3, WholeIfTold
    <2>7. CASE UNCHANGED pieceVars
        BY <2>7 DEF pieceVars, PiecesPrinted, PiecesWhole, PiecesFit, Printed
    <2>. QED
        BY <2>1, <2>2, <2>3, <2>4, <2>5, <2>6, <2>7 DEF PieceNext
<1>. QED
    BY <1>1, <1>2, PTL DEF PieceSpec

---------------------------------------------------------------------------
(* Search: whom Base64 leaves recognizable is on the page *)

\* Texts that base64_encode writes.
LEMMA EncodeWrites ==
    ASSUME NEW s \in Seq(Byte)
    PROVE  /\ EncodedLen(Len(s)) \in Nat /\ Len(Encode(s)) = EncodedLen(Len(s))
           /\ \A k \in 1..EncodedLen(Len(s)) :
                  Encode(s)[k] = Sextet(s, (k - 1) \div 4, ((k - 1) % 4) + 1)
<1>1. EncodedLen(Len(s)) \in Nat
    BY DEF EncodedLen
<1>2. PICK e : e = Encode(s)
    OBVIOUS
<1>3. /\ DOMAIN e = 1..EncodedLen(Len(s)) /\ e = [k \in 1..EncodedLen(Len(s)) |-> e[k]]
      /\ \A k \in 1..EncodedLen(Len(s)) : e[k] = Sextet(s, (k - 1) \div 4, ((k - 1) % 4) + 1)
    BY <1>2 DEF Encode
<1>4. e \in Seq({e[k] : k \in 1..EncodedLen(Len(s))})
    BY <1>1, <1>3
<1>5. Len(e) = EncodedLen(Len(s))
    BY <1>1, <1>3, <1>4
<1>. QED
    BY <1>1, <1>2, <1>3, <1>5

\* The query stands in the word from the t-th triple of bytes on.
StandsFrom(t, q, w) ==
    /\ 3 * t + Len(q) <= Len(w)
    /\ \A j \in 1..Len(q) : w[3 * t + j] = q[j]
    /\ Len(q) % 3 = 0 \/ 3 * t + Len(q) = Len(w)

\* The bytes of a query that stands in a word from the (3 t + 1)-st on: they are the word's,
\* and where the query ends within a triple the word does, too.
LEMMA SameBytes ==
    ASSUME NEW q \in Seq(Byte), NEW w \in Seq(Byte), NEW t \in Nat,
           StandsFrom(t, q, w),
           NEW g \in Nat, 3 * g < Len(q), NEW c \in 0..2
    PROVE  /\ ByteAt(w, 3 * (t + g) + c) = ByteAt(q, 3 * g + c)
           /\ 3 * (t + g) + c >= Len(w) <=> 3 * g + c >= Len(q)
<1>1. Len(q) \in Nat /\ Len(w) \in Nat
    OBVIOUS
<1>2. CASE 3 * g + c < Len(q)
    <2>1. 3 * g + c + 1 \in 1..Len(q)
        BY <1>1, <1>2
    <2>2. w[3 * t + (3 * g + c + 1)] = q[3 * g + c + 1]
        BY <2>1 DEF StandsFrom
    <2>3. 3 * t + (3 * g + c + 1) = 3 * (t + g) + c + 1
        OBVIOUS
    <2>4. 3 * (t + g) + c < Len(w)
        BY <1>1, <1>2 DEF StandsFrom
    <2>. QED
        BY <1>1, <1>2, <2>2, <2>3, <2>4 DEF ByteAt
<1>3. CASE 3 * g + c >= Len(q)
    <2>1. Len(q) % 3 # 0
        <3>1. ASSUME Len(q) % 3 = 0 PROVE FALSE
            <4>1. PICK n \in Nat : n = Len(q)
                BY <1>1
            <4>2. n % 3 = 0 /\ 3 * g < n /\ n <= 3 * g + 2
                BY <1>3, <3>1, <4>1
            <4>. QED
                BY <4>2
        <3>. QED
            BY <3>1
    <2>2. 3 * t + Len(q) = Len(w)
        BY <2>1 DEF StandsFrom
    <2>3. 3 * (t + g) + c >= Len(w)
        BY <1>1, <1>3, <2>2
    <2>. QED
        BY <1>1, <1>3, <2>3 DEF ByteAt
<1>. QED
    BY <1>1, <1>2, <1>3

\* The characters of its code are those of the word's from the (4 t + 1)-st on.
LEMMA SameCharacters ==
    ASSUME NEW q \in Seq(Byte), NEW w \in Seq(Byte), NEW t \in Nat,
           StandsFrom(t, q, w),
           NEW g \in Nat, 3 * g < Len(q), NEW r \in 1..4
    PROVE  Sextet(w, t + g, r) = Sextet(q, g, r)
<1>0. 0 \in 0..2 /\ 1 \in 0..2 /\ 2 \in 0..2
    OBVIOUS
<1>1. ByteAt(w, 3 * (t + g)) = ByteAt(q, 3 * g)
    <2>1. PICK c \in 0..2 : c = 0
        BY <1>0
    <2>2. ByteAt(w, 3 * (t + g) + c) = ByteAt(q, 3 * g + c)
        BY SameBytes
    <2>3. 3 * (t + g) + c = 3 * (t + g) /\ 3 * g + c = 3 * g
        BY <2>1
    <2>. QED
        BY <2>2, <2>3
<1>2. /\ ByteAt(w, 3 * (t + g) + 1) = ByteAt(q, 3 * g + 1)
      /\ 3 * (t + g) + 1 >= Len(w) <=> 3 * g + 1 >= Len(q)
    BY <1>0, SameBytes
<1>3. /\ ByteAt(w, 3 * (t + g) + 2) = ByteAt(q, 3 * g + 2)
      /\ 3 * (t + g) + 2 >= Len(w) <=> 3 * g + 2 >= Len(q)
    BY <1>0, SameBytes
<1>4. CASE r = 1
    BY <1>1, <1>4 DEF Sextet
<1>5. CASE r = 2
    BY <1>1, <1>2, <1>5 DEF Sextet
<1>6. CASE r = 3
    BY <1>2, <1>3, <1>6 DEF Sextet
<1>7. CASE r = 4
    BY <1>3, <1>7 DEF Sextet
<1>. QED
    BY <1>4, <1>5, <1>6, <1>7

\* LIKE finds the code of the query in that of the word.
LEMMA AlignedIsLike ==
    ASSUME NEW q \in Seq(Byte), NEW w \in Seq(Byte), StandsAligned(q, w)
    PROVE  Like(Encode(w), Encode(q))
<1>1. Len(q) \in Nat /\ Len(w) \in Nat
    OBVIOUS
<1>2. PICK k \in 0..(Len(w) - Len(q)) : /\ \A j \in 1..Len(q) : w[k + j] = q[j]
                                        /\ k % 3 = 0
                                        /\ Len(q) % 3 = 0 \/ k + Len(q) = Len(w)
    BY DEF StandsAligned
<1>3. PICK t \in Nat : t = k \div 3 /\ k = 3 * t
    BY <1>1, <1>2
<1>4. StandsFrom(t, q, w)
    BY <1>1, <1>2, <1>3 DEF StandsFrom
<1>5. PICK m \in Nat, n \in Nat : m = Len(q) /\ n = Len(w)
    BY <1>1
<1>6. /\ EncodedLen(m) \in Nat /\ EncodedLen(n) \in Nat
      /\ 4 * t + EncodedLen(m) <= EncodedLen(n)
    BY <1>4, <1>5 DEF EncodedLen, StandsFrom
<1>7. /\ Len(Encode(q)) = EncodedLen(m) /\ Len(Encode(w)) = EncodedLen(n)
    BY <1>5, EncodeWrites
<1>8. 4 * t \in 0..(Len(Encode(w)) - Len(Encode(q)))
    BY <1>6, <1>7
<1>9. ASSUME NEW j \in 1..EncodedLen(m)
      PROVE  Encode(w)[4 * t + j] = Encode(q)[j]
    <2>0. PICK i \in Nat : i = j - 1 /\ i < EncodedLen(m)
        BY <1>6
    <2>1. PICK g \in Nat, r \in 1..4 : g = i \div 4 /\ r = (i % 4) + 1 /\ i = 4 * g + r - 1
        <3>1. PICK g \in Nat : g = i \div 4
            BY <2>0
        <3>2. PICK d \in 0..3 : d = i % 4
            BY <2>0
        <3>3. i = 4 * g + d
            BY <2>0, <3>1, <3>2
        <3>4. PICK r \in 1..4 : r = d + 1
            BY <3>2
        <3>5. i = 4 * g + r - 1
            BY <3>1, <3>2, <3>3, <3>4
        <3>. QED
            BY <3>1, <3>2, <3>4, <3>5
    <2>2. 3 * g < m
        <3>1. 4 * g < EncodedLen(m)
            BY <1>6, <2>0, <2>1
        <3>. QED
            BY <3>1 DEF EncodedLen
    <2>3. Encode(q)[j] = Sextet(q, g, r)
        BY <1>5, <2>0, <2>1, EncodeWrites
    <2>4. PICK k2 \in 1..EncodedLen(n) : k2 = 4 * t + j
        BY <1>6
    <2>5. (k2 - 1) \div 4 = t + g /\ ((k2 - 1) % 4) + 1 = r
        <3>1. k2 - 1 = 4 * (t + g) + (r - 1)
            BY <1>3, <1>6, <2>0, <2>1, <2>4
        <3>2. PICK x \in Nat : x = t + g
            BY <1>3, <2>1
        <3>3. PICK d \in 0..3 : d = r - 1
            BY <2>1
        <3>4. (4 * x + d) \div 4 = x /\ (4 * x + d) % 4 = d
            OBVIOUS
        <3>. QED
            BY <2>1, <3>1, <3>2, <3>3, <3>4
    <2>6. Encode(w)[4 * t + j] = Sextet(w, t + g, r)
        BY <1>5, <2>4, <2>5, EncodeWrites
    <2>7. 3 * g < Len(q)
        BY <1>5, <2>2
    <2>8. Sextet(w, t + g, r) = Sextet(q, g, r)
        BY <1>3, <1>4, <2>1, <2>7, SameCharacters
    <2>. QED
        BY <2>3, <2>6, <2>8
<1>10. \A j \in 1..Len(Encode(q)) : Fold(Encode(w)[4 * t + j]) = Fold(Encode(q)[j])
    BY <1>7, <1>9
<1>. QED
    BY <1>8, <1>10 DEF Like

---------------------------------------------------------------------------
(* The table *)

Row == [createdAt : Nat, stored : [Fields -> {Encode(bytes) : bytes \in Seq(Byte)}],
        meant : [Fields -> Seq(Byte)]]

\* The table holds what was given, encoded.
TableHolds == /\ accounts \in Seq(Row)
              /\ \A i \in DOMAIN accounts : \A f \in Fields :
                     accounts[i].stored[f] = Encode(accounts[i].meant[f])

\* accountCreate appends such a row.
LEMMA SignupKeeps == ASSUME TableHolds, Signup PROVE TableHolds'
<1>1. PICK person \in People, later \in 0..1 :
          accounts' = Append(accounts,
              [createdAt |-> later + (IF accounts = << >> THEN 0 ELSE Last(accounts).createdAt),
               stored    |-> [f \in Fields |-> Encode(person[f])],
               meant     |-> person])
    BY DEF Signup
<1>2. person \in [Fields -> Seq(Byte)]
    BY SearchAssumption
<1>3. PICK n : n = later + (IF accounts = << >> THEN 0 ELSE Last(accounts).createdAt)
    OBVIOUS
<1>4. n \in Nat
    <2>1. CASE accounts = << >>
        BY <1>3, <2>1
    <2>2. CASE accounts # << >>
        <3>1. Last(accounts) \in Row
            BY <2>2 DEF TableHolds, Last
        <3>2. Last(accounts).createdAt \in Nat
            BY <3>1 DEF Row
        <3>. QED
            BY <1>3, <2>2, <3>2
    <2>. QED
        BY <2>1, <2>2
<1>5. PICK row : row = [createdAt |-> n, stored |-> [f \in Fields |-> Encode(person[f])],
                        meant |-> person]
    OBVIOUS
<1>6. row \in Row
    <2>1. [f \in Fields |-> Encode(person[f])] \in [Fields -> {Encode(bytes) : bytes \in Seq(Byte)}]
        BY <1>2
    <2>. QED
        BY <1>2, <1>4, <1>5, <2>1 DEF Row
<1>7. \A f \in Fields : row.stored[f] = Encode(row.meant[f])
    BY <1>5
<1>8. accounts' = Append(accounts, row)
    BY <1>1, <1>3, <1>5
<1>9. accounts' \in Seq(Row)
    BY <1>6, <1>8 DEF TableHolds
<1>10. /\ DOMAIN accounts' = DOMAIN accounts \cup {Len(accounts) + 1}
       /\ \A i \in DOMAIN accounts : accounts'[i] = accounts[i]
       /\ accounts'[Len(accounts) + 1] = row
    BY <1>8 DEF TableHolds
<1>11. \A i \in DOMAIN accounts' : \A f \in Fields :
           accounts'[i].stored[f] = Encode(accounts'[i].meant[f])
    BY <1>7, <1>10 DEF TableHolds
<1>. QED
    BY <1>9, <1>11 DEF TableHolds

\* A page that is not full lists all.
LEMMA AllUnlessFull ==
    ASSUME NEW S, IsFiniteSet(S), NEW rows \in [1..SmallerOf(Limit, Cardinality(S)) -> S],
           \A j, k \in DOMAIN rows : j < k => rows[j] # rows[k],
           NEW i \in S, \A j \in DOMAIN rows : rows[j] # i
    PROVE  Len(rows) = Limit
<1>1. Limit \in Nat /\ Cardinality(S) \in Nat
    BY SearchAssumption, FS_CardinalityType
<1>2. PICK n \in Nat : n = SmallerOf(Limit, Cardinality(S))
    BY <1>1 DEF SmallerOf
<1>3. rows \in [1..n -> S] /\ rows \in Seq(S) /\ Len(rows) = n
    BY <1>2
<1>4. ASSUME n = Cardinality(S) PROVE FALSE
    <2>1. IsFiniteSet(S \ {i}) /\ Cardinality(S \ {i}) = n - 1
        BY <1>4, FS_RemoveElement
    <2>2. IsFiniteSet(1..n) /\ Cardinality(1..n) = n
        BY FS_Interval, 1 \in Int, n \in Int
    <2>3. rows \in [1..n -> S \ {i}]
        BY <1>3
    <2>4. PICK x \in 1..n, y \in 1..n : x # y /\ rows[x] = rows[y]
        <3>1. PICK D, T : D = 1..n /\ T = S \ {i}
            OBVIOUS
        <3>2. IsFiniteSet(D) /\ IsFiniteSet(T) /\ Cardinality(T) < Cardinality(D)
            BY <2>1, <2>2, <3>1
        <3>3. rows \in [D -> T]
            BY <2>3, <3>1
        <3>4. \E x \in D : \E y \in D : x # y /\ rows[x] = rows[y]
            BY <3>2, <3>3, FS_PigeonHole
        <3>. QED
            BY <3>1, <3>4
    <2>5. x < y \/ y < x
        BY <2>4
    <2>. QED
        BY <1>3, <2>4, <2>5
<1>. QED
    BY <1>1, <1>2, <1>3, <1>4 DEF SmallerOf

\* Whoever is asked for by a whole field, or by a part of it that stands as Base64 cuts it,
\* is on the page of accountSearch, unless it is full of others who signed up no earlier:
\* for any names, any query and any limit.
THEOREM FoundWhenAlignedHolds == SearchSpec => FoundWhenAligned
<1>1. SearchInit => TableHolds
    BY DEF SearchInit, TableHolds
<1>2. TableHolds /\ [SearchNext]_searchVars => TableHolds'
    <2>. SUFFICES ASSUME TableHolds, [SearchNext]_searchVars PROVE TableHolds'
        OBVIOUS
    <2>1. CASE Signup
        BY <2>1, SignupKeeps
    <2>2. ASSUME NEW q \in Queries, NEW loggedIn \in BOOLEAN, Search(q, loggedIn)
          PROVE  TableHolds'
        BY <2>2 DEF Search, TableHolds
    <2>3. CASE UNCHANGED searchVars
        BY <2>3 DEF searchVars, TableHolds
    <2>. QED
        BY <2>1, <2>2, <2>3 DEF SearchNext
<1>3. ASSUME TableHolds, NEW q \in Queries \ {<< >>}, Search(q, TRUE), NEW i \in DOMAIN accounts,
             NEW f \in Fields, StandsAligned(q, accounts[i].meant[f])
      PROVE  \/ \E j \in DOMAIN results'.rows : results'.rows[j] = i
             \/ /\ Len(results'.rows) = Limit
                /\ \A j \in 1..Limit :
                       accounts[results'.rows[j]].createdAt >= accounts[i].createdAt
    <2>1. PICK rows \in Newest(Matches(q)) : results' = Page("results", rows)
        BY <1>3 DEF Search
    <2>2. results'.rows = rows
        BY <2>1 DEF Page
    <2>3. accounts \in Seq(Row) /\ accounts[i] \in Row
        BY <1>3 DEF TableHolds
    <2>4. q \in Seq(Byte) /\ accounts[i].meant[f] \in Seq(Byte)
        BY <2>3, SearchAssumption DEF Row
    <2>5. accounts[i].stored[f] = Encode(accounts[i].meant[f])
        BY <1>3 DEF TableHolds
    <2>6. i \in Matches(q)
        BY <1>3, <2>4, <2>5, AlignedIsLike DEF Matches, Pattern
    <2>7. IsFiniteSet(Matches(q)) /\ Matches(q) \subseteq DOMAIN accounts
        <3>1. DOMAIN accounts = 1..Len(accounts) /\ Len(accounts) \in Int
            BY <2>3
        <3>2. IsFiniteSet(DOMAIN accounts)
            BY <3>1, FS_Interval, 1 \in Int
        <3>3. Matches(q) \subseteq DOMAIN accounts
            BY DEF Matches
        <3>. QED
            BY <3>2, <3>3, FS_Subset
    <2>8. PICK S : S = Matches(q)
        OBVIOUS
    <2>9. /\ rows \in [1..SmallerOf(Limit, Cardinality(S)) -> S]
          /\ \A j, k \in DOMAIN rows : j < k => rows[j] # rows[k]
          /\ \A x \in S \ {rows[j] : j \in DOMAIN rows} :
                 \A j \in DOMAIN rows : accounts[x].createdAt <= accounts[rows[j]].createdAt
        BY <2>1, <2>8 DEF Newest
    <2>10. ASSUME \A j \in DOMAIN rows : rows[j] # i
           PROVE  /\ Len(rows) = Limit
                  /\ \A j \in 1..Limit : accounts[rows[j]].createdAt >= accounts[i].createdAt
        <3>1. Len(rows) = Limit
            BY <2>6, <2>7, <2>8, <2>9, <2>10, AllUnlessFull
        <3>2. DOMAIN rows = 1..Limit
            <4>1. PICK n \in Nat : n = SmallerOf(Limit, Cardinality(S))
                BY <2>7, <2>8, SearchAssumption, FS_CardinalityType DEF SmallerOf
            <4>2. rows \in [1..n -> S]
                BY <2>9, <4>1
            <4>3. Len(rows) = n
                BY <4>2
            <4>. QED
                BY <3>1, <4>2, <4>3
        <3>3. \A j \in DOMAIN rows : accounts[i].createdAt <= accounts[rows[j]].createdAt
            BY <2>6, <2>8, <2>9, <2>10
        <3>4. \A j \in DOMAIN rows : accounts[rows[j]].createdAt \in Nat
            <4>1. \A j \in DOMAIN rows : rows[j] \in DOMAIN accounts
                <5>1. PICK n \in Nat : n = SmallerOf(Limit, Cardinality(S))
                    BY <2>7, <2>8, SearchAssumption, FS_CardinalityType DEF SmallerOf
                <5>2. rows \in [1..n -> S]
                    BY <2>9, <5>1
                <5>. QED
                    BY <2>7, <2>8, <5>2
            <4>2. ASSUME NEW j \in DOMAIN rows PROVE accounts[rows[j]].createdAt \in Nat
                <5>1. PICK x \in DOMAIN accounts : x = rows[j]
                    BY <4>1
                <5>2. accounts[x] \in Row
                    BY <2>3, <5>1
                <5>3. accounts[x].createdAt \in Nat
                    BY <5>2 DEF Row
                <5>. QED
                    BY <5>1, <5>3
            <4>. QED
                BY <4>2
        <3>5. accounts[i].createdAt \in Nat
            BY <2>3 DEF Row
        <3>. QED
            BY <3>1, <3>2, <3>3, <3>4, <3>5
    <2>. QED
        BY <2>2, <2>10
<1>4. TableHolds /\ [SearchNext]_searchVars
      => [\A q \in Queries \ {<< >>} : Search(q, TRUE) =>
             \A i \in DOMAIN accounts :
                 (\E f \in Fields : StandsAligned(q, accounts[i].meant[f])) =>
                     \/ \E j \in DOMAIN results'.rows : results'.rows[j] = i
                     \/ /\ Len(results'.rows) = Limit
                        /\ \A j \in 1..Limit :
                               accounts[results'.rows[j]].createdAt >= accounts[i].createdAt]_searchVars
    BY <1>3, Zenon
<1>. QED
    BY <1>1, <1>2, <1>4, PTL DEF SearchSpec, FoundWhenAligned

---------------------------------------------------------------------------
(* Lifecycle *)

\* Where a call of FB_delete can be.
CallPlaces == {"table", "server", "fb", "exit"}

\* What a call of FB_delete has freed when it is at a place.
FreedBy(spot) == CASE spot = "table"  -> {}
                   [] spot = "server" -> {"table"}
                   [] spot = "fb"     -> {"table", "server"}
                   [] spot = "exit"   -> Objects

\* What main has allocated when it is at a statement.
Behind(spot) == CASE spot \in {"signal", "FB_new"} -> {}
                  [] spot = "serverNew"            -> {"fb"}
                  [] spot = "serverAddHandler"     -> {"fb", "server"}
                  [] OTHER                         -> Objects

Statements == {"signal", "FB_new", "serverNew", "serverAddHandler", "initDB", "assign",
               "serverServe", "epoll_wait", "handle"}

Harmed == outcome \in {"crashed", "hangs"}

Shape ==
    /\ main \in Statements /\ bound \in Nat /\ busy \in BOOLEAN /\ fb \in BOOLEAN
    /\ frames \in Seq([signal : Nat, at : CallPlaces])
    /\ frees \in [Objects -> Nat]

\* main sets fb when all objects are made.
Published == /\ Behind(main) \subseteq made /\ made \subseteq Objects
             /\ fb => main \in {"serverServe", "epoll_wait", "handle"}

\* Nothing is freed but by a handler; and one that is alone, finds fb and has interrupted no
\* call of the allocator frees each object once.
InOrder ==
    /\ frames = << >> => ~Harmed /\ \A o \in Objects : frees[o] = 0
    /\ frames # << >> /\ fb /\ ~Interrupted =>
           ~Harmed /\ \A o \in Objects : frees[o] = IF o \in FreedBy(frames[1].at) THEN 1 ELSE 0

LifeInv == Shape /\ Published /\ InOrder

\* The last of some calls.
LEMMA LastCall ==
    ASSUME NEW S, NEW calls \in Seq(S), calls # << >>
    PROVE  /\ Len(calls) \in Nat /\ Len(calls) >= 1
           /\ Len(calls) \in DOMAIN calls /\ calls[Len(calls)] \in S
OBVIOUS

\* It holds when the process starts.
LEMMA LifeInit == ProcessInit => LifeInv
<1>. SUFFICES ASSUME ProcessInit PROVE LifeInv
    OBVIOUS
<1>1. Shape
    <2>1. frames \in Seq([signal : Nat, at : CallPlaces])
        BY DEF ProcessInit
    <2>2. frees \in [Objects -> Nat]
        BY DEF ProcessInit
    <2>. QED
        BY <2>1, <2>2 DEF ProcessInit, Shape, Statements
<1>2. Behind("signal") = {}
    BY DEF Behind
<1>3. Published
    BY <1>2 DEF ProcessInit, Published
<1>4. InOrder
    BY DEF ProcessInit, InOrder, Harmed
<1>. QED
    BY <1>1, <1>3, <1>4 DEF LifeInv

\* A step of main, which does nothing while a handler runs.
LEMMA MainStep == ASSUME LifeInv, Main PROVE LifeInv'
<1>1. frames = << >> /\ frames' = frames /\ frees' = frees /\ \A o \in Objects : frees[o] = 0
    BY DEF LifeInv, InOrder, Main, InMalloc, BindSignal, MakeFb, MakeServer, MakeTable, OpenDB, Assign,
           Listen, Event, Handle, Make, MainAt, Then
<1>2. ~Harmed'
    BY <1>1 DEF LifeInv, InOrder, Harmed, Main, InMalloc, BindSignal, MakeFb, MakeServer, MakeTable,
           OpenDB, Assign, Listen, Event, Handle, Make, MainAt, Then, Objects, Alive
<1>3. InOrder'
    <2>1. frames' = << >> /\ \A o \in Objects : frees'[o] = 0
        BY <1>1
    <2>. QED
        BY <1>2, <2>1 DEF InOrder
<1>4. Shape'
    <2>1. frames' \in Seq([signal : Nat, at : CallPlaces]) /\ frees' \in [Objects -> Nat]
        BY <1>1 DEF LifeInv, Shape
    <2>2. main' \in Statements
        BY DEF LifeInv, Shape, Statements, Main, InMalloc, BindSignal, MakeFb, MakeServer, MakeTable,
               OpenDB, Assign, Listen, Event, Handle, Make, MainAt, Then
    <2>3. bound' \in Nat
        <3>1. bound' = bound \/ bound' = bound + 1
            BY DEF Main, InMalloc, BindSignal, MakeFb, MakeServer, MakeTable,
                   OpenDB, Assign, Listen, Event, Handle, Make, MainAt, Then
        <3>. QED
            BY <3>1 DEF LifeInv, Shape
    <2>4. busy' \in BOOLEAN /\ fb' \in BOOLEAN
        BY DEF LifeInv, Shape, Main, InMalloc, BindSignal, MakeFb, MakeServer, MakeTable,
               OpenDB, Assign, Listen, Event, Handle, Make, MainAt, Then
    <2>. QED
        BY <2>1, <2>2, <2>3, <2>4 DEF Shape
<1>5. Published'
    <2>1. /\ Behind("signal") = {} /\ Behind("FB_new") = {} /\ Behind("serverNew") = {"fb"}
          /\ Behind("serverAddHandler") = {"fb", "server"}
        BY DEF Behind
    <2>2. /\ Behind("initDB") = Objects /\ Behind("assign") = Objects
          /\ Behind("serverServe") = Objects /\ Behind("epoll_wait") = Objects
          /\ Behind("handle") = Objects
        BY DEF Behind
    <2>3. Behind(main) \subseteq made /\ made \subseteq Objects
          /\ (fb => main \in {"serverServe", "epoll_wait", "handle"})
        BY DEF LifeInv, Published
    <2>4. CASE InMalloc
        BY <2>3, <2>4 DEF Published, InMalloc
    <2>5. CASE BindSignal
        <3>1. main = "signal" /\ made' = made /\ fb' = fb /\ main' \in {"signal", "FB_new"}
            BY <2>5 DEF BindSignal, MainAt, Then
        <3>2. Behind(main') = {} /\ ~fb
            BY <2>1, <2>3, <3>1
        <3>. QED
            BY <2>3, <3>1, <3>2 DEF Published
    <2>6. CASE MakeFb \/ MakeServer \/ MakeTable
        <3>1. \/ main = "FB_new" /\ made' = made \cup {"fb"} /\ main' = "serverNew"
              \/ main = "serverNew" /\ made' = made \cup {"server"} /\ main' = "serverAddHandler"
              \/ main = "serverAddHandler" /\ made' = made \cup {"table"} /\ main' = "initDB"
            BY <2>6 DEF MakeFb, MakeServer, MakeTable, Make, MainAt, Then
        <3>2. fb' = fb
            BY <2>6 DEF MakeFb, MakeServer, MakeTable, Make
        <3>3. Behind(main') \subseteq made' /\ made' \subseteq Objects
            BY <2>1, <2>2, <2>3, <3>1 DEF Objects
        <3>4. ~fb'
            BY <2>3, <3>1, <3>2
        <3>. QED
            BY <3>3, <3>4, Zenon DEF Published, Behind
    <2>7. CASE OpenDB \/ Assign \/ Listen \/ Event \/ Handle
        <3>1. /\ main \in {"initDB", "assign", "serverServe", "epoll_wait", "handle"} /\ made' = made
              /\ main' \in {"assign", "serverServe", "epoll_wait", "handle"}
            BY <2>7 DEF OpenDB, Assign, Listen, Event, Handle, MainAt, Then
        <3>2. fb' => main' \in {"serverServe", "epoll_wait", "handle"}
            BY <2>3, <2>7 DEF OpenDB, Assign, Listen, Event, Handle, MainAt, Then
        <3>3. Behind(main') \subseteq made' /\ made' \subseteq Objects
            BY <2>2, <2>3, <3>1
        <3>. QED
            BY <3>2, <3>3, Zenon DEF Published, Behind
    <2>. QED
        BY <2>4, <2>5, <2>6, <2>7 DEF Main
<1>. QED
    BY <1>3, <1>4, <1>5 DEF LifeInv

\* A signal: the first one finds everything in order, the second interrupts the first.
LEMMA DeliverStep ==
    ASSUME LifeInv, NEW sig \in DOMAIN Signals, Deliver(sig)
    PROVE  LifeInv'
<1>1. CASE UNCHANGED frames
    BY <1>1 DEF LifeInv, Shape, Published, InOrder, Interrupted, Harmed, Deliver
<1>2. CASE frames' = Append(frames, [signal |-> sig, at |-> "table"])
    <2>1. sig \in Nat
        BY LifecycleAssumption
    <2>2. [signal |-> sig, at |-> "table"] \in [signal : Nat, at : CallPlaces]
        BY <2>1 DEF CallPlaces
    <2>3. frames' \in Seq([signal : Nat, at : CallPlaces]) /\ Len(frames') = Len(frames) + 1
          /\ (frames = << >> => frames'[1].at = "table") /\ frames' # << >>
        BY <1>2, <2>2 DEF LifeInv, Shape
    <2>4. Shape' /\ Published'
        BY <2>3 DEF LifeInv, Shape, Published, Deliver
    <2>5. ~Interrupted' => frames = << >>
        BY <2>3 DEF Interrupted, LifeInv, Shape
    <2>6. FreedBy("table") = {}
        BY DEF FreedBy
    <2>7. frames = << >> => outcome' = outcome /\ frees' = frees
        BY <1>2, <2>3 DEF Deliver, LifeInv, Shape
    <2>8. InOrder'
        BY <2>3, <2>5, <2>6, <2>7 DEF InOrder, LifeInv, Harmed
    <2>. QED
        BY <2>4, <2>8 DEF LifeInv
<1>. QED
    BY <1>1, <1>2 DEF Deliver

\* A call of free, and the next place of FB_delete.
LEMMA FreeStep ==
    ASSUME LifeInv, NEW here \in CallPlaces, NEW object \in Objects, NEW next \in CallPlaces,
           InHandler(here), fb \/ here # "table", FreeIt(object, next),
           object \notin FreedBy(here), FreedBy(next) = FreedBy(here) \cup {object}
    PROVE  LifeInv'
<1>1. /\ frames # << >> /\ frames \in Seq([signal : Nat, at : CallPlaces])
      /\ frames[Len(frames)].at = here
    BY DEF InHandler, LifeInv, Shape
<1>5. /\ Len(frames) \in Nat /\ Len(frames) >= 1
      /\ Len(frames) \in DOMAIN frames /\ frames[Len(frames)] \in [signal : Nat, at : CallPlaces]
    BY <1>1, LastCall
<1>2. UNCHANGED <<main, busy, bound, fb, made>>
    BY DEF FreeIt
<1>3. CASE frees' = [frees EXCEPT ![object] = @ + 1] /\ GoOn(next) /\ UNCHANGED outcome
    <2>1. frees' \in [Objects -> Nat]
        BY <1>3 DEF LifeInv, Shape
    <2>2. /\ frames' \in Seq([signal : Nat, at : CallPlaces]) /\ Len(frames') = Len(frames)
          /\ (Len(frames) = 1 => frames'[1].at = next) /\ frames' # << >>
        <3>1. PICK k : k = Len(frames)
            OBVIOUS
        <3>2. PICK f : f = [frames[k] EXCEPT !.at = next]
            OBVIOUS
        <3>3. k \in DOMAIN frames /\ frames[k] \in [signal : Nat, at : CallPlaces]
            BY <1>5, <3>1
        <3>4. f \in [signal : Nat, at : CallPlaces] /\ f.at = next
            BY <3>2, <3>3
        <3>5. frames' = [frames EXCEPT ![k] = f]
            BY <1>3, <3>1, <3>2, Zenon DEF GoOn
        <3>. QED
            BY <1>1, <3>1, <3>3, <3>4, <3>5
    <2>3. Shape' /\ Published'
        BY <1>2, <2>1, <2>2 DEF LifeInv, Shape, Published
    <2>4. ASSUME fb', ~Interrupted'
          PROVE  ~Harmed' /\ \A o \in Objects : frees'[o] = IF o \in FreedBy(frames'[1].at) THEN 1 ELSE 0
        <3>1. fb /\ ~Interrupted /\ Len(frames) = 1
            BY <1>1, <1>2, <2>2, <2>4 DEF Interrupted
        <3>2. ~Harmed /\ \A o \in Objects : frees[o] = IF o \in FreedBy(here) THEN 1 ELSE 0
            BY <1>1, <3>1 DEF LifeInv, InOrder
        <3>3. \A o \in Objects : frees'[o] = IF o = object THEN frees[o] + 1 ELSE frees[o]
            BY <1>3 DEF LifeInv, Shape
        <3>4. frames'[1].at = next
            BY <2>2, <3>1
        <3>. QED
            BY <1>3, <3>2, <3>3, <3>4 DEF Harmed
    <2>5. InOrder'
        BY <2>2, <2>4 DEF InOrder
    <2>. QED
        BY <2>3, <2>5 DEF LifeInv
<1>4. CASE Bad(object) /\ UNCHANGED <<frees, frames>>
    <2>1. Shape' /\ Published'
        BY <1>2, <1>4 DEF LifeInv, Shape, Published
    <2>2. ASSUME fb, ~Interrupted PROVE FALSE
        <3>1. made = Objects
            <4>1. main \in {"serverServe", "epoll_wait", "handle"} /\ Behind(main) \subseteq made
                  /\ made \subseteq Objects
                BY <2>2 DEF LifeInv, Published
            <4>2. Behind(main) = Objects
                BY <4>1 DEF Behind
            <4>. QED
                BY <4>1, <4>2
        <3>2. Len(frames) = 1
            <4>1. PICK k : k = Len(frames)
                OBVIOUS
            <4>2. ~(k > 1)
                BY <2>2, <4>1, Zenon DEF Interrupted
            <4>3. k \in Nat /\ k >= 1
                BY <1>5, <4>1
            <4>. QED
                BY <4>1, <4>2, <4>3
        <3>3. frees[object] = 0
            BY <1>1, <2>2, <3>2 DEF LifeInv, InOrder
        <3>. QED
            BY <1>4, <2>2, <3>1, <3>3 DEF Bad
    <2>3. Interrupted' <=> Interrupted
        BY <1>2, <1>4 DEF Interrupted
    <2>4. InOrder'
        BY <1>1, <1>2, <1>4, <2>2, <2>3 DEF InOrder
    <2>. QED
        BY <2>1, <2>4 DEF LifeInv
<1>. QED
    BY <1>3, <1>4 DEF FreeIt

\* A step of the signal handler.
LEMMA SigStep == ASSUME LifeInv, Sig PROVE LifeInv'
<1>1. CASE NullFb
    BY <1>1 DEF NullFb, InHandler, LifeInv, Shape, Published, InOrder
<1>2. CASE DeleteTable
    <2>1. "table" \notin FreedBy("table") /\ FreedBy("server") = FreedBy("table") \cup {"table"}
        BY DEF FreedBy
    <2>. QED
        BY <1>2, <2>1, FreeStep DEF DeleteTable, CallPlaces, Objects
<1>3. CASE DeleteServer
    <2>1. "server" \notin FreedBy("server") /\ FreedBy("fb") = FreedBy("server") \cup {"server"}
        BY DEF FreedBy
    <2>. QED
        BY <1>3, <2>1, FreeStep DEF DeleteServer, CallPlaces, Objects
<1>4. CASE DeleteFb
    <2>1. "fb" \notin FreedBy("fb") /\ FreedBy("exit") = FreedBy("fb") \cup {"fb"}
        BY DEF FreedBy, Objects
    <2>. QED
        BY <1>4, <2>1, FreeStep DEF DeleteFb, CallPlaces, Objects
<1>5. CASE Exit
    <2>1. ~Harmed' /\ UNCHANGED <<main, busy, bound, fb, made, frees, frames>>
        BY <1>5 DEF Exit, Harmed
    <2>2. Interrupted' <=> Interrupted
        BY <2>1 DEF Interrupted
    <2>. QED
        BY <2>1, <2>2 DEF LifeInv, Shape, Published, InOrder
<1>. QED
    BY <1>1, <1>2, <1>3, <1>4, <1>5 DEF Sig

\* A signal ends the process in order, unless it came before main had set fb, within a call
\* of the allocator, or with another one being handled (main.c, FB_delete).
THEOREM DiesOnlyForHolds == ProcessSpec => []DiesOnlyFor
<1>1. LifeInv /\ [ProcessNext]_processVars => LifeInv'
    <2>. SUFFICES ASSUME LifeInv, [ProcessNext]_processVars PROVE LifeInv'
        OBVIOUS
    <2>1. CASE UNCHANGED processVars
        BY <2>1 DEF processVars, LifeInv, Shape, Published, InOrder, Interrupted, Harmed
    <2>. QED
        BY <2>1, MainStep, SigStep, DeliverStep DEF ProcessNext
<1>2. LifeInv => DiesOnlyFor
    <2>. SUFFICES ASSUME LifeInv, Harmed \/ \E o \in Objects : frees[o] > 1
                  PROVE  frames # << >> /\ (~fb \/ Interrupted)
        BY DEF DiesOnlyFor, Harmed
    <2>1. frames # << >>
        BY DEF LifeInv, InOrder
    <2>2. ~fb \/ Interrupted
        BY <2>1 DEF LifeInv, InOrder
    <2>. QED
        BY <2>1, <2>2
<1>. QED
    BY <1>1, <1>2, LifeInit, PTL DEF ProcessSpec

---------------------------------------------------------------------------
(* StaticFiles *)

\* The pages of a file hold it, and have its length only if that is a number of pages.
LEMMA PagesHold ==
    ASSUME NEW len \in Nat
    PROVE  Paged(len) \in Nat /\ Paged(len) >= len /\ (Paged(len) = len => len % PageSize = 0)
<1>1. PageSize \in Nat /\ PageSize > 0
    BY StaticAssumption
<1>2. PICK a : a = len + PageSize - 1
    OBVIOUS
<1>3. a \in Nat
    BY <1>1, <1>2
<1>4. PICK q, r : q = a \div PageSize /\ r = a % PageSize
    OBVIOUS
<1>5. q \in Nat /\ r \in Nat /\ r < PageSize /\ a = PageSize * q + r
    BY <1>1, <1>3, <1>4
<1>6. Paged(len) = q * PageSize
    BY <1>2, <1>4 DEF Paged
<1>7. q * PageSize \in Nat /\ q * PageSize >= len
    <2>1. q * PageSize \in Int /\ PageSize * q = q * PageSize
        BY <1>1, <1>5
    <2>2. PICK w : w = q * PageSize
        OBVIOUS
    <2>3. w \in Int /\ a = w + r
        BY <1>5, <2>1, <2>2
    <2>4. w >= len
        BY <1>1, <1>2, <1>5, <2>3
    <2>5. w \in Nat
        BY <2>3, <2>4
    <2>. QED
        BY <2>2, <2>4, <2>5, Zenon
<1>8. ASSUME q * PageSize = len PROVE len % PageSize = 0
    <2>1. PICK w : w = q * PageSize
        OBVIOUS
    <2>2. w \in Int /\ w = PageSize * q
        BY <1>1, <1>5, <2>1
    <2>3. a = len + r
        BY <1>5, <1>8, <2>1, <2>2
    <2>4. r = PageSize - 1
        BY <1>1, <1>2, <1>5, <2>3
    <2>5. len = PageSize * q
        BY <1>8, <2>1, <2>2
    <2>. QED
        BY <1>1, <1>5, <2>5
<1>. QED
    BY <1>6, <1>7, <1>8

\* What a file may hold, and what may be sent of it.
Stored == Bytes \cup {"NUL"}
Sendable == Bytes \cup {"NUL", "heap"}

\* What is at the mapping of a file that was not written since, and what of it is sent.
LEMMA SentIs ==
    ASSUME NEW c \in Seq(Stored), Content = c, NEW n, fm.len = n, n = Len(c)
    PROVE  /\ Sent \in Seq(Sendable)
           /\ IsText(c) => Sent = c
           /\ NulAt = {} => n % PageSize = 0
<1>1. n \in Nat /\ DOMAIN c = 1..n /\ \A k \in 1..n : c[k] \in Stored
    OBVIOUS
<1>2. PICK p : p = Paged(n)
    OBVIOUS
<1>3. p \in Nat /\ p >= n /\ (p = n => n % PageSize = 0)
    BY <1>1, <1>2, PagesHold
<1>4. PICK r : r = [k \in 1..p |-> IF k <= n THEN c[k] ELSE "NUL"]
    OBVIOUS
<1>5. Readable = r
    BY <1>2, <1>3, <1>4 DEF Readable
<1>6. DOMAIN r = 1..p /\ (\A k \in 1..n : r[k] = c[k]) /\ \A k \in (n + 1)..p : r[k] = "NUL"
    <2>1. DOMAIN r = 1..p
        BY <1>4
    <2>2. \A k \in 1..n : r[k] = c[k]
        BY <1>1, <1>3, <1>4
    <2>3. \A k \in (n + 1)..p : r[k] = "NUL"
        <3>. SUFFICES ASSUME NEW k \in (n + 1)..p PROVE r[k] = "NUL"
            OBVIOUS
        <3>1. k \in 1..p /\ ~(k <= n)
            BY <1>1, <1>3
        <3>. QED
            BY <1>4, <3>1
    <2>. QED
        BY <2>1, <2>2, <2>3, Zenon
<1>7. r \in Seq(Stored) /\ Len(r) = p
    <2>1. \A k \in 1..p : (IF k <= n THEN c[k] ELSE "NUL") \in Stored
        <3>. SUFFICES ASSUME NEW k \in 1..p PROVE (IF k <= n THEN c[k] ELSE "NUL") \in Stored
            OBVIOUS
        <3>1. CASE k <= n
            BY <1>1, <1>3, <3>1
        <3>2. CASE ~(k <= n)
            BY <3>2 DEF Stored
        <3>. QED
            BY <3>1, <3>2
    <2>. QED
        BY <1>3, <1>4, <2>1
<1>8. NulAt = {k \in 1..p : r[k] = "NUL"}
    BY <1>5, <1>6 DEF NulAt
<1>9. PICK d : d = Copied
    OBVIOUS
<1>10. Sent = [k \in 1..n |-> IF k <= Len(d) THEN d[k] ELSE IF k = Len(d) + 1 THEN "NUL" ELSE "heap"]
    BY <1>9, Zenon DEF Sent
<1>11. /\ d \in Seq(Stored)
       /\ IsText(c) => Len(d) >= n /\ \A k \in 1..n : d[k] = c[k]
       /\ NulAt = {} => p = n
    <2>1. CASE NulAt = {}
        <3>1. p = n
            <4>1. p > n => n + 1 \in NulAt
                BY <1>1, <1>3, <1>6, <1>8
            <4>. QED
                BY <1>1, <1>3, <2>1, <4>1
        <3>2. d = r
            BY <1>5, <1>9, <2>1, Zenon DEF Copied
        <3>. QED
            BY <1>3, <1>6, <1>7, <3>1, <3>2
    <2>2. CASE NulAt # {}
        <3>1. NulAt \in SUBSET Nat
            BY <1>8
        <3>2. PICK m : m = (CHOOSE k \in NulAt : \A l \in NulAt : k <= l)
            OBVIOUS
        <3>3. m \in NulAt
            BY <2>2, <3>1, <3>2, LeastNat
        <3>4. m \in 1..p /\ r[m] = "NUL"
            BY <1>8, <3>3
        <3>5. d = SubSeq(r, 1, m - 1)
            BY <1>5, <1>9, <2>2, <3>2, Zenon DEF Copied
        <3>6. d \in Seq(Stored) /\ Len(d) = m - 1 /\ \A k \in 1..(m - 1) : d[k] = r[k]
            BY <1>7, <3>4, <3>5
        <3>7. ASSUME IsText(c) PROVE Len(d) >= n /\ \A k \in 1..n : d[k] = c[k]
            <4>1. m > n
                BY <1>1, <1>3, <1>6, <3>4, <3>7 DEF IsText
            <4>. QED
                BY <1>1, <1>3, <1>6, <3>4, <3>6, <4>1
        <3>. QED
            BY <2>2, <3>6, <3>7
    <2>. QED
        BY <2>1, <2>2
<1>12. PICK s : s = Sent
    OBVIOUS
<1>13. /\ DOMAIN s = 1..n
       /\ \A k \in 1..n : s[k] = IF k <= Len(d) THEN d[k] ELSE IF k = Len(d) + 1 THEN "NUL" ELSE "heap"
    BY <1>10, <1>12
<1>14. s = [k \in 1..n |-> s[k]]
    BY <1>10, <1>12, <1>13
<1>15. s \in Seq(Sendable)
    <2>1. \A k \in 1..n : s[k] \in Sendable
        <3>. SUFFICES ASSUME NEW k \in 1..n PROVE s[k] \in Sendable
            OBVIOUS
        <3>1. CASE k <= Len(d)
            <4>1. k \in 1..Len(d)
                BY <1>1, <1>11, <3>1
            <4>2. d[k] \in Sendable
                BY <1>11, <4>1 DEF Stored, Sendable
            <4>. QED
                BY <1>13, <3>1, <4>2
        <3>2. CASE ~(k <= Len(d))
            <4>1. s[k] = IF k = Len(d) + 1 THEN "NUL" ELSE "heap"
                BY <1>13, <3>2
            <4>. QED
                BY <4>1 DEF Sendable
        <3>. QED
            BY <3>1, <3>2
    <2>. QED
        BY <1>1, <1>14, <2>1
<1>16. ASSUME IsText(c) PROVE s = c
    <2>1. Len(d) >= n /\ Len(d) \in Nat /\ \A k \in 1..n : d[k] = c[k]
        BY <1>11, <1>16
    <2>2. \A k \in 1..n : s[k] = c[k]
        BY <1>1, <1>13, <2>1
    <2>3. Len(s) = n
        BY <1>1, <1>13, <1>15
    <2>. QED
        BY <1>1, <1>15, <2>2, <2>3
<1>. QED
    BY <1>3, <1>11, <1>12, <1>15, <1>16

---------------------------------------------------------------------------
\* What is known of an answer from a file that was not written since.
Served ==
    /\ IsFile(fm.addr)
    /\ response.length = Len(Content) /\ response.type = MimeType(asked.name)
    /\ IsText(Content) => response.body = Content

\* A Buf_size: a file that is mapped, and unless it was written since, with its length.
Mapped(mp) ==
    /\ mp \in [addr : Names \cup {Absent}, len : Nat, steady : BOOLEAN]
    /\ mp.addr # Absent /\ mp.steady => IsFile(mp.addr) /\ mp.len = Len(files[mp.addr])

\* The types that matter.
StaticShape ==
    /\ files \in [Names -> FileContents \cup {Directory, Absent}]
    /\ step \in {"idle", "check", "lookup", "stat", "map", "copy", "down"}
    /\ asked.name \in Names /\ asked.dots \in BOOLEAN /\ requests \in Nat
    /\ file \in {"unopened", "open", "refused"}

\* Before a file is mapped: nothing of it is known, or from stat on its length.
Unmapped ==
    /\ fm.addr = Absent /\ file = "unopened"
    /\ step = "map" /\ fm.steady => IsFile(asked.name) /\ fm.len = Len(files[asked.name])

\* What is mapped: this request's file, or an earlier one's.
Meant ==
    /\ fm.addr # Absent /\ ~asked.dots /\ requests > 0
    /\ IF file = "open" THEN fm.addr = asked.name ELSE fm = entry /\ requests > 1

\* By the place of the handler: what has been looked at, and what was answered.
StaticInv ==
    /\ StaticShape /\ Mapped(fm) /\ Mapped(entry)
    /\ entry.addr # Absent => requests > 0
    /\ step \in {"check", "lookup", "stat", "map"} => Unmapped /\ response = Absent /\ requests > 0
    /\ step \in {"lookup", "stat", "map"} => ~asked.dots
    /\ step \in {"check", "lookup", "stat"} /\ entry.addr # Absent => requests > 1
    /\ step = "copy" => Meant /\ response = Absent
    /\ step = "idle" /\ response # Absent => Meant /\ (fm.steady => Served)
    /\ FoundUnlessRefused
    /\ step = "idle" /\ requests > 0 /\ response = Absent /\ fm.steady => fm.addr = Absent
    /\ CrashesOnlyFor
\* It holds at the start.
LEMMA StaticStart == StaticInit => StaticInv
<1>. SUFFICES ASSUME StaticInit PROVE StaticInv
    OBVIOUS
<1>1. (CHOOSE name \in Names : TRUE) \in Names
    BY StaticAssumption
<1>2. asked.name \in Names /\ asked.dots \in BOOLEAN
    BY <1>1 DEF StaticInit
<1>3. StaticShape
    BY <1>2 DEF StaticInit, StaticShape
<1>4. Mapped(fm) /\ Mapped(entry)
    BY DEF StaticInit, NoFile, Mapped
<1>. QED
    BY <1>3, <1>4 DEF StaticInit, StaticInv, CrashesOnlyFor, FoundUnlessRefused, NoFile

\* A request: nothing is known of the last one any more.
LEMMA AskStep ==
    ASSUME StaticInv, NEW dots \in BOOLEAN, NEW name \in Names, AskFor(dots, name)
    PROVE  StaticInv'
<1>1. asked'.name \in Names /\ asked'.dots \in BOOLEAN
    BY DEF AskFor
<1>2. /\ step' = "check" /\ fm' = NoFile /\ file' = "unopened" /\ response' = Absent
      /\ entry' = entry /\ files' = files /\ requests \in Nat /\ requests' = requests + 1
    BY DEF AskFor, StaticInv, StaticShape
<1>3. requests' \in Nat /\ requests' > 0 /\ (requests > 0 => requests' > 1)
    BY <1>2
<1>4. StaticShape'
    BY <1>1, <1>2, <1>3 DEF StaticInv, StaticShape
<1>5. Mapped(fm)' /\ Mapped(entry)'
    BY <1>2 DEF StaticInv, Mapped, NoFile, IsFile
<1>6. Unmapped'
    BY <1>2 DEF Unmapped, NoFile
<1>. QED
    BY <1>2, <1>3, <1>4, <1>5, <1>6 DEF StaticInv, CrashesOnlyFor, FoundUnlessRefused

\* What a file is and holds, unless it is the one that is written.
LEMMA WriteKeeps ==
    ASSUME StaticInv, NEW name \in Names, NEW content \in FileContents, WriteFile(name, content)
    PROVE  /\ \A other \in Names \ {name} :
                  files'[other] = files[other] /\ (IsFile(other)' <=> IsFile(other))
           /\ StaticShape' /\ UNCHANGED <<step, asked, file, response, requests>> /\ step # "down"
<1>1. UNCHANGED <<step, asked, file, response, requests>> /\ step # "down"
    BY DEF WriteFile
<1>2. files' = [files EXCEPT ![name] = content]
      /\ files \in [Names -> FileContents \cup {Directory, Absent}]
    BY DEF WriteFile, StaticInv, StaticShape
<1>3. files' \in [Names -> FileContents \cup {Directory, Absent}]
    BY <1>2
<1>4. \A other \in Names \ {name} : files'[other] = files[other]
    BY <1>2
<1>. QED
    BY <1>1, <1>3, <1>4 DEF StaticInv, StaticShape, IsFile

\* Somebody writes: to another file, or it is no longer steady.
LEMMA WriteStep ==
    ASSUME StaticInv, NEW name \in Names, NEW content \in FileContents, WriteFile(name, content)
    PROVE  StaticInv'
<1>1. /\ \A other \in Names \ {name} :
             files'[other] = files[other] /\ (IsFile(other)' <=> IsFile(other))
      /\ StaticShape' /\ UNCHANGED <<step, asked, file, response, requests>> /\ step # "down"
    BY WriteKeeps
<1>2. PICK about : about = (IF fm.addr = Absent THEN asked.name ELSE fm.addr)
    OBVIOUS
<1>3. /\ fm' = IF name = about THEN [fm EXCEPT !.steady = FALSE] ELSE fm
      /\ entry' = IF name = entry.addr THEN [entry EXCEPT !.steady = FALSE] ELSE entry
    BY <1>2 DEF WriteFile, Unsteady
<1>4. /\ fm \in [addr : Names \cup {Absent}, len : Nat, steady : BOOLEAN]
      /\ entry \in [addr : Names \cup {Absent}, len : Nat, steady : BOOLEAN]
    BY DEF StaticInv, Mapped
<1>5. /\ fm' \in [addr : Names \cup {Absent}, len : Nat, steady : BOOLEAN]
      /\ fm'.addr = fm.addr /\ fm'.len = fm.len /\ (fm'.steady => fm.steady /\ fm' = fm /\ name # about)
    BY <1>3, <1>4
<1>6. /\ entry' \in [addr : Names \cup {Absent}, len : Nat, steady : BOOLEAN]
      /\ entry'.addr = entry.addr /\ entry'.len = entry.len
      /\ entry'.steady => entry.steady /\ name # entry.addr
    BY <1>3, <1>4
<1>7. Mapped(fm)'
    <2>. SUFFICES ASSUME fm.addr # Absent, fm'.steady
                  PROVE  IsFile(fm.addr)' /\ fm'.len = Len(files'[fm'.addr])
        BY <1>5 DEF Mapped
    <2>1. fm.addr \in Names \ {name} /\ fm.steady /\ fm' = fm
        BY <1>2, <1>4, <1>5
    <2>2. IsFile(fm.addr) /\ fm.len = Len(files[fm.addr])
        BY <2>1 DEF StaticInv, Mapped
    <2>. QED
        BY <1>1, <2>1, <2>2 DEF IsFile
<1>8. Mapped(entry)'
    <2>. SUFFICES ASSUME entry.addr # Absent, entry'.steady
                  PROVE  IsFile(entry.addr)' /\ entry'.len = Len(files'[entry'.addr])
        BY <1>6 DEF Mapped
    <2>1. entry.addr \in Names \ {name} /\ entry.steady
        BY <1>4, <1>6
    <2>2. IsFile(entry.addr) /\ entry.len = Len(files[entry.addr])
        BY <2>1 DEF StaticInv, Mapped
    <2>. QED
        BY <1>1, <1>6, <2>1, <2>2 DEF IsFile
<1>9. asked.name \in Names
    BY DEF StaticInv, StaticShape
<1>10. Unmapped => Unmapped'
    <2>. SUFFICES ASSUME Unmapped PROVE Unmapped'
        OBVIOUS
    <2>1. fm.addr = Absent /\ file = "unopened" /\ about = asked.name
        BY <1>2 DEF Unmapped
    <2>2. ASSUME step = "map", fm'.steady PROVE IsFile(asked.name)' /\ fm'.len = Len(files'[asked'.name])
        <3>1. asked.name \in Names \ {name} /\ fm.steady /\ fm' = fm
            BY <1>5, <1>9, <2>1, <2>2
        <3>2. IsFile(asked.name) /\ fm.len = Len(files[asked.name])
            BY <2>2, <3>1 DEF Unmapped
        <3>. QED
            BY <1>1, <3>1, <3>2 DEF IsFile
    <2>. QED
        BY <1>1, <1>5, <2>1, <2>2 DEF Unmapped
<1>11. Meant => Meant'
    <2>. SUFFICES ASSUME Meant PROVE Meant'
        OBVIOUS
    <2>1. fm = entry => fm' = entry'
        BY <1>2, <1>3 DEF Meant
    <2>. QED
        BY <1>1, <1>5, <2>1 DEF Meant
<1>12. Meant /\ fm'.steady /\ Served => Served'
    <2>. SUFFICES ASSUME Meant, fm'.steady, Served PROVE Served'
        OBVIOUS
    <2>1. fm.addr \in Names \ {name} /\ fm' = fm
        BY <1>2, <1>4, <1>5 DEF Meant
    <2>2. Content' = Content /\ (IsFile(fm.addr)' <=> IsFile(fm.addr))
        BY <1>1, <2>1 DEF Content, IsFile
    <2>3. MimeType(asked.name)' = MimeType(asked.name)
        BY <1>1 DEF MimeType
    <2>. QED
        BY <1>1, <2>2, <2>3 DEF Served, IsText
<1>13. (step = "idle" /\ requests > 0 /\ response = Absent /\ fm.steady => fm.addr = Absent) /\ FoundUnlessRefused
       => FoundUnlessRefused'
    <2>. SUFFICES ASSUME requests > 0, step = "idle", response = Absent, fm'.steady, FoundUnlessRefused,
                         fm.steady => fm.addr = Absent
                  PROVE  asked.dots \/ ~IsFile(asked.name)' \/ file = "refused"
        BY <1>1, <1>5 DEF FoundUnlessRefused
    <2>1. asked.name \in Names \ {name} /\ fm.steady
        BY <1>2, <1>5, <1>9
    <2>2. asked.dots \/ ~IsFile(asked.name) \/ file = "refused"
        BY <2>1 DEF FoundUnlessRefused
    <2>. QED
        BY <1>1, <2>1, <2>2 DEF IsFile
<1>. QED
    BY <1>1, <1>5, <1>6, <1>7, <1>8, <1>10, <1>11, <1>12, <1>13 DEF StaticInv, CrashesOnlyFor

\* What a step of the handler leaves.
LEMMA HandlerKeeps ==
    ASSUME StaticInv, NEW where \in {"idle", "lookup", "stat", "map", "copy", "down"}, Go(where),
           file' \in {"unopened", "open", "refused"}
    PROVE  /\ StaticShape' /\ step' = where
           /\ UNCHANGED <<files, asked, requests, writes>>
           /\ \A name : IsFile(name)' <=> IsFile(name)
           /\ fm' = fm => Mapped(fm)'
           /\ fm' = entry => Mapped(fm)'
           /\ entry' = entry => Mapped(entry)'
<1>1. step' = where /\ UNCHANGED <<files, asked, requests, writes>>
    BY DEF Go
<1>2. \A name : IsFile(name)' <=> IsFile(name)
    BY <1>1 DEF IsFile
<1>. QED
    BY <1>1, <1>2 DEF StaticInv, StaticShape, Mapped, IsFile

\* The steps of the handler.
LEMMA CheckStep == ASSUME StaticInv, Check PROVE StaticInv'
<1>1. step = "check" /\ UNCHANGED <<file, fm, entry, response>> /\ file \in {"unopened", "open", "refused"}
    BY DEF Check, ToNotFound, StaticInv, StaticShape
<1>2. CASE asked.dots
    <2>1. Go("idle")
        BY <1>2 DEF Check, ToNotFound
    <2>. QED
        BY <1>1, <1>2, <2>1, HandlerKeeps DEF StaticInv, CrashesOnlyFor, FoundUnlessRefused, Unmapped
<1>3. CASE ~asked.dots
    <2>1. Go("lookup")
        BY <1>3 DEF Check
    <2>. QED
        BY <1>1, <1>3, <2>1, HandlerKeeps DEF StaticInv, CrashesOnlyFor, FoundUnlessRefused, Unmapped
<1>. QED
    BY <1>2, <1>3

LEMMA LookupStep == ASSUME StaticInv, Lookup PROVE StaticInv'
<1>1. step = "lookup" /\ UNCHANGED <<file, entry, response>> /\ file \in {"unopened", "open", "refused"}
    BY DEF Lookup, Crash, StaticInv, StaticShape
<1>2. CASE Go("stat") /\ fm' = fm
    BY <1>1, <1>2, HandlerKeeps DEF StaticInv, CrashesOnlyFor, FoundUnlessRefused, Unmapped
<1>3. CASE entry.addr # Absent /\ Go("down") /\ fm' = fm
    BY <1>1, <1>3, HandlerKeeps DEF StaticInv, CrashesOnlyFor, FoundUnlessRefused, Unmapped
<1>4. CASE entry.addr # Absent /\ Go("copy") /\ fm' = entry
    <2>1. Meant'
        BY <1>1, <1>4, HandlerKeeps DEF StaticInv, Unmapped, Meant
    <2>. QED
        BY <1>1, <1>4, <2>1, HandlerKeeps DEF StaticInv, CrashesOnlyFor, FoundUnlessRefused
<1>. QED
    BY <1>2, <1>3, <1>4 DEF Lookup, Crash

LEMMA StatStep == ASSUME StaticInv, Stat PROVE StaticInv'
<1>1. step = "stat" /\ UNCHANGED <<file, entry, response>> /\ file \in {"unopened", "open", "refused"}
    BY DEF Stat, ToNotFound, StaticInv, StaticShape
<1>2. CASE ~IsFile(asked.name)
    <2>1. Go("idle") /\ fm' = fm
        BY <1>2 DEF Stat, ToNotFound
    <2>. QED
        BY <1>1, <1>2, <2>1, HandlerKeeps DEF StaticInv, CrashesOnlyFor, FoundUnlessRefused, Unmapped
<1>3. CASE IsFile(asked.name)
    <2>1. Go("map") /\ fm' = [fm EXCEPT !.len = Len(files[asked.name])]
        BY <1>3 DEF Stat, StSize
    <2>2. Len(files[asked.name]) \in Nat
        <3>1. files[asked.name] \in FileContents
            BY <1>3 DEF StaticInv, StaticShape, IsFile
        <3>. QED
            BY <3>1, StaticAssumption
    <2>3. fm \in [addr : Names \cup {Absent}, len : Nat, steady : BOOLEAN] /\ fm.addr = Absent
        BY <1>1 DEF StaticInv, Mapped, Unmapped
    <2>4. /\ fm' \in [addr : Names \cup {Absent}, len : Nat, steady : BOOLEAN]
          /\ fm'.addr = Absent /\ fm'.len = Len(files[asked.name])
        BY <2>1, <2>2, <2>3
    <2>5. /\ StaticShape' /\ step' = "map" /\ UNCHANGED <<files, asked, requests>> /\ Mapped(entry)'
          /\ IsFile(asked.name)'
        BY <1>1, <1>3, <2>1, HandlerKeeps DEF IsFile
    <2>6. Mapped(fm)'
        BY <2>4 DEF Mapped
    <2>7. Unmapped'
        BY <1>1, <2>4, <2>5 DEF StaticInv, Unmapped, IsFile
    <2>. QED
        BY <1>1, <2>4, <2>5, <2>6, <2>7 DEF StaticInv, CrashesOnlyFor, FoundUnlessRefused
<1>. QED
    BY <1>2, <1>3

LEMMA MapStep == ASSUME StaticInv, Map PROVE StaticInv'
<1>1. step = "map" /\ response' = response /\ Unmapped /\ response = Absent /\ requests > 0
      /\ ~asked.dots
    BY DEF Map, ToNotFound, StaticInv
<1>2. CASE file' = "refused" /\ ToNotFound
    <2>1. Go("idle") /\ UNCHANGED <<fm, entry, response>>
        BY <1>2 DEF ToNotFound
    <2>. QED
        BY <1>1, <1>2, <2>1, HandlerKeeps DEF StaticInv, CrashesOnlyFor, FoundUnlessRefused, Unmapped
<1>3. CASE file' = "open" /\ fm' = [fm EXCEPT !.addr = asked.name] /\ entry' = fm' /\ Go("copy")
    <2>1. fm \in [addr : Names \cup {Absent}, len : Nat, steady : BOOLEAN] /\ asked.name \in Names
        BY DEF StaticInv, StaticShape, Mapped
    <2>2. /\ fm' \in [addr : Names \cup {Absent}, len : Nat, steady : BOOLEAN]
          /\ fm'.addr = asked.name /\ fm'.len = fm.len /\ fm'.steady = fm.steady
        BY <1>3, <2>1
    <2>3. StaticShape' /\ step' = "copy" /\ UNCHANGED <<files, asked, requests>>
        BY <1>3, HandlerKeeps
    <2>4. asked.name # Absent
        BY <2>1, StaticAssumption
    <2>5. Mapped(fm)'
        BY <1>1, <2>2, <2>3 DEF Mapped, Unmapped, IsFile
    <2>6. Mapped(entry)'
        BY <1>3, <2>5 DEF Mapped, IsFile
    <2>7. Meant'
        BY <1>1, <1>3, <2>2, <2>3, <2>4 DEF Meant
    <2>. QED
        BY <1>1, <2>3, <2>5, <2>6, <2>7 DEF StaticInv, CrashesOnlyFor, FoundUnlessRefused
<1>. QED
    BY <1>2, <1>3 DEF Map

LEMMA CopyStep == ASSUME StaticInv, Copy PROVE StaticInv'
<1>1. step = "copy" /\ Meant /\ response = Absent /\ fm.addr # Absent /\ requests > 0
    BY DEF Copy, StaticInv, Meant
<1>2. fm.steady => IsFile(fm.addr) /\ fm.len = Len(Content)
    BY <1>1 DEF StaticInv, Mapped, Content
<1>3. fm.len \in Nat /\ file \in {"unopened", "open", "refused"}
    BY DEF StaticInv, Mapped, StaticShape
<1>4. fm.steady => Content \in Seq(Stored)
    <2>1. fm.addr \in Names
        BY <1>1 DEF StaticInv, Mapped
    <2>2. IsFile(fm.addr) => Content \in FileContents
        BY <2>1 DEF StaticInv, StaticShape, Content, IsFile
    <2>. QED
        BY <1>2, <2>2, StaticAssumption DEF Stored
<1>5. fm.steady => /\ Sent \in Seq(Sendable) /\ (IsText(Content) => Sent = Content)
                   /\ NulAt = {} => fm.len % PageSize = 0
    BY <1>2, <1>4, SentIs
<1>6. CASE Respond
    <2>1. /\ Go("idle") /\ UNCHANGED <<file, fm, entry>>
          /\ response' = [body |-> Sent, length |-> fm.len, type |-> MimeType(asked.name)]
        BY <1>6 DEF Respond
    <2>2. /\ StaticShape' /\ step' = "idle" /\ UNCHANGED <<files, asked, requests>>
          /\ Mapped(fm)' /\ Mapped(entry)' /\ \A name : IsFile(name)' <=> IsFile(name)
        BY <1>3, <2>1, HandlerKeeps
    <2>3. Content' = Content /\ MimeType(asked.name)' = MimeType(asked.name)
        BY <2>1, <2>2 DEF Content, MimeType
    <2>4. ASSUME fm.steady PROVE Served'
        <3>1. /\ response'.length = Len(Content) /\ response'.type = MimeType(asked.name)
              /\ IsText(Content) => response'.body = Content
            BY <1>2, <1>5, <2>1, <2>4
        <3>2. IsFile(fm.addr)'
            BY <1>2, <2>1, <2>2, <2>4 DEF IsFile
        <3>. QED
            BY <2>3, <3>1, <3>2 DEF Served, IsText
    <2>5. ASSUME fm.steady PROVE response' # Absent
        <3>1. Sent \in Seq(Sendable)
            BY <1>5, <2>5
        <3>2. MimeType(asked.name) \in {Types[suffix] : suffix \in DOMAIN Types} \cup {"text/plain"}
            BY DEF MimeType
        <3>3. response' \in [body : Seq(Sendable), length : Nat,
                             type : {Types[suffix] : suffix \in DOMAIN Types} \cup {"text/plain"}]
            BY <1>3, <2>1, <3>1, <3>2
        <3>. QED
            BY <3>3, ReplyAssumption DEF Sendable
    <2>6. Meant'
        BY <1>1, <2>1, <2>2 DEF Meant
    <2>. QED
        BY <1>1, <2>1, <2>2, <2>4, <2>5, <2>6 DEF StaticInv, CrashesOnlyFor, FoundUnlessRefused
<1>7. CASE Crash /\ (fm.len = 0 \/ NulAt = {})
    <2>1. Go("down") /\ UNCHANGED <<file, fm, entry, response>>
        BY <1>7 DEF Crash
    <2>2. /\ StaticShape' /\ step' = "down" /\ UNCHANGED <<files, asked, requests>>
          /\ Mapped(fm)' /\ Mapped(entry)'
        BY <1>3, <2>1, HandlerKeeps
    <2>3. fm.len % PageSize = 0 \/ ~fm.steady
        <3>1. fm.len = 0 => fm.len % PageSize = 0
            BY StaticAssumption
        <3>. QED
            BY <1>5, <1>7, <3>1
    <2>4. CrashesOnlyFor'
        BY <1>1, <2>1, <2>3 DEF CrashesOnlyFor
    <2>. QED
        BY <1>1, <2>1, <2>2, <2>4 DEF StaticInv, FoundUnlessRefused
<1>. QED
    BY <1>6, <1>7 DEF Copy

LEMMA StaticInvHolds == StaticSpec => []StaticInv
<1>1. StaticInv /\ [StaticNext]_staticVars => StaticInv'
    <2>. SUFFICES ASSUME StaticInv, [StaticNext]_staticVars PROVE StaticInv'
        OBVIOUS
    <2>1. CASE UNCHANGED staticVars
        BY <2>1 DEF staticVars, StaticInv, StaticShape, CrashesOnlyFor, FoundUnlessRefused, Mapped,
                   Unmapped, Meant, Content, IsFile, IsText, Served, MimeType
    <2>. QED
        BY <2>1, AskStep, WriteStep, CheckStep, LookupStep, StatStep, MapStep, CopyStep DEF StaticNext
<1>. QED
    BY <1>1, StaticStart, PTL DEF StaticSpec

\* A text that is not written while it is served arrives whole, with its length, and is the
\* file asked for or one that an earlier request mapped; nothing is answered for a way through
\* "../", and a file that can be opened is answered for (static_handler.c).
THEOREM FilesServedHolds == StaticSpec => []FilesServed
<1>1. StaticInv => FilesServed
    <2>. SUFFICES ASSUME StaticInv PROVE FilesServed
        OBVIOUS
    <2>1. TextServed
        BY DEF StaticInv, TextServed, Answered, Served
    <2>2. FileMeant
        BY DEF StaticInv, FileMeant, Answered, Meant
    <2>3. FoundUnlessRefused
        BY DEF StaticInv
    <2>. QED
        BY <2>1, <2>2, <2>3 DEF FilesServed
<1>. QED
    BY <1>1, StaticInvHolds, PTL

\* The file handler ends the process for the causes that are named only (static_handler.c).
THEOREM CrashesOnlyForHolds == StaticSpec => []CrashesOnlyFor
<1>1. StaticInv => CrashesOnlyFor
    BY DEF StaticInv
<1>. QED
    BY <1>1, StaticInvHolds, PTL
=============================================================================
