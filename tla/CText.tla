--------------------------------- MODULE CText ---------------------------------
(***************************************************************************)
(* Texts as sequences of tokens: cutting them up as the C library does,    *)
(* and putting them together from parts.                                   *)
(***************************************************************************)
EXTENDS Integers, Sequences

\* strchr: the first of the places of c, or 0 for NULL.
Position(t, c) ==
    IF \E k \in DOMAIN t : t[k] = c
    THEN CHOOSE k \in DOMAIN t : t[k] = c /\ \A o \in 1..(k - 1) : t[o] # c ELSE 0

Until(t, c)    == SubSeq(t, 1, Position(t, c) - 1)
Behind(t, c)   == SubSeq(t, Position(t, c) + 1, Len(t))
UntilOrAll(t, c) == IF Position(t, c) = 0 THEN t ELSE Until(t, c)

\* For each k the last k parts, one after the other.
Ends(parts) ==
    LET from[k \in 0..Len(parts)] ==
            IF k = 0 THEN << >> ELSE parts[Len(parts) - k + 1] \o from[k - 1]
    IN  from

Joined(parts) == Ends(parts)[Len(parts)]
=============================================================================
