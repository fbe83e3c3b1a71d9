-------------------------------- MODULE Base64 --------------------------------
(***************************************************************************)
(* src/base64.c: the loops of base64_encode and base64_decode, one round   *)
(* to a step.  Bytes and characters are their codes.                       *)
(***************************************************************************)
EXTENDS Base64Code

CONSTANT Inputs     \* sequences of bytes to be encoded and decoded again

ASSUME InputsAssumption == Inputs \subseteq Seq(Byte)

VARIABLES
    data,       \* what is encoded
    coding,     \* "encode", "size", "decode", "done" or "crashed"
    offset,     \* of the loops
    text,       \* what base64_encode has written
    stripped,   \* stripped_padding_len
    dst         \* what base64_decode has written

codeVars == <<data, coding, offset, text, stripped, dst>>

---------------------------------------------------------------------------
(* base64_encode *)

\* data[n], from 0 as in the code
Data(n) == data[n + 1]

Triple(n) == Data(n) * 65536 + Data(n + 1) * 256 + Data(n + 2)

\* Three bytes to four characters.
EncodeTriple ==
    /\ coding = "encode" /\ Len(data) - offset > 2
    /\ LET t == Triple(offset)
       IN  text' = text \o <<Char((t \div 262144) % 64), Char((t \div 4096) % 64),
                             Char((t \div 64) % 64), Char(t % 64)>>
    /\ offset' = offset + 3
    /\ UNCHANGED <<data, coding, stripped, dst>>

\* Mutant: the last two bits of a rest are not moved up (CodedAndBack).
RestUnmoved ==
    LET n == Len(data)
    IN  CASE n % 3 = 0 -> << >>
          [] n % 3 = 1 -> <<Char(Data(n - 1) \div 4), Char(Data(n - 1) % 4), Pad, Pad>>
          [] n % 3 = 2 -> <<Char(Data(n - 2) \div 4),
                            Char((Data(n - 2) % 4) * 16 + Data(n - 1) \div 16),
                            Char((Data(n - 1) % 16) * 4), Pad>>

\* What is left, and the padding.
Rest ==
    LET n == Len(data)
    IN  CASE n % 3 = 0 -> << >>
          [] n % 3 = 1 -> <<Char(Data(n - 1) \div 4), Char((Data(n - 1) % 4) * 16), Pad, Pad>>
          [] n % 3 = 2 -> <<Char(Data(n - 2) \div 4),
                            Char((Data(n - 2) % 4) * 16 + Data(n - 1) \div 16),
                            Char((Data(n - 1) % 16) * 4), Pad>>

EncodeRest ==
    /\ coding = "encode" /\ ~(Len(data) - offset > 2)
    /\ text' = text \o Rest
    /\ coding' = "size" /\ offset' = 0
    /\ UNCHANGED <<data, stripped, dst>>

---------------------------------------------------------------------------
(* base64_decode *)

\* src->data[n]
Src(n) == text[n + 1]

\* Mutant: only one padding is looked for (CodedAndBack).
OnePadding == IF Src(Len(text) - 1) = Pad THEN 1 ELSE 0

Padding == (IF Src(Len(text) - 1) = Pad THEN 1 ELSE 0) + (IF Src(Len(text) - 2) = Pad THEN 1 ELSE 0)

\* In an empty text the bytes before it are looked at: if one of them is '=' the lengths
\* wrap around.
Size ==
    /\ coding = "size"
    /\ IF text = << >>
       THEN coding' \in {"done", "crashed"} /\ UNCHANGED stripped
       ELSE coding' = "decode" /\ stripped' = Len(text) - Padding
    /\ UNCHANGED <<data, offset, text, dst>>

Quad(n) == Value(Src(n)) * 262144 + Value(Src(n + 1)) * 4096 + Value(Src(n + 2)) * 64 + Value(Src(n + 3))

\* Four characters to three bytes.
DecodeQuad ==
    /\ coding = "decode" /\ stripped - offset > 3
    /\ LET w == Quad(offset)
       IN  dst' = dst \o <<(w \div 65536) % 256, (w \div 256) % 256, w % 256>>
    /\ offset' = offset + 4
    /\ UNCHANGED <<data, coding, text, stripped>>

\* What two or three characters before the padding stand for; chars are eight bits wide.
One(a, b)    == <<(a * 4 + ((b \div 16) % 4)) % 256>>
Two(a, b, c) == <<(a * 4 + ((b \div 16) % 4)) % 256, ((b * 16) + (c \div 4)) % 256>>

Trailing(n) == Value(Src(stripped - n))

DecodeRest ==
    /\ coding = "decode" /\ ~(stripped - offset > 3)
    /\ dst' = dst \o (CASE Len(text) - stripped = 0 -> << >>
                        [] Len(text) - stripped = 1 -> Two(Trailing(3), Trailing(2), Trailing(1))
                        [] Len(text) - stripped = 2 -> One(Trailing(2), Trailing(1)))
    /\ coding' = "done"
    /\ UNCHANGED <<data, offset, text, stripped>>

---------------------------------------------------------------------------
CodeInit == /\ data \in Inputs
            /\ coding = "encode" /\ offset = 0 /\ text = << >> /\ stripped = 0 /\ dst = << >>

CodeNext == EncodeTriple \/ EncodeRest \/ Size \/ DecodeQuad \/ DecodeRest

CodeSpec == CodeInit /\ [][CodeNext]_codeVars

---------------------------------------------------------------------------
(* Properties *)

\* The loop and its rest write what is meant, and as many characters as were allocated;
\* and what is stored can be read again: the decoded text is the encoded one.
CodedAndBack == /\ coding = "size" => text = Encode(data)
                /\ coding = "done" => dst = data
=============================================================================
