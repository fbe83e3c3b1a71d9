------------------------------ MODULE Base64Code ------------------------------
(***************************************************************************)
(* The tables of src/base64.c, and what base64_encode is to write.  Bytes  *)
(* and characters are their codes.                                         *)
(***************************************************************************)
EXTENDS Integers, Sequences

Byte == 0..255

Pad == 61

\* encoding_table: A to Z, a to z, 0 to 9, + and /.
Char(v) == IF v < 26 THEN 65 + v
           ELSE IF v < 52 THEN 97 + (v - 26)
           ELSE IF v < 62 THEN 48 + (v - 52)
           ELSE IF v = 62 THEN 43
           ELSE 47

\* decoding_table, of uint16_t: -1 is 65535.
Value(c) == IF c \in 65..90 THEN c - 65
            ELSE IF c \in 97..122 THEN c - 97 + 26
            ELSE IF c \in 48..57 THEN c - 48 + 52
            ELSE IF c = 43 THEN 62
            ELSE IF c = 47 THEN 63
            ELSE 65535

\* The n-th byte of s, from 0, with zero bits behind the end.
ByteAt(s, n) == IF n < Len(s) THEN s[n + 1] ELSE 0

\* Characters 1 to 4 of the q-th quadruple, from 0, stand for bytes 3q to 3q + 2.
Sextet(s, q, r) ==
    CASE r = 1 -> Char(ByteAt(s, 3 * q) \div 4)
      [] r = 2 -> Char((ByteAt(s, 3 * q) % 4) * 16 + (ByteAt(s, 3 * q + 1) \div 16))
      [] r = 3 -> IF 3 * q + 1 >= Len(s) THEN Pad
                  ELSE Char((ByteAt(s, 3 * q + 1) % 16) * 4 + (ByteAt(s, 3 * q + 2) \div 64))
      [] r = 4 -> IF 3 * q + 2 >= Len(s) THEN Pad ELSE Char(ByteAt(s, 3 * q + 2) % 64)

EncodedLen(n) == ((n + 2) \div 3) * 4

Encode(s) == [k \in 1..EncodedLen(Len(s)) |-> Sextet(s, (k - 1) \div 4, ((k - 1) % 4) + 1)]
=============================================================================
