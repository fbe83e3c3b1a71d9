------------------------------- MODULE Utility -------------------------------
(***************************************************************************)
(* get_rand and gen_random_dummy_string of src/utility.c, which make the   *)
(* session ids: unsigned arithmetic on the address get_rand was loaded at  *)
(* and on the number of its calls.  In the code a word has 64 bits, and a  *)
(* session id is 64 letters of a table of 64.                              *)
(***************************************************************************)
EXTENDS Integers

CONSTANTS WordSize,             \* 2^64: size_t wraps there
          TableSize,            \* the letters
          SidLength             \* letters in a session id

ASSUME UtilityAssumption ==
    /\ WordSize \in Nat \ {0}
    /\ TableSize \in Nat \ {0}
    /\ SidLength \in Nat \ {0}

\* Strings of that length, by the places of their letters in the table.
Sids == [1..SidLength -> 0..(TableSize - 1)]

\* The value of the call that makes the static counter this; magic is the address.
GetRand(magic, counter) == ((magic * magic * counter) % WordSize) % magic

\* TableSize is a power of two: the code's mask is a remainder.
RandomString(magic, counter) ==
    [i \in 1..SidLength |-> GetRand(magic, counter + i) % TableSize]
=============================================================================
