------------------------------ MODULE MCHashMap ------------------------------
(* Small instances of HashMap for TLC: hashes that meet in a slot, that are equal
   in full, and that go round the end of four slots. *)
EXTENDS HashMap, TLC

CONSTANTS k1, k2, k3, k4, v, w

MCHash == k1 :> 3 @@ k2 :> 3 @@ k3 :> 7 @@ k4 :> 0
=============================================================================
