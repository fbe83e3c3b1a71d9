----------------------------- MODULE MCEventLoop -----------------------------
(* Small instances of EventLoop for TLC. *)
EXTENDS EventLoopProps, TLC

CONSTANTS ann, bob, cat

Two   == {ann, bob}
Three == {ann, bob, cat}

Symmetry == Permutations(Clients)

\* What responseWrite sends: its four calls of send, shortened to two.
TwoPieces == <<1, 2>>
=============================================================================
