------------------------- MODULE MCSendBufferArena -------------------------
(***************************************************************************)
(* SendBufferArena on a small instance: see the cfg file.                  *)
(***************************************************************************)
EXTENDS SendBufferArena, TLC

CONSTANTS t1, t2, b1, b2, b3

Symmetry == Permutations(Sender) \cup Permutations(Buffer)
=============================================================================
