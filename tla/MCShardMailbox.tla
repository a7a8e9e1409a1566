--------------------------- MODULE MCShardMailbox ---------------------------
(***************************************************************************)
(* ShardMailbox on a small instance: see the cfg files.                    *)
(***************************************************************************)
EXTENDS ShardMailbox, TLC

\* The posting threads are interchangeable, and so are the commands.
Symmetry == Permutations(Poster) \cup Permutations(Command)
=============================================================================
