---------------------------- MODULE MCTaskQueue ----------------------------
(***************************************************************************)
(* TaskQueue on a small instance: see the cfg file.                        *)
(***************************************************************************)
EXTENDS TaskQueue

CONSTANTS w1, w2, k1, k2
=============================================================================
