------------------------- MODULE MCSessionLifecycle -------------------------
(***************************************************************************)
(* SessionLifecycle on a small instance: see the cfg file.                 *)
(***************************************************************************)
EXTENDS SessionLifecycle

CONSTANTS f1, f2
=============================================================================
