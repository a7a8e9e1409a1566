--------------------------- MODULE MCRecvFraming ---------------------------
(***************************************************************************)
(* RecvFraming on small instances: see the cfg files.                      *)
(***************************************************************************)
EXTENDS RecvFraming
=============================================================================
