---------------------------- MODULE MCServerStop ----------------------------
(***************************************************************************)
(* ServerStop on a small instance: see the cfg file.                       *)
(***************************************************************************)
EXTENDS ServerStop
=============================================================================
