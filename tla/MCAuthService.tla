--------------------------- MODULE MCAuthService ---------------------------
(***************************************************************************)
(* AuthService on a small instance: see the cfg file.                      *)
(***************************************************************************)
EXTENDS AuthService

CONSTANTS u1, u2, k1, k2, s1
=============================================================================
