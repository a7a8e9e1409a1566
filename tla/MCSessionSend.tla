--------------------------- MODULE MCSessionSend ---------------------------
(***************************************************************************)
(* SessionSend on small instances: see the cfg files.                      *)
(***************************************************************************)
EXTENDS SessionSend

CONSTANTS p1, p2, p3

\* One packet the kernel may take in two parts, the others in one.
MCSize == [p \in Packet |-> IF p = p1 THEN 2 ELSE 1]
=============================================================================
