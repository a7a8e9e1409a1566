----------------------------- MODULE MCSpinLock -----------------------------
(***************************************************************************)
(* SpinLock on a small instance: see the cfg file.                         *)
(***************************************************************************)
EXTENDS SpinLock

CONSTANTS t1, t2, t3

\* ThreadManager numbers the threads from 0.
SpawnedIds == [t \in Thread |-> CASE t = t1 -> 0 [] t = t2 -> 1 [] t = t3 -> 2]

\* After a trespass, which lasts, the properties say no more.
UntilTrespass == ~trespassed
=============================================================================
