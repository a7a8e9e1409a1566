---------------------------- MODULE MCMemoryPool ----------------------------
(***************************************************************************)
(* MemoryPool on a small instance: see the cfg file.                       *)
(***************************************************************************)
EXTENDS MemoryPool, TLC

\* Neither the threads nor the blocks are told apart.
Symmetry == Permutations(Thread) \cup Permutations(Block)

\* Nothing reads the size recorded in a block that is not in use, the header of
\* one given back to the system, or the size a thread last asked for.
Read ==
  <<system, freed, cache, freeLists, inUse, pc, memoryBlocks, needed, destroyed,
    [b \in Block |-> IF b \in inUse THEN dataSize[b] ELSE 0],
    [b \in Block |-> IF b \in freed THEN 0 ELSE allocSize[b]],
    [t \in Thread |-> IF pc[t] = "refill" THEN request[t] ELSE 0]>>
=============================================================================
