----------------------------- MODULE MemoryPool -----------------------------
(***************************************************************************)
(* The engine's allocator: a cache of blocks for each thread, by size      *)
(* class, and behind it one list of free blocks for each class under a     *)
(* mutex of its own.  A thread allocates from its cache; an empty cache is *)
(* refilled from the list and, outside the mutex, from the system.  Any    *)
(* thread may give back a block, which goes to the cache of that thread    *)
(* or, when it is full, to the list.                                       *)
(*                                                                         *)
(* A block is one result of posix_memalign, so that memory the system      *)
(* gives out again is another block.  Sizes are those of the code.         *)
(***************************************************************************)
EXTENDS Integers, Sequences, SequencesExt

CONSTANTS Thread,          \* the threads, each with a cache
          Block,           \* the blocks the system has to give
          DataSize,        \* the sizes that are asked for
          MaxCacheBlocks,  \* S_MAX_CACHE_BLOCK_SIZE, 500 in the code
          RefillCount      \* S_REFILL_BLOCK_CACHE_COUNT, 100 in the code

ASSUME DataSizeAssumption == DataSize \subseteq Nat
ASSUME CountsAssumption == /\ MaxCacheBlocks \in Nat \ {0}
                           /\ RefillCount \in Nat \ {0}

----------------------------------------------------------------------------
(***************************************************************************)
(* The size classes.                                                       *)
(***************************************************************************)

HeaderSize == 16
MinBlockSize == 32
MaxBlockSize == 4096
BucketCount == 32

AtLeast(a, b) == IF a < b THEN b ELSE a
AtMost(a, b) == IF a < b THEN a ELSE b

\* Steps of 32 up to 256, of 128 up to 1024, of 512 beyond.
BucketIndex(n) ==
  CASE n <= 256              -> (n - 1) \div 32
    [] n > 256 /\ n <= 1024  -> 8 + (n - 256 - 1) \div 128
    [] OTHER                 -> 14 + (n - 1024 - 1) \div 512

Clamped(size) == AtMost(AtLeast(size, MinBlockSize), MaxBlockSize)
GetBucketIndexFromSize(size) == BucketIndex(Clamped(size))

GetSizeFromBucketIndex(index) ==
  CASE index < 8                 -> (index + 1) * 32
    [] index >= 8 /\ index < 14  -> 256 + (index - 7) * 128
    [] OTHER                     -> 1024 + (index - 13) * 512

TotalSize(n) == n + HeaderSize
BucketOf(n) == GetBucketIndexFromSize(TotalSize(n))

\* The classes in use.
Bucket == {BucketOf(n) : n \in DataSize}

----------------------------------------------------------------------------
VARIABLES
  system,        \* blocks not yet taken from the system
  freed,         \* blocks given back to the system
  allocSize,     \* MemoryBlockHeader::allocSize
  dataSize,      \* MemoryBlockHeader::dataSize
  cache,         \* each thread's _buckets
  freeLists,     \* MemoryPool::_freeLists
  inUse,         \* blocks in the program's hands
  pc,            \* each thread's place
  request,       \* the size a thread in Allocate asks for
  memoryBlocks,  \* RefillBlockCache's local
  needed,        \* AllocateFromMemoryPool: blocks still to be made
  destroyed      \* the pool is gone

vars == <<system, freed, allocSize, dataSize, cache, freeLists, inUse, pc,
          request, memoryBlocks, needed, destroyed>>

headers == <<allocSize, dataSize>>
refill == <<request, memoryBlocks, needed>>

Init ==
  /\ system = Block
  /\ freed = {}
  /\ allocSize = [b \in Block |-> 0]
  /\ dataSize = [b \in Block |-> 0]
  /\ cache = [t \in Thread |-> [k \in Bucket |-> <<>>]]
  /\ freeLists = [k \in Bucket |-> <<>>]
  /\ inUse = {}
  /\ pc = [t \in Thread |-> "idle"]
  /\ request = [t \in Thread |-> 0]
  /\ memoryBlocks = [t \in Thread |-> <<>>]
  /\ needed = [t \in Thread |-> 0]
  /\ destroyed = FALSE

Goto(t, place) == pc' = [pc EXCEPT ![t] = place]

\* A thread outside the allocator, with a pool to call.
MayCall(t) == pc[t] = "idle" /\ ~destroyed

----------------------------------------------------------------------------
(***************************************************************************)
(* Allocate                                                                *)
(***************************************************************************)

\* Mutant: the block stays in the cache.
PeekCached(t, n) ==
  LET k == BucketOf(n)
      b == Last(cache[t][k])
  IN  /\ MayCall(t)
      /\ cache[t][k] # <<>>
      /\ dataSize' = [dataSize EXCEPT ![b] = n]
      /\ inUse' = inUse \cup {b}
      /\ UNCHANGED <<system, freed, allocSize, cache, freeLists, pc, refill,
                     destroyed>>

\* The thread's cache has a block of the class.
AllocateCached(t, n) ==
  LET k == BucketOf(n)
      b == Last(cache[t][k])
  IN  /\ MayCall(t)
      /\ cache[t][k] # <<>>
      /\ cache' = [cache EXCEPT ![t][k] = Front(@)]
      /\ dataSize' = [dataSize EXCEPT ![b] = n]
      /\ inUse' = inUse \cup {b}
      /\ UNCHANGED <<system, freed, allocSize, freeLists, pc, refill, destroyed>>

\* How many blocks RefillBlockCache asks for.
RefillOf(t, k) == AtMost(MaxCacheBlocks - Len(cache[t][k]), RefillCount)

\* It has none: RefillBlockCache takes what the list has, from its end, under
\* the mutex of the class.
RefillFromList(t, n) ==
  LET k == BucketOf(n)
      have == Len(freeLists[k])
      take == AtMost(have, RefillOf(t, k))
  IN  /\ MayCall(t)
      /\ cache[t][k] = <<>>
      /\ request' = [request EXCEPT ![t] = n]
      /\ memoryBlocks' = [memoryBlocks EXCEPT ![t] =
                            Reverse(SubSeq(freeLists[k], have - take + 1, have))]
      /\ freeLists' = [freeLists EXCEPT ![k] = SubSeq(@, 1, have - take)]
      /\ needed' = [needed EXCEPT ![t] = RefillOf(t, k) - take]
      /\ Goto(t, "refill")
      /\ UNCHANGED <<system, freed, headers, cache, inUse, destroyed>>

\* Mutant: the header records the size without its own.
NewBlockOfDataSize(b, n) ==
  /\ system' = system \ {b}
  /\ allocSize' = [allocSize EXCEPT ![b] = n]

\* AllocateNewMemory succeeds: as much as is asked for now, and the header.
NewBlock(b, n) ==
  /\ system' = system \ {b}
  /\ allocSize' = [allocSize EXCEPT ![b] = TotalSize(n)]

\* One turn of the loop that makes what the list did not have; posix_memalign
\* may fail, and a turn that gets nothing is one block less.
RefillFromSystem(t) ==
  /\ pc[t] = "refill"
  /\ needed[t] > 0
  /\ needed' = [needed EXCEPT ![t] = @ - 1]
  /\ \/ \E b \in system :
          /\ NewBlock(b, request[t])
          /\ dataSize' = [dataSize EXCEPT ![b] = request[t]]
          /\ memoryBlocks' = [memoryBlocks EXCEPT ![t] = Append(@, b)]
     \/ UNCHANGED <<system, headers, memoryBlocks>>
  /\ UNCHANGED <<freed, cache, freeLists, inUse, pc, request, destroyed>>

\* The blocks go to the cache, and the last of them is the one asked for.
AllocateRefilled(t) ==
  LET k == BucketOf(request[t])
      b == Last(memoryBlocks[t])
  IN  /\ pc[t] = "refill"
      /\ needed[t] = 0
      /\ memoryBlocks[t] # <<>>
      /\ cache' = [cache EXCEPT ![t][k] = @ \o Front(memoryBlocks[t])]
      /\ dataSize' = [dataSize EXCEPT ![b] = request[t]]
      /\ inUse' = inUse \cup {b}
      /\ memoryBlocks' = [memoryBlocks EXCEPT ![t] = <<>>]
      /\ Goto(t, "idle")
      /\ UNCHANGED <<system, freed, allocSize, freeLists, request, needed,
                     destroyed>>

\* There were none: one last try; when it fails, what is returned is the place
\* behind a header at address 0, where the program writes.
AllocateLast(t) ==
  /\ pc[t] = "refill"
  /\ needed[t] = 0
  /\ memoryBlocks[t] = <<>>
  /\ \/ \E b \in system :
          /\ NewBlock(b, request[t])
          /\ dataSize' = [dataSize EXCEPT ![b] = request[t]]
          /\ inUse' = inUse \cup {b}
          /\ Goto(t, "idle")
     \/ /\ Goto(t, "crashed")
        /\ UNCHANGED <<system, headers, inUse>>
  /\ UNCHANGED <<freed, cache, freeLists, refill, destroyed>>

----------------------------------------------------------------------------
(***************************************************************************)
(* Deallocate, the end of a thread, the end of the pool                    *)
(***************************************************************************)

\* The block goes by the size it was made with, whoever gives it back.
HomeOf(b) == GetBucketIndexFromSize(allocSize[b])

\* Mutant: one block more than the array has room for.
HasRoomForOneMore(t, k) == Len(cache[t][k]) <= MaxCacheBlocks

HasRoom(t, k) == Len(cache[t][k]) < MaxCacheBlocks

DeallocateCached(t, b) ==
  /\ MayCall(t)
  /\ b \in inUse
  /\ HasRoom(t, HomeOf(b))
  /\ cache' = [cache EXCEPT ![t][HomeOf(b)] = Append(@, b)]
  /\ inUse' = inUse \ {b}
  /\ UNCHANGED <<system, freed, headers, freeLists, pc, refill, destroyed>>

\* DeallocateToMemoryPool, under the mutex of the class.
DeallocateToMemoryPool(t, b) ==
  /\ MayCall(t)
  /\ b \in inUse
  /\ ~HasRoom(t, HomeOf(b))
  /\ freeLists' = [freeLists EXCEPT ![HomeOf(b)] = Append(@, b)]
  /\ inUse' = inUse \ {b}
  /\ UNCHANGED <<system, freed, headers, cache, pc, refill, destroyed>>

Cached(t) == UNION {ToSet(cache[t][k]) : k \in Bucket}
Listed == UNION {ToSet(freeLists[k]) : k \in Bucket}

\* A thread ends: its cache goes back to the system.
ThreadLocalCacheClear(t) ==
  /\ pc[t] = "idle"
  /\ freed' = freed \cup Cached(t)
  /\ cache' = [cache EXCEPT ![t] = [k \in Bucket |-> <<>>]]
  /\ Goto(t, "ended")
  /\ UNCHANGED <<system, headers, freeLists, inUse, refill, destroyed>>

\* ~MemoryPool, by the thread that is left when the others have been joined.
GlobalFreeListClear(t) ==
  /\ MayCall(t)
  /\ \A u \in Thread \ {t} : pc[u] = "ended"
  /\ freed' = freed \cup Listed
  /\ freeLists' = [k \in Bucket |-> <<>>]
  /\ destroyed' = TRUE
  /\ UNCHANGED <<system, headers, cache, inUse, pc, refill>>

----------------------------------------------------------------------------
Allocate(t) ==
  \/ \E n \in DataSize : AllocateCached(t, n) \/ RefillFromList(t, n)
  \/ RefillFromSystem(t) \/ AllocateRefilled(t) \/ AllocateLast(t)

Deallocate(t) ==
  \E b \in Block : DeallocateCached(t, b) \/ DeallocateToMemoryPool(t, b)

\* A thread that crashes takes the process with it.
Next ==
  /\ \A t \in Thread : pc[t] # "crashed"
  /\ \E t \in Thread :
       \/ Allocate(t) \/ Deallocate(t)
       \/ ThreadLocalCacheClear(t) \/ GlobalFreeListClear(t)

Spec == Init /\ [][Next]_vars

----------------------------------------------------------------------------
TypeOK ==
  /\ system \subseteq Block
  /\ freed \subseteq Block
  /\ allocSize \in [Block -> Nat]
  /\ dataSize \in [Block -> Nat]
  /\ cache \in [Thread -> [Bucket -> Seq(Block)]]
  /\ freeLists \in [Bucket -> Seq(Block)]
  /\ inUse \subseteq Block
  /\ pc \in [Thread -> {"idle", "refill", "crashed", "ended"}]
  /\ request \in [Thread -> Nat]
  /\ \A t \in Thread : pc[t] = "refill" => request[t] \in DataSize
  /\ memoryBlocks \in [Thread -> Seq(Block)]
  /\ needed \in [Thread -> Nat]
  /\ destroyed \in BOOLEAN

\* Where a block can be: in a thread's cache, in a list, in the local vector of
\* a refill, in the program's hands, given back to the system, or not made yet.
Place ==
  ({"cache"} \X Thread \X Bucket) \cup ({"list"} \X Bucket)
    \cup ({"refill"} \X Thread) \cup {<<"in use">>, <<"freed">>, <<"system">>}

BlocksAt(x) ==
  CASE x[1] = "cache"  -> ToSet(cache[x[2]][x[3]])
    [] x[1] = "list"   -> ToSet(freeLists[x[2]])
    [] x[1] = "refill" -> ToSet(memoryBlocks[x[2]])
    [] x[1] = "in use" -> inUse
    [] x[1] = "freed"  -> freed
    [] x[1] = "system" -> system

\* Every block is at one place, once: no block is in two hands, or in a hand
\* and in a list, or used after it was freed, and none is lost, however the
\* threads allocate, give back each other's blocks, refill and end.
EachBlockOnce ==
  /\ \A b \in Block : \E x \in Place : {y \in Place : b \in BlocksAt(y)} = {x}
  /\ \A t \in Thread, k \in Bucket : IsInjective(cache[t][k])
  /\ \A k \in Bucket : IsInjective(freeLists[k])
  /\ \A t \in Thread : IsInjective(memoryBlocks[t])

\* The array of a bucket is never overrun, by a refill or by giving back.
CacheWithinLimit ==
  /\ \A t \in Thread, k \in Bucket : Len(cache[t][k]) <= MaxCacheBlocks
  /\ \A t \in Thread : pc[t] = "refill" =>
       /\ Len(memoryBlocks[t]) + needed[t] <= MaxCacheBlocks
       /\ cache[t][BucketOf(request[t])] = <<>>

\* A block is handed out only for sizes of the class it goes home to, whichever
\* caches and lists it has been through: no list mixes the classes.
SameClass == \A b \in inUse : BucketOf(dataSize[b]) = HomeOf(b)

\* "Caches blocks of fixed size ... the requested size is rounded (up)"
\* (docs/MemoryPool.md:22-23): a block of a class has room for every size of
\* the class.  The code makes it as large as the request it is made for, and a
\* later, larger request of the class gets it (MemoryPool.cpp:20, 292).
FitsRequest == \A b \in inUse : TotalSize(dataSize[b]) <= allocSize[b]
=============================================================================
