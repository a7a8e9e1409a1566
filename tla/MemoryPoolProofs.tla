-------------------------- MODULE MemoryPoolProofs --------------------------
(***************************************************************************)
(* The allocator, for any threads, blocks and sizes asked for: the size    *)
(* classes stay in their arrays and are as large as they should be, the    *)
(* arrays of the caches are not overrun, a block is never at two places    *)
(* nor lost, and, as long as no two sizes of one class are asked for, a    *)
(* block has room for what it is used for.                                 *)
(*                                                                         *)
(* And the send buffers, which are one level above: for any threads,       *)
(* buffers and sizes of packets a buffer is never at two places nor lost   *)
(* before the pool is cleared, the bytes of a waiting packet stay, and     *)
(* the first packet of a buffer goes out as it was written.                *)
(***************************************************************************)
EXTENDS MemoryPool, SendBufferArena, TLAPS

LEMMA ClampedRange ==
  ASSUME NEW size \in Nat
  PROVE  /\ Clamped(size) \in Int
         /\ 32 <= Clamped(size) /\ Clamped(size) <= 4096
         /\ size <= MaxBlockSize => size <= Clamped(size)
BY DEF Clamped, AtMost, AtLeast, MinBlockSize, MaxBlockSize

\* The three steps of the classes: where a size goes, and what it is below.
LEMMA BucketIndexSteps ==
  ASSUME NEW n \in Int, 32 <= n, n <= 4096
  PROVE  /\ BucketIndex(n) \in 0 .. 19
         /\ n <= GetSizeFromBucketIndex(BucketIndex(n))
<1>1. CASE n <= 256
  <2> DEFINE k == (n - 1) \div 32
  <2>1. k \in 0 .. 7 /\ n <= (k + 1) * 32
    BY <1>1
  <2>2. BucketIndex(n) = k
    BY <1>1 DEF BucketIndex
  <2> HIDE DEF k
  <2>3. GetSizeFromBucketIndex(k) = (k + 1) * 32
    BY <2>1 DEF GetSizeFromBucketIndex
  <2>4. QED
    BY <2>1, <2>2, <2>3
<1>2. CASE n > 256 /\ n <= 1024
  <2> DEFINE k == 8 + (n - 256 - 1) \div 128
  <2>1. k \in 8 .. 13 /\ n <= 256 + (k - 7) * 128
    BY <1>2
  <2>2. BucketIndex(n) = k
    BY <1>2 DEF BucketIndex
  <2> HIDE DEF k
  <2>3. GetSizeFromBucketIndex(k) = 256 + (k - 7) * 128
    BY <2>1 DEF GetSizeFromBucketIndex
  <2>4. QED
    BY <2>1, <2>2, <2>3
<1>3. CASE n > 1024
  <2> DEFINE k == 14 + (n - 1024 - 1) \div 512
  <2>1. k \in 14 .. 19 /\ n <= 1024 + (k - 13) * 512
    BY <1>3
  <2>2. BucketIndex(n) = k
    BY <1>3 DEF BucketIndex
  <2> HIDE DEF k
  <2>3. GetSizeFromBucketIndex(k) = 1024 + (k - 13) * 512
    BY <2>1 DEF GetSizeFromBucketIndex
  <2>4. QED
    BY <2>1, <2>2, <2>3
<1>4. QED
  BY <1>1, <1>2, <1>3

\* The index of a class is inside _buckets, _freeLists and _locks, whatever
\* the size.
THEOREM BucketIndexInArray ==
  ASSUME NEW size \in Nat
  PROVE  GetBucketIndexFromSize(size) \in 0 .. BucketCount - 1
<1>1. Clamped(size) \in Int /\ 32 <= Clamped(size) /\ Clamped(size) <= 4096
  BY ClampedRange
<1>2. BucketIndex(Clamped(size)) \in 0 .. 19
  BY <1>1, BucketIndexSteps
<1>3. QED
  BY <1>2 DEF GetBucketIndexFromSize, BucketCount

\* Up to MaxBlockSize a class is as large as every size that is filed under it
\* (a block of the class is not: see FitsRequest).
THEOREM ClassHoldsSize ==
  ASSUME NEW size \in 0 .. MaxBlockSize
  PROVE  size <= GetSizeFromBucketIndex(GetBucketIndexFromSize(size))
<1>1. size \in Nat /\ size <= MaxBlockSize
  BY DEF MaxBlockSize
<1>2. /\ Clamped(size) \in Int
      /\ 32 <= Clamped(size) /\ Clamped(size) <= 4096
      /\ size <= Clamped(size)
  BY <1>1, ClampedRange
<1> DEFINE n == Clamped(size)
<1> HIDE DEF n
<1>3. n \in Int /\ 32 <= n /\ n <= 4096 /\ size <= n
  BY <1>2 DEF n
<1>4. BucketIndex(n) \in 0 .. 19 /\ n <= GetSizeFromBucketIndex(BucketIndex(n))
  BY <1>3, BucketIndexSteps
<1>5. GetSizeFromBucketIndex(BucketIndex(n)) \in Int
  BY <1>4 DEF GetSizeFromBucketIndex
<1>6. size <= GetSizeFromBucketIndex(BucketIndex(n))
  BY <1>1, <1>3, <1>4, <1>5
<1>7. QED
  BY <1>6 DEF GetBucketIndexFromSize, n

----------------------------------------------------------------------------
(***************************************************************************)
(* What the list operations do to the blocks they move.                    *)
(***************************************************************************)

LEMMA SplitLast ==
  ASSUME NEW S, NEW s \in Seq(S), s # <<>>
  PROVE  /\ Front(s) \in Seq(S)
         /\ Len(Front(s)) = Len(s) - 1
         /\ \A i \in DOMAIN Front(s) : i \in DOMAIN s /\ Front(s)[i] = s[i]
         /\ Len(s) \in DOMAIN s
         /\ Last(s) = s[Len(s)]
         /\ Last(s) \in S
<1>1. Len(s) \in Nat \ {0} /\ DOMAIN s = 1 .. Len(s)
  OBVIOUS
<1>2. QED
  BY <1>1 DEF Front, Last

LEMMA SplitEnd ==
  ASSUME NEW S, NEW s \in Seq(S), NEW take \in Nat, take <= Len(s),
         NEW kept, kept = SubSeq(s, 1, Len(s) - take),
         NEW taken, taken = Reverse(SubSeq(s, Len(s) - take + 1, Len(s)))
  PROVE  /\ kept \in Seq(S)
         /\ \A i \in DOMAIN kept : i \in DOMAIN s /\ kept[i] = s[i]
         /\ taken \in Seq(S)
         /\ Len(taken) = take
         /\ \A i \in DOMAIN taken : \E j \in DOMAIN s : taken[i] = s[j]
<1>1. Len(s) \in Nat /\ DOMAIN s = 1 .. Len(s)
  OBVIOUS
<1>2. /\ kept \in Seq(S)
      /\ \A i \in DOMAIN kept : i \in DOMAIN s /\ kept[i] = s[i]
  BY <1>1
<1> DEFINE end == SubSeq(s, Len(s) - take + 1, Len(s))
<1>3. /\ end \in Seq(S)
      /\ Len(end) = take
      /\ \A i \in 1 .. take : /\ end[i] = s[Len(s) - take + i]
                              /\ Len(s) - take + i \in DOMAIN s
  BY <1>1
<1> HIDE DEF end
<1>4. taken = [i \in 1 .. take |-> end[take - i + 1]]
  BY <1>3 DEF Reverse, end
<1>5. taken \in Seq(S) /\ Len(taken) = take
  BY <1>3, <1>4
<1>6. ASSUME NEW i \in DOMAIN taken
      PROVE  \E j \in DOMAIN s : taken[i] = s[j]
  <2>1. i \in 1 .. take /\ take - i + 1 \in 1 .. take
    BY <1>4
  <2>2. taken[i] = end[take - i + 1]
    BY <1>4, <2>1
  <2>3. QED
    BY <1>3, <2>1, <2>2
<1>7. QED
  BY <1>2, <1>5, <1>6

----------------------------------------------------------------------------
(***************************************************************************)
(* Types, and the limit of the caches.                                     *)
(***************************************************************************)

LEMMA BucketOfRequest ==
  /\ DataSize \subseteq Nat
  /\ \A n \in DataSize : BucketOf(n) \in Bucket /\ TotalSize(n) \in Nat
BY DataSizeAssumption DEF Bucket, TotalSize, HeaderSize

\* What RefillFromList takes, and what it leaves for the system.
LEMMA RefillNumbers ==
  ASSUME TypeOK, NEW t \in Thread, NEW k \in Bucket, cache[t][k] = <<>>,
         NEW take, take = AtMost(Len(freeLists[k]), RefillOf(t, k))
  PROVE  /\ take \in Nat
         /\ take <= Len(freeLists[k])
         /\ RefillOf(t, k) - take \in Nat
         /\ RefillOf(t, k) <= MaxCacheBlocks
         /\ RefillOf(t, k) \in Nat
<1>1. Len(cache[t][k]) = 0
  OBVIOUS
<1>2. Len(freeLists[k]) \in Nat
  BY DEF TypeOK
<1>3. QED
  BY <1>1, <1>2, CountsAssumption DEF RefillOf, AtMost

LEMMA RefillLists ==
  ASSUME TypeOK, NEW t \in Thread, NEW n \in DataSize, RefillFromList(t, n)
  PROVE  /\ BucketOf(n) \in Bucket
         /\ cache[t][BucketOf(n)] = <<>>
         /\ \E kept, taken \in Seq(Block) :
              /\ freeLists' = [freeLists EXCEPT ![BucketOf(n)] = kept]
              /\ memoryBlocks' = [memoryBlocks EXCEPT ![t] = taken]
              /\ \A i \in DOMAIN kept : /\ i \in DOMAIN freeLists[BucketOf(n)]
                                        /\ kept[i] = freeLists[BucketOf(n)][i]
              /\ \A i \in DOMAIN taken : \E j \in DOMAIN freeLists[BucketOf(n)] :
                   taken[i] = freeLists[BucketOf(n)][j]
              /\ \E rest \in Nat : /\ needed' = [needed EXCEPT ![t] = rest]
                                   /\ Len(taken) + rest <= MaxCacheBlocks
<1> DEFINE k == BucketOf(n)
           have == Len(freeLists[k])
           take == AtMost(have, RefillOf(t, k))
           kept == SubSeq(freeLists[k], 1, have - take)
           taken == Reverse(SubSeq(freeLists[k], have - take + 1, have))
<1>1. k \in Bucket /\ cache[t][k] = <<>> /\ freeLists[k] \in Seq(Block)
  BY BucketOfRequest DEF RefillFromList, TypeOK
<1>2. /\ take \in Nat /\ take <= have
      /\ RefillOf(t, k) - take \in Nat
      /\ RefillOf(t, k) <= MaxCacheBlocks
      /\ RefillOf(t, k) \in Nat
  BY <1>1, RefillNumbers
<1>3. /\ freeLists' = [freeLists EXCEPT ![k] = kept]
      /\ memoryBlocks' = [memoryBlocks EXCEPT ![t] = taken]
      /\ needed' = [needed EXCEPT ![t] = RefillOf(t, k) - take]
  BY DEF RefillFromList
<1> HIDE DEF k
<1>4. /\ kept \in Seq(Block)
      /\ \A i \in DOMAIN kept : i \in DOMAIN freeLists[k] /\ kept[i] = freeLists[k][i]
      /\ taken \in Seq(Block)
      /\ Len(taken) = take
      /\ \A i \in DOMAIN taken : \E j \in DOMAIN freeLists[k] : taken[i] = freeLists[k][j]
  <2> DEFINE s == freeLists[k]
  <2>1. s \in Seq(Block) /\ take \in Nat /\ take <= Len(s)
    BY <1>1, <1>2
  <2>2. /\ kept = SubSeq(s, 1, Len(s) - take)
        /\ taken = Reverse(SubSeq(s, Len(s) - take + 1, Len(s)))
    OBVIOUS
  <2> HIDE DEF s, kept, taken, take
  <2>3. /\ kept \in Seq(Block)
        /\ \A i \in DOMAIN kept : i \in DOMAIN s /\ kept[i] = s[i]
        /\ taken \in Seq(Block)
        /\ Len(taken) = take
        /\ \A i \in DOMAIN taken : \E j \in DOMAIN s : taken[i] = s[j]
    BY <2>1, <2>2, SplitEnd
  <2>4. QED
    BY <2>3 DEF s
<1> HIDE DEF kept, taken, take
<1>5. Len(taken) + (RefillOf(t, k) - take) <= MaxCacheBlocks
  BY <1>2, <1>4, CountsAssumption
<1>6. QED
  BY <1>1, <1>2, <1>3, <1>4, <1>5 DEF k

LEMMA InitTypes == Init => TypeOK
<1> SUFFICES ASSUME Init
             PROVE  TypeOK
  OBVIOUS
<1>1. <<>> \in Seq(Block)
  OBVIOUS
<1>2. /\ cache \in [Thread -> [Bucket -> Seq(Block)]]
      /\ freeLists \in [Bucket -> Seq(Block)]
      /\ memoryBlocks \in [Thread -> Seq(Block)]
  BY <1>1 DEF Init
<1>3. QED
  BY <1>2 DEF Init, TypeOK

LEMMA NextTypes == TypeOK /\ [Next]_vars => TypeOK'
<1> SUFFICES ASSUME TypeOK, [Next]_vars
             PROVE  TypeOK'
  OBVIOUS
<1>1. ASSUME NEW t \in Thread, NEW n \in DataSize, AllocateCached(t, n)
      PROVE  TypeOK'
  <2> DEFINE k == BucketOf(n)
  <2>1. k \in Bucket /\ n \in Nat
    BY BucketOfRequest
  <2> HIDE DEF k
  <2>2. /\ cache[t][k] \in Seq(Block)
        /\ cache[t][k] # <<>>
    BY <1>1, <2>1 DEF AllocateCached, TypeOK, k
  <2>3. Front(cache[t][k]) \in Seq(Block) /\ Last(cache[t][k]) \in Block
    BY <2>2, SplitLast
  <2>4. /\ cache' = [cache EXCEPT ![t][k] = Front(cache[t][k])]
        /\ dataSize' = [dataSize EXCEPT ![Last(cache[t][k])] = n]
        /\ inUse' = inUse \cup {Last(cache[t][k])}
        /\ UNCHANGED <<system, freed, allocSize, freeLists, pc, refill, destroyed>>
    BY <1>1 DEF AllocateCached, k
  <2>5. cache' \in [Thread -> [Bucket -> Seq(Block)]]
    BY <2>1, <2>3, <2>4 DEF TypeOK
  <2>6. dataSize' \in [Block -> Nat] /\ inUse' \subseteq Block
    BY <2>1, <2>3, <2>4 DEF TypeOK
  <2>7. QED
    BY <2>4, <2>5, <2>6 DEF TypeOK, refill
<1>2. ASSUME NEW t \in Thread, NEW n \in DataSize, RefillFromList(t, n)
      PROVE  TypeOK'
  <2>1. PICK kept \in Seq(Block), taken \in Seq(Block), rest \in Nat :
          /\ freeLists' = [freeLists EXCEPT ![BucketOf(n)] = kept]
          /\ memoryBlocks' = [memoryBlocks EXCEPT ![t] = taken]
          /\ needed' = [needed EXCEPT ![t] = rest]
    BY <1>2, RefillLists
  <2>2. freeLists' \in [Bucket -> Seq(Block)]
    BY <2>1 DEF TypeOK
  <2>3. memoryBlocks' \in [Thread -> Seq(Block)] /\ needed' \in [Thread -> Nat]
    BY <2>1 DEF TypeOK
  <2>4. /\ request' = [request EXCEPT ![t] = n]
        /\ pc' = [pc EXCEPT ![t] = "refill"]
        /\ UNCHANGED <<system, freed, headers, cache, inUse, destroyed>>
    BY <1>2 DEF RefillFromList, Goto
  <2>5. /\ request' \in [Thread -> Nat]
        /\ \A u \in Thread : pc'[u] = "refill" => request'[u] \in DataSize
    BY <2>4, BucketOfRequest DEF TypeOK
  <2>6. pc' \in [Thread -> {"idle", "refill", "crashed", "ended"}]
    BY <2>4 DEF TypeOK
  <2>7. QED
    BY <2>2, <2>3, <2>4, <2>5, <2>6 DEF TypeOK, headers
<1>3. ASSUME NEW t \in Thread, RefillFromSystem(t)
      PROVE  TypeOK'
  <2>1. request[t] \in Nat /\ TotalSize(request[t]) \in Nat
    BY <1>3 DEF RefillFromSystem, TypeOK, TotalSize, HeaderSize
  <2>2. needed' \in [Thread -> Nat]
    BY <1>3 DEF RefillFromSystem, TypeOK
  <2>3. CASE \E b \in system :
               /\ NewBlock(b, request[t])
               /\ dataSize' = [dataSize EXCEPT ![b] = request[t]]
               /\ memoryBlocks' = [memoryBlocks EXCEPT ![t] = Append(@, b)]
    BY <1>3, <2>1, <2>2, <2>3 DEF RefillFromSystem, NewBlock, TypeOK
  <2>4. CASE UNCHANGED <<system, headers, memoryBlocks>>
    BY <1>3, <2>2, <2>4 DEF RefillFromSystem, TypeOK, headers
  <2>5. QED
    BY <1>3, <2>3, <2>4 DEF RefillFromSystem
<1>4. ASSUME NEW t \in Thread, AllocateRefilled(t)
      PROVE  TypeOK'
  <2> DEFINE k == BucketOf(request[t])
  <2>1. k \in Bucket /\ request[t] \in Nat
    BY <1>4, BucketOfRequest DEF AllocateRefilled, TypeOK
  <2> HIDE DEF k
  <2>2. memoryBlocks[t] \in Seq(Block) /\ memoryBlocks[t] # <<>>
    BY <1>4 DEF AllocateRefilled, TypeOK
  <2>3. Front(memoryBlocks[t]) \in Seq(Block) /\ Last(memoryBlocks[t]) \in Block
    BY <2>2, SplitLast
  <2>4. /\ cache' = [cache EXCEPT ![t][k] = cache[t][k] \o Front(memoryBlocks[t])]
        /\ dataSize' = [dataSize EXCEPT ![Last(memoryBlocks[t])] = request[t]]
        /\ inUse' = inUse \cup {Last(memoryBlocks[t])}
        /\ memoryBlocks' = [memoryBlocks EXCEPT ![t] = <<>>]
        /\ pc' = [pc EXCEPT ![t] = "idle"]
        /\ UNCHANGED <<system, freed, allocSize, freeLists, request, needed, destroyed>>
    BY <1>4 DEF AllocateRefilled, Goto, k
  <2>5. cache[t][k] \o Front(memoryBlocks[t]) \in Seq(Block)
    BY <2>1, <2>3 DEF TypeOK
  <2>6. cache' \in [Thread -> [Bucket -> Seq(Block)]]
    BY <2>1, <2>4, <2>5 DEF TypeOK
  <2>7. dataSize' \in [Block -> Nat] /\ inUse' \subseteq Block
    BY <2>1, <2>3, <2>4 DEF TypeOK
  <2>8. /\ memoryBlocks' \in [Thread -> Seq(Block)]
        /\ pc' \in [Thread -> {"idle", "refill", "crashed", "ended"}]
        /\ \A u \in Thread : pc'[u] = "refill" => request'[u] \in DataSize
    BY <2>4 DEF TypeOK
  <2>9. QED
    BY <2>4, <2>6, <2>7, <2>8 DEF TypeOK
<1>5. ASSUME NEW t \in Thread, AllocateLast(t)
      PROVE  TypeOK'
  <2>1. request[t] \in Nat /\ TotalSize(request[t]) \in Nat
    BY <1>5 DEF AllocateLast, TypeOK, TotalSize, HeaderSize
  <2>2. CASE \E b \in system : /\ NewBlock(b, request[t])
                               /\ dataSize' = [dataSize EXCEPT ![b] = request[t]]
                               /\ inUse' = inUse \cup {b}
                               /\ Goto(t, "idle")
    BY <1>5, <2>1, <2>2 DEF AllocateLast, NewBlock, TypeOK, Goto, refill
  <2>3. CASE Goto(t, "crashed") /\ UNCHANGED <<system, headers, inUse>>
    BY <1>5, <2>3 DEF AllocateLast, TypeOK, Goto, refill, headers
  <2>4. QED
    BY <1>5, <2>2, <2>3 DEF AllocateLast
<1>6. ASSUME NEW t \in Thread, NEW b \in Block, DeallocateCached(t, b)
      PROVE  TypeOK'
  <2>1. cache' = [cache EXCEPT ![t][HomeOf(b)] = Append(cache[t][HomeOf(b)], b)]
    BY <1>6 DEF DeallocateCached
  <2>2. HomeOf(b) \in Bucket => Append(cache[t][HomeOf(b)], b) \in Seq(Block)
    BY DEF TypeOK
  <2>3. cache' \in [Thread -> [Bucket -> Seq(Block)]]
    <3> DEFINE h == HomeOf(b)
               new == Append(cache[t][h], b)
    <3>1. cache' = [cache EXCEPT ![t][h] = new] /\ (h \in Bucket => new \in Seq(Block))
      BY <2>1, <2>2
    <3> HIDE DEF h, new
    <3>2. QED
      BY <3>1 DEF TypeOK
  <2>4. QED
    BY <1>6, <2>3 DEF DeallocateCached, TypeOK, headers, refill
<1>7. ASSUME NEW t \in Thread, NEW b \in Block, DeallocateToMemoryPool(t, b)
      PROVE  TypeOK'
  <2> DEFINE h == HomeOf(b)
             new == Append(freeLists[h], b)
  <2>1. freeLists' = [freeLists EXCEPT ![h] = new] /\ (h \in Bucket => new \in Seq(Block))
    BY <1>7 DEF DeallocateToMemoryPool, TypeOK
  <2> HIDE DEF h, new
  <2>2. freeLists' \in [Bucket -> Seq(Block)]
    BY <2>1 DEF TypeOK
  <2>3. QED
    BY <1>7, <2>2 DEF DeallocateToMemoryPool, TypeOK, headers, refill
<1>8. ASSUME NEW t \in Thread, ThreadLocalCacheClear(t)
      PROVE  TypeOK'
  <2>1. Cached(t) \subseteq Block
    BY DEF Cached, ToSet, TypeOK
  <2>2. [k \in Bucket |-> <<>>] \in [Bucket -> Seq(Block)]
    OBVIOUS
  <2>3. cache' \in [Thread -> [Bucket -> Seq(Block)]]
    BY <1>8, <2>2 DEF ThreadLocalCacheClear, TypeOK
  <2>4. QED
    BY <1>8, <2>1, <2>3 DEF ThreadLocalCacheClear, Goto, TypeOK, headers, refill
<1>9. ASSUME NEW t \in Thread, GlobalFreeListClear(t)
      PROVE  TypeOK'
  <2>1. Listed \subseteq Block
    BY DEF Listed, ToSet, TypeOK
  <2>2. freeLists' \in [Bucket -> Seq(Block)]
    BY <1>9 DEF GlobalFreeListClear
  <2>3. QED
    BY <1>9, <2>1, <2>2 DEF GlobalFreeListClear, TypeOK, headers, refill
<1>10. CASE UNCHANGED vars
  BY <1>10 DEF vars, TypeOK
<1>11. QED
  BY <1>1, <1>2, <1>3, <1>4, <1>5, <1>6, <1>7, <1>8, <1>9, <1>10
  DEF Next, Allocate, Deallocate

\* The pool keeps its types, for any threads, blocks and sizes asked for.
THEOREM TypeInvariant == Spec => []TypeOK
BY InitTypes, NextTypes, PTL DEF Spec

LEMMA NextCacheWithinLimit ==
  TypeOK /\ CacheWithinLimit /\ [Next]_vars => CacheWithinLimit'
<1> SUFFICES ASSUME TypeOK, CacheWithinLimit, [Next]_vars
             PROVE  CacheWithinLimit'
  OBVIOUS
<1>0. \A u \in Thread : /\ memoryBlocks[u] \in Seq(Block) /\ needed[u] \in Nat
                        /\ \A k \in Bucket : cache[u][k] \in Seq(Block)
  BY DEF TypeOK
<1>1. ASSUME NEW t \in Thread, NEW n \in DataSize, AllocateCached(t, n)
      PROVE  CacheWithinLimit'
  <2> DEFINE k == BucketOf(n)
  <2>1. /\ k \in Bucket
        /\ pc[t] = "idle" /\ cache[t][k] # <<>>
        /\ cache' = [cache EXCEPT ![t][k] = Front(cache[t][k])]
        /\ UNCHANGED <<pc, refill>>
    BY <1>1, BucketOfRequest DEF AllocateCached, MayCall
  <2> HIDE DEF k
  <2>2. Len(Front(cache[t][k])) = Len(cache[t][k]) - 1
    BY <1>0, <2>1, SplitLast
  <2>3. \A u \in Thread, j \in Bucket : Len(cache'[u][j]) <= Len(cache[u][j])
    BY <1>0, <2>1, <2>2 DEF TypeOK
  <2>4. \A u \in Thread : u # t => cache'[u] = cache[u]
    BY <2>1 DEF TypeOK
  <2>5. \A u \in Thread, j \in Bucket : Len(cache'[u][j]) <= MaxCacheBlocks
    <3>1. \A u \in Thread, j \in Bucket :
            Len(cache'[u][j]) \in Nat /\ Len(cache[u][j]) \in Nat
      BY <1>0, NextTypes DEF TypeOK
    <3>2. QED
      BY <2>3, <3>1, CountsAssumption DEF CacheWithinLimit
  <2>6. QED
    BY <2>1, <2>4, <2>5 DEF CacheWithinLimit, refill
<1>2. ASSUME NEW t \in Thread, NEW n \in DataSize, RefillFromList(t, n)
      PROVE  CacheWithinLimit'
  <2>1. PICK taken \in Seq(Block), rest \in Nat :
          /\ memoryBlocks' = [memoryBlocks EXCEPT ![t] = taken]
          /\ needed' = [needed EXCEPT ![t] = rest]
          /\ Len(taken) + rest <= MaxCacheBlocks
          /\ cache[t][BucketOf(n)] = <<>>
    BY <1>2, RefillLists
  <2>2. /\ request' = [request EXCEPT ![t] = n]
        /\ pc' = [pc EXCEPT ![t] = "refill"]
        /\ cache' = cache
    BY <1>2 DEF RefillFromList, Goto
  <2>3. ASSUME NEW u \in Thread, pc'[u] = "refill"
        PROVE  /\ Len(memoryBlocks'[u]) + needed'[u] <= MaxCacheBlocks
               /\ cache'[u][BucketOf(request'[u])] = <<>>
    <3>1. CASE u = t
      BY <2>1, <2>2, <3>1 DEF TypeOK
    <3>2. CASE u # t
      BY <2>1, <2>2, <2>3, <3>2 DEF TypeOK, CacheWithinLimit
    <3>3. QED
      BY <3>1, <3>2
  <2>4. QED
    BY <2>2, <2>3 DEF CacheWithinLimit
<1>3. ASSUME NEW t \in Thread, RefillFromSystem(t)
      PROVE  CacheWithinLimit'
  <2>1. /\ needed[t] > 0
        /\ needed' = [needed EXCEPT ![t] = needed[t] - 1]
        /\ \/ \E b \in Block : memoryBlocks' = [memoryBlocks EXCEPT ![t] = Append(memoryBlocks[t], b)]
           \/ memoryBlocks' = memoryBlocks
        /\ UNCHANGED <<cache, pc, request>>
    BY <1>3 DEF RefillFromSystem, TypeOK
  <2>2. ASSUME NEW u \in Thread, pc[u] = "refill"
        PROVE  Len(memoryBlocks'[u]) + needed'[u] <= MaxCacheBlocks
    <3>1. Len(memoryBlocks[u]) + needed[u] <= MaxCacheBlocks
      BY <2>2 DEF CacheWithinLimit
    <3>2. CASE u = t
      <4>1. needed'[t] = needed[t] - 1
        BY <2>1 DEF TypeOK
      <4>2. Len(memoryBlocks'[t]) \in {Len(memoryBlocks[t]), Len(memoryBlocks[t]) + 1}
        BY <1>0, <2>1 DEF TypeOK
      <4>3. QED
        BY <1>0, <2>1, <3>1, <3>2, <4>1, <4>2, CountsAssumption
    <3>3. CASE u # t
      BY <2>1, <3>1, <3>3 DEF TypeOK
    <3>4. QED
      BY <3>2, <3>3
  <2>3. QED
    BY <2>1, <2>2 DEF CacheWithinLimit
<1>4. ASSUME NEW t \in Thread, AllocateRefilled(t)
      PROVE  CacheWithinLimit'
  <2> DEFINE k == BucketOf(request[t])
  <2>1. /\ pc[t] = "refill" /\ memoryBlocks[t] # <<>> /\ k \in Bucket /\ needed[t] = 0
        /\ cache' = [cache EXCEPT ![t][k] = cache[t][k] \o Front(memoryBlocks[t])]
        /\ memoryBlocks' = [memoryBlocks EXCEPT ![t] = <<>>]
        /\ pc' = [pc EXCEPT ![t] = "idle"]
        /\ UNCHANGED <<request, needed>>
    BY <1>4, BucketOfRequest DEF AllocateRefilled, Goto, TypeOK
  <2>2. cache[t][k] = <<>> /\ Len(memoryBlocks[t]) <= MaxCacheBlocks
    BY <1>0, <2>1 DEF CacheWithinLimit
  <2> HIDE DEF k
  <2>3. Front(memoryBlocks[t]) \in Seq(Block) /\ Len(Front(memoryBlocks[t])) = Len(memoryBlocks[t]) - 1
    BY <1>0, <2>1, SplitLast
  <2>4. Len(cache[t][k] \o Front(memoryBlocks[t])) <= MaxCacheBlocks
    BY <1>0, <2>2, <2>3, CountsAssumption
  <2>5. \A u \in Thread, j \in Bucket : Len(cache'[u][j]) <= MaxCacheBlocks
    BY <2>1, <2>4 DEF TypeOK, CacheWithinLimit
  <2>6. \A u \in Thread : pc'[u] = "refill" =>
          u # t /\ pc[u] = "refill" /\ memoryBlocks'[u] = memoryBlocks[u] /\ cache'[u] = cache[u]
    BY <2>1 DEF TypeOK
  <2>7. QED
    BY <2>1, <2>5, <2>6 DEF CacheWithinLimit
<1>5. ASSUME NEW t \in Thread, AllocateLast(t)
      PROVE  CacheWithinLimit'
  <2>1. /\ \A u \in Thread : pc'[u] = "refill" => pc[u] = "refill"
        /\ UNCHANGED <<cache, request, memoryBlocks, needed>>
    BY <1>5 DEF AllocateLast, Goto, TypeOK, refill
  <2>2. QED
    BY <2>1 DEF CacheWithinLimit
<1>6. ASSUME NEW t \in Thread, NEW b \in Block, DeallocateCached(t, b)
      PROVE  CacheWithinLimit'
  <2> DEFINE h == HomeOf(b)
  <2>1. /\ pc[t] = "idle" /\ Len(cache[t][h]) < MaxCacheBlocks
        /\ cache' = [cache EXCEPT ![t][h] = Append(cache[t][h], b)]
        /\ UNCHANGED <<pc, refill>>
    BY <1>6 DEF DeallocateCached, MayCall, HasRoom
  <2> HIDE DEF h
  <2>2. h \in Bucket => Len(Append(cache[t][h], b)) <= MaxCacheBlocks
    BY <1>0, <2>1, CountsAssumption
  <2>3. \A u \in Thread, j \in Bucket : Len(cache'[u][j]) <= MaxCacheBlocks
    BY <2>1, <2>2 DEF TypeOK, CacheWithinLimit
  <2>4. \A u \in Thread : u # t => cache'[u] = cache[u]
    BY <2>1 DEF TypeOK
  <2>5. QED
    BY <2>1, <2>3, <2>4 DEF CacheWithinLimit, refill
<1>7. ASSUME NEW t \in Thread, NEW b \in Block, DeallocateToMemoryPool(t, b)
      PROVE  CacheWithinLimit'
  BY <1>7 DEF DeallocateToMemoryPool, CacheWithinLimit, refill
<1>8. ASSUME NEW t \in Thread, ThreadLocalCacheClear(t)
      PROVE  CacheWithinLimit'
  <2>1. \A u \in Thread : \/ u # t /\ cache'[u] = cache[u] /\ pc'[u] = pc[u]
                          \/ cache'[u] = [k \in Bucket |-> <<>>] /\ pc'[u] = "ended"
    BY <1>8 DEF ThreadLocalCacheClear, Goto, TypeOK
  <2>2. UNCHANGED refill
    BY <1>8 DEF ThreadLocalCacheClear
  <2>3. QED
    BY <2>1, <2>2, CountsAssumption DEF CacheWithinLimit, refill
<1>9. ASSUME NEW t \in Thread, GlobalFreeListClear(t)
      PROVE  CacheWithinLimit'
  BY <1>9 DEF GlobalFreeListClear, CacheWithinLimit, refill
<1>10. CASE UNCHANGED vars
  BY <1>10 DEF vars, CacheWithinLimit
<1>11. QED
  BY <1>1, <1>2, <1>3, <1>4, <1>5, <1>6, <1>7, <1>8, <1>9, <1>10
  DEF Next, Allocate, Deallocate

\* No thread's array of blocks is overrun, by a refill or by giving back.
THEOREM CacheWithinLimitHolds == Spec => []CacheWithinLimit
<1>1. Init => CacheWithinLimit
  BY CountsAssumption DEF Init, CacheWithinLimit
<1>2. QED
  BY <1>1, InitTypes, NextTypes, NextCacheWithinLimit, PTL DEF Spec

----------------------------------------------------------------------------
(***************************************************************************)
(* Size classes.  A block was made for one of the sizes, wherever it is    *)
(* kept, it is kept under the class of that size, and it is handed out for *)
(* sizes of that class: for a larger one, too, which it has no room for.   *)
(***************************************************************************)

Made(b, k) ==
  /\ b \notin system
  /\ \E n \in DataSize : BucketOf(n) = k /\ allocSize[b] = TotalSize(n)

CachesWellMade ==
  \A t \in Thread, k \in Bucket :
    \A i \in DOMAIN cache[t][k] : Made(cache[t][k][i], k)

ListsWellMade ==
  \A k \in Bucket : \A i \in DOMAIN freeLists[k] : Made(freeLists[k][i], k)

RefillsWellMade ==
  \A t \in Thread :
    \A i \in DOMAIN memoryBlocks[t] : Made(memoryBlocks[t][i], BucketOf(request[t]))

InUseWellMade ==
  \A b \in inUse : /\ dataSize[b] \in DataSize
                   /\ Made(b, BucketOf(dataSize[b]))

WellMade ==
  CachesWellMade /\ ListsWellMade /\ RefillsWellMade /\ InUseWellMade

LEMMA NewBlockWellMade ==
  ASSUME TypeOK, NEW b \in system, NEW n \in DataSize, NewBlock(b, n)
  PROVE  /\ Made(b, BucketOf(n))'
         /\ \A c \in Block : \A k : Made(c, k) => Made(c, k)'
<1>1. /\ b \in Block
      /\ system' = system \ {b}
      /\ allocSize' = [allocSize EXCEPT ![b] = TotalSize(n)]
  BY DEF NewBlock, TypeOK
<1>2. allocSize'[b] = TotalSize(n) /\ \A c \in Block \ {b} : allocSize'[c] = allocSize[c]
  BY <1>1 DEF TypeOK
<1>3. QED
  BY <1>1, <1>2 DEF Made

\* A block goes home to the class it is kept under.
LEMMA MadeAtHome ==
  ASSUME NEW b, NEW k, Made(b, k)
  PROVE  HomeOf(b) = k
BY DEF Made, HomeOf, BucketOf

LEMMA SameBlocks ==
  ASSUME UNCHANGED <<system, allocSize>>
  PROVE  \A b, k : Made(b, k)' <=> Made(b, k)
BY DEF Made

LEMMA NextWellMade ==
  ASSUME TypeOK, WellMade, [Next]_vars
  PROVE  WellMade'
<1>0. /\ \A u \in Thread, k \in Bucket : cache[u][k] \in Seq(Block)
      /\ \A k \in Bucket : freeLists[k] \in Seq(Block)
      /\ \A u \in Thread : memoryBlocks[u] \in Seq(Block)
  BY DEF TypeOK
<1>1. ASSUME NEW t \in Thread, NEW n \in DataSize, AllocateCached(t, n)
      PROVE  WellMade'
  <2> DEFINE k == BucketOf(n)
             b == Last(cache[t][k])
  <2>1. /\ k \in Bucket
        /\ cache[t][k] # <<>>
        /\ cache' = [cache EXCEPT ![t][k] = Front(cache[t][k])]
        /\ dataSize' = [dataSize EXCEPT ![b] = n]
        /\ inUse' = inUse \cup {b}
        /\ UNCHANGED <<system, allocSize, freeLists, memoryBlocks, request>>
    BY <1>1, BucketOfRequest DEF AllocateCached, refill
  <2>2. /\ Front(cache[t][k]) \in Seq(Block)
        /\ \A i \in DOMAIN Front(cache[t][k]) :
             i \in DOMAIN cache[t][k] /\ Front(cache[t][k])[i] = cache[t][k][i]
        /\ Len(cache[t][k]) \in DOMAIN cache[t][k]
        /\ b = cache[t][k][Len(cache[t][k])] /\ b \in Block
    <3> HIDE DEF k
    <3>1. QED
      BY <1>0, <2>1, SplitLast
  <2>3. Made(b, BucketOf(n))
    BY <2>1, <2>2 DEF WellMade, CachesWellMade
  <2> HIDE DEF k, b
  <2>4. CachesWellMade'
    <3>1. ASSUME NEW u \in Thread, NEW j \in Bucket, NEW i \in DOMAIN cache'[u][j]
          PROVE  Made(cache'[u][j][i], j)
      BY <2>1, <2>2 DEF TypeOK, WellMade, CachesWellMade
    <3>2. QED
      BY <2>1, <3>1, SameBlocks DEF CachesWellMade
  <2>5. ListsWellMade' /\ RefillsWellMade'
    BY <2>1, SameBlocks DEF WellMade, ListsWellMade, RefillsWellMade
  <2>6. InUseWellMade'
    BY <2>1, <2>2, <2>3, SameBlocks DEF TypeOK, WellMade, InUseWellMade
  <2>7. QED
    BY <2>4, <2>5, <2>6 DEF WellMade
<1>2. ASSUME NEW t \in Thread, NEW n \in DataSize, RefillFromList(t, n)
      PROVE  WellMade'
  <2>1. PICK kept \in Seq(Block), taken \in Seq(Block) :
          /\ freeLists' = [freeLists EXCEPT ![BucketOf(n)] = kept]
          /\ memoryBlocks' = [memoryBlocks EXCEPT ![t] = taken]
          /\ \A i \in DOMAIN kept : /\ i \in DOMAIN freeLists[BucketOf(n)]
                                    /\ kept[i] = freeLists[BucketOf(n)][i]
          /\ \A i \in DOMAIN taken : \E j \in DOMAIN freeLists[BucketOf(n)] :
               taken[i] = freeLists[BucketOf(n)][j]
          /\ \E rest \in Nat : /\ needed' = [needed EXCEPT ![t] = rest]
                               /\ Len(taken) + rest <= MaxCacheBlocks
    BY <1>2, RefillLists
  <2> DEFINE k == BucketOf(n)
  <2>2. /\ k \in Bucket
        /\ request' = [request EXCEPT ![t] = n]
        /\ UNCHANGED <<system, allocSize, dataSize, cache, inUse>>
    BY <1>2, BucketOfRequest DEF RefillFromList, headers
  <2>3. \A i \in DOMAIN freeLists[k] : Made(freeLists[k][i], k)
    BY <2>2 DEF WellMade, ListsWellMade
  <2>4. ListsWellMade'
    <3> HIDE DEF k
    <3>1. ASSUME NEW j \in Bucket, NEW i \in DOMAIN freeLists'[j]
          PROVE  Made(freeLists'[j][i], j)
      BY <2>1, <2>2, <2>3 DEF TypeOK, WellMade, ListsWellMade
    <3>2. QED
      BY <2>2, <3>1, SameBlocks DEF ListsWellMade
  <2>5. RefillsWellMade'
    <3>1. ASSUME NEW u \in Thread, NEW i \in DOMAIN memoryBlocks'[u]
          PROVE  Made(memoryBlocks'[u][i], BucketOf(request'[u]))
      <4>1. CASE u = t
        <5>1. memoryBlocks'[t] = taken /\ request'[t] = n
          BY <2>1, <2>2 DEF TypeOK
        <5>2. QED
          BY <2>1, <2>3, <3>1, <4>1, <5>1
      <4>2. CASE u # t
        BY <2>1, <2>2, <4>2 DEF TypeOK, WellMade, RefillsWellMade
      <4>3. QED
        BY <4>1, <4>2
    <3>2. QED
      BY <2>2, <3>1, SameBlocks DEF RefillsWellMade
  <2>6. CachesWellMade' /\ InUseWellMade'
    BY <2>2, SameBlocks DEF WellMade, CachesWellMade, InUseWellMade
  <2>7. QED
    BY <2>4, <2>5, <2>6 DEF WellMade
<1>3. ASSUME NEW t \in Thread, RefillFromSystem(t)
      PROVE  WellMade'
  <2>1. request[t] \in DataSize /\ UNCHANGED <<cache, freeLists, inUse, request>>
    BY <1>3 DEF RefillFromSystem, TypeOK
  <2>2. ASSUME NEW b \in system, NewBlock(b, request[t]),
               dataSize' = [dataSize EXCEPT ![b] = request[t]],
               memoryBlocks' = [memoryBlocks EXCEPT ![t] = Append(memoryBlocks[t], b)]
        PROVE  WellMade'
    <3>1. /\ b \in Block
          /\ Made(b, BucketOf(request[t]))'
          /\ \A c \in Block : \A k : Made(c, k) => Made(c, k)'
      BY <2>1, <2>2, NewBlockWellMade DEF TypeOK
    <3>2. CachesWellMade' /\ ListsWellMade'
      BY <1>0, <2>1, <3>1 DEF WellMade, CachesWellMade, ListsWellMade
    <3>3. RefillsWellMade'
      <4>1. ASSUME NEW u \in Thread, NEW i \in DOMAIN memoryBlocks'[u]
            PROVE  Made(memoryBlocks[u][i], BucketOf(request[u]))'
        <5>1. CASE u = t /\ i = Len(memoryBlocks[t]) + 1
          <6>1. memoryBlocks'[u][i] = b
            BY <1>0, <2>2, <5>1 DEF TypeOK
          <6>2. request'[u] = request[t]
            BY <2>1, <5>1
          <6>3. QED
            BY <2>1, <3>1, <6>1, <6>2, <5>1
        <5>2. CASE ~(u = t /\ i = Len(memoryBlocks[t]) + 1)
          <6>1. i \in DOMAIN memoryBlocks[u] /\ memoryBlocks'[u][i] = memoryBlocks[u][i]
            BY <1>0, <2>2, <4>1, <5>2 DEF TypeOK
          <6>2. memoryBlocks[u][i] \in Block /\ Made(memoryBlocks[u][i], BucketOf(request[u]))
            BY <1>0, <6>1 DEF WellMade, RefillsWellMade
          <6>3. QED
            BY <2>1, <3>1, <6>1, <6>2
        <5>3. QED
          BY <5>1, <5>2
      <4>2. QED
        BY <4>1 DEF RefillsWellMade
    <3>4. InUseWellMade'
      <4>1. \A c \in inUse : c \in Block /\ c # b /\ dataSize'[c] = dataSize[c]
        BY <2>2 DEF TypeOK, WellMade, InUseWellMade, Made
      <4>2. QED
        BY <2>1, <3>1, <4>1 DEF WellMade, InUseWellMade
    <3>5. QED
      BY <3>2, <3>3, <3>4 DEF WellMade
  <2>3. ASSUME UNCHANGED <<system, headers, memoryBlocks>>
        PROVE  WellMade'
    BY <2>1, <2>3, SameBlocks
    DEF headers, WellMade, CachesWellMade, ListsWellMade, RefillsWellMade, InUseWellMade
  <2>4. QED
    BY <1>3, <2>2, <2>3 DEF RefillFromSystem
<1>4. ASSUME NEW t \in Thread, AllocateRefilled(t)
      PROVE  WellMade'
  <2> DEFINE n == request[t]
             k == BucketOf(n)
             s == memoryBlocks[t]
             b == Last(s)
  <2>1. /\ n \in DataSize /\ k \in Bucket /\ s \in Seq(Block) /\ s # <<>>
        /\ cache' = [cache EXCEPT ![t][k] = cache[t][k] \o Front(s)]
        /\ dataSize' = [dataSize EXCEPT ![b] = n]
        /\ inUse' = inUse \cup {b}
        /\ memoryBlocks' = [memoryBlocks EXCEPT ![t] = <<>>]
        /\ UNCHANGED <<system, allocSize, freeLists, request>>
    BY <1>0, <1>4, BucketOfRequest DEF AllocateRefilled, TypeOK
  <2>2. \A i \in DOMAIN s : Made(s[i], k)
    BY DEF WellMade, RefillsWellMade
  <2> HIDE DEF s
  <2>3. /\ Front(s) \in Seq(Block)
        /\ \A i \in DOMAIN Front(s) : i \in DOMAIN s /\ Front(s)[i] = s[i]
        /\ Len(s) \in DOMAIN s
        /\ b = s[Len(s)] /\ b \in Block
    BY <2>1, SplitLast
  <2>4. Made(b, BucketOf(n))
    BY <2>1, <2>2, <2>3
  <2> HIDE DEF n, k, b
  <2>5. CachesWellMade'
    <3> DEFINE new == cache[t][k] \o Front(s)
    <3>1. ASSUME NEW i \in DOMAIN new
          PROVE  Made(new[i], k)
      <4>1. cache[t][k] \in Seq(Block)
        BY <1>0, <2>1
      <4>2. CASE i <= Len(cache[t][k])
        <5>1. i \in DOMAIN cache[t][k] /\ new[i] = cache[t][k][i]
          BY <2>3, <3>1, <4>1, <4>2
        <5>2. QED
          BY <2>1, <5>1 DEF WellMade, CachesWellMade
      <4>3. CASE i > Len(cache[t][k])
        <5>1. /\ i - Len(cache[t][k]) \in DOMAIN Front(s)
              /\ new[i] = Front(s)[i - Len(cache[t][k])]
          BY <2>3, <3>1, <4>1, <4>3
        <5>2. QED
          BY <2>2, <2>3, <5>1
      <4>4. QED
        BY <2>3, <3>1, <4>1, <4>2, <4>3
    <3>2. cache' = [cache EXCEPT ![t][k] = new]
      BY <2>1
    <3> HIDE DEF new
    <3>3. ASSUME NEW u \in Thread, NEW j \in Bucket, NEW i \in DOMAIN cache'[u][j]
          PROVE  Made(cache'[u][j][i], j)
      <4>1. CASE u = t /\ j = k
        <5>1. cache'[u][j] = new
          <6>1. cache \in [Thread -> [Bucket -> Seq(Block)]]
            BY DEF TypeOK
          <6>2. k \in Bucket
            BY <2>1
          <6>3. cache'[t][k] = new
            BY <3>2, <6>1, <6>2
          <6>4. QED
            BY <4>1, <6>3
        <5>2. i \in DOMAIN new /\ cache'[u][j][i] = new[i]
          BY <3>3, <5>1
        <5>3. Made(new[i], k)
          BY <3>1, <5>2
        <5>4. QED
          BY <4>1, <5>2, <5>3
      <4>2. CASE ~(u = t /\ j = k)
        <5>1. cache'[u][j] = cache[u][j]
          BY <2>1, <3>2, <4>2 DEF TypeOK
        <5>2. QED
          BY <3>3, <5>1 DEF WellMade, CachesWellMade
      <4>3. QED
        BY <4>1, <4>2
    <3>4. QED
      BY <2>1, <3>3, SameBlocks DEF CachesWellMade
  <2>6. ListsWellMade'
    BY <2>1, SameBlocks DEF WellMade, ListsWellMade
  <2>7. RefillsWellMade'
    <3>1. ASSUME NEW u \in Thread, NEW i \in DOMAIN memoryBlocks'[u]
          PROVE  Made(memoryBlocks'[u][i], BucketOf(request[u]))
      BY <2>1 DEF TypeOK, WellMade, RefillsWellMade
    <3>2. QED
      BY <2>1, <3>1, SameBlocks DEF RefillsWellMade
  <2>8. InUseWellMade'
    BY <2>1, <2>3, <2>4, SameBlocks DEF TypeOK, WellMade, InUseWellMade
  <2>9. QED
    BY <2>5, <2>6, <2>7, <2>8 DEF WellMade
<1>5. ASSUME NEW t \in Thread, AllocateLast(t)
      PROVE  WellMade'
  <2>1. request[t] \in DataSize /\ UNCHANGED <<cache, freeLists, memoryBlocks, request>>
    BY <1>5 DEF AllocateLast, TypeOK, refill
  <2>2. ASSUME NEW b \in system, NewBlock(b, request[t]),
               dataSize' = [dataSize EXCEPT ![b] = request[t]],
               inUse' = inUse \cup {b}
        PROVE  WellMade'
    <3>1. /\ b \in Block
          /\ Made(b, BucketOf(request[t]))'
          /\ \A c \in Block : \A k : Made(c, k) => Made(c, k)'
      BY <2>1, <2>2, NewBlockWellMade DEF TypeOK
    <3>2. CachesWellMade' /\ ListsWellMade' /\ RefillsWellMade'
      BY <1>0, <2>1, <3>1 DEF WellMade, CachesWellMade, ListsWellMade, RefillsWellMade
    <3>3. \A c \in inUse : c \in Block /\ c # b /\ dataSize'[c] = dataSize[c]
      BY <2>2 DEF TypeOK, WellMade, InUseWellMade, Made
    <3>4. dataSize'[b] = request[t]
      BY <2>2, <3>1 DEF TypeOK
    <3>5. InUseWellMade'
      BY <2>1, <2>2, <3>1, <3>3, <3>4 DEF WellMade, InUseWellMade
    <3>6. QED
      BY <3>2, <3>5 DEF WellMade
  <2>3. ASSUME UNCHANGED <<system, headers, inUse>>
        PROVE  WellMade'
    BY <2>1, <2>3, SameBlocks
    DEF headers, WellMade, CachesWellMade, ListsWellMade, RefillsWellMade, InUseWellMade
  <2>4. QED
    BY <1>5, <2>2, <2>3 DEF AllocateLast
<1>6. ASSUME NEW b \in inUse
      PROVE  Made(b, HomeOf(b))
  BY MadeAtHome DEF WellMade, InUseWellMade
<1>7. ASSUME NEW t \in Thread, NEW b \in Block, DeallocateCached(t, b)
      PROVE  WellMade'
  <2> DEFINE h == HomeOf(b)
             new == Append(cache[t][h], b)
  <2>1. /\ cache' = [cache EXCEPT ![t][h] = new]
        /\ inUse' \subseteq inUse
        /\ Made(b, h)
        /\ UNCHANGED <<system, headers, freeLists, memoryBlocks, request>>
    BY <1>6, <1>7 DEF DeallocateCached, refill
  <2>2. ASSUME h \in Bucket, NEW i \in DOMAIN new
        PROVE  Made(new[i], h)
    <3>1. cache[t][h] \in Seq(Block)
      BY <1>0, <2>2
    <3>2. \/ i \in DOMAIN cache[t][h] /\ new[i] = cache[t][h][i]
          \/ new[i] = b
      BY <2>2, <3>1
    <3>3. QED
      BY <2>1, <2>2, <3>2 DEF WellMade, CachesWellMade
  <2> HIDE DEF h, new
  <2>3. ASSUME NEW u \in Thread, NEW j \in Bucket, NEW i \in DOMAIN cache'[u][j]
        PROVE  Made(cache'[u][j][i], j)
    BY <2>1, <2>2 DEF TypeOK, WellMade, CachesWellMade
  <2>4. CachesWellMade'
    BY <2>1, <2>3, SameBlocks DEF CachesWellMade, headers
  <2>5. QED
    BY <2>1, <2>4, SameBlocks
    DEF WellMade, ListsWellMade, RefillsWellMade, InUseWellMade, headers
<1>8. ASSUME NEW t \in Thread, NEW b \in Block, DeallocateToMemoryPool(t, b)
      PROVE  WellMade'
  <2> DEFINE h == HomeOf(b)
             new == Append(freeLists[h], b)
  <2>1. /\ freeLists' = [freeLists EXCEPT ![h] = new]
        /\ inUse' \subseteq inUse
        /\ Made(b, h)
        /\ UNCHANGED <<system, headers, cache, memoryBlocks, request>>
    BY <1>6, <1>8 DEF DeallocateToMemoryPool, refill
  <2>2. ASSUME h \in Bucket, NEW i \in DOMAIN new
        PROVE  Made(new[i], h)
    <3>1. freeLists[h] \in Seq(Block)
      BY <1>0, <2>2
    <3>2. \/ i \in DOMAIN freeLists[h] /\ new[i] = freeLists[h][i]
          \/ new[i] = b
      BY <2>2, <3>1
    <3>3. QED
      BY <2>1, <2>2, <3>2 DEF WellMade, ListsWellMade
  <2> HIDE DEF h, new
  <2>3. ASSUME NEW j \in Bucket, NEW i \in DOMAIN freeLists'[j]
        PROVE  Made(freeLists'[j][i], j)
    BY <2>1, <2>2 DEF TypeOK, WellMade, ListsWellMade
  <2>4. ListsWellMade'
    BY <2>1, <2>3, SameBlocks DEF ListsWellMade, headers
  <2>5. QED
    BY <2>1, <2>4, SameBlocks
    DEF WellMade, CachesWellMade, RefillsWellMade, InUseWellMade, headers
<1>9. ASSUME NEW t \in Thread, ThreadLocalCacheClear(t)
      PROVE  WellMade'
  <2>1. /\ \A u \in Thread : cache'[u] = cache[u] \/ cache'[u] = [k \in Bucket |-> <<>>]
        /\ UNCHANGED <<system, headers, freeLists, inUse, refill>>
    BY <1>9 DEF ThreadLocalCacheClear, TypeOK
  <2>2. CachesWellMade'
    BY <2>1, SameBlocks DEF WellMade, CachesWellMade, headers
  <2>3. QED
    BY <2>1, <2>2, SameBlocks
    DEF WellMade, ListsWellMade, RefillsWellMade, InUseWellMade, headers, refill
<1>10. ASSUME NEW t \in Thread, GlobalFreeListClear(t)
      PROVE  WellMade'
  <2>1. /\ \A k \in Bucket : freeLists'[k] = <<>>
        /\ UNCHANGED <<system, headers, cache, inUse, refill>>
    BY <1>10 DEF GlobalFreeListClear
  <2>2. ListsWellMade'
    BY <2>1 DEF ListsWellMade
  <2>3. QED
    BY <2>1, <2>2, SameBlocks
    DEF WellMade, CachesWellMade, RefillsWellMade, InUseWellMade, headers, refill
<1>11. CASE UNCHANGED vars
  BY <1>11, SameBlocks
  DEF vars, WellMade, CachesWellMade, ListsWellMade, RefillsWellMade, InUseWellMade
<1>12. QED
  BY <1>1, <1>2, <1>3, <1>4, <1>5, <1>7, <1>8, <1>9, <1>10, <1>11
  DEF Next, Allocate, Deallocate

\* A block is handed out only for sizes of the class it was made for, and goes
\* home to that class, whatever sizes are asked for and however the blocks have
\* moved between the caches of the threads and the lists.
THEOREM SameClassHolds == Spec => []SameClass
<1>1. Init => WellMade
  BY DEF Init, WellMade, CachesWellMade, ListsWellMade, RefillsWellMade, InUseWellMade
<1>2. TypeOK /\ WellMade /\ [Next]_vars => WellMade'
  BY NextWellMade
<1>3. WellMade => SameClass
  BY MadeAtHome DEF WellMade, InUseWellMade, SameClass
<1>4. QED
  BY <1>1, <1>2, <1>3, InitTypes, NextTypes, PTL DEF Spec

----------------------------------------------------------------------------
(***************************************************************************)
(* Every block is at one place.  An operation moves blocks from one place  *)
(* to another and leaves the other places alone: Placed is what each place *)
(* holds, Moved what it holds once M has gone from r to s.                 *)
(***************************************************************************)

Placed == [x \in Place |-> BlocksAt(x)]

Each(P, at) == \A b \in Block : \E x \in P : {y \in P : b \in at[y]} = {x}

Injective ==
  /\ \A t \in Thread, k \in Bucket : IsInjective(cache[t][k])
  /\ \A k \in Bucket : IsInjective(freeLists[k])
  /\ \A t \in Thread : IsInjective(memoryBlocks[t])

\* A block the system gave was made for some request, so that Deallocate finds
\* a class for it.
MadeForARequest ==
  \A b \in Block \ system : \E n \in DataSize : allocSize[b] = TotalSize(n)

\* Only a refill has blocks in its local vector.
RefillInHand == \A t \in Thread : pc[t] # "refill" => memoryBlocks[t] = <<>>

OnceInv == EachBlockOnce /\ MadeForARequest /\ RefillInHand

\* M has gone to s, from wherever it was.
TogetherAt(x, s, M, at) == IF x = s THEN at[s] \cup M ELSE at[x] \ M

Moved(x, r, s, M, S) == IF x = r THEN S \ M ELSE IF x = s THEN S \cup M ELSE S

LEMMA OnceParts == EachBlockOnce <=> Each(Place, Placed) /\ Injective
BY DEF EachBlockOnce, Each, Placed, Injective

LEMMA OncePartsNext == EachBlockOnce' <=> Each(Place, Placed') /\ Injective'
BY DEF EachBlockOnce, Each, Placed, Injective

LEMMA MoveKeepsEach ==
  ASSUME NEW P, NEW at, NEW new, Each(P, at),
         NEW r \in P, NEW s \in P, r # s, NEW M \in SUBSET at[r],
         \A x \in P : new[x] = Moved(x, r, s, M, at[x])
  PROVE  Each(P, new)
<1> SUFFICES ASSUME NEW b \in Block
             PROVE  \E x \in P : {y \in P : b \in new[y]} = {x}
  BY DEF Each
<1>1. PICK x \in P : {y \in P : b \in at[y]} = {x}
  BY DEF Each
<1>2. CASE b \in M
  <2>1. x = r
    BY <1>1, <1>2
  <2>2. {y \in P : b \in new[y]} = {s}
    BY <1>1, <1>2, <2>1 DEF Moved
  <2>3. QED
    BY <2>2
<1>3. CASE b \notin M
  <2>1. {y \in P : b \in new[y]} = {x}
    BY <1>1, <1>3 DEF Moved
  <2>2. QED
    BY <2>1
<1>4. QED
  BY <1>2, <1>3

\* The same for blocks that leave several places for one.
LEMMA GatherKeepsEach ==
  ASSUME NEW P, NEW at, NEW new, Each(P, at), NEW s \in P, NEW M,
         \A x \in P : new[x] = TogetherAt(x, s, M, at)
  PROVE  Each(P, new)
<1> SUFFICES ASSUME NEW b \in Block
             PROVE  \E x \in P : {y \in P : b \in new[y]} = {x}
  BY DEF Each
<1>1. PICK x \in P : {y \in P : b \in at[y]} = {x}
  BY DEF Each
<1>2. CASE b \in M
  <2>1. {y \in P : b \in new[y]} = {s}
    BY <1>2 DEF TogetherAt
  <2>2. QED
    BY <2>1
<1>3. CASE b \notin M
  <2>1. {y \in P : b \in new[y]} = {x}
    BY <1>1, <1>3 DEF TogetherAt
  <2>2. QED
    BY <2>1
<1>4. QED
  BY <1>2, <1>3

LEMMA PlacesApart ==
  ASSUME NEW P, NEW at, Each(P, at), NEW x \in P, NEW y \in P, x # y,
         NEW b \in Block, b \in at[x]
  PROVE  b \notin at[y]
BY DEF Each

LEMMA PlaceKinds ==
  ASSUME NEW x \in Place
  PROVE  \/ \E t \in Thread, k \in Bucket : x = <<"cache", t, k>>
         \/ \E k \in Bucket : x = <<"list", k>>
         \/ \E t \in Thread : x = <<"refill", t>>
         \/ x \in {<<"in use">>, <<"freed">>, <<"system">>}
<1>1. CASE x \in {"cache"} \X Thread \X Bucket
  <2>1. /\ x = <<x[1], x[2], x[3]>> /\ x[1] = "cache"
        /\ x[2] \in Thread /\ x[3] \in Bucket
    BY <1>1
  <2>2. QED
    BY <2>1
<1>2. CASE x \in {"list"} \X Bucket
  <2>1. x = <<x[1], x[2]>> /\ x[1] = "list" /\ x[2] \in Bucket
    BY <1>2
  <2>2. QED
    BY <2>1
<1>3. CASE x \in {"refill"} \X Thread
  <2>1. x = <<x[1], x[2]>> /\ x[1] = "refill" /\ x[2] \in Thread
    BY <1>3
  <2>2. QED
    BY <2>1
<1>4. QED
  BY <1>1, <1>2, <1>3 DEF Place

LEMMA PlacesDiffer ==
  /\ \A t, u, j, k : <<"cache", t, k>> = <<"cache", u, j>> <=> t = u /\ k = j
  /\ \A j, k : <<"list", k>> = <<"list", j>> <=> k = j
  /\ \A t, u : <<"refill", t>> = <<"refill", u>> <=> t = u
  /\ \A t, k : <<"list", k>> # <<"refill", t>>
  /\ \A t, j, k : <<"cache", t, k>> # <<"list", j>>
  /\ \A t, u, k : <<"cache", t, k>> # <<"refill", u>>
  /\ \A k : <<"list", k>> \notin {<<"in use">>, <<"freed">>, <<"system">>}
  /\ \A t, k : <<"cache", t, k>> \notin {<<"in use">>, <<"freed">>, <<"system">>}
  /\ \A t : <<"refill", t>> \notin {<<"in use">>, <<"freed">>, <<"system">>}
  /\ <<"in use">> # <<"freed">>
  /\ <<"in use">> # <<"system">>
  /\ <<"freed">> # <<"system">>
OBVIOUS

LEMMA PlacesAre ==
  /\ \A t \in Thread, k \in Bucket : <<"cache", t, k>> \in Place
  /\ \A k \in Bucket : <<"list", k>> \in Place
  /\ \A t \in Thread : <<"refill", t>> \in Place
  /\ <<"in use">> \in Place /\ <<"freed">> \in Place /\ <<"system">> \in Place
BY DEF Place

LEMMA AtIs ==
  /\ \A t \in Thread, k \in Bucket : Placed[<<"cache", t, k>>] = ToSet(cache[t][k])
  /\ \A k \in Bucket : Placed[<<"list", k>>] = ToSet(freeLists[k])
  /\ \A t \in Thread : Placed[<<"refill", t>>] = ToSet(memoryBlocks[t])
  /\ Placed[<<"in use">>] = inUse
  /\ Placed[<<"freed">>] = freed
  /\ Placed[<<"system">>] = system
BY DEF Place, Placed, BlocksAt

LEMMA AtIsNext ==
  /\ \A t \in Thread, k \in Bucket : Placed'[<<"cache", t, k>>] = ToSet(cache'[t][k])
  /\ \A k \in Bucket : Placed'[<<"list", k>>] = ToSet(freeLists'[k])
  /\ \A t \in Thread : Placed'[<<"refill", t>>] = ToSet(memoryBlocks'[t])
  /\ Placed'[<<"in use">>] = inUse'
  /\ Placed'[<<"freed">>] = freed'
  /\ Placed'[<<"system">>] = system'
BY DEF Place, Placed, BlocksAt

\* M has gone from r to s, variable by variable.
MoveOf(r, s, M) ==
  /\ \A t \in Thread, k \in Bucket :
       ToSet(cache'[t][k]) = Moved(<<"cache", t, k>>, r, s, M, ToSet(cache[t][k]))
  /\ \A k \in Bucket :
       ToSet(freeLists'[k]) = Moved(<<"list", k>>, r, s, M, ToSet(freeLists[k]))
  /\ \A t \in Thread :
       ToSet(memoryBlocks'[t])
         = Moved(<<"refill", t>>, r, s, M, ToSet(memoryBlocks[t]))
  /\ inUse' = Moved(<<"in use">>, r, s, M, inUse)
  /\ freed' = Moved(<<"freed">>, r, s, M, freed)
  /\ system' = Moved(<<"system">>, r, s, M, system)

LEMMA MoveOfKeepsEach ==
  ASSUME Each(Place, Placed), NEW r \in Place, NEW s \in Place, r # s,
         NEW M \in SUBSET Placed[r], MoveOf(r, s, M)
  PROVE  Each(Place, Placed')
<1>1. ASSUME NEW x \in Place PROVE Placed'[x] = Moved(x, r, s, M, Placed[x])
  <2>1. CASE \E t \in Thread, k \in Bucket : x = <<"cache", t, k>>
    <3>1. PICK t \in Thread, k \in Bucket : x = <<"cache", t, k>>
      BY <2>1
    <3>2. Placed[x] = ToSet(cache[t][k]) /\ Placed'[x] = ToSet(cache'[t][k])
      BY <3>1, AtIs, AtIsNext
    <3>3. QED
      BY <3>1, <3>2 DEF MoveOf
  <2>2. CASE \E k \in Bucket : x = <<"list", k>>
    BY <2>2, AtIs, AtIsNext DEF MoveOf
  <2>3. CASE \E t \in Thread : x = <<"refill", t>>
    BY <2>3, AtIs, AtIsNext DEF MoveOf
  <2>4. CASE x \in {<<"in use">>, <<"freed">>, <<"system">>}
    BY <2>4, AtIs, AtIsNext DEF MoveOf
  <2>5. QED
    BY <2>1, <2>2, <2>3, <2>4, PlaceKinds
<1>2. QED
  BY <1>1, MoveKeepsEach

----------------------------------------------------------------------------
\* What the operations on sequences do to their elements.

LEMMA EmptyElements == ToSet(<<>>) = {} /\ IsInjective(<<>>)
BY DEF ToSet, IsInjective

LEMMA AppendElements ==
  ASSUME NEW S, NEW q \in Seq(S), NEW e \in S
  PROVE  /\ ToSet(Append(q, e)) = ToSet(q) \cup {e}
         /\ IsInjective(q) /\ e \notin ToSet(q) => IsInjective(Append(q, e))
<1> DEFINE r == Append(q, e)
<1>1. /\ r[Len(q) + 1] = e /\ \A i \in 1 .. Len(q) : r[i] = q[i]
      /\ DOMAIN r = 1 .. Len(q) + 1 /\ DOMAIN q = 1 .. Len(q)
      /\ Len(q) \in Nat
  OBVIOUS
<1> HIDE DEF r
<1>2. ToSet(r) = ToSet(q) \cup {e}
  <2>1. ASSUME NEW x \in ToSet(r) PROVE x \in ToSet(q) \cup {e}
    BY <1>1, <2>1 DEF ToSet
  <2>2. ASSUME NEW x \in ToSet(q) \cup {e} PROVE x \in ToSet(r)
    BY <1>1, <2>2 DEF ToSet
  <2>3. QED
    BY <2>1, <2>2
<1>3. IsInjective(q) /\ e \notin ToSet(q) => IsInjective(r)
  BY <1>1 DEF ToSet, IsInjective
<1>4. QED
  BY <1>2, <1>3 DEF r

LEMMA ConcatElements ==
  ASSUME NEW S, NEW q \in Seq(S), NEW r \in Seq(S)
  PROVE  /\ ToSet(q \o r) = ToSet(q) \cup ToSet(r)
         /\ IsInjective(q) /\ IsInjective(r) /\ ToSet(q) \cap ToSet(r) = {}
              => IsInjective(q \o r)
<1> DEFINE w == q \o r
<1>1. /\ Len(q) \in Nat /\ Len(r) \in Nat
      /\ DOMAIN w = 1 .. Len(q) + Len(r)
      /\ DOMAIN q = 1 .. Len(q) /\ DOMAIN r = 1 .. Len(r)
      /\ \A i \in 1 .. Len(q) : w[i] = q[i]
      /\ \A i \in 1 .. Len(q) + Len(r) : i > Len(q) => w[i] = r[i - Len(q)]
      /\ \A j \in 1 .. Len(r) : w[Len(q) + j] = r[j]
  OBVIOUS
<1> HIDE DEF w
<1>2. ASSUME NEW i \in DOMAIN w
      PROVE  \/ i \in DOMAIN q /\ w[i] = q[i]
             \/ i > Len(q) /\ i - Len(q) \in DOMAIN r /\ w[i] = r[i - Len(q)]
  BY <1>1
<1>3. ToSet(w) = ToSet(q) \cup ToSet(r)
  <2>1. ASSUME NEW i \in DOMAIN w PROVE w[i] \in ToSet(q) \cup ToSet(r)
    BY <1>2 DEF ToSet
  <2>2. ASSUME NEW i \in DOMAIN q PROVE q[i] \in ToSet(w)
    BY <1>1 DEF ToSet
  <2>3. ASSUME NEW j \in DOMAIN r PROVE r[j] \in ToSet(w)
    <3>1. Len(q) + j \in DOMAIN w /\ w[Len(q) + j] = r[j]
      BY <1>1
    <3>2. QED
      BY <3>1 DEF ToSet
  <2>4. QED
    BY <2>1, <2>2, <2>3 DEF ToSet
<1>4. ASSUME IsInjective(q), IsInjective(r), ToSet(q) \cap ToSet(r) = {},
             NEW i \in DOMAIN w, NEW j \in DOMAIN w, w[i] = w[j]
      PROVE  i = j
  <2>1. ASSUME NEW m \in DOMAIN q, NEW n \in DOMAIN r PROVE q[m] # r[n]
    BY <1>4 DEF ToSet
  <2>2. CASE i \in DOMAIN q /\ w[i] = q[i]
    <3>1. j \in DOMAIN q /\ w[j] = q[j]
      BY <1>2, <1>4, <2>1, <2>2
    <3>2. QED
      BY <1>4, <2>2, <3>1 DEF IsInjective
  <2>3. CASE i > Len(q) /\ i - Len(q) \in DOMAIN r /\ w[i] = r[i - Len(q)]
    <3>1. /\ j > Len(q) /\ j - Len(q) \in DOMAIN r /\ w[j] = r[j - Len(q)]
      BY <1>2, <1>4, <2>1, <2>3
    <3>2. i - Len(q) = j - Len(q)
      BY <1>4, <2>3, <3>1 DEF IsInjective
    <3>3. QED
      BY <1>1, <3>2
  <2>4. QED
    BY <1>2, <2>2, <2>3
<1>5. QED
  BY <1>3, <1>4 DEF IsInjective, w

LEMMA FrontElements ==
  ASSUME NEW S, NEW s \in Seq(S), s # <<>>, IsInjective(s)
  PROVE  /\ Front(s) \in Seq(S) /\ Last(s) \in S
         /\ Last(s) \in ToSet(s)
         /\ ToSet(Front(s)) = ToSet(s) \ {Last(s)}
         /\ IsInjective(Front(s))
<1> DEFINE r == Front(s)
           e == Last(s)
<1>1. /\ r \in Seq(S) /\ e \in S /\ e = s[Len(s)] /\ Len(s) \in DOMAIN s
      /\ Len(r) = Len(s) - 1
      /\ \A i \in DOMAIN r : i \in DOMAIN s /\ r[i] = s[i]
  BY SplitLast
<1>2. DOMAIN s = 1 .. Len(s) /\ DOMAIN r = 1 .. Len(s) - 1 /\ Len(s) \in Nat
  BY <1>1
<1> HIDE DEF r, e
<1>3. ASSUME NEW i \in DOMAIN r PROVE r[i] \in ToSet(s) \ {e}
  <2>1. i # Len(s)
    BY <1>2
  <2>2. QED
    BY <1>1, <2>1 DEF ToSet, IsInjective
<1>4. ASSUME NEW i \in DOMAIN s, s[i] # e PROVE s[i] \in ToSet(r)
  <2>1. i \in DOMAIN r
    BY <1>1, <1>2, <1>4
  <2>2. QED
    BY <1>1, <2>1 DEF ToSet
<1>5. ToSet(r) = ToSet(s) \ {e} /\ e \in ToSet(s)
  <2>1. ASSUME NEW x \in ToSet(r) PROVE x \in ToSet(s) \ {e}
    BY <1>3, <2>1 DEF ToSet
  <2>2. ASSUME NEW x \in ToSet(s) \ {e} PROVE x \in ToSet(r)
    <3>1. PICK i \in DOMAIN s : x = s[i]
      BY <2>2 DEF ToSet
    <3>2. QED
      BY <1>4, <2>2, <3>1
  <2>3. e \in ToSet(s)
    BY <1>1 DEF ToSet
  <2>4. QED
    BY <2>1, <2>2, <2>3
<1>6. IsInjective(r)
  BY <1>1 DEF IsInjective
<1>7. QED
  BY <1>1, <1>5, <1>6 DEF r, e

\* RefillBlockCache takes the end of a list, last block first.
LEMMA EndElements ==
  ASSUME NEW S, NEW s \in Seq(S), IsInjective(s),
         NEW take \in Nat, take <= Len(s)
  PROVE  LET kept == SubSeq(s, 1, Len(s) - take)
             taken == Reverse(SubSeq(s, Len(s) - take + 1, Len(s)))
         IN  /\ ToSet(taken) \subseteq ToSet(s)
             /\ ToSet(kept) = ToSet(s) \ ToSet(taken)
             /\ IsInjective(kept) /\ IsInjective(taken)
<1> DEFINE kept == SubSeq(s, 1, Len(s) - take)
           taken == Reverse(SubSeq(s, Len(s) - take + 1, Len(s)))
           m == Len(s) - take
           end == SubSeq(s, m + 1, Len(s))
<1>1. /\ Len(s) \in Nat /\ m \in Nat /\ m + take = Len(s)
      /\ DOMAIN s = 1 .. Len(s)
      /\ DOMAIN kept = 1 .. m /\ \A i \in 1 .. m : kept[i] = s[i]
  OBVIOUS
<1>2. Len(end) = take /\ \A i \in 1 .. take : end[i] = s[m + i]
  BY <1>1
<1>3. DOMAIN taken = 1 .. take /\ \A i \in 1 .. take : taken[i] = end[(take - i) + 1]
  BY <1>2 DEF Reverse
<1> HIDE DEF m, end, kept, taken
<1>4. ASSUME NEW i \in 1 .. take
      PROVE  Len(s) - i + 1 \in DOMAIN s /\ taken[i] = s[Len(s) - i + 1]
  <2>1. PICK n \in Nat : n = Len(s)
    BY <1>1
  <2>2. m + take = n /\ m \in Nat /\ DOMAIN s = 1 .. n
    BY <1>1, <2>1
  <2>3. /\ (take - i) + 1 \in 1 .. take
        /\ m + ((take - i) + 1) = n - i + 1
        /\ n - i + 1 \in 1 .. n
    BY <2>2
  <2>4. taken[i] = s[m + ((take - i) + 1)]
    BY <1>2, <1>3, <2>3
  <2>5. taken[i] = s[n - i + 1]
    BY <2>3, <2>4
  <2>6. QED
    BY <2>1, <2>2, <2>3, <2>5
<1>5. ToSet(taken) \subseteq ToSet(s)
  BY <1>3, <1>4 DEF ToSet
<1>6. ASSUME NEW i \in 1 .. m PROVE s[i] \in ToSet(s) \ ToSet(taken)
  <2>1. ASSUME NEW j \in 1 .. take PROVE s[i] # taken[j]
    <3>1. i \in DOMAIN s /\ i # Len(s) - j + 1
      BY <1>1
    <3>2. QED
      BY <1>4, <3>1 DEF IsInjective
  <2>2. QED
    BY <1>1, <1>3, <2>1 DEF ToSet
<1>7. ASSUME NEW i \in DOMAIN s, s[i] \notin ToSet(taken) PROVE i \in 1 .. m
  <2>1. ASSUME i > m PROVE FALSE
    <3>1. Len(s) - i + 1 \in 1 .. take /\ Len(s) - (Len(s) - i + 1) + 1 = i
      BY <1>1, <2>1
    <3>2. taken[Len(s) - i + 1] = s[i]
      BY <1>4, <3>1
    <3>3. QED
      BY <1>3, <1>7, <3>1, <3>2 DEF ToSet
  <2>2. QED
    BY <1>1, <2>1
<1>8. ToSet(kept) = ToSet(s) \ ToSet(taken)
  <2>1. ASSUME NEW x \in ToSet(kept) PROVE x \in ToSet(s) \ ToSet(taken)
    BY <1>1, <1>6, <2>1 DEF ToSet
  <2>2. ASSUME NEW x \in ToSet(s) \ ToSet(taken) PROVE x \in ToSet(kept)
    <3>1. PICK i \in DOMAIN s : x = s[i]
      BY <2>2 DEF ToSet
    <3>2. i \in 1 .. m
      BY <1>7, <2>2, <3>1
    <3>3. QED
      BY <1>1, <3>1, <3>2 DEF ToSet
  <2>3. QED
    BY <2>1, <2>2
<1>9. IsInjective(kept)
  BY <1>1 DEF IsInjective
<1>10. IsInjective(taken)
  <2>1. ASSUME NEW i \in 1 .. take, NEW j \in 1 .. take, taken[i] = taken[j]
        PROVE  i = j
    <3>1. Len(s) - i + 1 = Len(s) - j + 1
      BY <1>4, <2>1 DEF IsInjective
    <3>2. QED
      BY <1>1, <3>1
  <2>2. QED
    BY <1>3, <2>1 DEF IsInjective
<1>11. QED
  BY <1>5, <1>8, <1>9, <1>10 DEF kept, taken

----------------------------------------------------------------------------
\* A block made is made for a request, and only a refill holds blocks.
LEMMA NextRefillInHand ==
  TypeOK /\ RefillInHand /\ [Next]_vars => RefillInHand'
<1> SUFFICES ASSUME TypeOK, RefillInHand, [Next]_vars
             PROVE  RefillInHand'
  OBVIOUS
<1>0. /\ pc \in [Thread -> {"idle", "refill", "crashed", "ended"}]
      /\ memoryBlocks \in [Thread -> Seq(Block)]
  BY DEF TypeOK
<1>1. ASSUME NEW t \in Thread, NEW n \in DataSize,
             AllocateCached(t, n) \/ RefillFromList(t, n)
      PROVE  RefillInHand'
  BY <1>0, <1>1
     DEF RefillInHand, AllocateCached, RefillFromList, refill, Goto
<1>2. ASSUME NEW t \in Thread, RefillFromSystem(t) PROVE RefillInHand'
  BY <1>0, <1>2 DEF RefillInHand, RefillFromSystem
<1>3. ASSUME NEW t \in Thread, AllocateRefilled(t) \/ AllocateLast(t)
      PROVE  RefillInHand'
  BY <1>0, <1>3
     DEF RefillInHand, AllocateRefilled, AllocateLast, refill, Goto
<1>4. ASSUME NEW t \in Thread, NEW b \in Block,
             DeallocateCached(t, b) \/ DeallocateToMemoryPool(t, b)
      PROVE  RefillInHand'
  BY <1>4 DEF RefillInHand, DeallocateCached, DeallocateToMemoryPool, refill
<1>5. ASSUME NEW t \in Thread,
             ThreadLocalCacheClear(t) \/ GlobalFreeListClear(t)
      PROVE  RefillInHand'
  BY <1>0, <1>5 DEF RefillInHand, ThreadLocalCacheClear, GlobalFreeListClear,
                    refill, Goto, MayCall
<1>6. CASE UNCHANGED vars
  BY <1>6 DEF RefillInHand, vars
<1>7. QED
  BY <1>1, <1>2, <1>3, <1>4, <1>5, <1>6 DEF Next, Allocate, Deallocate

LEMMA NextMadeForARequest ==
  TypeOK /\ MadeForARequest /\ [Next]_vars => MadeForARequest'
<1> SUFFICES ASSUME TypeOK, MadeForARequest, [Next]_vars
             PROVE  MadeForARequest'
  OBVIOUS
<1>1. ASSUME NEW n \in DataSize, NEW b \in system, NewBlock(b, n)
      PROVE  MadeForARequest'
  BY <1>1 DEF MadeForARequest, NewBlock, TypeOK
<1>2. ASSUME UNCHANGED <<system, allocSize>> PROVE MadeForARequest'
  BY <1>2 DEF MadeForARequest
<1>3. ASSUME NEW t \in Thread, RefillFromSystem(t) \/ AllocateLast(t)
      PROVE  MadeForARequest'
  <2>1. request[t] \in DataSize
    BY <1>3 DEF RefillFromSystem, AllocateLast, TypeOK
  <2>2. \/ \E b \in system : NewBlock(b, request[t])
        \/ UNCHANGED <<system, allocSize>>
    BY <1>3 DEF RefillFromSystem, AllocateLast, headers
  <2>3. QED
    BY <1>1, <1>2, <2>1, <2>2
<1>4. ASSUME NEW t \in Thread, NEW n \in DataSize,
             AllocateCached(t, n) \/ RefillFromList(t, n)
      PROVE  MadeForARequest'
  BY <1>2, <1>4 DEF AllocateCached, RefillFromList, headers
<1>5. ASSUME NEW t \in Thread,
             AllocateRefilled(t) \/ ThreadLocalCacheClear(t)
               \/ GlobalFreeListClear(t)
      PROVE  MadeForARequest'
  BY <1>2, <1>5
     DEF AllocateRefilled, ThreadLocalCacheClear, GlobalFreeListClear, headers
<1>6. ASSUME NEW t \in Thread, NEW b \in Block,
             DeallocateCached(t, b) \/ DeallocateToMemoryPool(t, b)
      PROVE  MadeForARequest'
  BY <1>2, <1>6 DEF DeallocateCached, DeallocateToMemoryPool, headers
<1>7. CASE UNCHANGED vars
  BY <1>2, <1>7 DEF vars
<1>8. QED
  BY <1>3, <1>4, <1>5, <1>6, <1>7 DEF Next, Allocate, Deallocate

\* Deallocate finds the class of any block in use.
LEMMA HomeIsBucket ==
  ASSUME MadeForARequest, NEW b \in Block \ system
  PROVE  HomeOf(b) \in Bucket
<1>1. PICK n \in DataSize : allocSize[b] = TotalSize(n)
  BY DEF MadeForARequest
<1>2. HomeOf(b) = BucketOf(n)
  BY <1>1 DEF HomeOf, BucketOf
<1>3. QED
  BY <1>2 DEF Bucket

\* The elements of a place are blocks.
LEMMA AtBlocks ==
  ASSUME TypeOK, NEW x \in Place PROVE Placed[x] \subseteq Block
<1>0. /\ cache \in [Thread -> [Bucket -> Seq(Block)]]
      /\ freeLists \in [Bucket -> Seq(Block)]
      /\ memoryBlocks \in [Thread -> Seq(Block)]
      /\ inUse \subseteq Block /\ freed \subseteq Block /\ system \subseteq Block
  BY DEF TypeOK
<1>1. \A q \in Seq(Block) : ToSet(q) \subseteq Block
  BY DEF ToSet
<1>2. CASE \E t \in Thread, k \in Bucket : x = <<"cache", t, k>>
  <2>1. PICK t \in Thread, k \in Bucket : x = <<"cache", t, k>>
    BY <1>2
  <2>2. Placed[x] = ToSet(cache[t][k]) /\ cache[t][k] \in Seq(Block)
    BY <1>0, <2>1, AtIs
  <2>3. QED
    BY <1>1, <2>2
<1>3. CASE \E k \in Bucket : x = <<"list", k>>
  <2>1. PICK k \in Bucket : x = <<"list", k>>
    BY <1>3
  <2>2. Placed[x] = ToSet(freeLists[k]) /\ freeLists[k] \in Seq(Block)
    BY <1>0, <2>1, AtIs
  <2>3. QED
    BY <1>1, <2>2
<1>4. CASE \E t \in Thread : x = <<"refill", t>>
  <2>1. PICK t \in Thread : x = <<"refill", t>>
    BY <1>4
  <2>2. Placed[x] = ToSet(memoryBlocks[t]) /\ memoryBlocks[t] \in Seq(Block)
    BY <1>0, <2>1, AtIs
  <2>3. QED
    BY <1>1, <2>2
<1>5. CASE x \in {<<"in use">>, <<"freed">>, <<"system">>}
  BY <1>0, <1>5, AtIs
<1>6. QED
  BY <1>2, <1>3, <1>4, <1>5, PlaceKinds

\* What is at one place is at no other.
LEMMA AtApart ==
  ASSUME TypeOK, EachBlockOnce, NEW x \in Place, NEW y \in Place, x # y
  PROVE  Placed[x] \cap Placed[y] = {}
<1>1. Each(Place, Placed)
  BY OnceParts
<1>2. QED
  BY <1>1, AtBlocks, PlacesApart

LEMMA AllocateCachedOnce ==
  ASSUME TypeOK, EachBlockOnce, NEW t \in Thread, NEW n \in DataSize,
         AllocateCached(t, n)
  PROVE  EachBlockOnce'
<1>1. PICK k \in Bucket : k = BucketOf(n)
  BY BucketOfRequest
<1>2. cache[t][k] \in Seq(Block) /\ cache[t][k] # <<>>
  BY <1>1 DEF AllocateCached, TypeOK
<1>3. IsInjective(cache[t][k])
  BY DEF EachBlockOnce
<1>4. PICK b : b = Last(cache[t][k])
  OBVIOUS
<1>5. PICK q : q = Front(cache[t][k])
  OBVIOUS
<1>6. /\ cache' = [cache EXCEPT ![t][k] = q] /\ inUse' = inUse \cup {b}
      /\ UNCHANGED <<system, freed, freeLists, memoryBlocks>>
  BY <1>1, <1>4, <1>5 DEF AllocateCached, refill
<1>7. /\ b \in ToSet(cache[t][k]) /\ ToSet(q) = ToSet(cache[t][k]) \ {b}
      /\ IsInjective(q)
  BY <1>2, <1>3, <1>4, <1>5, FrontElements
<1>8. \A u \in Thread, j \in Bucket :
        cache'[u][j] = IF u = t /\ j = k THEN q ELSE cache[u][j]
  BY <1>6 DEF TypeOK
<1>9. MoveOf(<<"cache", t, k>>, <<"in use">>, {b})
  BY <1>6, <1>7, <1>8, PlacesDiffer DEF MoveOf, Moved
<1>10. Each(Place, Placed')
  <2>1. {b} \in SUBSET Placed[<<"cache", t, k>>]
    BY <1>7, AtIs
  <2>2. QED
    BY <1>9, <2>1, OnceParts, MoveOfKeepsEach, PlacesAre, PlacesDiffer
<1>11. Injective'
  BY <1>6, <1>7, <1>8 DEF EachBlockOnce, Injective
<1>12. QED
  BY <1>10, <1>11, OncePartsNext

LEMMA RefillFromListOnce ==
  ASSUME TypeOK, EachBlockOnce, RefillInHand, NEW t \in Thread,
         NEW n \in DataSize, RefillFromList(t, n)
  PROVE  EachBlockOnce'
<1>1. PICK k \in Bucket : k = BucketOf(n)
  BY BucketOfRequest
<1> DEFINE s == freeLists[k]
           take == AtMost(Len(s), RefillOf(t, k))
<1>2. s \in Seq(Block) /\ IsInjective(s) /\ take \in Nat /\ take <= Len(s)
  BY <1>1, RefillNumbers DEF RefillFromList, EachBlockOnce, TypeOK
<1>3. PICK kept : kept = SubSeq(s, 1, Len(s) - take)
  OBVIOUS
<1>4. PICK taken : taken = Reverse(SubSeq(s, Len(s) - take + 1, Len(s)))
  OBVIOUS
<1>5. /\ freeLists' = [freeLists EXCEPT ![k] = kept]
      /\ memoryBlocks' = [memoryBlocks EXCEPT ![t] = taken]
      /\ UNCHANGED <<system, freed, cache, inUse>>
  BY <1>1, <1>3, <1>4 DEF RefillFromList
<1>6. memoryBlocks[t] = <<>>
  BY DEF RefillFromList, MayCall, RefillInHand
<1> HIDE DEF take
<1>7. /\ ToSet(taken) \subseteq ToSet(freeLists[k])
      /\ ToSet(kept) = ToSet(freeLists[k]) \ ToSet(taken)
      /\ IsInjective(kept) /\ IsInjective(taken)
  <2> HIDE DEF s
  <2>1. /\ ToSet(taken) \subseteq ToSet(s)
        /\ ToSet(kept) = ToSet(s) \ ToSet(taken)
        /\ IsInjective(kept) /\ IsInjective(taken)
    BY <1>2, <1>3, <1>4, EndElements
  <2>2. QED
    BY <2>1 DEF s
<1>8. PICK M : M = ToSet(taken)
  OBVIOUS
<1> HIDE DEF s
<1>9. /\ \A j \in Bucket : freeLists'[j] = IF j = k THEN kept ELSE freeLists[j]
      /\ \A u \in Thread :
           memoryBlocks'[u] = IF u = t THEN taken ELSE memoryBlocks[u]
  BY <1>5 DEF TypeOK
<1>10. MoveOf(<<"list", k>>, <<"refill", t>>, M)
  <2>1. ToSet(memoryBlocks[t]) = {}
    BY <1>6, EmptyElements
  <2>2. QED
    BY <1>5, <1>7, <1>8, <1>9, <2>1, PlacesDiffer DEF MoveOf, Moved
<1>11. Each(Place, Placed')
  <2>1. M \in SUBSET Placed[<<"list", k>>]
    BY <1>7, <1>8, AtIs
  <2>2. QED
    BY <1>10, <2>1, OnceParts, MoveOfKeepsEach, PlacesAre, PlacesDiffer
<1>12. Injective'
  BY <1>5, <1>7, <1>9 DEF EachBlockOnce, Injective
<1>13. QED
  BY <1>11, <1>12, OncePartsNext

LEMMA RefillFromSystemOnce ==
  ASSUME TypeOK, EachBlockOnce, NEW t \in Thread, RefillFromSystem(t)
  PROVE  EachBlockOnce'
<1>0. UNCHANGED <<freed, cache, freeLists, inUse>>
  BY DEF RefillFromSystem
<1>1. ASSUME NEW b \in system, NewBlock(b, request[t]),
             memoryBlocks' = [memoryBlocks EXCEPT ![t] = Append(memoryBlocks[t], b)]
      PROVE  EachBlockOnce'
  <2>1. system' = system \ {b} /\ b \in Block /\ memoryBlocks[t] \in Seq(Block)
    BY <1>1 DEF NewBlock, TypeOK
  <2>2. b \notin ToSet(memoryBlocks[t])
    <3>1. Placed[<<"system">>] \cap Placed[<<"refill", t>>] = {}
      BY AtApart, PlacesAre, PlacesDiffer
    <3>2. QED
      BY <1>1, <3>1, AtIs
  <2>3. PICK q : q = Append(memoryBlocks[t], b)
    OBVIOUS
  <2>4. /\ ToSet(q) = ToSet(memoryBlocks[t]) \cup {b}
        /\ IsInjective(q)
    BY <2>1, <2>2, <2>3, AppendElements DEF EachBlockOnce
  <2>5. \A u \in Thread : memoryBlocks'[u] = IF u = t THEN q ELSE memoryBlocks[u]
    BY <1>1, <2>3 DEF TypeOK
  <2>6. MoveOf(<<"system">>, <<"refill", t>>, {b})
    BY <1>0, <2>1, <2>4, <2>5, PlacesDiffer DEF MoveOf, Moved
  <2>7. Each(Place, Placed')
    <3>1. {b} \in SUBSET Placed[<<"system">>]
      BY <1>1, AtIs
    <3>2. QED
      BY <2>6, <3>1, OnceParts, MoveOfKeepsEach, PlacesAre, PlacesDiffer
  <2>8. Injective'
    BY <1>0, <2>4, <2>5 DEF EachBlockOnce, Injective
  <2>9. QED
    BY <2>7, <2>8, OncePartsNext
<1>2. ASSUME UNCHANGED <<system, memoryBlocks>> PROVE EachBlockOnce'
  BY <1>0, <1>2 DEF EachBlockOnce, BlocksAt
<1>3. QED
  BY <1>1, <1>2 DEF RefillFromSystem

\* Two moves: the last block to the caller, and the others to the cache.
LEMMA AllocateRefilledOnce ==
  ASSUME TypeOK, EachBlockOnce, NEW t \in Thread, AllocateRefilled(t)
  PROVE  EachBlockOnce'
<1>1. PICK k \in Bucket : k = BucketOf(request[t])
  BY BucketOfRequest DEF AllocateRefilled, TypeOK
<1>2. /\ memoryBlocks[t] \in Seq(Block) /\ memoryBlocks[t] # <<>>
      /\ cache[t][k] \in Seq(Block)
  BY DEF AllocateRefilled, TypeOK
<1>3. IsInjective(memoryBlocks[t]) /\ IsInjective(cache[t][k])
  BY DEF EachBlockOnce
<1>4. PICK b : b = Last(memoryBlocks[t])
  OBVIOUS
<1>5. PICK front : front = Front(memoryBlocks[t])
  OBVIOUS
<1>6. PICK q : q = cache[t][k] \o front
  OBVIOUS
<1>7. /\ cache' = [cache EXCEPT ![t][k] = q] /\ inUse' = inUse \cup {b}
      /\ memoryBlocks' = [memoryBlocks EXCEPT ![t] = <<>>]
      /\ UNCHANGED <<system, freed, freeLists>>
  BY <1>1, <1>4, <1>5, <1>6 DEF AllocateRefilled
<1>8. /\ front \in Seq(Block)
      /\ b \in ToSet(memoryBlocks[t])
      /\ ToSet(front) = ToSet(memoryBlocks[t]) \ {b} /\ IsInjective(front)
  BY <1>2, <1>3, <1>4, <1>5, FrontElements
<1>9. ToSet(cache[t][k]) \cap ToSet(memoryBlocks[t]) = {}
  <2>1. Placed[<<"cache", t, k>>] \cap Placed[<<"refill", t>>] = {}
    BY AtApart, PlacesAre, PlacesDiffer
  <2>2. QED
    BY <2>1, AtIs
<1>10. ToSet(q) = ToSet(cache[t][k]) \cup ToSet(front) /\ IsInjective(q)
  <2>1. ToSet(cache[t][k]) \cap ToSet(front) = {}
    BY <1>8, <1>9
  <2>2. QED
    BY <1>2, <1>3, <1>6, <1>8, <2>1, ConcatElements
<1>11. /\ \A u \in Thread, j \in Bucket :
            cache'[u][j] = IF u = t /\ j = k THEN q ELSE cache[u][j]
       /\ \A u \in Thread :
            memoryBlocks'[u] = IF u = t THEN <<>> ELSE memoryBlocks[u]
  BY <1>7 DEF TypeOK
<1>01. PICK r : r = <<"refill", t>>
  OBVIOUS
<1>02. PICK hand : hand = <<"in use">>
  OBVIOUS
<1>03. PICK home : home = <<"cache", t, k>>
  OBVIOUS
<1>04. PICK mid : mid = [x \in Place |-> Moved(x, r, hand, {b}, Placed[x])]
  OBVIOUS
<1>12. /\ r \in Place /\ hand \in Place /\ home \in Place
       /\ r # hand /\ r # home /\ home # hand
  BY <1>01, <1>02, <1>03, PlacesAre, PlacesDiffer
<1>13. Placed[r] = ToSet(memoryBlocks[t])
  BY <1>01, AtIs
<1>14. Each(Place, mid)
  <2>1. {b} \in SUBSET Placed[r]
    BY <1>8, <1>13
  <2>2. \A x \in Place : mid[x] = Moved(x, r, hand, {b}, Placed[x])
    BY <1>04
  <2>3. Each(Place, Placed)
    BY OnceParts
  <2>4. QED
    BY <1>12, <2>1, <2>2, <2>3, MoveKeepsEach
<1>15. PICK M : M = ToSet(front)
  OBVIOUS
<1>16. mid[r] = M
  BY <1>04, <1>8, <1>12, <1>13, <1>15 DEF Moved
<1>17. ASSUME NEW x \in Place
       PROVE  Placed'[x] = Moved(x, r, home, M, mid[x])
  <2>0. mid[x] = Moved(x, r, hand, {b}, Placed[x])
    BY <1>04
  <2>1. CASE \E u \in Thread, j \in Bucket : x = <<"cache", u, j>>
    <3>1. PICK u \in Thread, j \in Bucket : x = <<"cache", u, j>>
      BY <2>1
    <3>2. Placed[x] = ToSet(cache[u][j]) /\ Placed'[x] = ToSet(cache'[u][j])
      BY <3>1, AtIs, AtIsNext
    <3>3. mid[x] = ToSet(cache[u][j]) /\ x # r
      BY <1>01, <1>02, <2>0, <3>1, <3>2, PlacesDiffer DEF Moved
    <3>4. x = home <=> u = t /\ j = k
      BY <1>03, <3>1, PlacesDiffer
    <3>5. QED
      BY <1>10, <1>11, <1>15, <3>2, <3>3, <3>4 DEF Moved
  <2>2. CASE \E j \in Bucket : x = <<"list", j>>
    <3>1. PICK j \in Bucket : x = <<"list", j>>
      BY <2>2
    <3>2. Placed'[x] = Placed[x]
      BY <1>7, <3>1, AtIs, AtIsNext
    <3>3. x # r /\ x # home /\ x # hand
      BY <1>01, <1>02, <1>03, <3>1, PlacesDiffer
    <3>4. QED
      BY <2>0, <3>2, <3>3 DEF Moved
  <2>3. CASE \E u \in Thread : x = <<"refill", u>>
    <3>1. PICK u \in Thread : x = <<"refill", u>>
      BY <2>3
    <3>2. Placed[x] = ToSet(memoryBlocks[u]) /\ Placed'[x] = ToSet(memoryBlocks'[u])
      BY <3>1, AtIs, AtIsNext
    <3>3. x # hand /\ x # home /\ (x = r <=> u = t)
      BY <1>01, <1>02, <1>03, <3>1, PlacesDiffer
    <3>4. CASE u = t
      <4>1. Placed'[x] = {} /\ x = r
        BY <1>11, <3>2, <3>3, <3>4, EmptyElements
      <4>2. QED
        BY <1>16, <4>1 DEF Moved
    <3>5. CASE u # t
      BY <1>11, <2>0, <3>2, <3>3, <3>5 DEF Moved
    <3>6. QED
      BY <3>4, <3>5
  <2>4. CASE x \in {<<"in use">>, <<"freed">>, <<"system">>}
    <3>1. x # r /\ x # home
      <4>1. /\ <<"refill", t>> \notin {<<"in use">>, <<"freed">>, <<"system">>}
            /\ <<"cache", t, k>> \notin {<<"in use">>, <<"freed">>, <<"system">>}
        BY PlacesDiffer
      <4>2. QED
        BY <1>01, <1>03, <2>4, <4>1
    <3>2. CASE x = hand
      <4>1. Placed'[x] = Placed[x] \cup {b}
        BY <1>02, <1>7, <3>2, AtIs, AtIsNext
      <4>2. mid[x] = Placed[x] \cup {b}
        BY <2>0, <3>1, <3>2 DEF Moved
      <4>3. QED
        BY <3>1, <4>1, <4>2 DEF Moved
    <3>3. CASE x # hand
      <4>1. x = <<"freed">> \/ x = <<"system">>
        BY <1>02, <2>4, <3>3
      <4>2. Placed'[x] = Placed[x]
        BY <1>7, <4>1, AtIs, AtIsNext
      <4>3. QED
        BY <2>0, <3>1, <3>3, <4>2 DEF Moved
    <3>4. QED
      BY <3>2, <3>3
  <2>5. QED
    BY <2>1, <2>2, <2>3, <2>4, PlaceKinds
<1>18. Each(Place, Placed')
  <2>1. M \in SUBSET mid[r]
    BY <1>16
  <2>2. QED
    BY <1>12, <1>14, <1>17, <2>1, MoveKeepsEach
<1>19. Injective'
  BY <1>7, <1>10, <1>11, EmptyElements DEF EachBlockOnce, Injective
<1>20. QED
  BY <1>18, <1>19, OncePartsNext

LEMMA AllocateLastOnce ==
  ASSUME TypeOK, EachBlockOnce, NEW t \in Thread, AllocateLast(t)
  PROVE  EachBlockOnce'
<1>0. UNCHANGED <<freed, cache, freeLists, memoryBlocks>>
  BY DEF AllocateLast, refill
<1>1. ASSUME NEW b \in system, NewBlock(b, request[t]), inUse' = inUse \cup {b}
      PROVE  EachBlockOnce'
  <2>1. system' = system \ {b}
    BY <1>1 DEF NewBlock
  <2>2. MoveOf(<<"system">>, <<"in use">>, {b})
    BY <1>0, <1>1, <2>1, PlacesDiffer DEF MoveOf, Moved
  <2>3. {b} \in SUBSET Placed[<<"system">>]
    BY <1>1, AtIs
  <2>4. Each(Place, Placed')
    BY <2>2, <2>3, OnceParts, MoveOfKeepsEach, PlacesAre, PlacesDiffer
  <2>5. Injective'
    BY <1>0 DEF EachBlockOnce, Injective
  <2>6. QED
    BY <2>4, <2>5, OncePartsNext
<1>2. ASSUME UNCHANGED <<system, inUse>> PROVE EachBlockOnce'
  BY <1>0, <1>2 DEF EachBlockOnce, BlocksAt
<1>3. QED
  BY <1>1, <1>2 DEF AllocateLast

LEMMA DeallocateCachedOnce ==
  ASSUME TypeOK, EachBlockOnce, MadeForARequest, NEW t \in Thread,
         NEW b \in Block, DeallocateCached(t, b)
  PROVE  EachBlockOnce'
<1>1. b \in inUse /\ b \notin system
  <2>1. Placed[<<"in use">>] \cap Placed[<<"system">>] = {}
    BY AtApart, PlacesAre, PlacesDiffer
  <2>2. QED
    BY <2>1, AtIs DEF DeallocateCached
<1>2. PICK k \in Bucket : k = HomeOf(b)
  BY <1>1, HomeIsBucket
<1>3. PICK q : q = Append(cache[t][k], b)
  OBVIOUS
<1>4. /\ cache' = [cache EXCEPT ![t][k] = q] /\ inUse' = inUse \ {b}
      /\ UNCHANGED <<system, freed, freeLists, memoryBlocks>>
  BY <1>2, <1>3 DEF DeallocateCached, refill
<1>5. b \notin ToSet(cache[t][k])
  <2>1. Placed[<<"in use">>] \cap Placed[<<"cache", t, k>>] = {}
    BY AtApart, PlacesAre, PlacesDiffer
  <2>2. QED
    BY <1>1, <2>1, AtIs
<1>6. ToSet(q) = ToSet(cache[t][k]) \cup {b} /\ IsInjective(q)
  <2>1. cache[t][k] \in Seq(Block) /\ IsInjective(cache[t][k])
    BY DEF TypeOK, EachBlockOnce
  <2>2. QED
    BY <1>3, <1>5, <2>1, AppendElements
<1>7. \A u \in Thread, j \in Bucket :
        cache'[u][j] = IF u = t /\ j = k THEN q ELSE cache[u][j]
  BY <1>4 DEF TypeOK
<1>8. MoveOf(<<"in use">>, <<"cache", t, k>>, {b})
  <2>1. ASSUME NEW u \in Thread, NEW j \in Bucket
        PROVE  ToSet(cache'[u][j])
                 = Moved(<<"cache", u, j>>, <<"in use">>, <<"cache", t, k>>, {b},
                         ToSet(cache[u][j]))
    BY <1>6, <1>7, PlacesDiffer DEF Moved
  <2>2. inUse' = Moved(<<"in use">>, <<"in use">>, <<"cache", t, k>>, {b}, inUse)
    BY <1>4 DEF Moved
  <2>3. QED
    BY <1>4, <2>1, <2>2, PlacesDiffer DEF MoveOf, Moved
<1>9. Each(Place, Placed')
  <2>1. {b} \in SUBSET Placed[<<"in use">>]
    BY <1>1, AtIs
  <2>2. QED
    BY <1>8, <2>1, OnceParts, MoveOfKeepsEach, PlacesAre, PlacesDiffer
<1>10. Injective'
  BY <1>4, <1>6, <1>7 DEF EachBlockOnce, Injective
<1>11. QED
  BY <1>9, <1>10, OncePartsNext

LEMMA DeallocateToMemoryPoolOnce ==
  ASSUME TypeOK, EachBlockOnce, MadeForARequest, NEW t \in Thread,
         NEW b \in Block, DeallocateToMemoryPool(t, b)
  PROVE  EachBlockOnce'
<1>1. b \in inUse /\ b \notin system
  <2>1. Placed[<<"in use">>] \cap Placed[<<"system">>] = {}
    BY AtApart, PlacesAre, PlacesDiffer
  <2>2. QED
    BY <2>1, AtIs DEF DeallocateToMemoryPool
<1>2. PICK k \in Bucket : k = HomeOf(b)
  BY <1>1, HomeIsBucket
<1>3. PICK q : q = Append(freeLists[k], b)
  OBVIOUS
<1>4. /\ freeLists' = [freeLists EXCEPT ![k] = q] /\ inUse' = inUse \ {b}
      /\ UNCHANGED <<system, freed, cache, memoryBlocks>>
  BY <1>2, <1>3 DEF DeallocateToMemoryPool, refill
<1>5. b \notin ToSet(freeLists[k])
  <2>1. Placed[<<"in use">>] \cap Placed[<<"list", k>>] = {}
    BY AtApart, PlacesAre, PlacesDiffer
  <2>2. QED
    BY <1>1, <2>1, AtIs
<1>6. ToSet(q) = ToSet(freeLists[k]) \cup {b} /\ IsInjective(q)
  <2>1. freeLists[k] \in Seq(Block) /\ IsInjective(freeLists[k])
    BY DEF TypeOK, EachBlockOnce
  <2>2. QED
    BY <1>3, <1>5, <2>1, AppendElements
<1>7. \A j \in Bucket : freeLists'[j] = IF j = k THEN q ELSE freeLists[j]
  BY <1>4 DEF TypeOK
<1>8. MoveOf(<<"in use">>, <<"list", k>>, {b})
  BY <1>4, <1>6, <1>7, PlacesDiffer DEF MoveOf, Moved
<1>9. Each(Place, Placed')
  <2>1. {b} \in SUBSET Placed[<<"in use">>]
    BY <1>1, AtIs
  <2>2. QED
    BY <1>8, <2>1, OnceParts, MoveOfKeepsEach, PlacesAre, PlacesDiffer
<1>10. Injective'
  BY <1>4, <1>6, <1>7 DEF EachBlockOnce, Injective
<1>11. QED
  BY <1>9, <1>10, OncePartsNext

\* A place other than freed, whose variable a step leaves alone.
LEMMA CacheStays ==
  ASSUME NEW u \in Thread, NEW k \in Bucket, cache'[u][k] = cache[u][k],
         NEW x, x = <<"cache", u, k>>
  PROVE  Placed'[x] = Placed[x] /\ x # <<"freed">>
<1>1. Placed[x] = ToSet(cache[u][k]) /\ Placed'[x] = ToSet(cache'[u][k])
  BY AtIs, AtIsNext
<1>2. QED
  BY <1>1, PlacesDiffer

LEMMA ListStays ==
  ASSUME NEW k \in Bucket, freeLists'[k] = freeLists[k],
         NEW x, x = <<"list", k>>
  PROVE  Placed'[x] = Placed[x] /\ x # <<"freed">>
<1>1. Placed[x] = ToSet(freeLists[k]) /\ Placed'[x] = ToSet(freeLists'[k])
  BY AtIs, AtIsNext
<1>2. QED
  BY <1>1, PlacesDiffer

LEMMA RefillStays ==
  ASSUME NEW u \in Thread, memoryBlocks'[u] = memoryBlocks[u],
         NEW x, x = <<"refill", u>>
  PROVE  Placed'[x] = Placed[x] /\ x # <<"freed">>
<1>1. Placed[x] = ToSet(memoryBlocks[u]) /\ Placed'[x] = ToSet(memoryBlocks'[u])
  BY AtIs, AtIsNext
<1>2. QED
  BY <1>1, PlacesDiffer

\* The caches of a thread that ends, all at once, to the system.
LEMMA ThreadLocalCacheClearOnce ==
  ASSUME TypeOK, EachBlockOnce, NEW t \in Thread, ThreadLocalCacheClear(t)
  PROVE  EachBlockOnce'
<1>1. PICK M : M = Cached(t)
  OBVIOUS
<1>2. PICK bin : bin = <<"freed">>
  OBVIOUS
<1>3. /\ \A u \in Thread, k \in Bucket :
           cache'[u][k] = IF u = t THEN <<>> ELSE cache[u][k]
      /\ freed' = freed \cup M
      /\ UNCHANGED <<system, freeLists, inUse, memoryBlocks>>
  BY <1>1 DEF ThreadLocalCacheClear, TypeOK, refill
<1>4. ASSUME NEW x \in Place, \A k \in Bucket : x # <<"cache", t, k>>
      PROVE  Placed[x] \cap M = {}
  <2>1. ASSUME NEW k \in Bucket PROVE Placed[x] \cap ToSet(cache[t][k]) = {}
    <3>1. PICK y \in Place : y = <<"cache", t, k>>
      BY PlacesAre
    <3>2. Placed[x] \cap Placed[y] = {}
      BY <1>4, <3>1, AtApart
    <3>3. Placed[y] = ToSet(cache[t][k])
      BY <3>1, AtIs
    <3>4. QED
      BY <3>2, <3>3
  <2>2. QED
    BY <1>1, <2>1 DEF Cached
<1>5. ASSUME NEW x \in Place
      PROVE  Placed'[x] = IF x = bin THEN Placed[bin] \cup M ELSE Placed[x] \ M
  <2>1. ASSUME NEW k \in Bucket, x = <<"cache", t, k>>
        PROVE  Placed'[x] = IF x = bin THEN Placed[bin] \cup M ELSE Placed[x] \ M
    <3>1. x # bin
      BY <1>2, <2>1, PlacesDiffer
    <3>2. Placed'[x] = {}
      BY <1>3, <2>1, AtIsNext, EmptyElements
    <3>3. Placed[x] \subseteq M
      BY <1>1, <2>1, AtIs DEF Cached
    <3>4. QED
      BY <3>1, <3>2, <3>3
  <2>2. ASSUME NEW u \in Thread, NEW k \in Bucket, u # t, x = <<"cache", u, k>>
        PROVE  Placed'[x] = Placed[x] /\ x # bin
    BY <1>2, <1>3, <2>2, CacheStays
  <2>3. ASSUME NEW k \in Bucket, x = <<"list", k>>
        PROVE  Placed'[x] = Placed[x] /\ x # bin
    BY <1>2, <1>3, <2>3, ListStays
  <2>4. ASSUME NEW u \in Thread, x = <<"refill", u>>
        PROVE  Placed'[x] = Placed[x] /\ x # bin
    BY <1>2, <1>3, <2>4, RefillStays
  <2>5. ASSUME x = <<"in use">> \/ x = <<"system">>
        PROVE  Placed'[x] = Placed[x] /\ x # bin
    BY <1>2, <1>3, <2>5, AtIs, AtIsNext, PlacesDiffer
  <2>6. x = bin => Placed'[x] = Placed[bin] \cup M
    BY <1>2, <1>3, AtIs, AtIsNext
  <2>7. QED
    <3>1. CASE \E k \in Bucket : x = <<"cache", t, k>>
      BY <2>1, <3>1
    <3>2. CASE x = bin
      BY <2>6, <3>2
    <3>3. CASE x # bin /\ \A k \in Bucket : x # <<"cache", t, k>>
      <4>1. Placed'[x] = Placed[x]
        BY <1>2, <2>2, <2>3, <2>4, <2>5, <3>3, PlaceKinds
      <4>2. QED
        BY <1>4, <3>3, <4>1
    <3>4. QED
      BY <3>1, <3>2, <3>3
<1>6. bin \in Place /\ Each(Place, Placed)
  BY <1>2, PlacesAre, OnceParts
<1>7. Each(Place, Placed')
  <2>1. \A x \in Place : Placed'[x] = TogetherAt(x, bin, M, Placed)
    BY <1>5 DEF TogetherAt
  <2>2. QED
    BY <1>6, <2>1, GatherKeepsEach
<1>8. Injective'
  BY <1>3, EmptyElements DEF EachBlockOnce, Injective
<1>9. QED
  BY <1>7, <1>8, OncePartsNext

\* The free lists of a pool that is destroyed, all at once, to the system.
LEMMA GlobalFreeListClearOnce ==
  ASSUME TypeOK, EachBlockOnce, NEW t \in Thread, GlobalFreeListClear(t)
  PROVE  EachBlockOnce'
<1>1. PICK M : M = Listed
  OBVIOUS
<1>2. PICK bin : bin = <<"freed">>
  OBVIOUS
<1>3. /\ \A k \in Bucket : freeLists'[k] = <<>>
      /\ freed' = freed \cup M
      /\ UNCHANGED <<system, cache, inUse, memoryBlocks>>
  BY <1>1 DEF GlobalFreeListClear, refill
<1>4. ASSUME NEW x \in Place, \A k \in Bucket : x # <<"list", k>>
      PROVE  Placed[x] \cap M = {}
  <2>1. ASSUME NEW k \in Bucket PROVE Placed[x] \cap ToSet(freeLists[k]) = {}
    <3>1. PICK y \in Place : y = <<"list", k>>
      BY PlacesAre
    <3>2. Placed[x] \cap Placed[y] = {}
      BY <1>4, <3>1, AtApart
    <3>3. Placed[y] = ToSet(freeLists[k])
      BY <3>1, AtIs
    <3>4. QED
      BY <3>2, <3>3
  <2>2. QED
    BY <1>1, <2>1 DEF Listed
<1>5. ASSUME NEW x \in Place
      PROVE  Placed'[x] = IF x = bin THEN Placed[bin] \cup M ELSE Placed[x] \ M
  <2>1. ASSUME NEW k \in Bucket, x = <<"list", k>>
        PROVE  Placed'[x] = IF x = bin THEN Placed[bin] \cup M ELSE Placed[x] \ M
    <3>1. x # bin
      BY <1>2, <2>1, PlacesDiffer
    <3>2. Placed'[x] = {}
      BY <1>3, <2>1, AtIsNext, EmptyElements
    <3>3. Placed[x] \subseteq M
      BY <1>1, <2>1, AtIs DEF Listed
    <3>4. QED
      BY <3>1, <3>2, <3>3
  <2>2. ASSUME NEW u \in Thread, NEW k \in Bucket, x = <<"cache", u, k>>
        PROVE  Placed'[x] = Placed[x] /\ x # bin
    BY <1>2, <1>3, <2>2, CacheStays
  <2>3. ASSUME NEW u \in Thread, x = <<"refill", u>>
        PROVE  Placed'[x] = Placed[x] /\ x # bin
    BY <1>2, <1>3, <2>3, RefillStays
  <2>4. ASSUME x = <<"in use">> \/ x = <<"system">>
        PROVE  Placed'[x] = Placed[x] /\ x # bin
    BY <1>2, <1>3, <2>4, AtIs, AtIsNext, PlacesDiffer
  <2>5. x = bin => Placed'[x] = Placed[bin] \cup M
    BY <1>2, <1>3, AtIs, AtIsNext
  <2>6. QED
    <3>1. CASE \E k \in Bucket : x = <<"list", k>>
      BY <2>1, <3>1
    <3>2. CASE x = bin
      BY <2>5, <3>2
    <3>3. CASE x # bin /\ \A k \in Bucket : x # <<"list", k>>
      <4>1. Placed'[x] = Placed[x]
        BY <1>2, <2>2, <2>3, <2>4, <3>3, PlaceKinds
      <4>2. QED
        BY <1>4, <3>3, <4>1
    <3>4. QED
      BY <3>1, <3>2, <3>3
<1>6. bin \in Place /\ Each(Place, Placed)
  BY <1>2, PlacesAre, OnceParts
<1>7. Each(Place, Placed')
  <2>1. \A x \in Place : Placed'[x] = TogetherAt(x, bin, M, Placed)
    BY <1>5 DEF TogetherAt
  <2>2. QED
    BY <1>6, <2>1, GatherKeepsEach
<1>8. Injective'
  BY <1>3, EmptyElements DEF EachBlockOnce, Injective
<1>9. QED
  BY <1>7, <1>8, OncePartsNext

LEMMA NextOnce == TypeOK /\ OnceInv /\ [Next]_vars => OnceInv'
<1> SUFFICES ASSUME TypeOK, OnceInv, [Next]_vars
             PROVE  OnceInv'
  OBVIOUS
<1>0. EachBlockOnce /\ MadeForARequest /\ RefillInHand
  BY DEF OnceInv
<1>1. EachBlockOnce'
  <2>1. ASSUME NEW t \in Thread, Allocate(t) PROVE EachBlockOnce'
    BY <1>0, <2>1, AllocateCachedOnce, RefillFromListOnce,
       RefillFromSystemOnce, AllocateRefilledOnce, AllocateLastOnce
       DEF Allocate
  <2>2. ASSUME NEW t \in Thread, Deallocate(t) PROVE EachBlockOnce'
    BY <1>0, <2>2, DeallocateCachedOnce, DeallocateToMemoryPoolOnce
       DEF Deallocate
  <2>3. CASE UNCHANGED vars
    BY <1>0, <2>3 DEF vars, EachBlockOnce, BlocksAt
  <2>4. QED
    BY <1>0, <2>1, <2>2, <2>3, ThreadLocalCacheClearOnce,
       GlobalFreeListClearOnce DEF Next
<1>2. MadeForARequest' /\ RefillInHand'
  BY <1>0, NextMadeForARequest, NextRefillInHand
<1>3. QED
  BY <1>1, <1>2 DEF OnceInv

LEMMA InitOnce == Init => OnceInv
<1> SUFFICES ASSUME Init PROVE OnceInv
  OBVIOUS
<1>1. /\ \A t \in Thread, k \in Bucket : cache[t][k] = <<>>
      /\ \A k \in Bucket : freeLists[k] = <<>>
      /\ \A t \in Thread : memoryBlocks[t] = <<>>
      /\ inUse = {} /\ freed = {} /\ system = Block
  BY DEF Init
<1>2. ASSUME NEW b \in Block PROVE {y \in Place : b \in Placed[y]} = {<<"system">>}
  <2>1. ASSUME NEW y \in Place, b \in Placed[y] PROVE y = <<"system">>
    <3>1. ~ \E t \in Thread, k \in Bucket : y = <<"cache", t, k>>
      <4>1. ASSUME NEW t \in Thread, NEW k \in Bucket
            PROVE  Placed[<<"cache", t, k>>] = {}
        <5>1. Placed[<<"cache", t, k>>] = ToSet(cache[t][k])
          BY AtIs
        <5>2. QED
          BY <1>1, <5>1, EmptyElements
      <4>2. QED
        BY <2>1, <4>1
    <3>2. ~ \E k \in Bucket : y = <<"list", k>>
      BY <1>1, <2>1, AtIs, EmptyElements
    <3>3. ~ \E t \in Thread : y = <<"refill", t>>
      BY <1>1, <2>1, AtIs, EmptyElements
    <3>4. y # <<"in use">> /\ y # <<"freed">>
      BY <1>1, <2>1, AtIs
    <3>5. QED
      BY <3>1, <3>2, <3>3, <3>4, PlaceKinds
  <2>2. <<"system">> \in Place /\ b \in Placed[<<"system">>]
    BY <1>1, AtIs, PlacesAre
  <2>3. QED
    BY <2>1, <2>2
<1>3. Each(Place, Placed)
  BY <1>2, PlacesAre DEF Each
<1>4. Injective
  BY <1>1, EmptyElements DEF Injective
<1>5. MadeForARequest /\ RefillInHand
  BY <1>1 DEF MadeForARequest, RefillInHand
<1>6. QED
  BY <1>3, <1>4, <1>5, OnceParts DEF OnceInv

\* Every block is at one place, once, whatever the threads allocate, give back
\* to each other's caches, refill and leave behind: no block has two owners,
\* none is used after it was freed, and none is lost.
THEOREM EachBlockOnceHolds == Spec => []EachBlockOnce
<1>1. OnceInv => EachBlockOnce
  BY DEF OnceInv
<1>2. QED
  BY <1>1, InitOnce, NextOnce, InitTypes, NextTypes, PTL DEF Spec


----------------------------------------------------------------------------
(***************************************************************************)
(* SendBuffer, its pool and the threads' current buffers.                  *)
(*                                                                         *)
(* A buffer changes its place only by the last pointer to it going, by the *)
(* deleter it then is in, or by being taken from the pool or allocated.    *)
(* Packets are written behind each other, so a packet's bytes are below    *)
(* the buffer's used size and stay while it is in use.  A buffer's first   *)
(* packet is also the only one that the position a send starts at, which   *)
(* counts from the start of the buffer, is right for.                      *)
(***************************************************************************)
\* What the assumptions say that is needed: the buffers need not be finite.
LEMMA ArenaConstants ==
  /\ NoBuffer \notin Buffer
  /\ PoolSize \in Nat /\ Capacity \in Nat \ {0} /\ MaxSize \in Nat /\ MaxPackets \in Nat
BY BufferAssumption, SizeAssumption

\* A buffer that is somewhere has been allocated.
BornSomewhere == InPool \cup InUse \cup InDeleter \subseteq born

Writing(t) == job[t].step \in {"swap", "write"}

\* A packet's number is its own: one thread writes it, then one context has it.
PacketsNumbered ==
  /\ \A t \in Sender : Writing(t) =>
       /\ job[t].packet \in 1 .. packets /\ job[t].size \in 1 .. MaxSize
       /\ job[t].packet \notin atBase
       /\ \A c \in contexts : c.packet # job[t].packet
       /\ \A u \in Sender \ {t} : Writing(u) => job[u].packet # job[t].packet
  /\ \A c \in contexts : c.packet <= packets
  /\ \A c, d \in contexts : c.packet = d.packet => c = d
  /\ atBase \subseteq 1 .. packets

\* Nothing goes out for a packet before it is written.
NothingOutYet ==
  /\ \A p \in 1 .. MaxPackets : p > packets => sent[p] = <<>>
  /\ \A t \in Sender : Writing(t) => sent[job[t].packet] = <<>>

\* What has gone out of a buffer's first packet reaches from the buffer's start
\* to where its context stands.
SentFromBase ==
  \A c \in contexts : c.packet \in atBase => c.base = 0 /\ Len(sent[c.packet]) = c.offset

BuffersPlaced == EachBufferOnce /\ BornSomewhere

ArenaInv == ArenaTypeOK /\ PacketsNumbered /\ BuffersPlaced /\ LiveBytesKept

FirstPacketInv == NothingOutYet /\ SentFromBase /\ FirstPacketIntact

----------------------------------------------------------------------------
\* Taking the head of the pool, and adding to its end.
LEMMA RangeOfTail ==
  ASSUME NEW S, NEW s \in Seq(S), s # <<>>, \A i, j \in DOMAIN s : s[i] = s[j] => i = j
  PROVE  /\ RangeOf(Tail(s)) = RangeOf(s) \ {Head(s)}
         /\ Head(s) \in RangeOf(s)
         /\ Tail(s) \in Seq(S) /\ Head(s) \in S
         /\ \A i, j \in DOMAIN Tail(s) : Tail(s)[i] = Tail(s)[j] => i = j
<1> DEFINE n == Len(s)
<1>1. /\ n \in Nat /\ n > 0 /\ DOMAIN s = 1 .. n /\ Head(s) = s[1]
      /\ Len(Tail(s)) = n - 1 /\ DOMAIN Tail(s) = 1 .. n - 1
      /\ \A i \in 1 .. n - 1 : Tail(s)[i] = s[i + 1]
      /\ Tail(s) \in Seq(S) /\ Head(s) \in S
  OBVIOUS
<1> HIDE DEF n
<1>2. ASSUME NEW x \in RangeOf(Tail(s)) PROVE x \in RangeOf(s) \ {Head(s)}
  <2>1. PICK i \in 1 .. n - 1 : x = s[i + 1]
    BY <1>1 DEF RangeOf
  <2>2. i + 1 \in DOMAIN s /\ i + 1 # 1 /\ 1 \in DOMAIN s
    BY <1>1, <2>1
  <2>3. QED
    BY <1>1, <2>1, <2>2 DEF RangeOf
<1>3. ASSUME NEW x \in RangeOf(s) \ {Head(s)} PROVE x \in RangeOf(Tail(s))
  <2>1. PICK i \in 1 .. n : x = s[i]
    BY <1>1 DEF RangeOf
  <2>2. i - 1 \in 1 .. n - 1
    BY <1>1, <2>1
  <2>3. Tail(s)[i - 1] = x
    BY <1>1, <2>1, <2>2
  <2>4. QED
    BY <1>1, <2>2, <2>3 DEF RangeOf
<1>4. Head(s) \in RangeOf(s)
  BY <1>1 DEF RangeOf
<1>5. ASSUME NEW i \in DOMAIN Tail(s), NEW j \in DOMAIN Tail(s), Tail(s)[i] = Tail(s)[j]
      PROVE  i = j
  <2>1. i + 1 \in DOMAIN s /\ j + 1 \in DOMAIN s /\ s[i + 1] = s[j + 1]
    BY <1>1, <1>5
  <2>2. i + 1 = j + 1
    BY <2>1
  <2>3. QED
    BY <1>1, <2>2
<1>6. QED
  BY <1>1, <1>2, <1>3, <1>4, <1>5

LEMMA RangeOfAppend ==
  ASSUME NEW S, NEW s \in Seq(S), NEW x \in S, x \notin RangeOf(s),
         \A i, j \in DOMAIN s : s[i] = s[j] => i = j
  PROVE  /\ RangeOf(Append(s, x)) = RangeOf(s) \cup {x}
         /\ Append(s, x) \in Seq(S)
         /\ \A i, j \in DOMAIN Append(s, x) : Append(s, x)[i] = Append(s, x)[j] => i = j
<1> DEFINE n == Len(s)
<1>1. /\ n \in Nat /\ DOMAIN s = 1 .. n
      /\ Append(s, x) \in Seq(S) /\ DOMAIN Append(s, x) = 1 .. n + 1
      /\ \A i \in 1 .. n : Append(s, x)[i] = s[i]
      /\ Append(s, x)[n + 1] = x
  OBVIOUS
<1> HIDE DEF n
<1>2. \A i \in 1 .. n + 1 : i \in 1 .. n \/ i = n + 1
  BY <1>1
<1>3. \A i \in 1 .. n : s[i] # x
  BY <1>1 DEF RangeOf
<1>4. 1 .. n \subseteq 1 .. n + 1 /\ n + 1 \in 1 .. n + 1
  BY <1>1
<1>5. RangeOf(Append(s, x)) = RangeOf(s) \cup {x}
  BY <1>1, <1>2, <1>4 DEF RangeOf
<1>6. QED
  BY <1>1, <1>2, <1>3, <1>5

\* Whoever drops a pointer has the buffer in its deleter if it was the last.
LEMMA LetGoMoves ==
  ASSUME releasing \in [Sender -> Buffer \cup {NoBuffer}], NoBuffer \notin Buffer,
         \A t, u \in Sender : releasing[t] = releasing[u] /\ releasing[t] # NoBuffer => t = u,
         NEW t \in Sender, releasing[t] = NoBuffer,
         NEW b \in Buffer, b \notin InDeleter, NEW cur, NEW ctx,
         LetGo(t, b, cur, ctx)
  PROVE  /\ releasing' \in [Sender -> Buffer \cup {NoBuffer}]
         /\ \A v, u \in Sender :
              releasing'[v] = releasing'[u] /\ releasing'[v] # NoBuffer => v = u
         /\ b \in Held(cur, ctx) => InDeleter' = InDeleter
         /\ b \notin Held(cur, ctx) => InDeleter' = InDeleter \cup {b}
<1>1. CASE b \in Held(cur, ctx)
  <2>1. releasing' = releasing
    BY <1>1 DEF LetGo
  <2>2. QED
    BY <1>1, <2>1 DEF InDeleter
<1>2. CASE b \notin Held(cur, ctx)
  <2>1. releasing' = [releasing EXCEPT ![t] = b]
    BY <1>2 DEF LetGo
  <2>2. InDeleter' = InDeleter \cup {b}
    BY <2>1 DEF InDeleter
  <2>3. QED
    BY <1>2, <2>1, <2>2 DEF InDeleter
<1>3. QED
  BY <1>1, <1>2

\* A pointer to b goes and no other comes.
LEMMA DropKeepsPlaces ==
  ASSUME ArenaTypeOK, BuffersPlaced,
         NEW t \in Sender, releasing[t] = NoBuffer, NEW b \in InUse,
         NEW cur, NEW ctx, current' = cur, contexts' = ctx,
         Held(cur, ctx) \subseteq Held(current, contexts) \cup {NoBuffer},
         Held(current, contexts) \subseteq Held(cur, ctx) \cup {b, NoBuffer},
         LetGo(t, b, cur, ctx),
         UNCHANGED <<pool, life, born, deleted>>
  PROVE  /\ BuffersPlaced'
         /\ releasing' \in [Sender -> Buffer \cup {NoBuffer}]
<1>1. b \in Buffer /\ b # NoBuffer
  BY ArenaConstants DEF InUse, Held, ArenaTypeOK, SendContext
<1>2. b \notin InDeleter /\ b \notin InPool /\ b \notin deleted
  BY DEF BuffersPlaced, EachBufferOnce
<1>3. /\ releasing' \in [Sender -> Buffer \cup {NoBuffer}]
      /\ \A v, u \in Sender : releasing'[v] = releasing'[u] /\ releasing'[v] # NoBuffer => v = u
      /\ b \in Held(cur, ctx) => InDeleter' = InDeleter
      /\ b \notin Held(cur, ctx) => InDeleter' = InDeleter \cup {b}
  BY <1>1, <1>2, LetGoMoves, ArenaConstants DEF ArenaTypeOK, BuffersPlaced, EachBufferOnce
<1>4. InUse' = Held(cur, ctx) \ {NoBuffer}
  BY DEF InUse, Held
<1>5. InPool' = InPool
  BY DEF InPool
<1>6. /\ InUse' \subseteq InUse
      /\ InUse \subseteq InUse' \cup {b}
      /\ b \in InUse' <=> b \in Held(cur, ctx)
  BY <1>1, <1>4 DEF InUse
<1>7. /\ InUse' \cup InDeleter' = InUse \cup InDeleter
      /\ InUse' \cap InDeleter' = {}
  BY <1>2, <1>3, <1>6 DEF BuffersPlaced, EachBufferOnce
<1>8. EachBufferOnce'
  <2>1. InPool' \cap (InUse' \cup InDeleter' \cup deleted') = {}
    BY <1>5, <1>7 DEF BuffersPlaced, EachBufferOnce
  <2>2. (InUse' \cup InDeleter') \cap deleted' = {}
    BY <1>7 DEF BuffersPlaced, EachBufferOnce
  <2>3. life' = "open" => born' = InPool' \cup InUse' \cup InDeleter'
    BY <1>5, <1>7 DEF BuffersPlaced, EachBufferOnce
  <2>4. \A i, j \in DOMAIN pool' : pool'[i] = pool'[j] => i = j
    BY DEF BuffersPlaced, EachBufferOnce
  <2>5. QED
    BY <1>3, <1>7, <2>1, <2>2, <2>3, <2>4 DEF EachBufferOnce
<1>9. BornSomewhere'
  BY <1>5, <1>7 DEF BuffersPlaced, BornSomewhere
<1>10. QED
  BY <1>3, <1>8, <1>9 DEF BuffersPlaced

\* The next buffer, of the pool or a new one, comes into use.
LEMMA SwapKeepsPlaces ==
  ASSUME ArenaTypeOK, BuffersPlaced, NEW t \in Sender, SwapSendBuffer(t)
  PROVE  /\ BuffersPlaced'
         /\ releasing' \in [Sender -> Buffer \cup {NoBuffer}]
         /\ pool' \in Seq(Buffer) /\ born' \subseteq Buffer /\ born \subseteq born'
         /\ current' \in [Sender -> Buffer \cup {NoBuffer}]
<1> USE ArenaConstants
<1>1. PICK n \in IF pool # <<>> THEN {Head(pool)} ELSE Buffer \ born :
        /\ pool' = IF pool # <<>> THEN Tail(pool) ELSE pool
        /\ born' = born \cup {n}
        /\ current' = [current EXCEPT ![t] = n]
        /\ IF current[t] = NoBuffer
             THEN UNCHANGED releasing
             ELSE LetGo(t, current[t], [current EXCEPT ![t] = n], contexts)
  BY Zenon DEF SwapSendBuffer
<1>2. /\ life' = life /\ deleted' = deleted /\ contexts' = contexts
      /\ releasing[t] = NoBuffer
  BY DEF SwapSendBuffer, At, Free
<1> DEFINE cur == [current EXCEPT ![t] = n]
<1>3. /\ n \in Buffer /\ n \notin InUse \cup InDeleter \cup deleted
      /\ pool' \in Seq(Buffer)
      /\ \A i, j \in DOMAIN pool' : pool'[i] = pool'[j] => i = j
      /\ InPool' = InPool \ {n}
      /\ life = "open" => born' = InPool' \cup {n} \cup InUse \cup InDeleter
      /\ born' \subseteq Buffer /\ born \subseteq born'
      /\ InPool \subseteq born
  <2>1. CASE pool # <<>>
    <3>1. n = Head(pool) /\ pool' = Tail(pool)
      BY <1>1, <2>1
    <3>2. /\ RangeOf(Tail(pool)) = RangeOf(pool) \ {Head(pool)}
          /\ Head(pool) \in RangeOf(pool)
          /\ Tail(pool) \in Seq(Buffer) /\ Head(pool) \in Buffer
          /\ \A i, j \in DOMAIN Tail(pool) : Tail(pool)[i] = Tail(pool)[j] => i = j
      BY <2>1, RangeOfTail DEF ArenaTypeOK, BuffersPlaced, EachBufferOnce
    <3>3. n \in InPool /\ InPool' = InPool \ {n}
      BY <3>1, <3>2 DEF InPool
    <3>4. InPool \subseteq born
      BY DEF BuffersPlaced, BornSomewhere
    <3>5. n \notin InUse \cup InDeleter \cup deleted
      BY <3>3 DEF BuffersPlaced, EachBufferOnce
    <3>6. life = "open" => born' = InPool' \cup {n} \cup InUse \cup InDeleter
      BY <1>1, <3>3 DEF BuffersPlaced, EachBufferOnce
    <3>7. QED
      BY <1>1, <3>1, <3>2, <3>3, <3>4, <3>5, <3>6 DEF ArenaTypeOK
  <2>2. CASE pool = <<>>
    <3>1. n \in Buffer /\ n \notin born /\ pool' = pool
      BY <1>1, <2>2
    <3>2. InPool = {} /\ InPool' = {}
      BY <2>2, <3>1 DEF InPool, RangeOf
    <3>3. n \notin InUse \cup InDeleter \cup deleted
      BY <3>1 DEF BuffersPlaced, BornSomewhere, ArenaTypeOK
    <3>4. life = "open" => born' = InPool' \cup {n} \cup InUse \cup InDeleter
      BY <1>1, <3>2 DEF BuffersPlaced, EachBufferOnce
    <3>5. \A i, j \in DOMAIN pool' : pool'[i] = pool'[j] => i = j
      BY <3>1 DEF BuffersPlaced, EachBufferOnce
    <3>6. QED
      BY <1>1, <3>1, <3>2, <3>3, <3>4, <3>5 DEF ArenaTypeOK
  <2>3. QED
    BY <2>1, <2>2
<1>4. current' = cur /\ cur \in [Sender -> Buffer \cup {NoBuffer}] /\ cur[t] = n
      /\ \A u \in Sender \ {t} : cur[u] = current[u]
  BY <1>1, <1>3 DEF ArenaTypeOK
<1>5. /\ releasing' \in [Sender -> Buffer \cup {NoBuffer}]
      /\ \A v, u \in Sender : releasing'[v] = releasing'[u] /\ releasing'[v] # NoBuffer => v = u
      /\ InUse' \cup InDeleter' = InUse \cup InDeleter \cup {n}
      /\ InUse' \cap InDeleter' = {}
  <2>1. InUse' = Held(cur, contexts) \ {NoBuffer}
    BY <1>2, <1>4 DEF InUse, Held
  <2>2. CASE current[t] = NoBuffer
    <3>1. releasing' = releasing /\ InDeleter' = InDeleter
      BY <1>1, <2>2 DEF InDeleter
    <3>2. InUse' = InUse \cup {n}
      <4> HIDE DEF cur
      <4>1. n # NoBuffer
        BY <1>3
      <4>2. ASSUME NEW x \in InUse' PROVE x \in InUse \cup {n}
        BY <1>4, <2>1 DEF InUse, Held
      <4>3. ASSUME NEW x \in InUse PROVE x \in InUse'
        <5>1. CASE x \in {c.buffer : c \in contexts}
          BY <2>1, <5>1 DEF InUse, Held
        <5>2. CASE \E u \in Sender : x = current[u]
          <6>1. PICK u \in Sender \ {t} : x = current[u]
            BY <2>2, <5>2 DEF InUse
          <6>2. x = cur[u]
            BY <1>4, <6>1
          <6>3. QED
            BY <2>1, <6>2 DEF InUse, Held
        <5>3. QED
          BY <5>1, <5>2 DEF InUse, Held
      <4>4. n \in InUse'
        BY <1>4, <2>1, <4>1 DEF Held
      <4>5. QED
        BY <4>2, <4>3, <4>4
    <3>3. /\ releasing \in [Sender -> Buffer \cup {NoBuffer}]
          /\ \A v, u \in Sender :
               releasing[v] = releasing[u] /\ releasing[v] # NoBuffer => v = u
          /\ InUse \cap InDeleter = {} /\ n \notin InDeleter
      BY <1>3 DEF ArenaTypeOK, BuffersPlaced, EachBufferOnce
    <3>4. InUse' \cap InDeleter' = {}
      BY <3>1, <3>2, <3>3
    <3>5. QED
      BY <3>1, <3>2, <3>3, <3>4
  <2>3. CASE current[t] # NoBuffer
    <3> DEFINE b == current[t]
    <3>1. b \in Buffer /\ b \in InUse /\ b \notin InDeleter
      BY <2>3 DEF ArenaTypeOK, InUse, Held, BuffersPlaced, EachBufferOnce
    <3>2. /\ InUse' \subseteq InUse \cup {n}
          /\ InUse \cup {n} \subseteq InUse' \cup {b}
          /\ b \in InUse' <=> b \in Held(cur, contexts)
      BY <1>3, <1>4, <2>1, <3>1 DEF InUse, Held
    <3>3. LetGo(t, b, cur, contexts)
      BY <1>1, <2>3
    <3> HIDE DEF b, cur
    <3>4. /\ releasing' \in [Sender -> Buffer \cup {NoBuffer}]
          /\ \A v, u \in Sender :
               releasing'[v] = releasing'[u] /\ releasing'[v] # NoBuffer => v = u
          /\ b \in Held(cur, contexts) => InDeleter' = InDeleter
          /\ b \notin Held(cur, contexts) => InDeleter' = InDeleter \cup {b}
      BY <1>2, <3>1, <3>3, LetGoMoves DEF ArenaTypeOK, BuffersPlaced, EachBufferOnce
    <3>5. InUse \cap InDeleter = {} /\ n \notin InDeleter
      BY <1>3 DEF BuffersPlaced, EachBufferOnce
    <3>6. CASE b \in InUse'
      <4>1. InDeleter' = InDeleter /\ InUse' = InUse \cup {n}
        BY <3>1, <3>2, <3>4, <3>6
      <4>2. QED
        BY <3>4, <3>5, <4>1
    <3>7. CASE b \notin InUse'
      <4>1. InDeleter' = InDeleter \cup {b}
        BY <3>2, <3>4, <3>7
      <4>2. QED
        BY <3>1, <3>2, <3>4, <3>5, <3>7, <4>1
    <3>8. QED
      BY <3>6, <3>7
  <2>4. QED
    BY <2>2, <2>3
<1>6. EachBufferOnce'
  <2>1. InPool' \cap (InUse' \cup InDeleter' \cup deleted') = {}
    BY <1>2, <1>3, <1>5 DEF BuffersPlaced, EachBufferOnce
  <2>2. (InUse' \cup InDeleter') \cap deleted' = {}
    BY <1>2, <1>3, <1>5 DEF BuffersPlaced, EachBufferOnce
  <2>3. life' = "open" => born' = InPool' \cup InUse' \cup InDeleter'
    BY <1>2, <1>3, <1>5
  <2>4. QED
    BY <1>3, <1>5, <2>1, <2>2, <2>3 DEF EachBufferOnce
<1>7. BornSomewhere'
  BY <1>1, <1>3, <1>5 DEF BuffersPlaced, BornSomewhere
<1>8. QED
  BY <1>3, <1>4, <1>5, <1>6, <1>7 DEF BuffersPlaced

\* The deleter gives its buffer back or frees it.
LEMMA DeleterKeepsPlaces ==
  ASSUME ArenaTypeOK, BuffersPlaced, NEW t \in Sender,
         ReadFlag(t) \/ Push(t)
  PROVE  /\ BuffersPlaced'
         /\ releasing' \in [Sender -> Buffer \cup {NoBuffer}]
         /\ pool' \in Seq(Buffer) /\ deleted' \subseteq born'
<1> USE ArenaConstants
<1> DEFINE b == releasing[t]
<1>1. /\ b \in Buffer /\ b \in InDeleter
      /\ b \notin InPool \cup InUse \cup deleted
      /\ b \in born /\ InUse' = InUse /\ born' = born
  <2>1. b # NoBuffer /\ born' = born /\ current' = current /\ contexts' = contexts
    BY DEF ReadFlag, Push, Releasing, arena
  <2>2. b \in Buffer /\ b \in InDeleter
    BY <2>1 DEF ArenaTypeOK, InDeleter
  <2>3. b \notin InPool \cup InUse \cup deleted /\ b \in born
    BY <2>2 DEF BuffersPlaced, EachBufferOnce, BornSomewhere
  <2>4. QED
    BY <2>1, <2>2, <2>3 DEF InUse, Held
<1>2. CASE UNCHANGED <<releasing, pool, deleted>>
  <2>1. InPool' = InPool /\ InDeleter' = InDeleter
    BY <1>2 DEF InPool, InDeleter
  <2>2. life' = "open" => life = "open"
    BY DEF ReadFlag, Push
  <2>3. QED
    BY <1>1, <1>2, <2>1, <2>2 DEF BuffersPlaced, EachBufferOnce, BornSomewhere, ArenaTypeOK
<1>3. ASSUME releasing' = [releasing EXCEPT ![t] = NoBuffer]
      PROVE  /\ InDeleter' = InDeleter \ {b}
             /\ releasing' \in [Sender -> Buffer \cup {NoBuffer}]
             /\ \A v, u \in Sender :
                  releasing'[v] = releasing'[u] /\ releasing'[v] # NoBuffer => v = u
  <2>1. \A v \in Sender \ {t} : releasing[v] # b
    BY <1>1 DEF BuffersPlaced, EachBufferOnce
  <2>2. QED
    BY <1>1, <1>3, <2>1 DEF ArenaTypeOK, BuffersPlaced, EachBufferOnce, InDeleter
<1>4. CASE /\ life # "open" /\ life' = life /\ pool' = pool
           /\ deleted' = deleted \cup {b}
           /\ releasing' = [releasing EXCEPT ![t] = NoBuffer]
  <2>1. InPool' = InPool
    BY <1>4 DEF InPool
  <2>2. QED
    BY <1>1, <1>3, <1>4, <2>1 DEF BuffersPlaced, EachBufferOnce, BornSomewhere, ArenaTypeOK
<1>5. CASE /\ life' = life /\ deleted' = deleted
           /\ pool' = Append(pool, b)
           /\ releasing' = [releasing EXCEPT ![t] = NoBuffer]
  <2>1. /\ RangeOf(Append(pool, b)) = RangeOf(pool) \cup {b}
        /\ Append(pool, b) \in Seq(Buffer)
        /\ \A i, j \in DOMAIN Append(pool, b) :
             Append(pool, b)[i] = Append(pool, b)[j] => i = j
    <3> HIDE DEF b
    <3>1. pool \in Seq(Buffer) /\ b \in Buffer /\ b \notin RangeOf(pool)
          /\ \A i, j \in DOMAIN pool : pool[i] = pool[j] => i = j
      BY <1>1 DEF ArenaTypeOK, InPool, BuffersPlaced, EachBufferOnce
    <3>2. QED
      BY <3>1, RangeOfAppend
  <2>2. InPool' = InPool \cup {b}
    BY <1>5, <2>1 DEF InPool
  <2>3. pool' \in Seq(Buffer) /\ \A i, j \in DOMAIN pool' : pool'[i] = pool'[j] => i = j
    BY <1>5, <2>1
  <2>4. QED
    BY <1>1, <1>3, <1>5, <2>2, <2>3 DEF BuffersPlaced, EachBufferOnce, BornSomewhere, ArenaTypeOK
<1>6. CASE ReadFlag(t)
  <2>1. CASE life = "open"
    BY <1>2, <1>6, <2>1 DEF ReadFlag
  <2>2. CASE life # "open"
    BY <1>4, <1>6, <2>2 DEF ReadFlag
  <2>3. QED
    BY <2>1, <2>2
<1>7. CASE Push(t)
  <2>1. CASE life = "gone"
    BY <1>2, <1>7, <2>1 DEF Push, deleter
  <2>2. CASE life # "gone"
    BY <1>5, <1>7, <2>2 DEF Push
  <2>3. QED
    BY <2>1, <2>2
<1>8. QED
  BY <1>6, <1>7

\* The main thread empties the pool and takes it away.
LEMMA ClearKeepsPlaces ==
  ASSUME ArenaTypeOK, BuffersPlaced,
         ReleaseSendBufferDeleter \/ PoolClear \/ ResetPool
  PROVE  BuffersPlaced' /\ pool' \in Seq(Buffer) /\ deleted' \subseteq born'
<1>1. /\ InUse' = InUse /\ InDeleter' = InDeleter
      /\ releasing' = releasing /\ born' = born /\ life' # "open"
  BY DEF ReleaseSendBufferDeleter, PoolClear, ResetPool, arena,
         deleter, InUse, InDeleter, Held
<1>2. CASE ReleaseSendBufferDeleter
  BY <1>1, <1>2 DEF ReleaseSendBufferDeleter, InPool, BuffersPlaced,
     EachBufferOnce, BornSomewhere, ArenaTypeOK
<1>3. CASE pool' = <<>> /\ deleted \subseteq deleted' /\ deleted' \subseteq deleted \cup InPool
  <2>1. InPool' = {} /\ pool' \in Seq(Buffer)
    BY <1>3 DEF InPool, RangeOf
  <2>2. \A i, j \in DOMAIN pool' : pool'[i] = pool'[j] => i = j
    BY <1>3
  <2>3. QED
    BY <1>1, <1>3, <2>1, <2>2 DEF BuffersPlaced, EachBufferOnce, BornSomewhere, ArenaTypeOK
<1>4. CASE PoolClear \/ ResetPool
  BY <1>3, <1>4 DEF PoolClear, ResetPool, InPool
<1>5. QED
  BY <1>2, <1>4

\* A step that leaves pool, born, deleted and the deleters, and the same buffers
\* in use.
LEMMA SamePlaces ==
  ASSUME BuffersPlaced, InUse' = InUse, life' = "open" => life = "open",
         UNCHANGED <<pool, born, deleted, releasing>>
  PROVE  BuffersPlaced'
<1>1. InPool' = InPool /\ InDeleter' = InDeleter
  BY DEF InPool, InDeleter
<1>2. QED
  BY <1>1 DEF BuffersPlaced, EachBufferOnce, BornSomewhere

----------------------------------------------------------------------------
\* Bytes are written behind those that were written before.
LEMMA FillKeeps ==
  ASSUME ArenaTypeOK, NEW t \in Sender, NEW n \in 0 .. job[t].size,
         Fits(current[t], job[t].size), Fill(t, n),
         job[t].size \in 1 .. MaxSize, job[t].packet \in 1 .. MaxPackets
  PROVE  /\ current[t] \in Buffer
         /\ used' = [used EXCEPT ![current[t]] = used[current[t]] + job[t].size]
         /\ used' \in [Buffer -> 0 .. Capacity]
         /\ content' \in [Buffer -> [1 .. Capacity -> Byte]]
         /\ \A d \in Buffer : used[d] <= used'[d] /\
              \A k \in 1 .. used[d] : content'[d][k] = content[d][k]
         /\ \A i \in 1 .. n :
              content'[current[t]][used[current[t]] + i] = <<job[t].packet, i>>
<1> USE ArenaConstants
<1> DEFINE b == current[t]
           base == used[b]
           size == job[t].size
           p == job[t].packet
<1>1. b \in Buffer /\ base \in Nat /\ base + size <= Capacity /\ base + size \in Nat
  BY DEF ArenaTypeOK, Fits
<1>2. used' = [used EXCEPT ![b] = base + size]
  BY DEF Fill
<1>3. used' \in [Buffer -> 0 .. Capacity]
  BY <1>1, <1>2 DEF ArenaTypeOK
<1> DEFINE bytes == [i \in 1 .. Capacity |-> IF i - base \in 1 .. n THEN <<p, i - base>>
                                                                   ELSE content[b][i]]
<1>4. content' = [content EXCEPT ![b] = bytes]
  BY DEF Fill
<1>5. bytes \in [1 .. Capacity -> Byte]
  <2>1. \A i \in 1 .. Capacity : content[b][i] \in Byte
    BY <1>1 DEF ArenaTypeOK
  <2>2. \A k \in 1 .. n : <<p, k>> \in Byte
    BY DEF Byte
  <2>3. QED
    BY <2>1, <2>2
<1>6. content' \in [Buffer -> [1 .. Capacity -> Byte]]
  BY <1>1, <1>4, <1>5 DEF ArenaTypeOK
<1>7. content'[b] = bytes /\ \A d \in Buffer \ {b} : content'[d] = content[d]
  BY <1>1, <1>4 DEF ArenaTypeOK
<1>8. ASSUME NEW k \in 1 .. base PROVE bytes[k] = content[b][k]
  <2>1. k \in 1 .. Capacity /\ ~(k - base \in 1 .. n)
    BY <1>1
  <2>2. QED
    BY <2>1
<1>9. ASSUME NEW i \in 1 .. n PROVE bytes[base + i] = <<p, i>>
  <2>1. base + i \in 1 .. Capacity /\ (base + i) - base = i
    BY <1>1
  <2>2. QED
    BY <2>1
<1> HIDE DEF bytes
<1>10. \A d \in Buffer : used[d] <= used'[d] /\
         \A k \in 1 .. used[d] : content'[d][k] = content[d][k]
  BY <1>1, <1>2, <1>7, <1>8 DEF ArenaTypeOK
<1>11. QED
  BY <1>1, <1>2, <1>3, <1>6, <1>7, <1>9, <1>10

\* The contexts that are left, or a part of them sent, keep their bytes.
LEMMA BytesStay ==
  ASSUME LiveBytesKept, ArenaTypeOK, used' \in [Buffer -> 0 .. Capacity],
         \A c \in contexts' : \E d \in contexts :
            c.buffer = d.buffer /\ c.base = d.base /\ c.size = d.size /\ c.packet = d.packet,
         \A d \in contexts : used[d.buffer] <= used'[d.buffer] /\
            \A k \in 1 .. used[d.buffer] : content'[d.buffer][k] = content[d.buffer][k]
  PROVE  LiveBytesKept'
<1> SUFFICES ASSUME NEW c \in contexts'
             PROVE  /\ c.base + c.size <= used'[c.buffer]
                    /\ \A i \in 1 .. c.size : content'[c.buffer][c.base + i] = <<c.packet, i>>
  BY DEF LiveBytesKept
<1>1. PICK d \in contexts :
        c.buffer = d.buffer /\ c.base = d.base /\ c.size = d.size /\ c.packet = d.packet
  OBVIOUS
<1>2. /\ d.buffer \in Buffer /\ d.base \in Nat /\ d.size \in Nat
      /\ used[d.buffer] \in Nat /\ used'[d.buffer] \in Nat
      /\ used[d.buffer] <= used'[d.buffer] /\ d.base + d.size <= used[d.buffer]
  BY ArenaConstants DEF LiveBytesKept, ArenaTypeOK, SendContext
<1>3. ASSUME NEW i \in 1 .. d.size
      PROVE  content'[d.buffer][d.base + i] = <<d.packet, i>>
  <2>1. d.base + i \in 1 .. used[d.buffer]
    BY <1>2
  <2>2. content'[d.buffer][d.base + i] = content[d.buffer][d.base + i]
    BY <2>1
  <2>3. QED
    BY <2>2 DEF LiveBytesKept
<1>4. c.base + c.size <= used'[c.buffer]
  <2>1. d.base + d.size <= used'[d.buffer]
    BY <1>2
  <2>2. QED
    BY <1>1, <2>1
<1>5. ASSUME NEW i \in 1 .. c.size
      PROVE  content'[c.buffer][c.base + i] = <<c.packet, i>>
  BY <1>1, <1>3
<1>6. QED
  BY <1>4, <1>5

----------------------------------------------------------------------------
\* One lemma for each step: types, numbers, places and bytes.
LEMMA ArenaStarts ==
  ASSUME ArenaInit PROVE ArenaInv /\ FirstPacketInv
<1> USE ArenaConstants DEF ArenaInit
<1>1. PICK s \in [1 .. PoolSize -> Buffer] :
        (\A i, j \in DOMAIN s : s[i] = s[j] => i = j) /\ pool = s
  OBVIOUS
<1>2. pool \in Seq(Buffer)
  BY <1>1
<1>3. ArenaTypeOK
  <2>1. content \in [Buffer -> [1 .. Capacity -> Byte]]
    BY DEF Unwritten, Byte
  <2>2. job \in [Sender -> Job]
    BY DEF NoJob, Job
  <2>3. born \subseteq Buffer
    BY <1>1 DEF RangeOf
  <2>4. sent \in [1 .. MaxPackets -> Seq(Byte)]
    BY DEF Byte
  <2>5. /\ used \in [Buffer -> 0 .. Capacity] /\ packets \in 0 .. MaxPackets
        /\ current \in [Sender -> Buffer \cup {NoBuffer}]
        /\ releasing \in [Sender -> Buffer \cup {NoBuffer}]
    OBVIOUS
  <2>6. /\ life = "open" /\ deleted = {} /\ contexts = {} /\ returning = {} /\ atBase = {}
    OBVIOUS
  <2> HIDE DEF ArenaInit
  <2>7. QED
    BY <1>2, <2>1, <2>2, <2>3, <2>4, <2>5, <2>6 DEF ArenaTypeOK
<1>4. InUse = {} /\ InDeleter = {} /\ InPool = born
  BY DEF InUse, InDeleter, InPool, Held
<1>5. BuffersPlaced
  BY <1>1, <1>4 DEF BuffersPlaced, EachBufferOnce, BornSomewhere
<1>6. PacketsNumbered /\ LiveBytesKept
  BY DEF PacketsNumbered, LiveBytesKept, Writing, NoJob
<1>7. FirstPacketInv
  BY DEF FirstPacketInv, NothingOutYet, SentFromBase, FirstPacketIntact, Writing, NoJob
<1>8. QED
  BY <1>3, <1>5, <1>6, <1>7 DEF ArenaInv

LEMMA SendPacketKeeps ==
  ASSUME ArenaInv, FirstPacketInv, NEW t \in Sender, NEW size \in 1 .. MaxSize,
         SendPacket(t, size)
  PROVE  ArenaInv' /\ FirstPacketInv'
<1> USE ArenaConstants
<1> DEFINE j == [step |-> IF Fits(current[t], size) THEN "write" ELSE "swap",
                 size |-> size, packet |-> packets + 1]
<1>1. /\ packets' = packets + 1 /\ packets < MaxPackets
      /\ job' = [job EXCEPT ![t] = j]
      /\ UNCHANGED <<pool, life, born, deleted, used, content, current, contexts, releasing,
                     returning, sent, atBase>>
  BY DEF SendPacket, deleter, history
<1>2. packets \in Nat /\ packets' \in 1 .. MaxPackets
  BY <1>1 DEF ArenaInv, ArenaTypeOK
<1>3. j \in Job /\ j.packet = packets + 1 /\ j.size \in 1 .. MaxSize
      /\ j.step \in {"write", "swap"}
  BY <1>1, <1>2 DEF Job
<1> HIDE DEF j
<1>4. job' \in [Sender -> Job] /\ job'[t] = j /\ \A u \in Sender \ {t} : job'[u] = job[u]
  BY <1>1, <1>3 DEF ArenaInv, ArenaTypeOK
<1>5. ArenaTypeOK'
  BY <1>1, <1>2, <1>4 DEF ArenaInv, ArenaTypeOK
<1>6. BuffersPlaced'
  BY <1>1, SamePlaces DEF ArenaInv, InUse, Held
<1>7. PacketsNumbered'
  <2>1. /\ \A c \in contexts : c.packet <= packets /\ c.packet \in Nat
        /\ atBase \subseteq 1 .. packets
        /\ \A u \in Sender : Writing(u) => job[u].packet \in 1 .. packets
    BY DEF ArenaInv, PacketsNumbered, ArenaTypeOK, SendContext
  <2>2. 1 .. packets \subseteq 1 .. packets' /\ packets + 1 \notin 1 .. packets
    BY <1>1, <1>2
  <2>3. \A u \in Sender \ {t} : Writing(u)' <=> Writing(u)
    BY <1>4 DEF Writing
  <2>4. ASSUME NEW u \in Sender, Writing(u)'
        PROVE  /\ job'[u].packet \in 1 .. packets' /\ job'[u].size \in 1 .. MaxSize
               /\ job'[u].packet \notin atBase
               /\ \A c \in contexts : c.packet # job'[u].packet
               /\ \A v \in Sender \ {u} : Writing(v)' => job'[v].packet # job'[u].packet
    <3>1. CASE u = t
      <4>1. job'[u].packet = packets + 1
        BY <1>3, <1>4, <3>1
      <4>2. \A v \in Sender \ {u} : Writing(v)' => job'[v].packet \in 1 .. packets
        BY <1>4, <2>1, <2>3, <3>1
      <4>3. \A c \in contexts : c.packet # packets + 1
        BY <1>2, <2>1
      <4>4. QED
        BY <1>1, <1>2, <1>3, <1>4, <2>1, <2>2, <3>1, <4>1, <4>2, <4>3
    <3>2. CASE u # t
      <4>1. Writing(u) /\ job'[u] = job[u]
        BY <1>4, <2>3, <2>4, <3>2
      <4>2. job'[t].packet # job[u].packet
        BY <1>3, <1>4, <2>1, <2>2, <4>1
      <4>3. QED
        BY <1>4, <2>2, <2>3, <3>2, <4>1, <4>2 DEF ArenaInv, PacketsNumbered
    <3>3. QED
      BY <3>1, <3>2
  <2>5. \A c \in contexts : c.packet <= packets'
    BY <1>1, <1>2, <2>1
  <2>6. QED
    BY <1>1, <2>1, <2>2, <2>4, <2>5 DEF ArenaInv, PacketsNumbered
<1>8. LiveBytesKept'
  BY <1>1 DEF ArenaInv, LiveBytesKept
<1>9. FirstPacketInv'
  BY <1>1, <1>2, <1>3, <1>4 DEF FirstPacketInv, NothingOutYet, SentFromBase,
     FirstPacketIntact, Writing
<1>10. QED
  BY <1>5, <1>6, <1>7, <1>8, <1>9 DEF ArenaInv

\* A step that has changed nothing for a thread's job but perhaps its step, or
\* has ended it, keeps the packets apart.
LEMMA JobEnds ==
  ASSUME PacketsNumbered, NothingOutYet, NEW t \in Sender,
         job' \in [Sender -> Job],
         \A u \in Sender \ {t} : job'[u] = job[u],
         Writing(t)' => Writing(t) /\ job'[t].packet = job[t].packet /\ job'[t].size = job[t].size,
         UNCHANGED <<packets, contexts, sent, atBase>>
  PROVE  PacketsNumbered' /\ NothingOutYet'
<1>1. \A u \in Sender : Writing(u)' =>
        Writing(u) /\ job'[u].packet = job[u].packet /\ job'[u].size = job[u].size
  BY DEF Writing
<1>2. PacketsNumbered'
  BY <1>1 DEF PacketsNumbered
<1>3. NothingOutYet'
  BY <1>1 DEF NothingOutYet
<1>4. QED
  BY <1>2, <1>3

LEMMA SwapKeeps ==
  ASSUME ArenaInv, FirstPacketInv, NEW t \in Sender, SwapSendBuffer(t)
  PROVE  ArenaInv' /\ FirstPacketInv'
<1> USE DEF ArenaInv
<1>1. /\ UNCHANGED <<life, deleted, used, content, contexts, returning, packets, sent, atBase>>
      /\ job' = [job EXCEPT ![t].step = "write"]
      /\ job[t].step = "swap"
  BY DEF SwapSendBuffer, history, At
<1>2. /\ BuffersPlaced'
      /\ releasing' \in [Sender -> Buffer \cup {NoBuffer}]
      /\ pool' \in Seq(Buffer) /\ born' \subseteq Buffer /\ born \subseteq born'
      /\ current' \in [Sender -> Buffer \cup {NoBuffer}]
  BY SwapKeepsPlaces
<1>3. /\ job' \in [Sender -> Job]
      /\ \A u \in Sender \ {t} : job'[u] = job[u]
      /\ job'[t].packet = job[t].packet /\ job'[t].size = job[t].size
  BY <1>1 DEF ArenaTypeOK, Job
<1>4. ArenaTypeOK'
  BY <1>1, <1>2, <1>3 DEF ArenaTypeOK
<1>5. PacketsNumbered' /\ NothingOutYet'
  BY <1>1, <1>3, JobEnds DEF Writing, FirstPacketInv
<1>6. LiveBytesKept' /\ SentFromBase' /\ FirstPacketIntact'
  BY <1>1 DEF LiveBytesKept, FirstPacketInv, SentFromBase, FirstPacketIntact
<1>7. QED
  BY <1>2, <1>4, <1>5, <1>6 DEF FirstPacketInv

\* A thread at the end of SendPacket, with room in its buffer.
LEMMA AtWrite ==
  ASSUME ArenaInv, NEW t \in Sender, At(t, "write")
  PROVE  /\ Writing(t) /\ job[t].size \in 1 .. MaxSize /\ job[t].packet \in 1 .. packets
         /\ job[t].packet \in 1 .. MaxPackets
         /\ NoJob \in Job
         /\ releasing[t] = NoBuffer
<1>1. Writing(t)
  BY DEF At, Writing
<1>2. packets \in 0 .. MaxPackets
  BY DEF ArenaInv, ArenaTypeOK
<1>3. NoJob \in Job
  BY ArenaConstants DEF NoJob, Job
<1>4. job[t].size \in 1 .. MaxSize /\ job[t].packet \in 1 .. packets
  BY <1>1 DEF ArenaInv, PacketsNumbered
<1>5. QED
  BY <1>1, <1>2, <1>3, <1>4, ArenaConstants DEF At, Free

LEMMA WritePacketKeeps ==
  ASSUME ArenaInv, FirstPacketInv, NEW t \in Sender, WritePacket(t)
  PROVE  ArenaInv' /\ FirstPacketInv'
<1> DEFINE b == current[t]
           base == used[b]
           p == job[t].packet
           new == [buffer |-> b, base |-> base, size |-> job[t].size, offset |-> 0,
                   packet |-> p]
<1>1. /\ Fits(b, job[t].size) /\ Fill(t, job[t].size)
      /\ contexts' = contexts \cup {new}
      /\ atBase' = IF base = 0 THEN atBase \cup {p} ELSE atBase
      /\ job' = [job EXCEPT ![t] = NoJob]
      /\ UNCHANGED <<pool, life, born, deleted, current, releasing, returning, packets, sent>>
  BY DEF WritePacket, deleter
<1>2. /\ Writing(t) /\ job[t].size \in 1 .. MaxSize /\ p \in 1 .. packets
      /\ p \in 1 .. MaxPackets /\ NoJob \in Job
  BY AtWrite DEF WritePacket
<1>3. job[t].size \in 0 .. job[t].size
  BY <1>2
<1>4. /\ b \in Buffer
      /\ used' = [used EXCEPT ![b] = base + job[t].size]
      /\ used' \in [Buffer -> 0 .. Capacity]
      /\ content' \in [Buffer -> [1 .. Capacity -> Byte]]
      /\ \A d \in Buffer : used[d] <= used'[d] /\
           \A k \in 1 .. used[d] : content'[d][k] = content[d][k]
      /\ \A i \in 1 .. job[t].size : content'[b][base + i] = <<p, i>>
  <2>1. ArenaTypeOK
    BY DEF ArenaInv
  <2>2. QED
    BY <1>1, <1>2, <1>3, <2>1, FillKeeps
<1>5. base \in 0 .. Capacity /\ used'[b] = base + job[t].size
  BY <1>4 DEF ArenaInv, ArenaTypeOK
<1>6. new \in SendContext
  BY <1>2, <1>4, <1>5, ArenaConstants DEF SendContext
<1>7. /\ new.buffer = b /\ new.base = base /\ new.size = job[t].size
      /\ new.offset = 0 /\ new.packet = p
  OBVIOUS
<1>8. /\ job' \in [Sender -> Job] /\ ~Writing(t)'
      /\ \A u \in Sender \ {t} : job'[u] = job[u] /\ (Writing(u)' <=> Writing(u))
  BY <1>1, <1>2 DEF ArenaInv, ArenaTypeOK, Writing, NoJob
<1> HIDE DEF b, base, p, new
<1>9. atBase' \subseteq atBase \cup {p} /\ (p \in atBase' => base = 0) /\ atBase \subseteq atBase'
  <2>1. p \notin atBase
    BY <1>2 DEF ArenaInv, PacketsNumbered, p
  <2>2. QED
    BY <1>1, <2>1
<1>10. ArenaTypeOK'
  <2>1. atBase' \subseteq 1 .. MaxPackets
    BY <1>2, <1>9 DEF ArenaInv, ArenaTypeOK
  <2>2. QED
    BY <1>1, <1>4, <1>6, <1>8, <2>1 DEF ArenaInv, ArenaTypeOK
<1>11. BuffersPlaced'
  <2>1. InUse' = InUse
    BY <1>1, <1>7 DEF InUse, Held, b
  <2>2. QED
    BY <1>1, <2>1, SamePlaces DEF ArenaInv
<1>12. PacketsNumbered'
  <2>1. /\ \A c \in contexts : c.packet # p
        /\ \A u \in Sender \ {t} : Writing(u) => job[u].packet # p
    BY <1>2 DEF ArenaInv, PacketsNumbered, p
  <2>2. ASSUME NEW u \in Sender, Writing(u)'
        PROVE  /\ job'[u].packet \in 1 .. packets' /\ job'[u].size \in 1 .. MaxSize
               /\ job'[u].packet \notin atBase'
               /\ \A c \in contexts' : c.packet # job'[u].packet
               /\ \A v \in Sender \ {u} : Writing(v)' => job'[v].packet # job'[u].packet
    <3>1. u # t /\ Writing(u) /\ job'[u] = job[u]
      BY <1>8, <2>2
    <3>2. \A v \in Sender \ {u} : Writing(v)' => Writing(v) /\ job'[v] = job[v]
      BY <1>8
    <3>3. \A c \in contexts' : c.packet # job[u].packet
      BY <1>1, <1>7, <2>1, <3>1 DEF ArenaInv, PacketsNumbered
    <3>4. job[u].packet \notin atBase'
      BY <1>9, <2>1, <3>1 DEF ArenaInv, PacketsNumbered
    <3>5. QED
      BY <1>1, <3>1, <3>2, <3>3, <3>4 DEF ArenaInv, PacketsNumbered
  <2>3. \A c \in contexts' : c.packet <= packets'
    BY <1>1, <1>2, <1>7 DEF ArenaInv, PacketsNumbered
  <2>4. \A c, d \in contexts' : c.packet = d.packet => c = d
    BY <1>1, <1>7, <2>1 DEF ArenaInv, PacketsNumbered
  <2>5. atBase' \subseteq 1 .. packets'
    BY <1>1, <1>2, <1>9 DEF ArenaInv, PacketsNumbered
  <2>6. QED
    BY <2>2, <2>3, <2>4, <2>5 DEF PacketsNumbered
<1>13. LiveBytesKept'
  <2>1. ASSUME NEW c \in contexts
        PROVE  /\ c.base + c.size <= used'[c.buffer]
               /\ \A i \in 1 .. c.size : content'[c.buffer][c.base + i] = <<c.packet, i>>
    <3>0. /\ c.buffer \in Buffer /\ c.base \in Nat /\ c.size \in Nat
          /\ used[c.buffer] \in Nat
      BY ArenaConstants DEF ArenaInv, ArenaTypeOK, SendContext
    <3>1. /\ c.buffer \in Buffer /\ c.base \in Nat /\ c.size \in Nat
          /\ used[c.buffer] \in Nat /\ used'[c.buffer] \in Nat
          /\ used[c.buffer] <= used'[c.buffer] /\ c.base + c.size <= used[c.buffer]
      BY <1>4, <3>0 DEF ArenaInv, LiveBytesKept
    <3>2. ASSUME NEW i \in 1 .. c.size
          PROVE  content'[c.buffer][c.base + i] = <<c.packet, i>>
      <4>1. c.base + i \in 1 .. used[c.buffer]
        BY <3>1
      <4>2. content'[c.buffer][c.base + i] = content[c.buffer][c.base + i]
        BY <1>4, <3>1, <4>1
      <4>3. QED
        BY <4>2 DEF ArenaInv, LiveBytesKept
    <3>3. QED
      BY <3>1, <3>2
  <2>2. /\ new.base + new.size <= used'[new.buffer]
        /\ \A i \in 1 .. new.size : content'[new.buffer][new.base + i] = <<new.packet, i>>
    BY <1>2, <1>4, <1>5, <1>7
  <2>3. QED
    BY <1>1, <2>1, <2>2 DEF LiveBytesKept
<1>14. FirstPacketInv'
  <2>1. sent[p] = <<>>
    BY <1>2 DEF FirstPacketInv, NothingOutYet, p
  <2>2. NothingOutYet'
    BY <1>1, <1>8 DEF FirstPacketInv, NothingOutYet
  <2>3. SentFromBase'
    <3>1. \A c \in contexts : c.packet # p
      BY <1>2 DEF ArenaInv, PacketsNumbered, p
    <3>2. ASSUME NEW c \in contexts, c.packet \in atBase'
          PROVE  c.base = 0 /\ Len(sent[c.packet]) = c.offset
      BY <1>9, <3>1, <3>2 DEF FirstPacketInv, SentFromBase
    <3>3. ASSUME new.packet \in atBase'
          PROVE  new.base = 0 /\ Len(sent[new.packet]) = new.offset
      BY <1>7, <1>9, <2>1, <3>3
    <3>4. QED
      BY <1>1, <3>2, <3>3 DEF SentFromBase
  <2>4. FirstPacketIntact'
    BY <1>1, <1>9, <2>1 DEF FirstPacketInv, FirstPacketIntact
  <2>5. QED
    BY <2>2, <2>3, <2>4 DEF FirstPacketInv
<1>15. QED
  BY <1>10, <1>11, <1>12, <1>13, <1>14 DEF ArenaInv

LEMMA WriteGivenUpKeeps ==
  ASSUME ArenaInv, FirstPacketInv, NEW t \in Sender,
         WriteFails(t) \/ TooLarge(t)
  PROVE  ArenaInv' /\ FirstPacketInv'
<1>1. /\ UNCHANGED <<pool, life, born, deleted, current, contexts, releasing, returning,
                     packets, sent, atBase>>
      /\ job' = [job EXCEPT ![t] = NoJob]
  BY DEF WriteFails, TooLarge, deleter, history
<1>2. /\ Writing(t) /\ job[t].size \in 1 .. MaxSize /\ job[t].packet \in 1 .. MaxPackets
      /\ NoJob \in Job
  BY AtWrite DEF WriteFails, TooLarge
<1>3. /\ job' \in [Sender -> Job] /\ ~Writing(t)'
      /\ \A u \in Sender \ {t} : job'[u] = job[u]
  BY <1>1, <1>2 DEF ArenaInv, ArenaTypeOK, Writing, NoJob
<1>4. /\ used' \in [Buffer -> 0 .. Capacity]
      /\ content' \in [Buffer -> [1 .. Capacity -> Byte]]
      /\ \A d \in Buffer : used[d] <= used'[d] /\
           \A k \in 1 .. used[d] : content'[d][k] = content[d][k]
  <2>1. CASE WriteFails(t)
    <3>1. PICK n \in 1 .. job[t].size - 1 : Fill(t, n)
      BY <2>1 DEF WriteFails
    <3>2. n \in 0 .. job[t].size /\ Fits(current[t], job[t].size) /\ ArenaTypeOK
      BY <1>2, <2>1 DEF WriteFails, ArenaInv
    <3>3. QED
      BY <1>2, <3>1, <3>2, FillKeeps
  <2>2. CASE TooLarge(t)
    BY <2>2, ArenaConstants DEF TooLarge, ArenaInv, ArenaTypeOK
  <2>3. QED
    BY <2>1, <2>2
<1>5. ArenaTypeOK'
  BY <1>1, <1>3, <1>4 DEF ArenaInv, ArenaTypeOK
<1>6. BuffersPlaced'
  BY <1>1, SamePlaces DEF ArenaInv, InUse, Held
<1>7. PacketsNumbered' /\ NothingOutYet'
  BY <1>1, <1>3, JobEnds DEF ArenaInv, FirstPacketInv
<1>8. LiveBytesKept'
  <2>1. \A d \in contexts : d.buffer \in Buffer
    BY DEF ArenaInv, ArenaTypeOK, SendContext
  <2>2. QED
    BY <1>1, <1>4, <2>1, BytesStay DEF ArenaInv
<1>9. SentFromBase' /\ FirstPacketIntact'
  BY <1>1 DEF FirstPacketInv, SentFromBase, FirstPacketIntact
<1>10. QED
  BY <1>5, <1>6, <1>7, <1>8, <1>9 DEF ArenaInv, FirstPacketInv

\* What goes out with one sendmsg: bytes of the buffer from where the context
\* stands.
LEMMA GatheredBytes ==
  ASSUME ArenaInv, NEW c \in contexts, NEW n \in 1 .. c.size - c.offset
  PROVE  /\ Gathered(c, n) \in Seq(Byte)
         /\ Len(Gathered(c, n)) = n
         /\ \A i \in 1 .. n : Gathered(c, n)[i] = content[c.buffer][c.offset + i]
<1>1. /\ c.buffer \in Buffer /\ c.base \in Nat /\ c.size \in Nat /\ c.offset \in Nat
      /\ used[c.buffer] \in 0 .. Capacity /\ c.base + c.size <= used[c.buffer]
  BY ArenaConstants DEF ArenaInv, LiveBytesKept, ArenaTypeOK, SendContext
<1>2. \A i \in 1 .. n : c.offset + i \in 1 .. Capacity
  BY <1>1, ArenaConstants
<1>3. \A i \in 1 .. n : content[c.buffer][c.offset + i] \in Byte
  BY <1>1, <1>2 DEF ArenaInv, ArenaTypeOK
<1>4. n \in Nat
  OBVIOUS
<1>5. QED
  BY <1>3, <1>4 DEF Gathered

\* A context goes, or stands further on.
LEMMA ContextMoves ==
  ASSUME ArenaInv, NEW c \in contexts,
         NEW d \in SendContext,
         d.buffer = c.buffer, d.base = c.base, d.size = c.size, d.packet = c.packet,
         \/ contexts' = contexts \ {c}
         \/ contexts' = (contexts \ {c}) \cup {d},
         UNCHANGED <<packets, job, atBase, used, content>>
  PROVE  contexts' \subseteq SendContext /\ PacketsNumbered' /\ LiveBytesKept'
<1>1. ASSUME NEW x \in contexts'
      PROVE  \E y \in contexts : /\ x.buffer = y.buffer /\ x.base = y.base
                                 /\ x.size = y.size /\ x.packet = y.packet
  <2>1. CASE x \in contexts
    BY <2>1
  <2>2. CASE x = d
    BY <2>2
  <2>3. QED
    BY <2>1, <2>2
<1>2. contexts' \subseteq SendContext
  BY DEF ArenaInv, ArenaTypeOK
<1>3. PacketsNumbered'
  <2>1. \A x, y \in contexts' : x.packet = y.packet => x = y
    BY DEF ArenaInv, PacketsNumbered
  <2>2. \A x \in contexts' : x.packet <= packets
    BY <1>1 DEF ArenaInv, PacketsNumbered
  <2>3. \A t \in Sender : Writing(t) => \A x \in contexts' : x.packet # job[t].packet
    BY <1>1 DEF ArenaInv, PacketsNumbered
  <2>4. QED
    BY <2>1, <2>2, <2>3 DEF ArenaInv, PacketsNumbered, Writing
<1>4. LiveBytesKept'
  <2>1. /\ LiveBytesKept /\ ArenaTypeOK /\ used' \in [Buffer -> 0 .. Capacity]
    BY DEF ArenaInv, ArenaTypeOK
  <2>2. \A y \in contexts : used[y.buffer] <= used'[y.buffer] /\
          \A k \in 1 .. used[y.buffer] : content'[y.buffer][k] = content[y.buffer][k]
    BY <2>1, ArenaConstants DEF ArenaTypeOK, SendContext
  <2>3. QED
    BY <1>1, <2>1, <2>2, BytesStay
<1>5. QED
  BY <1>2, <1>3, <1>4

\* What the pointers are to when a context goes or stands further on.
LEMMA HeldWithout ==
  ASSUME NEW c \in contexts
  PROVE  /\ Held(current, contexts \ {c}) \subseteq Held(current, contexts)
         /\ Held(current, contexts) \subseteq
              Held(current, contexts \ {c}) \cup {c.buffer}
         /\ ArenaTypeOK => c.buffer \in InUse
BY ArenaConstants DEF Held, InUse, ArenaTypeOK, SendContext

LEMMA TransferKeeps ==
  ASSUME ArenaInv, FirstPacketInv, NEW t \in Sender, NEW c \in contexts,
         NEW n \in 1 .. c.size - c.offset, Transfer(t, c, n)
  PROVE  ArenaInv' /\ FirstPacketInv'
<1> DEFINE d == Sent(c, n)
           g == Gathered(c, n)
<1>1. /\ releasing[t] = NoBuffer
      /\ sent' = [sent EXCEPT ![c.packet] = sent[c.packet] \o g]
      /\ UNCHANGED <<pool, life, born, deleted, used, content, current, job, returning,
                     packets, atBase>>
      /\ \/ /\ contexts' = contexts \ {c}
            /\ LetGo(t, c.buffer, current, contexts \ {c})
         \/ /\ contexts' = (contexts \ {c}) \cup {d}
            /\ releasing' = releasing
  BY DEF Transfer, At, Free, arena
<1>2. c \in SendContext
  BY DEF ArenaInv, ArenaTypeOK
<1>3. /\ d \in SendContext
      /\ d.buffer = c.buffer /\ d.base = c.base /\ d.size = c.size /\ d.packet = c.packet
      /\ d.offset = c.offset + n
  BY <1>2, ArenaConstants DEF Sent, SendContext
<1>4. /\ g \in Seq(Byte) /\ Len(g) = n
      /\ \A i \in 1 .. n : g[i] = content[c.buffer][c.offset + i]
  BY GatheredBytes
<1> HIDE DEF d, g
<1>5. contexts' \subseteq SendContext /\ PacketsNumbered' /\ LiveBytesKept'
  BY <1>1, <1>3, ContextMoves
<1>6. BuffersPlaced' /\ releasing' \in [Sender -> Buffer \cup {NoBuffer}]
  <2>1. CASE contexts' = contexts \ {c} /\ LetGo(t, c.buffer, current, contexts \ {c})
    BY <1>1, <2>1, HeldWithout, DropKeepsPlaces DEF ArenaInv
  <2>2. CASE contexts' = (contexts \ {c}) \cup {d} /\ releasing' = releasing
    <3>1. InUse' = InUse
      BY <1>1, <1>3, <2>2 DEF InUse, Held
    <3>2. QED
      BY <1>1, <2>2, <3>1, SamePlaces DEF ArenaInv, ArenaTypeOK
  <2>3. QED
    BY <1>1, <2>1, <2>2
<1>7. /\ c.packet \in 1 .. MaxPackets /\ sent[c.packet] \in Seq(Byte)
      /\ sent[c.packet] \o g \in Seq(Byte)
  BY <1>2, <1>4 DEF ArenaInv, ArenaTypeOK, SendContext
<1>8. /\ sent' \in [1 .. MaxPackets -> Seq(Byte)]
      /\ sent'[c.packet] = sent[c.packet] \o g
      /\ \A p \in 1 .. MaxPackets : p # c.packet => sent'[p] = sent[p]
  BY <1>1, <1>7 DEF ArenaInv, ArenaTypeOK
<1>9. ArenaTypeOK'
  BY <1>1, <1>5, <1>6, <1>8 DEF ArenaInv, ArenaTypeOK
<1>10. NothingOutYet'
  <2>1. c.packet \in 1 .. packets
    BY <1>2 DEF ArenaInv, PacketsNumbered, SendContext, ArenaTypeOK
  <2>2. \A u \in Sender : Writing(u) =>
          job[u].packet # c.packet /\ job[u].packet \in 1 .. MaxPackets
    <3>1. packets \in 0 .. MaxPackets
      BY DEF ArenaInv, ArenaTypeOK
    <3>2. 1 .. packets \subseteq 1 .. MaxPackets
      BY <3>1, ArenaConstants
    <3>3. QED
      BY <3>2 DEF ArenaInv, PacketsNumbered
  <2>3. \A p \in 1 .. MaxPackets : p > packets => p # c.packet
    BY <2>1 DEF ArenaInv, ArenaTypeOK
  <2>4. QED
    BY <1>1, <1>8, <2>2, <2>3 DEF FirstPacketInv, NothingOutYet, Writing
<1>11. SentFromBase'
  <2>1. ASSUME NEW x \in contexts', x.packet \in atBase
        PROVE  x.base = 0 /\ Len(sent'[x.packet]) = x.offset
    <3>1. CASE x \in contexts /\ x # c
      <4>1. x.packet # c.packet /\ x.packet \in 1 .. MaxPackets
        BY <3>1 DEF ArenaInv, PacketsNumbered, ArenaTypeOK, SendContext
      <4>2. QED
        BY <1>8, <2>1, <3>1, <4>1 DEF FirstPacketInv, SentFromBase
    <3>2. CASE x = d
      <4>1. c.base = 0 /\ Len(sent[c.packet]) = c.offset
        BY <1>3, <2>1, <3>2 DEF FirstPacketInv, SentFromBase
      <4>2. Len(sent'[c.packet]) = Len(sent[c.packet]) + n
        <5>1. Len(sent[c.packet] \o g) = Len(sent[c.packet]) + Len(g)
          BY <1>4, <1>7
        <5>2. QED
          BY <1>4, <1>8, <5>1
      <4>3. QED
        BY <1>3, <3>2, <4>1, <4>2
    <3>3. QED
      BY <1>1, <3>1, <3>2
  <2>2. QED
    BY <1>1, <2>1 DEF SentFromBase
<1>12. FirstPacketIntact'
  <2>1. ASSUME NEW p \in atBase, NEW i \in DOMAIN sent'[p]
        PROVE  sent'[p][i] = <<p, i>>
    <3>1. p \in 1 .. MaxPackets
      BY DEF ArenaInv, ArenaTypeOK
    <3>2. CASE p # c.packet
      BY <1>8, <2>1, <3>1, <3>2 DEF FirstPacketInv, FirstPacketIntact
    <3>3. CASE p = c.packet
      <4> DEFINE s == sent[p]
      <4>1. /\ c.base = 0 /\ Len(s) = c.offset /\ c.offset \in Nat /\ c.size \in Nat
            /\ s \in Seq(Byte)
        BY <1>2, <1>7, <3>3, ArenaConstants DEF FirstPacketInv, SentFromBase, SendContext
      <4>2. sent'[p] = s \o g
        BY <1>8, <3>3
      <4>3. \A k \in 1 .. Len(s) : s[k] = <<p, k>>
        BY <4>1 DEF FirstPacketInv, FirstPacketIntact
      <4> HIDE DEF s
      <4>4. i \in 1 .. Len(s) + n
        BY <1>4, <2>1, <4>1, <4>2
      <4>5. CASE i \in 1 .. Len(s)
        BY <1>4, <4>1, <4>2, <4>3, <4>5
      <4>6. CASE i \notin 1 .. Len(s)
        <5>1. i - Len(s) \in 1 .. n /\ i \in 1 .. c.size /\ c.offset + (i - Len(s)) = i
          BY <4>1, <4>4, <4>6
        <5>2. (s \o g)[i] = g[i - Len(s)]
          BY <1>4, <4>1, <4>4, <4>6
        <5>3. g[i - Len(s)] = content[c.buffer][i]
          BY <1>4, <5>1
        <5>4. content[c.buffer][c.base + i] = <<c.packet, i>> /\ c.base + i = i
          <6>1. content[c.buffer][c.base + i] = <<c.packet, i>>
            BY <5>1 DEF ArenaInv, LiveBytesKept
          <6>2. c.base + i = i
            BY <4>1, <5>1
          <6>3. QED
            BY <6>1, <6>2
        <5>5. QED
          BY <3>3, <4>2, <5>2, <5>3, <5>4
      <4>7. QED
        BY <4>5, <4>6
    <3>4. QED
      BY <3>2, <3>3
  <2>2. QED
    BY <1>1, <2>1 DEF FirstPacketIntact
<1>13. QED
  BY <1>5, <1>6, <1>9, <1>10, <1>11, <1>12 DEF ArenaInv, FirstPacketInv

LEMMA DiscardKeeps ==
  ASSUME ArenaInv, FirstPacketInv, NEW t \in Sender, NEW c \in contexts,
         Discard(t, c)
  PROVE  ArenaInv' /\ FirstPacketInv'
<1>1. /\ releasing[t] = NoBuffer
      /\ contexts' = contexts \ {c}
      /\ LetGo(t, c.buffer, current, contexts \ {c})
      /\ UNCHANGED <<pool, life, born, deleted, used, content, current, job, returning,
                     packets, sent, atBase>>
  BY DEF Discard, At, Free, arena, history
<1>2. c \in SendContext
  BY DEF ArenaInv, ArenaTypeOK
<1>3. contexts' \subseteq SendContext /\ PacketsNumbered' /\ LiveBytesKept'
  BY <1>1, <1>2, ContextMoves
<1>4. BuffersPlaced' /\ releasing' \in [Sender -> Buffer \cup {NoBuffer}]
  BY <1>1, HeldWithout, DropKeepsPlaces DEF ArenaInv
<1>5. ArenaTypeOK'
  BY <1>1, <1>3, <1>4 DEF ArenaInv, ArenaTypeOK
<1>6. FirstPacketInv'
  BY <1>1 DEF FirstPacketInv, NothingOutYet, SentFromBase, FirstPacketIntact, Writing
<1>7. QED
  BY <1>3, <1>4, <1>5, <1>6 DEF ArenaInv

LEMMA ExitKeeps ==
  ASSUME ArenaInv, FirstPacketInv, NEW t \in Sender, ThreadSendBufferClear(t)
  PROVE  ArenaInv' /\ FirstPacketInv'
<1> DEFINE cur == [current EXCEPT ![t] = NoBuffer]
<1>1. /\ releasing[t] = NoBuffer
      /\ current' = cur
      /\ IF current[t] = NoBuffer THEN releasing' = releasing
                                  ELSE LetGo(t, current[t], cur, contexts)
      /\ job' = [job EXCEPT ![t].step = "exited"]
      /\ UNCHANGED <<pool, life, born, deleted, used, content, contexts, returning, packets,
                     sent, atBase>>
  BY DEF ThreadSendBufferClear, At, Free, history
<1>2. /\ job' \in [Sender -> Job] /\ ~Writing(t)'
      /\ \A u \in Sender \ {t} : job'[u] = job[u]
  BY <1>1 DEF ArenaInv, ArenaTypeOK, Job, Writing
<1>3. /\ cur \in [Sender -> Buffer \cup {NoBuffer}] /\ cur[t] = NoBuffer
      /\ \A u \in Sender \ {t} : cur[u] = current[u]
  BY DEF ArenaInv, ArenaTypeOK
<1>4. BuffersPlaced' /\ releasing' \in [Sender -> Buffer \cup {NoBuffer}]
  <2>1. CASE current[t] = NoBuffer
    <3>1. cur = current
      BY <1>3, <2>1 DEF ArenaInv, ArenaTypeOK
    <3>2. InUse' = InUse
      BY <1>1, <3>1 DEF InUse, Held
    <3>3. QED
      BY <1>1, <2>1, <3>2, SamePlaces DEF ArenaInv, ArenaTypeOK
  <2>2. CASE current[t] # NoBuffer
    <3>1. current[t] \in InUse
      BY <2>2 DEF InUse, Held
    <3> HIDE DEF cur
    <3>2. /\ Held(cur, contexts) \subseteq Held(current, contexts) \cup {NoBuffer}
          /\ Held(current, contexts) \subseteq
               Held(cur, contexts) \cup {current[t], NoBuffer}
      BY <1>3 DEF Held
    <3>3. QED
      BY <1>1, <2>2, <3>1, <3>2, DropKeepsPlaces DEF ArenaInv
  <2>3. QED
    BY <2>1, <2>2
<1>5. ArenaTypeOK'
  BY <1>1, <1>2, <1>3, <1>4 DEF ArenaInv, ArenaTypeOK
<1>6. PacketsNumbered' /\ NothingOutYet'
  BY <1>1, <1>2, JobEnds DEF ArenaInv, FirstPacketInv
<1>7. LiveBytesKept' /\ SentFromBase' /\ FirstPacketIntact'
  BY <1>1 DEF ArenaInv, LiveBytesKept, FirstPacketInv, SentFromBase, FirstPacketIntact
<1>8. QED
  BY <1>4, <1>5, <1>6, <1>7 DEF ArenaInv, FirstPacketInv

\* The deleters, and the end of the pool.
LEMMA DeleterKeeps ==
  ASSUME ArenaInv, FirstPacketInv, NEW t \in Sender,
         ReadFlag(t) \/ Push(t)
  PROVE  ArenaInv' /\ FirstPacketInv'
<1>1. UNCHANGED <<born, content, current, job, packets, contexts, sent, atBase>>
  BY DEF ReadFlag, Push, arena, history
<1>2. /\ BuffersPlaced' /\ releasing' \in [Sender -> Buffer \cup {NoBuffer}]
      /\ pool' \in Seq(Buffer) /\ deleted' \subseteq born'
  BY DeleterKeepsPlaces DEF ArenaInv
<1>3. releasing[t] \in Buffer /\ releasing[t] \in InDeleter
  BY DEF ReadFlag, Push, Releasing, InDeleter, ArenaInv, ArenaTypeOK
<1>4. used' = used \/ used' = [used EXCEPT ![releasing[t]] = 0]
  BY DEF ReadFlag, Push, arena
<1>5. /\ life' \in {"open", "flagged", "emptied", "gone", "crash"}
      /\ returning' \subseteq Sender
  BY DEF ReadFlag, Push, deleter, ArenaInv, ArenaTypeOK
<1>6. used' \in [Buffer -> 0 .. Capacity]
  BY <1>3, <1>4, ArenaConstants DEF ArenaInv, ArenaTypeOK
<1>7. ArenaTypeOK'
  BY <1>1, <1>2, <1>5, <1>6 DEF ArenaInv, ArenaTypeOK
<1>8. LiveBytesKept'
  <2>1. ASSUME NEW c \in contexts PROVE c.buffer \in Buffer /\ c.buffer # releasing[t]
    <3>1. c.buffer \in Buffer /\ c.buffer \in InUse
      BY ArenaConstants DEF ArenaInv, ArenaTypeOK, SendContext, InUse, Held
    <3>2. QED
      BY <1>3, <3>1 DEF ArenaInv, BuffersPlaced, EachBufferOnce
  <2>2. \A c \in contexts : used'[c.buffer] = used[c.buffer]
    BY <1>3, <1>4, <2>1 DEF ArenaInv, ArenaTypeOK
  <2>3. QED
    BY <1>1, <2>2 DEF ArenaInv, LiveBytesKept
<1>9. PacketsNumbered' /\ FirstPacketInv'
  BY <1>1 DEF ArenaInv, PacketsNumbered, FirstPacketInv, NothingOutYet, SentFromBase,
     FirstPacketIntact, Writing
<1>10. QED
  BY <1>2, <1>7, <1>8, <1>9 DEF ArenaInv

LEMMA ClearKeeps ==
  ASSUME ArenaInv, FirstPacketInv,
         \/ ReleaseSendBufferDeleter \/ PoolClear \/ ResetPool
         \/ \E t \in Sender : SwapCrashes(t)
         \/ UNCHANGED arenaVars
  PROVE  ArenaInv' /\ FirstPacketInv'
<1>1. /\ UNCHANGED <<born, used, content, current, job, packets, contexts, releasing,
                     returning, sent, atBase>>
      /\ life' \in {"open", "flagged", "emptied", "gone", "crash"}
  BY DEF ReleaseSendBufferDeleter, PoolClear, ResetPool, SwapCrashes,
         arena, deleter, history, arenaVars, ArenaInv, ArenaTypeOK
<1>2. BuffersPlaced' /\ pool' \in Seq(Buffer) /\ deleted' \subseteq born'
  <2>1. CASE ReleaseSendBufferDeleter \/ PoolClear \/ ResetPool
    BY <2>1, ClearKeepsPlaces DEF ArenaInv
  <2>2. CASE UNCHANGED <<pool, deleted>> /\ (life' = "open" => life = "open")
    BY <1>1, <2>2, SamePlaces DEF ArenaInv, ArenaTypeOK, InUse, Held
  <2>3. QED
    BY <2>1, <2>2 DEF SwapCrashes, arenaVars
<1>3. ArenaTypeOK'
  BY <1>1, <1>2 DEF ArenaInv, ArenaTypeOK
<1>4. PacketsNumbered' /\ LiveBytesKept' /\ FirstPacketInv'
  BY <1>1 DEF ArenaInv, PacketsNumbered, LiveBytesKept, FirstPacketInv, NothingOutYet,
     SentFromBase, FirstPacketIntact, Writing
<1>5. QED
  BY <1>2, <1>3, <1>4 DEF ArenaInv

\* Every step keeps the invariant.
LEMMA ArenaStep ==
  ASSUME ArenaInv, FirstPacketInv, [ArenaNext]_arenaVars
  PROVE  ArenaInv' /\ FirstPacketInv'
<1>1. CASE ArenaNext
  BY <1>1, SendPacketKeeps, SwapKeeps, WritePacketKeeps, WriteGivenUpKeeps, TransferKeeps,
     DiscardKeeps, ExitKeeps, DeleterKeeps, ClearKeeps DEF ArenaNext
<1>2. CASE UNCHANGED arenaVars
  BY <1>2, ClearKeeps
<1>3. QED
  BY <1>1, <1>2

LEMMA ArenaInvHolds == ArenaSpec => [](ArenaInv /\ FirstPacketInv)
<1>1. ArenaInit => ArenaInv /\ FirstPacketInv
  BY ArenaStarts
<1>2. (ArenaInv /\ FirstPacketInv) /\ [ArenaNext]_arenaVars => (ArenaInv /\ FirstPacketInv)'
  BY ArenaStep
<1>3. QED
  BY <1>1, <1>2, PTL DEF ArenaSpec

\* Every variable of the send buffers keeps its type.
THEOREM ArenaTypeInvariant == ArenaSpec => []ArenaTypeOK
<1>1. ArenaInv => ArenaTypeOK
  BY DEF ArenaInv
<1>2. QED
  BY <1>1, ArenaInvHolds, PTL

\* A buffer is in the pool, in use, with one deleter or freed, never two of
\* these, and none is lost before SendBufferPoolClear begins.
THEOREM EachBufferOnceHolds == ArenaSpec => []EachBufferOnce
<1>1. ArenaInv => EachBufferOnce
  BY DEF ArenaInv, BuffersPlaced
<1>2. QED
  BY <1>1, ArenaInvHolds, PTL

\* The bytes that were written for a packet are in its buffer as long as it waits
\* to be sent.
THEOREM LiveBytesKeptHolds == ArenaSpec => []LiveBytesKept
<1>1. ArenaInv => LiveBytesKept
  BY DEF ArenaInv
<1>2. QED
  BY <1>1, ArenaInvHolds, PTL

\* What goes out for a packet that was written to its buffer's start is that
\* packet, from its first byte on.
THEOREM FirstPacketIntactHolds ==
  ArenaSpec => []FirstPacketIntact
<1>1. FirstPacketInv => FirstPacketIntact
  BY DEF FirstPacketInv
<1>2. QED
  BY <1>1, ArenaInvHolds, PTL
=============================================================================
