--------------------------- MODULE SpinLockProofs ---------------------------
(***************************************************************************)
(* engine::Lock excludes and counts, for any number of threads, any ids and *)
(* any depth of nesting, through the fast path, re-entry and the slow path, *)
(* until a thread takes the lock without being its only owner.  The model   *)
(* records that in `trespassed`; Exclusion and CountedByOwner say without   *)
(* it what the lock is for, and the code breaks both.                       *)
(***************************************************************************)
EXTENDS SpinLock, TLAPS

\* The places where a thread is on its way to one more guard.
Entering == {"check", "reenter", "spin", "block", "retry", "store"}

\* Room is left for the guard a thread is about to be inside of.
DepthBounded == \A t \in Thread : pc[t] \in Entering => depth[t] < MaxDepth

TypeInv == TypeOK /\ DepthBounded

\* The thread has the lock: it is inside a guard or on its way in or out.
HasLock(t) == depth[t] > 0 \/ pc[t] \in {"reenter", "store", "unlock", "sub", "clear"}

\* What a thread's place says of the owner and of the count.  A thread that
\* finds its own id without having the lock has the id of a free lock.
PlaceInv(t) ==
  /\ HasLock(t) => owner = Id[t] /\ ~NamedLikeNobody(t)
  /\ ~HasLock(t) /\ owner = Id[t] => NamedLikeNobody(t)
  /\ pc[t] = "reenter" => depth[t] > 0
  /\ pc[t] \in {"spin", "block", "retry", "store", "clear"} => depth[t] = 0
  /\ pc[t] \in {"idle", "check", "reenter"} /\ depth[t] > 0 => recursion = depth[t]
  /\ pc[t] \in {"unlock", "sub"} => recursion = depth[t] + 1

LockInv == ~trespassed => \A t \in Thread : PlaceInv(t)

\* Every variable of the lock keeps its type, and no guard is entered beyond
\* the bound, whatever the ids and the contention.
LEMMA TypeInvHolds == SafeSpec => []TypeInv
<1> USE IdAssumption, DepthAssumption, NoThreadAssumption DEF history
<1>1. Init => TypeInv
  <2> SUFFICES ASSUME Init PROVE TypeInv
    OBVIOUS
  <2>1. trespassed \in BOOLEAN
    BY Zenon DEF Init
  <2>2. QED
    BY <2>1 DEF Init, TypeInv, TypeOK, DepthBounded, Places,
                EMPTY_OWNER_THREAD_ID, Entering
<1>2. TypeInv /\ [Next]_vars => TypeInv'
  <2> SUFFICES ASSUME TypeInv, [Next]_vars PROVE TypeInv'
    OBVIOUS
  <2> USE DEF TypeInv, TypeOK, DepthBounded, Places, EMPTY_OWNER_THREAD_ID,
              Entering
  <2>1. ASSUME NEW t \in Thread, WriteLock(t) PROVE TypeInv'
    BY <2>1 DEF WriteLock, Goto
  <2>2. ASSUME NEW t \in Thread, CheckOwner(t) PROVE TypeInv'
    BY <2>2 DEF CheckOwner, Goto, Trespass
  <2>3. ASSUME NEW t \in Thread, Reenter(t) PROVE TypeInv'
    <3>1. recursion' \in 0 .. CounterMax
      BY <2>3 DEF Reenter
    <3>2. depth' \in [Thread -> 0 .. MaxDepth]
      BY <2>3 DEF Reenter, Enter
    <3>3. QED
      BY <2>3, <3>1, <3>2 DEF Reenter, Goto, Enter
  <2>4. ASSUME NEW t \in Thread, SpinSucceeds(t) PROVE TypeInv'
    BY <2>4 DEF SpinSucceeds, Goto, Trespass
  <2>5. ASSUME NEW t \in Thread, SpinFails(t) PROVE TypeInv'
    BY <2>5 DEF SpinFails
  <2>6. ASSUME NEW t \in Thread, GiveUp(t) PROVE TypeInv'
    BY <2>6 DEF GiveUp, Goto
  <2>6a. ASSUME NEW t \in Thread, LockMutex(t) PROVE TypeInv'
    BY <2>6a DEF LockMutex, Goto
  <2>7. ASSUME NEW t \in Thread, RetrySucceeds(t) PROVE TypeInv'
    BY <2>7 DEF RetrySucceeds, Goto, Trespass
  <2>8. ASSUME NEW t \in Thread, RetryFails(t) PROVE TypeInv'
    BY <2>8 DEF RetryFails
  <2>9. ASSUME NEW t \in Thread, StoreRecursion(t) PROVE TypeInv'
    <3>1. recursion' \in 0 .. CounterMax
      BY <2>9 DEF StoreRecursion
    <3>2. depth' \in [Thread -> 0 .. MaxDepth]
      BY <2>9 DEF StoreRecursion, Enter
    <3>3. QED
      BY <2>9, <3>1, <3>2 DEF StoreRecursion, Goto, Enter
  <2>10. ASSUME NEW t \in Thread, WriteUnLock(t) PROVE TypeInv'
    BY <2>10 DEF WriteUnLock, Goto
  <2>11. ASSUME NEW t \in Thread, UnlockCheck(t) PROVE TypeInv'
    BY <2>11 DEF UnlockCheck, Goto
  <2>12. ASSUME NEW t \in Thread, Subtract(t) PROVE TypeInv'
    <3>1. recursion' \in 0 .. CounterMax
      BY <2>12 DEF Subtract
    <3>2. QED
      BY <2>12, <3>1 DEF Subtract, Goto
  <2>13. ASSUME NEW t \in Thread, ClearOwner(t) PROVE TypeInv'
    BY <2>13 DEF ClearOwner, Goto
  <2>14. CASE UNCHANGED vars
    BY <2>14 DEF vars
  <2>15. QED
    BY <2>1, <2>2, <2>3, <2>4, <2>5, <2>6, <2>6a, <2>7, <2>8, <2>9, <2>10,
       <2>11, <2>12, <2>13, <2>14 DEF Next, Acquire, Release
<1>3. QED
  BY <1>1, <1>2, PTL DEF SafeSpec

\* The lock keeps its types, and its counter its range, for any ids and with
\* or without contention.
THEOREM TypeInvariant == SafeSpec => []TypeOK
<1>1. TypeInv => TypeOK
  BY DEF TypeInv
<1>2. QED
  BY <1>1, TypeInvHolds, PTL

----------------------------------------------------------------------------
\* The invariant holds at first, and every step of every thread keeps it.
LEMMA LockInvariant == SafeSpec => []LockInv
<1> USE IdAssumption, DepthAssumption, NoThreadAssumption
    DEF EMPTY_OWNER_THREAD_ID, history, HasLock, NamedLikeNobody
<1>1. Init => LockInv
  <2> SUFFICES ASSUME Init, NEW t \in Thread PROVE PlaceInv(t)
    BY DEF LockInv
  <2>1. pc[t] = "idle" /\ depth[t] = 0 /\ owner = EMPTY_OWNER_THREAD_ID
    BY DEF Init
  <2>2. QED
    BY <2>1 DEF PlaceInv
<1>2. TypeInv /\ LockInv /\ [Next]_vars => LockInv'
  <2> SUFFICES ASSUME TypeInv, LockInv, [Next]_vars, ~trespassed',
                      NEW u \in Thread
               PROVE  PlaceInv(u)'
    BY DEF LockInv
  <2>0. ~trespassed /\ \A t \in Thread : PlaceInv(t)
    <3>1. trespassed => trespassed'
      BY DEF Next, Acquire, Release, WriteLock, CheckOwner, Reenter,
             SpinSucceeds, SpinFails, GiveUp, LockMutex, RetrySucceeds,
             RetryFails, StoreRecursion, WriteUnLock, UnlockCheck, Subtract,
             ClearOwner, Trespass, vars
    <3>2. QED
      BY <3>1 DEF LockInv
  <2> USE DEF TypeInv, TypeOK, DepthBounded, Entering
  <2>1. ASSUME NEW t \in Thread, WriteLock(t) PROVE PlaceInv(u)'
    BY <2>0, <2>1 DEF WriteLock, Goto, PlaceInv
  \* Re-enters only with an id of its own, and then it has the lock.
  <2>2. ASSUME NEW t \in Thread, CheckOwner(t) PROVE PlaceInv(u)'
    <3>1. ~(owner = Id[t] /\ NamedLikeNobody(t))
      BY <2>2 DEF CheckOwner, Trespass
    <3>2. CASE owner = Id[t]
      BY <2>0, <2>2, <3>1, <3>2 DEF CheckOwner, Goto, PlaceInv
    <3>3. CASE owner # Id[t]
      BY <2>0, <2>2, <3>3 DEF CheckOwner, Goto, PlaceInv
    <3>4. QED
      BY <3>2, <3>3
  <2>3. ASSUME NEW t \in Thread, Reenter(t) PROVE PlaceInv(u)'
    <3>1. /\ owner = Id[t] /\ depth[t] > 0 /\ recursion = depth[t]
          /\ recursion' = recursion + 1
      BY <2>0, <2>3 DEF Reenter, PlaceInv
    <3>2. CASE u = t
      BY <2>0, <2>3, <3>1, <3>2 DEF Reenter, Goto, Enter, PlaceInv
    <3>3. CASE u # t
      BY <2>0, <2>3, <3>1, <3>3 DEF Reenter, Goto, Enter, PlaceInv
    <3>4. QED
      BY <3>2, <3>3
  \* Both compare-and-swaps take a lock that no thread has.
  <2>4. ASSUME NEW t \in Thread, SpinSucceeds(t) \/ RetrySucceeds(t)
        PROVE  PlaceInv(u)'
    <3>1. /\ owner = EMPTY_OWNER_THREAD_ID /\ owner' = Id[t]
          /\ ~NamedLikeNobody(t) /\ depth[t] = 0
      BY <2>0, <2>4 DEF SpinSucceeds, RetrySucceeds, Trespass, PlaceInv
    <3>2. pc' = [pc EXCEPT ![t] = "store"] /\ UNCHANGED <<depth, recursion>>
      BY <2>4 DEF SpinSucceeds, RetrySucceeds, Goto
    <3>3. CASE u = t
      BY <2>0, <3>1, <3>2, <3>3 DEF PlaceInv
    <3>4. CASE u # t
      BY <2>0, <3>1, <3>2, <3>4 DEF PlaceInv
    <3>5. QED
      BY <3>3, <3>4
  <2>5. ASSUME NEW t \in Thread,
               SpinFails(t) \/ GiveUp(t) \/ LockMutex(t) \/ RetryFails(t)
        PROVE  PlaceInv(u)'
    BY <2>0, <2>5 DEF SpinFails, GiveUp, LockMutex, RetryFails, Goto, PlaceInv
  <2>7. ASSUME NEW t \in Thread, StoreRecursion(t) PROVE PlaceInv(u)'
    <3>1. owner = Id[t] /\ depth[t] = 0
      BY <2>0, <2>7 DEF StoreRecursion, PlaceInv
    <3>2. CASE u = t
      BY <2>0, <2>7, <3>1, <3>2 DEF StoreRecursion, Goto, Enter, PlaceInv
    <3>3. CASE u # t
      BY <2>0, <2>7, <3>1, <3>3 DEF StoreRecursion, Goto, Enter, PlaceInv
    <3>4. QED
      BY <3>2, <3>3
  <2>8. ASSUME NEW t \in Thread, WriteUnLock(t) PROVE PlaceInv(u)'
    <3>1. owner = Id[t] /\ recursion = depth[t]
      BY <2>0, <2>8 DEF WriteUnLock, PlaceInv
    <3>2. CASE u = t
      BY <2>0, <2>8, <3>1, <3>2 DEF WriteUnLock, Goto, PlaceInv
    <3>3. CASE u # t
      BY <2>0, <2>8, <3>1, <3>3 DEF WriteUnLock, Goto, PlaceInv
    <3>4. QED
      BY <3>2, <3>3
  <2>9. ASSUME NEW t \in Thread, UnlockCheck(t) PROVE PlaceInv(u)'
    <3>1. owner = Id[t]
      BY <2>0, <2>9 DEF UnlockCheck, PlaceInv
    <3>2. QED
      BY <2>0, <2>9, <3>1 DEF UnlockCheck, Goto, PlaceInv
  <2>10. ASSUME NEW t \in Thread, Subtract(t) PROVE PlaceInv(u)'
    <3>1. owner = Id[t] /\ recursion = depth[t] + 1
      BY <2>0, <2>10 DEF Subtract, PlaceInv
    <3>2. recursion' = depth[t]
      BY <2>10, <3>1 DEF Subtract
    <3>3. CASE u = t
      BY <2>0, <2>10, <3>1, <3>2, <3>3 DEF Subtract, Goto, PlaceInv
    <3>4. CASE u # t
      BY <2>0, <2>10, <3>1, <3>4 DEF Subtract, Goto, PlaceInv
    <3>5. QED
      BY <3>3, <3>4
  <2>11. ASSUME NEW t \in Thread, ClearOwner(t) PROVE PlaceInv(u)'
    <3>1. owner = Id[t] /\ depth[t] = 0
      BY <2>0, <2>11 DEF ClearOwner, PlaceInv
    <3>2. CASE u = t
      BY <2>0, <2>11, <3>1, <3>2 DEF ClearOwner, Goto, PlaceInv
    <3>3. CASE u # t
      BY <2>0, <2>11, <3>1, <3>3 DEF ClearOwner, Goto, PlaceInv
    <3>4. QED
      BY <3>2, <3>3
  <2>12. CASE UNCHANGED vars
    BY <2>0, <2>12 DEF vars, PlaceInv
  <2>13. QED
    BY <2>1, <2>2, <2>3, <2>4, <2>5, <2>7, <2>8, <2>9, <2>10, <2>11,
       <2>12 DEF Next, Acquire, Release
<1>3. QED
  BY <1>1, <1>2, TypeInvHolds, PTL DEF SafeSpec

\* Whoever is inside a guard is the owner, so no two threads are inside guards
\* of the same lock: the send queue it guards has one user at a time, through
\* every path of WriteLock and whatever ids the threads have, until one of
\* them takes the lock from its owner or has the id of a free lock.
THEOREM MutualExclusionHolds == SafeSpec => []MutualExclusion
<1>1. TypeInv /\ LockInv => MutualExclusion
  <2> SUFFICES ASSUME TypeInv, LockInv, NEW t \in Thread, NEW u \in Thread,
                      ~trespassed, depth[t] > 0, depth[u] > 0
               PROVE  t = u
    BY DEF MutualExclusion
  <2>1. ASSUME NEW v \in Thread, depth[v] > 0
        PROVE  owner = Id[v]
    <3>1. pc[v] \in Places /\ PlaceInv(v)
      BY DEF TypeInv, TypeOK, LockInv
    <3>2. QED
      BY <2>1, <3>1 DEF PlaceInv, HasLock
  <2>2. QED
    BY <2>1, IdAssumption
<1>2. QED
  BY <1>1, TypeInvHolds, LockInvariant, PTL

\* Re-entry is counted exactly: a thread that is inside n guards owns a lock
\* whose count is n, and it takes n unlocks to free it.
THEOREM RecursionCountsHolds == SafeSpec => []RecursionCounts
<1>1. LockInv => RecursionCounts
  BY DEF LockInv, PlaceInv, HasLock, RecursionCounts
<1>2. QED
  BY <1>1, LockInvariant, PTL
=============================================================================
