------------------------------ MODULE SpinLock ------------------------------
(***************************************************************************)
(* engine::Lock, the re-entrant lock that guards a session's send queue.   *)
(* A thread that finds its own id in _ownerThreadId re-enters.  Others     *)
(* spin on a compare-and-swap from 0; after MAX_PAUSE_SPIN_COUNT failures  *)
(* they queue up behind a mutex and try again there, with an `expected`    *)
(* that the spinning has left behind.                                      *)
(*                                                                         *)
(* Every atomic operation is a step.  How many times a thread spins is not *)
(* counted: it may give up after any failure.                              *)
(***************************************************************************)
EXTENDS Naturals

CONSTANTS Thread,        \* the threads
          Id,            \* LthreadState->threadId of each
          MaxDepth,      \* bound: nesting of guards
          CounterMax,    \* largest value of _recursion, 2^64 - 1 in the code
          NoThread       \* who holds a free mutex

EMPTY_OWNER_THREAD_ID == 0

ASSUME IdAssumption == /\ Id \in [Thread -> Nat]
                       /\ \A t, u \in Thread : Id[t] = Id[u] => t = u
ASSUME DepthAssumption == /\ MaxDepth \in Nat /\ CounterMax \in Nat
                          /\ MaxDepth < CounterMax
ASSUME NoThreadAssumption == NoThread \notin Thread

VARIABLES
  owner,       \* _ownerThreadId
  recursion,   \* _recursion
  mutex,       \* the holder of _mutex
  pc,          \* each thread's place in WriteLock or WriteUnLock
  expected,    \* WriteLock's local
  depth,       \* history: the guards each thread is inside of
  trespassed   \* history: a thread has taken the lock without owning it alone

vars == <<owner, recursion, mutex, pc, expected, depth, trespassed>>
history == <<depth, trespassed>>

Init ==
  /\ owner = EMPTY_OWNER_THREAD_ID
  /\ recursion = 0
  /\ mutex = NoThread
  /\ pc = [t \in Thread |-> "idle"]
  /\ expected = [t \in Thread |-> EMPTY_OWNER_THREAD_ID]
  /\ depth = [t \in Thread |-> 0]
  /\ trespassed = FALSE

Goto(t, place) == pc' = [pc EXCEPT ![t] = place]
Enter(t) == depth' = [depth EXCEPT ![t] = @ + 1]

\* The thread whose id is the mark of a free lock: it owns a free lock, and a
\* lock it owns is free.
NamedLikeNobody(t) == Id[t] = EMPTY_OWNER_THREAD_ID

Trespass(badly) == trespassed' = (trespassed \/ badly)

----------------------------------------------------------------------------
(***************************************************************************)
(* WriteLock                                                               *)
(***************************************************************************)

WriteLock(t) ==
  /\ pc[t] = "idle"
  /\ depth[t] < MaxDepth
  /\ Goto(t, "check")
  /\ UNCHANGED <<owner, recursion, mutex, expected, history>>

\* Mutant: re-entry is not looked for.
CheckNoOwner(t) ==
  /\ pc[t] = "check"
  /\ Goto(t, "spin")
  /\ expected' = [expected EXCEPT ![t] = EMPTY_OWNER_THREAD_ID]
  /\ UNCHANGED <<owner, recursion, mutex, history>>

\* The owner re-enters; the others spin.
CheckOwner(t) ==
  /\ pc[t] = "check"
  /\ Goto(t, IF owner = Id[t] THEN "reenter" ELSE "spin")
  /\ expected' = [expected EXCEPT ![t] = EMPTY_OWNER_THREAD_ID]
  /\ Trespass(owner = Id[t] /\ NamedLikeNobody(t))
  /\ UNCHANGED <<owner, recursion, mutex, depth>>

\* Mutant: a re-entry is not counted.
ReenterUncounted(t) ==
  /\ pc[t] = "reenter"
  /\ Enter(t)
  /\ Goto(t, "idle")
  /\ UNCHANGED <<owner, recursion, mutex, expected, trespassed>>

Reenter(t) ==
  /\ pc[t] = "reenter"
  /\ recursion' = IF recursion = CounterMax THEN 0 ELSE recursion + 1
  /\ Enter(t)
  /\ Goto(t, "idle")
  /\ UNCHANGED <<owner, mutex, expected, trespassed>>

\* compare_exchange_weak(0, id) succeeds.
SpinSucceeds(t) ==
  /\ pc[t] = "spin"
  /\ owner = EMPTY_OWNER_THREAD_ID
  /\ owner' = Id[t]
  /\ Trespass(NamedLikeNobody(t))
  /\ Goto(t, "store")
  /\ UNCHANGED <<recursion, mutex, expected, depth>>

\* It fails, spuriously or not, and leaves the owner it saw in `expected`.
SpinFails(t) ==
  /\ pc[t] = "spin"
  /\ expected' = [expected EXCEPT ![t] = owner]
  /\ UNCHANGED <<owner, recursion, mutex, pc, history>>

\* The last of the spins has failed, and pthread_mutex_lock is called.
GiveUp(t) ==
  /\ pc[t] = "spin"
  /\ expected' = [expected EXCEPT ![t] = owner]
  /\ Goto(t, "block")
  /\ UNCHANGED <<owner, recursion, mutex, history>>

LockMutex(t) ==
  /\ pc[t] = "block"
  /\ mutex = NoThread
  /\ mutex' = t
  /\ Goto(t, "retry")
  /\ UNCHANGED <<owner, recursion, expected, history>>

\* compare_exchange_strong(expected, id), with `expected` as it is: the owner
\* that the last failure saw loses the lock.
RetrySucceeds(t) ==
  /\ pc[t] = "retry"
  /\ owner = expected[t]
  /\ owner' = Id[t]
  /\ Trespass(NamedLikeNobody(t) \/ expected[t] # EMPTY_OWNER_THREAD_ID)
  /\ Goto(t, "store")
  /\ UNCHANGED <<recursion, mutex, expected, depth>>

RetryFails(t) ==
  /\ pc[t] = "retry"
  /\ owner # expected[t]
  /\ expected' = [expected EXCEPT ![t] = owner]
  /\ UNCHANGED <<owner, recursion, mutex, pc, history>>

\* _recursion.store(1), and the mutex is given back if it was taken.
StoreRecursion(t) ==
  /\ pc[t] = "store"
  /\ recursion' = 1
  /\ mutex' = IF mutex = t THEN NoThread ELSE mutex
  /\ Enter(t)
  /\ Goto(t, "idle")
  /\ UNCHANGED <<owner, expected, trespassed>>

----------------------------------------------------------------------------
(***************************************************************************)
(* WriteUnLock                                                             *)
(***************************************************************************)

WriteUnLock(t) ==
  /\ pc[t] = "idle"
  /\ depth[t] > 0
  /\ depth' = [depth EXCEPT ![t] = @ - 1]
  /\ Goto(t, "unlock")
  /\ UNCHANGED <<owner, recursion, mutex, expected, trespassed>>

\* A thread that is not the owner has its unlock logged and ignored.
UnlockCheck(t) ==
  /\ pc[t] = "unlock"
  /\ Goto(t, IF owner = Id[t] THEN "sub" ELSE "idle")
  /\ UNCHANGED <<owner, recursion, mutex, expected, history>>

\* Mutant: every unlock is taken for the last.
SubtractAndClear(t) ==
  /\ pc[t] = "sub"
  /\ recursion' = IF recursion = 0 THEN CounterMax ELSE recursion - 1
  /\ Goto(t, "clear")
  /\ UNCHANGED <<owner, mutex, expected, history>>

\* _recursion.fetch_sub(1).
Subtract(t) ==
  /\ pc[t] = "sub"
  /\ recursion' = IF recursion = 0 THEN CounterMax ELSE recursion - 1
  /\ Goto(t, IF recursion = 1 THEN "clear" ELSE "idle")
  /\ UNCHANGED <<owner, mutex, expected, history>>

\* The last unlock: _ownerThreadId.store(0).
ClearOwner(t) ==
  /\ pc[t] = "clear"
  /\ owner' = EMPTY_OWNER_THREAD_ID
  /\ Goto(t, "idle")
  /\ UNCHANGED <<recursion, mutex, expected, history>>

----------------------------------------------------------------------------
Acquire(t) ==
  \/ CheckOwner(t) \/ Reenter(t) \/ SpinSucceeds(t) \/ SpinFails(t) \/ GiveUp(t)
  \/ LockMutex(t) \/ RetrySucceeds(t) \/ RetryFails(t) \/ StoreRecursion(t)

Release(t) == UnlockCheck(t) \/ Subtract(t) \/ ClearOwner(t)

Next == \E t \in Thread : WriteLock(t) \/ Acquire(t) \/ WriteUnLock(t) \/ Release(t)

\* The outermost guard's scope does not last for ever, whatever guards are
\* nested in it; a thread inside one of the two functions goes on; and a
\* compare-and-swap or a call for the mutex that could succeed again and again
\* at last does.  A thread may spin as long as it likes: none has to give up.
Fairness ==
  \A t \in Thread :
    /\ WF_vars(WriteUnLock(t))
    /\ SF_vars(depth[t] = 1 /\ WriteUnLock(t))
    /\ WF_vars(Release(t))
    /\ WF_vars(CheckOwner(t) \/ Reenter(t) \/ RetryFails(t) \/ StoreRecursion(t))
    /\ SF_vars(SpinSucceeds(t))
    /\ SF_vars(LockMutex(t))
    /\ SF_vars(RetrySucceeds(t))

SafeSpec == Init /\ [][Next]_vars

Spec == SafeSpec /\ Fairness

----------------------------------------------------------------------------
Places == {"idle", "check", "reenter", "spin", "block", "retry", "store",
           "unlock", "sub", "clear"}

TypeOK ==
  /\ owner \in {EMPTY_OWNER_THREAD_ID} \cup {Id[t] : t \in Thread}
  /\ recursion \in 0 .. CounterMax
  /\ mutex \in Thread \cup {NoThread}
  /\ pc \in [Thread -> Places]
  /\ expected \in [Thread -> {EMPTY_OWNER_THREAD_ID} \cup {Id[t] : t \in Thread}]
  /\ depth \in [Thread -> 0 .. MaxDepth]
  /\ trespassed \in BOOLEAN

\* At most one thread at a time is inside guards of the lock, through the fast
\* path, re-entry and the slow path, as long as the two ways in that take no
\* notice of an owner are not used: the thread with id 0 (Lock.cpp:19, 31, 46)
\* and the compare-and-swap from the owner last seen (Lock.cpp:46).
MutualExclusion ==
  ~trespassed => \A t, u \in Thread : depth[t] > 0 /\ depth[u] > 0 => t = u

\* Between two calls of its owner the lock has counted the owner's guards, by
\* whichever path it was entered.
RecursionCounts ==
  ~trespassed => \A t \in Thread : pc[t] = "idle" /\ depth[t] > 0 =>
                   owner = Id[t] /\ recursion = depth[t]

\* The lock is given back, however deep it was entered, and whoever wants it
\* gets it, by spinning or after it has given that up.
WaiterEnters ==
  \A t \in Thread : (pc[t] = "spin") ~> (depth[t] > 0 \/ trespassed)

----------------------------------------------------------------------------
(***************************************************************************)
(* What the comments on the lock's two counters promise, and the code      *)
(* refutes, as TLC shows where the run goes on after a trespass.           *)
(***************************************************************************)

\* "owner thread id (0=free)" (Lock.h:29): a lock has one owner, who has been
\* given an id other than the mark of a free lock.
Exclusion ==
  \A t, u \in Thread : depth[t] > 0 /\ depth[u] > 0 => t = u

\* "only the owner modifies it" (Lock.h:32): whoever changes the count of
\* re-entries owns the lock as it does so.
CountedByOwner ==
  [][recursion' # recursion =>
       \A t \in Thread : pc'[t] # pc[t] => owner = Id[t]]_vars
=============================================================================
