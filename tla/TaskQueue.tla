----------------------------- MODULE TaskQueue -----------------------------
(***************************************************************************)
(* engine::TaskQueue and engine::Task: a queue under a mutex and a         *)
(* condition variable that several workers share, and tasks that are run   *)
(* or cancelled by compare-and-swap on their status.  The critical         *)
(* sections are steps; the notifications, made after the mutex is          *)
(* released, are steps of their own.                                       *)
(*                                                                         *)
(* Nothing under src/ runs such a queue yet; the workers' loop is the      *)
(* obvious one: Pop and Execute until Pop returns null.                    *)
(***************************************************************************)
EXTENDS Naturals, Sequences, FiniteSets

CONSTANTS Worker,     \* threads that pop
          Task,       \* task objects
          MaxPushes,  \* bound: how often one task object is pushed
          NoTask      \* what a worker has between tasks

ASSUME WorkerAssumption == IsFiniteSet(Worker)
ASSUME TaskAssumption == NoTask \notin Task
ASSUME PushesAssumption == MaxPushes \in Nat

VARIABLES
  tasks,      \* _tasks
  gate,       \* _shutdown and its notification: open, closing, shut
  owed,       \* notify_one calls that pushers have still to make
  pc,         \* each worker's place in Pop or Execute
  current,    \* the task a worker has popped
  status,     \* _status of each task
  requested,  \* the tasks whose _cancelRequested is set
  canceling,  \* the tasks inside of Cancel, before the compare-and-swap
  pushes,     \* calls of Push for each task
  runs,       \* history: how often a task's function was called
  confirmed   \* history: the tasks whose Cancel returned true

vars == <<tasks, gate, owed, pc, current, status, requested, canceling,
          pushes, runs, confirmed>>

queue == <<tasks, gate, owed, pushes>>
cancels == <<requested, canceling, confirmed>>

Init ==
  /\ tasks = <<>>
  /\ gate = "open"
  /\ owed = 0
  /\ pc = [w \in Worker |-> "pop"]
  /\ current = [w \in Worker |-> NoTask]
  /\ status = [k \in Task |-> "Created"]
  /\ requested = {}
  /\ canceling = {}
  /\ pushes = [k \in Task |-> 0]
  /\ runs = [k \in Task |-> 0]
  /\ confirmed = {}

Waiting == {w \in Worker : pc[w] = "wait"}
Awake == {w \in Worker : pc[w] = "awake"}

----------------------------------------------------------------------------
(***************************************************************************)
(* The queue's other users.                                                *)
(***************************************************************************)

\* Mutant: only the push to an empty queue notifies.
PushToEmptyNotifies(k) ==
  /\ pushes[k] < MaxPushes
  /\ pushes' = [pushes EXCEPT ![k] = @ + 1]
  /\ gate = "open"
  /\ tasks' = Append(tasks, k)
  /\ owed' = IF tasks = <<>> THEN owed + 1 ELSE owed
  /\ UNCHANGED <<gate, pc, current, status, cancels, runs>>

Push(k) ==
  /\ pushes[k] < MaxPushes
  /\ pushes' = [pushes EXCEPT ![k] = @ + 1]
  /\ IF gate = "open"
       THEN /\ tasks' = Append(tasks, k)
            /\ owed' = owed + 1
       ELSE UNCHANGED <<tasks, owed>>
  /\ UNCHANGED <<gate, pc, current, status, cancels, runs>>

\* notify_one: some waiting worker wakes up, if there is one.
Notify ==
  /\ owed > 0
  /\ owed' = owed - 1
  /\ IF Waiting = {}
       THEN UNCHANGED pc
       ELSE \E w \in Waiting : pc' = [pc EXCEPT ![w] = "awake"]
  /\ UNCHANGED <<tasks, gate, pushes, current, status, cancels, runs>>

Clear ==
  /\ tasks' = <<>>
  /\ UNCHANGED <<gate, owed, pushes, pc, current, status, cancels, runs>>

Shutdown ==
  /\ gate = "open"
  /\ gate' = "closing"
  /\ UNCHANGED <<tasks, owed, pushes, pc, current, status, cancels, runs>>

\* Mutant: Shutdown wakes one worker.
ShutdownNotifiesOne ==
  /\ gate = "closing"
  /\ gate' = "shut"
  /\ IF Waiting = {}
       THEN UNCHANGED pc
       ELSE \E w \in Waiting : pc' = [pc EXCEPT ![w] = "awake"]
  /\ UNCHANGED <<tasks, owed, pushes, current, status, cancels, runs>>

\* notify_all, after Shutdown has released the mutex.
ShutdownNotifies ==
  /\ gate = "closing"
  /\ gate' = "shut"
  /\ pc' = [w \in Worker |-> IF pc[w] = "wait" THEN "awake" ELSE pc[w]]
  /\ UNCHANGED <<tasks, owed, pushes, current, status, cancels, runs>>

\* Cancel: the request is stored ...
RequestCancel(k) ==
  /\ k \notin canceling
  /\ requested' = requested \cup {k}
  /\ canceling' = canceling \cup {k}
  /\ UNCHANGED <<queue, pc, current, status, confirmed, runs>>

\* ... and the compare-and-swap from Created says what Cancel returns.
ConfirmCancel(k) ==
  /\ k \in canceling
  /\ canceling' = canceling \ {k}
  /\ IF status[k] = "Created"
       THEN /\ status' = [status EXCEPT ![k] = "Canceled"]
            /\ confirmed' = confirmed \cup {k}
       ELSE UNCHANGED <<status, confirmed>>
  /\ UNCHANGED <<queue, pc, current, requested, runs>>

----------------------------------------------------------------------------
(***************************************************************************)
(* The workers.                                                            *)
(***************************************************************************)

\* With the mutex, about to look at the condition.
Looks(w) == pc[w] \in {"pop", "awake"}

TakeTask(w) ==
  /\ Looks(w)
  /\ gate = "open"
  /\ tasks # <<>>
  /\ current' = [current EXCEPT ![w] = Head(tasks)]
  /\ tasks' = Tail(tasks)
  /\ pc' = [pc EXCEPT ![w] = "start"]
  /\ UNCHANGED <<gate, owed, pushes, status, cancels, runs>>

WaitForTask(w) ==
  /\ Looks(w)
  /\ gate = "open"
  /\ tasks = <<>>
  /\ pc' = [pc EXCEPT ![w] = "wait"]
  /\ UNCHANGED <<queue, current, status, cancels, runs>>

WakesUnasked(w) ==
  /\ pc[w] = "wait"
  /\ pc' = [pc EXCEPT ![w] = "awake"]
  /\ UNCHANGED <<queue, current, status, cancels, runs>>

\* Pop returns null, and the worker's loop ends, even with tasks in the queue.
PopNull(w) ==
  /\ Looks(w)
  /\ gate # "open"
  /\ pc' = [pc EXCEPT ![w] = "returned"]
  /\ UNCHANGED <<queue, current, status, cancels, runs>>

Drop(w) ==
  /\ pc' = [pc EXCEPT ![w] = "pop"]
  /\ current' = [current EXCEPT ![w] = NoTask]

\* Mutant: the status is set without a look at what it was.
StartAlways(w) ==
  /\ pc[w] = "start"
  /\ status' = [status EXCEPT ![current[w]] = "Running"]
  /\ pc' = [pc EXCEPT ![w] = "started"]
  /\ UNCHANGED <<queue, cancels, runs, current>>

\* Execute gives up on a task that has been started or cancelled already.
TryStart(w) ==
  /\ pc[w] = "start"
  /\ IF status[current[w]] = "Created"
       THEN /\ status' = [status EXCEPT ![current[w]] = "Running"]
            /\ pc' = [pc EXCEPT ![w] = "started"]
            /\ UNCHANGED current
       ELSE Drop(w) /\ UNCHANGED status
  /\ UNCHANGED <<queue, cancels, runs>>

\* A cancel that came too late to be confirmed may yet prevent the run.
HonourRequest(w) ==
  /\ pc[w] = "started"
  /\ current[w] \in requested
  /\ status' = [status EXCEPT ![current[w]] = "Canceled"]
  /\ Drop(w)
  /\ UNCHANGED <<queue, cancels, runs>>

CallFunction(w) ==
  /\ pc[w] = "started"
  /\ current[w] \notin requested
  /\ runs' = [runs EXCEPT ![current[w]] = @ + 1]
  /\ pc' = [pc EXCEPT ![w] = "running"]
  /\ UNCHANGED <<queue, cancels, current, status>>

\* A task without a function.
NoFunction(w) ==
  /\ pc[w] = "started"
  /\ current[w] \notin requested
  /\ status' = [status EXCEPT ![current[w]] = "Failed"]
  /\ Drop(w)
  /\ UNCHANGED <<queue, cancels, runs>>

Complete(w) ==
  /\ pc[w] = "running"
  /\ status' = [status EXCEPT ![current[w]] = "Completed"]
  /\ Drop(w)
  /\ UNCHANGED <<queue, cancels, runs>>

----------------------------------------------------------------------------
Pop(w) == TakeTask(w) \/ WaitForTask(w) \/ PopNull(w)

Execute(w) ==
  TryStart(w) \/ HonourRequest(w) \/ CallFunction(w) \/ NoFunction(w) \/ Complete(w)

Next ==
  \/ \E k \in Task : Push(k) \/ RequestCancel(k) \/ ConfirmCancel(k)
  \/ Notify \/ Clear \/ Shutdown \/ ShutdownNotifies
  \/ \E w \in Worker : Pop(w) \/ WakesUnasked(w) \/ Execute(w)

\* A worker with the mutex or a task goes on, and so does a Shutdown; neither
\* a push nor a cancel owes anything.
Fairness == /\ \A w \in Worker : WF_vars(Pop(w)) /\ WF_vars(Execute(w))
            /\ WF_vars(ShutdownNotifies)

SafeSpec == Init /\ [][Next]_vars

Spec == SafeSpec /\ Fairness

----------------------------------------------------------------------------
Places == {"pop", "wait", "awake", "start", "started", "running", "returned"}
Statuses == {"Created", "Running", "Completed", "Canceled", "Failed"}

TypeOK ==
  /\ tasks \in Seq(Task)
  /\ gate \in {"open", "closing", "shut"}
  /\ owed \in Nat
  /\ pc \in [Worker -> Places]
  /\ current \in [Worker -> Task \cup {NoTask}]
  /\ \A w \in Worker : pc[w] \in {"start", "started", "running"} =>
                         current[w] \in Task
  /\ status \in [Task -> Statuses]
  /\ requested \subseteq Task
  /\ canceling \subseteq Task
  /\ pushes \in [Task -> 0 .. MaxPushes]
  /\ runs \in [Task -> Nat]
  /\ confirmed \subseteq Task

\* However often a task is pushed and cancelled, from whatever threads, it runs
\* at most once, and never when Cancel has returned true (ThreadManager.cpp:42).
RunOrCancelled ==
  \A k \in Task : runs[k] <= 1 /\ (k \in confirmed => runs[k] = 0)

\* While a worker sleeps, every queued task has a wakeup of its own on the way:
\* a notification that a pusher still owes or a worker that is waking up.
NoStrandedTask ==
  gate = "open" /\ Waiting # {} => Len(tasks) <= owed + Cardinality(Awake)

\* After Shutdown every worker gets out of Pop, wherever it was.
WorkersReturn ==
  (gate = "closing") ~> (\A w \in Worker : pc[w] = "returned")
=============================================================================
