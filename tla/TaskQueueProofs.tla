-------------------------- MODULE TaskQueueProofs --------------------------
(***************************************************************************)
(* Threads that wait for work and for the stop.  TaskQueue, for any number *)
(* of workers and tasks: a task runs at most once and never after a        *)
(* confirmed cancel, and no queued task is without a wakeup while a worker *)
(* sleeps.                                                                 *)
(* And the stop of the server, from ServerStop, for any number of          *)
(* dispatchers, connections and requests: no thread sleeps on after it was *)
(* told to stop, and the DB worker's queue is emptied before the threads   *)
(* are joined.                                                             *)
(***************************************************************************)
EXTENDS TaskQueue, ServerStop, FiniteSetTheorems, TLAPS

\* The queue keeps its types.
THEOREM TypeInvariant == SafeSpec => []TypeOK
<1> USE TaskAssumption, PushesAssumption DEF TypeOK, Places, Statuses
<1>1. Init => TypeOK
  BY DEF Init
<1>2. TypeOK /\ [Next]_vars => TypeOK'
  <2> SUFFICES ASSUME TypeOK, [Next]_vars PROVE TypeOK'
    OBVIOUS
  <2> USE DEF queue, cancels, Drop
  <2>1. ASSUME NEW k \in Task, Push(k) PROVE TypeOK'
    <3>1. pushes' \in [Task -> 0 .. MaxPushes]
      BY <2>1 DEF Push
    <3>2. Append(tasks, k) \in Seq(Task)
      OBVIOUS
    <3>3. tasks' = Append(tasks, k) \/ tasks' = tasks
      BY <2>1, Zenon DEF Push
    <3>4. tasks' \in Seq(Task)
      BY <3>2, <3>3, Zenon
    <3>4a. owed' \in Nat
      <4>1. owed' = owed + 1 \/ owed' = owed
        BY <2>1, Zenon DEF Push
      <4>2. QED
        BY <4>1
    <3>5. QED
      BY <2>1, <3>1, <3>4, <3>4a DEF Push
  <2>2. ASSUME NEW k \in Task, RequestCancel(k) PROVE TypeOK'
    BY <2>2 DEF RequestCancel
  <2>3. ASSUME NEW k \in Task, ConfirmCancel(k) PROVE TypeOK'
    BY <2>3 DEF ConfirmCancel
  <2>4. CASE Notify
    <3>1. owed' \in Nat
      BY <2>4 DEF Notify
    <3>2. CASE Waiting = {}
      BY <2>4, <3>1, <3>2 DEF Notify
    <3>3. CASE Waiting # {}
      <4>1. PICK w \in Waiting : pc' = [pc EXCEPT ![w] = "awake"]
        BY <2>4, <3>3 DEF Notify
      <4>2. QED
        BY <2>4, <3>1, <4>1 DEF Notify, Waiting
    <3>4. QED
      BY <3>2, <3>3
  <2>5. CASE Clear \/ Shutdown
    <3>1. tasks' = <<>> \/ tasks' = tasks
      BY <2>5 DEF Clear, Shutdown
    <3>2. <<>> \in Seq(Task)
      OBVIOUS
    <3>3. tasks' \in Seq(Task)
      BY <3>1, <3>2
    <3>4. gate' \in {"open", "closing", "shut"}
      BY <2>5 DEF Clear, Shutdown
    <3>5. QED
      BY <2>5, <3>3, <3>4 DEF Clear, Shutdown
  <2>6. CASE ShutdownNotifies
    BY <2>6 DEF ShutdownNotifies
  <2>7. ASSUME NEW w \in Worker, TakeTask(w) PROVE TypeOK'
    BY <2>7 DEF TakeTask, Looks
  <2>8. ASSUME NEW w \in Worker, WaitForTask(w) \/ PopNull(w) \/ WakesUnasked(w)
        PROVE  TypeOK'
    BY <2>8 DEF WaitForTask, PopNull, WakesUnasked, Looks
  <2>9. ASSUME NEW w \in Worker, TryStart(w) PROVE TypeOK'
    BY <2>9 DEF TryStart
  <2>10. ASSUME NEW w \in Worker, HonourRequest(w) \/ NoFunction(w) \/ Complete(w)
         PROVE  TypeOK'
    BY <2>10 DEF HonourRequest, NoFunction, Complete
  <2>11. ASSUME NEW w \in Worker, CallFunction(w) PROVE TypeOK'
    BY <2>11 DEF CallFunction
  <2>12. CASE UNCHANGED vars
    BY <2>12 DEF vars
  <2>13. QED
    BY <2>1, <2>2, <2>3, <2>4, <2>5, <2>6, <2>7, <2>8, <2>9, <2>10, <2>11,
       <2>12 DEF Next, Pop, Execute
<1>3. QED
  BY <1>1, <1>2, PTL DEF SafeSpec

----------------------------------------------------------------------------
\* The workers inside of Execute, past the compare-and-swap.
Started(w) == pc[w] \in {"started", "running"}

\* A task that has been started is Running, in the hands of one worker, which
\* alone may call its function; a task that has not is neither run nor, if its
\* Cancel was confirmed, ever startable.
StartedInv ==
  /\ \A w \in Worker : Started(w) => status[current[w]] = "Running"
  /\ \A v, w \in Worker : Started(v) /\ Started(w) /\ current[v] = current[w] => v = w
  /\ \A w \in Worker : pc[w] = "started" => runs[current[w]] = 0
  /\ \A k \in Task : runs[k] <= 1
  /\ \A k \in Task : status[k] = "Created" => runs[k] = 0
  /\ \A k \in confirmed : status[k] = "Canceled" /\ runs[k] = 0

\* Run at most once, and not at all once Cancel has returned true.
THEOREM RunOrCancelledHolds == SafeSpec => []RunOrCancelled
<1>1. Init => StartedInv
  BY DEF Init, StartedInv, Started
<1>2. TypeOK /\ StartedInv /\ [Next]_vars => StartedInv'
  <2> SUFFICES ASSUME TypeOK, StartedInv, [Next]_vars PROVE StartedInv'
    OBVIOUS
  <2> USE DEF TypeOK, Places, Statuses, StartedInv, Started, queue, cancels, Drop
  <2>1. ASSUME NEW k \in Task, Push(k) \/ RequestCancel(k) PROVE StartedInv'
    BY <2>1 DEF Push, RequestCancel
  <2>2. ASSUME NEW k \in Task, ConfirmCancel(k) PROVE StartedInv'
    BY <2>2 DEF ConfirmCancel
  <2>3. CASE Notify
    BY <2>3 DEF Notify, Waiting
  <2>4. CASE Clear \/ Shutdown
    BY <2>4 DEF Clear, Shutdown
  <2>5. CASE ShutdownNotifies
    BY <2>5 DEF ShutdownNotifies
  <2>6. ASSUME NEW w \in Worker, Pop(w) \/ WakesUnasked(w) PROVE StartedInv'
    <3>1. ~Started(w) /\ pc'[w] \notin {"started", "running"}
      BY <2>6 DEF Pop, TakeTask, WaitForTask, PopNull, WakesUnasked, Looks
    <3>2. UNCHANGED <<status, runs, confirmed>>
      BY <2>6 DEF Pop, TakeTask, WaitForTask, PopNull, WakesUnasked, Looks
    <3>3. \A v \in Worker \ {w} : pc'[v] = pc[v] /\ current'[v] = current[v]
      BY <2>6 DEF Pop, TakeTask, WaitForTask, PopNull, WakesUnasked, Looks
    <3>4. \A v \in Worker : Started(v)' =>
                               v # w /\ pc'[v] = pc[v] /\ current'[v] = current[v]
      BY <3>1, <3>3
    <3>5. QED
      BY <3>2, <3>4
  <2>7. ASSUME NEW w \in Worker, TryStart(w) PROVE StartedInv'
    <3>1. CASE status[current[w]] = "Created"
      <4>1. /\ status' = [status EXCEPT ![current[w]] = "Running"]
            /\ pc' = [pc EXCEPT ![w] = "started"]
            /\ UNCHANGED <<current, runs, confirmed>>
            /\ current[w] \in Task
        BY <2>7, <3>1 DEF TryStart
      <4>2. current[w] \notin confirmed
        BY <3>1
      <4>3. \A v \in Worker : Started(v) => current[v] # current[w]
        BY <3>1
      <4>4. QED
        BY <3>1, <4>1, <4>2, <4>3
    <3>2. CASE status[current[w]] # "Created"
      <4>1. /\ pc' = [pc EXCEPT ![w] = "pop"]
            /\ UNCHANGED <<status, runs, confirmed>>
            /\ \A v \in Worker \ {w} : current'[v] = current[v]
        BY <2>7, <3>2 DEF TryStart
      <4>2. \A v \in Worker : Started(v)' => v # w /\ Started(v) /\ current'[v] = current[v]
        BY <4>1
      <4>3. QED
        BY <4>1, <4>2
    <3>3. QED
      BY <3>1, <3>2
  <2>8. ASSUME NEW w \in Worker, HonourRequest(w) PROVE StartedInv'
    BY <2>8 DEF HonourRequest
  <2>9. ASSUME NEW w \in Worker, CallFunction(w) PROVE StartedInv'
    BY <2>9 DEF CallFunction
  <2>10. ASSUME NEW w \in Worker, NoFunction(w) \/ Complete(w) PROVE StartedInv'
    <3>1. /\ pc' = [pc EXCEPT ![w] = "pop"]
          /\ current' = [current EXCEPT ![w] = NoTask]
          /\ \/ status' = [status EXCEPT ![current[w]] = "Failed"]
             \/ status' = [status EXCEPT ![current[w]] = "Completed"]
          /\ UNCHANGED <<runs, confirmed>>
          /\ Started(w) /\ current[w] \in Task
      BY <2>10 DEF NoFunction, Complete
    <3>2. \A v \in Worker \ {w} : Started(v) => current[v] # current[w]
      BY <3>1
    <3>3. current[w] \notin confirmed
      BY <3>1
    <3>4. /\ \A k \in Task \ {current[w]} : status'[k] = status[k]
          /\ status'[current[w]] # "Created"
      BY <3>1
    <3>5. \A v \in Worker : Started(v)' => v # w /\ Started(v) /\ current'[v] = current[v]
      BY <3>1
    <3>6. ASSUME NEW v \in Worker, Started(v)' PROVE status'[current'[v]] = "Running"
      <4>1. v # w /\ Started(v) /\ current'[v] = current[v]
        BY <3>5, <3>6
      <4>2. current[v] \in Task \ {current[w]} /\ status[current[v]] = "Running"
        BY <3>2, <4>1
      <4>3. QED
        BY <3>4, <4>1, <4>2
    <3>7. \A u, v \in Worker : Started(u)' /\ Started(v)' /\ current'[u] = current'[v]
                                  => u = v
      BY <3>5
    <3>8. \A v \in Worker : pc'[v] = "started" => runs'[current'[v]] = 0
      BY <3>1, <3>5
    <3>9. \A k \in Task : runs'[k] <= 1 /\ (status'[k] = "Created" => runs'[k] = 0)
      BY <3>1, <3>4
    <3>10. \A k \in confirmed' : status'[k] = "Canceled" /\ runs'[k] = 0
      BY <3>1, <3>3, <3>4
    <3>11. QED
      BY <3>6, <3>7, <3>8, <3>9, <3>10
  <2>11. CASE UNCHANGED vars
    BY <2>11 DEF vars
  <2>12. QED
    BY <2>1, <2>2, <2>3, <2>4, <2>5, <2>6, <2>7, <2>8, <2>9, <2>10, <2>11
       DEF Next, Execute
<1>3. StartedInv => RunOrCancelled
  BY DEF StartedInv, RunOrCancelled
<1>4. QED
  BY <1>1, <1>2, <1>3, TypeInvariant, PTL DEF SafeSpec

----------------------------------------------------------------------------
LEMMA AwakeIsFinite == IsFiniteSet(Awake) /\ Cardinality(Awake) \in Nat
BY WorkerAssumption, FS_Subset, FS_CardinalityType DEF Awake

\* One more worker awake.
LEMMA OneWakes ==
  ASSUME NEW w \in Worker, pc[w] # "awake", Awake' = Awake \cup {w}
  PROVE  Cardinality(Awake)' = Cardinality(Awake) + 1
BY AwakeIsFinite, FS_AddElement DEF Awake

\* A worker that is awake is so no more.
LEMMA OneLeaves ==
  ASSUME NEW w \in Worker, pc[w] = "awake", Awake' = Awake \ {w}
  PROVE  Cardinality(Awake)' = Cardinality(Awake) - 1
<1>1. w \in Awake
  BY DEF Awake
<1>2. Cardinality(Awake \ {w}) = Cardinality(Awake) - 1
  BY <1>1, AwakeIsFinite, FS_RemoveElement
<1>3. QED
  BY <1>2

\* No queued task is without a wakeup while a worker sleeps.
THEOREM NoStrandedTaskHolds == SafeSpec => []NoStrandedTask
<1>1. Init => NoStrandedTask
  BY AwakeIsFinite DEF Init, NoStrandedTask, Waiting
<1>2. TypeOK /\ NoStrandedTask /\ [Next]_vars => NoStrandedTask'
  <2> SUFFICES ASSUME TypeOK, NoStrandedTask, [Next]_vars PROVE NoStrandedTask'
    OBVIOUS
  <2> USE AwakeIsFinite DEF TypeOK, NoStrandedTask, queue
  <2>0. ASSUME UNCHANGED <<tasks, gate, owed>>,
               \A w \in Worker : /\ pc'[w] = "wait" <=> pc[w] = "wait"
                                 /\ pc'[w] = "awake" <=> pc[w] = "awake"
        PROVE  NoStrandedTask'
    BY <2>0 DEF Waiting, Awake
  <2>1. ASSUME NEW k \in Task, Push(k) PROVE NoStrandedTask'
    <3>1. Waiting' = Waiting /\ Awake' = Awake
      BY <2>1 DEF Push, Waiting, Awake
    <3>2. gate = "open" => Len(tasks') = Len(tasks) + 1 /\ owed' = owed + 1
      BY <2>1 DEF Push
    <3>3. gate' = gate
      BY <2>1 DEF Push
    <3>4. QED
      BY <3>1, <3>2, <3>3
  <2>2. ASSUME NEW k \in Task, RequestCancel(k) \/ ConfirmCancel(k)
        PROVE  NoStrandedTask'
    BY <2>0, <2>2 DEF RequestCancel, ConfirmCancel
  <2>3. CASE Notify
    <3>1. CASE Waiting = {}
      BY <2>3, <3>1 DEF Notify, Waiting
    <3>2. CASE Waiting # {}
      <4>1. PICK w \in Waiting : pc' = [pc EXCEPT ![w] = "awake"]
        BY <2>3, <3>2 DEF Notify
      <4>2. w \in Worker /\ pc[w] # "awake" /\ Awake' = Awake \cup {w}
        BY <4>1 DEF Waiting, Awake
      <4>3. Cardinality(Awake)' = Cardinality(Awake) + 1
        BY <4>2, OneWakes
      <4>4. QED
        BY <2>3, <3>2, <4>3 DEF Notify
    <3>3. QED
      BY <3>1, <3>2
  <2>4. CASE Clear
    BY <2>4 DEF Clear, Waiting, Awake
  <2>5. CASE Shutdown \/ ShutdownNotifies
    BY <2>5 DEF Shutdown, ShutdownNotifies
  <2>6. ASSUME NEW w \in Worker, TakeTask(w) PROVE NoStrandedTask'
    <3>1. /\ Waiting' = Waiting /\ owed' = owed /\ gate' = gate
          /\ Len(tasks') = Len(tasks) - 1
      BY <2>6 DEF TakeTask, Looks, Waiting
    <3>2. CASE pc[w] = "awake"
      <4>1. Awake' = Awake \ {w}
        BY <2>6 DEF TakeTask, Awake
      <4>2. Cardinality(Awake)' = Cardinality(Awake) - 1
        BY <3>2, <4>1, OneLeaves
      <4>3. QED
        BY <3>1, <3>2, <4>1, <4>2
    <3>3. CASE pc[w] # "awake"
      <4>1. Awake' = Awake
        BY <2>6, <3>3 DEF TakeTask, Awake
      <4>2. QED
        BY <3>1, <4>1
    <3>4. QED
      BY <3>2, <3>3
  <2>7. ASSUME NEW w \in Worker, WaitForTask(w) PROVE NoStrandedTask'
    <3>1. Len(tasks') = 0 /\ owed' = owed
      BY <2>7 DEF WaitForTask
    <3>2. Cardinality(Awake)' \in Nat
      <4>1. IsFiniteSet(Awake')
        BY WorkerAssumption, FS_Subset DEF Awake
      <4>2. QED
        BY <4>1, FS_CardinalityType
    <3>3. QED
      BY <3>1, <3>2
  <2>8. ASSUME NEW w \in Worker, PopNull(w) PROVE NoStrandedTask'
    BY <2>8 DEF PopNull
  <2>9. ASSUME NEW w \in Worker, WakesUnasked(w) PROVE NoStrandedTask'
    <3>1. pc[w] # "awake" /\ Awake' = Awake \cup {w}
      BY <2>9 DEF WakesUnasked, Awake
    <3>2. w \in Waiting
      BY <2>9 DEF WakesUnasked, Waiting
    <3>3. Cardinality(Awake)' = Cardinality(Awake) + 1
      BY <3>1, OneWakes
    <3>4. QED
      BY <2>9, <3>2, <3>3 DEF WakesUnasked
  <2>10. ASSUME NEW w \in Worker, Execute(w) PROVE NoStrandedTask'
    BY <2>0, <2>10 DEF Execute, TryStart, HonourRequest, CallFunction,
                       NoFunction, Complete, Drop
  <2>11. CASE UNCHANGED vars
    BY <2>0, <2>11 DEF vars
  <2>12. QED
    BY <2>1, <2>2, <2>3, <2>4, <2>5, <2>6, <2>7, <2>8, <2>9, <2>10, <2>11
       DEF Next, Pop
<1>3. QED
  BY <1>1, <1>2, TypeInvariant, PTL DEF SafeSpec

----------------------------------------------------------------------------
(***************************************************************************)
(* The DB worker's queue at the server's stop.  Everything queued is       *)
(* counted: it is done or still in the queue.  The worker leaves its loop  *)
(* only after DbWorker::Stop and with nothing in the queue, and main joins *)
(* it after that, so what was queued before the stop has been done.        *)
(***************************************************************************)
\* main counts through the dispatchers before it gets to the DB worker, and asks
\* the threads to stop only after that.
MainInOrder ==
  /\ main \in {"serve", "wakeAcceptor", "stopDispatcher", "wakeDispatcher"} =>
       halting < Shards
  /\ main \in {"serve", "wakeAcceptor", "stopDispatcher", "wakeDispatcher",
              "clearPool", "stopDb"} =>
       DbWorker \in running
  /\ main \in {"notifyDb", "requestStop", "join", "clear", "deleteDb", "end"} =>
       DbWorker \notin running
  /\ main \in {"clear", "deleteDb", "end"} =>
       \A t \in Thread : place[t] = "exited"

\* What was queued is done or still in the queue, until what is left is destroyed.
TasksCounted == main # "end" => queued = done + Len(dbTasks)

\* Where the worker is, and what it must have done to be there.
WorkerInOrder ==
  /\ early <= queued
  /\ place[DbWorker] = "task" => dbTasks # <<>>
  /\ place[DbWorker] \in {"take", "task", "asleep"} => looped
  /\ place[DbWorker] = "starting" => ~looped
  /\ place[DbWorker] \in {"loop", "exited"} /\ looped => DbWorker \notin running /\ early <= done

\* A dispatcher that is told of input has a packet to read.
WorkIsThere ==
  \A d \in Dispatcher : "work" \in ready[d] => inbox[d] > 0

DrainInv ==
  ServerTypeOK /\ WorkIsThere /\ MainInOrder /\ TasksCounted /\ WorkerInOrder

\* The shards take turns.
LEMMA NextInTurn ==
  ASSUME NEW n \in Nat, NEW m \in Nat \ {0} PROVE n % m \in 0 .. m - 1
OBVIOUS

\* Counting in one dispatcher's counter.
LEMMA OneMore ==
  ASSUME NEW f \in [Dispatcher -> Nat], NEW d \in Dispatcher
  PROVE  [f EXCEPT ![d] = f[d] + 1] \in [Dispatcher -> Nat]
OBVIOUS

\* The dispatchers and the acceptor wait for events, the DB worker does not.
LEMMA ThreadKinds ==
  /\ Shards \in Nat \ {0}
  /\ Dispatcher \subseteq EventLoop /\ EventLoop \subseteq Thread
  /\ Acceptor \in EventLoop
  /\ DbWorker \in Thread /\ DbWorker \notin EventLoop
  /\ \A d \in 0 .. Shards : d # DbWorker
BY ShardsAssumption DEF Dispatcher, EventLoop, Thread, Acceptor, DbWorker

LEMMA DrainInit ==
  ASSUME ServerInit PROVE DrainInv
<1> USE ThreadKinds DEF ServerInit
<1>1. ServerTypeOK
  <2>1. place \in [Thread -> ThreadPlaces] /\ main \in MainPlaces
    BY DEF MainPlaces, ThreadPlaces
  <2>2. nextShard \in Dispatcher /\ halting \in 0 .. Shards
    BY DEF Dispatcher
  <2>3. {posted, sessions, inbox} \subseteq [Dispatcher -> Nat]
    OBVIOUS
  <2>4. /\ ready \in [EventLoop -> SUBSET {"wakeup", "work"}]
        /\ running \subseteq Thread /\ signal \subseteq EventLoop
    OBVIOUS
  <2>5. dbTasks \in Seq(Dispatcher)
    <3>1. dbTasks = <<>>
      OBVIOUS
    <3> HIDE ThreadKinds DEF ServerInit
    <3>2. QED
      BY <3>1
  <2>6. {queued, early, done} \subseteq Nat /\ backlog \in Nat
    OBVIOUS
  <2>7. /\ sendPool \in {"there", "cleared"}
        /\ {hasBuffer, crashed, looped} \subseteq BOOLEAN
    OBVIOUS
  <2> HIDE DEF ServerInit
  <2>8. QED
    BY <2>1, <2>2, <2>3, <2>4, <2>5, <2>6, <2>7 DEF ServerTypeOK
<1>2. WorkIsThere
  BY DEF WorkIsThere
<1>3. MainInOrder
  BY DEF MainInOrder
<1>4. TasksCounted
  BY DEF TasksCounted
<1>5. WorkerInOrder
  BY DEF WorkerInOrder
<1>6. QED
  BY <1>1, <1>2, <1>3, <1>4, <1>5 DEF DrainInv

\* A write to an eventfd leaves a set of event loops.
LEMMA SignalsLoops ==
  ASSUME NEW l \in EventLoop, signal \subseteq EventLoop, Signals(l)
  PROVE  signal' \subseteq EventLoop
BY DEF Signals

\* Handling an event takes it off what epoll_wait returned.
LEMMA HandledLess ==
  ASSUME NEW l \in EventLoop, NEW e \in {"wakeup", "work"},
         ready \in [EventLoop -> SUBSET {"wakeup", "work"}], Handled(l, e)
  PROVE  /\ ready' \in [EventLoop -> SUBSET {"wakeup", "work"}]
         /\ \A k \in EventLoop : ready'[k] \subseteq ready[k]
         /\ e \notin ready'[l]
<1>1. ready' = [ready EXCEPT ![l] = ready[l] \ {e}]
  BY DEF Handled
<1>2. ready[l] \ {e} \in SUBSET {"wakeup", "work"}
  OBVIOUS
<1>3. QED
  BY <1>1, <1>2

\* What the outside, the event loops and the dispatchers do.
LEMMA LoopKeepsTypes ==
  ASSUME ServerTypeOK, WorkIsThere,
         \/ Connect
         \/ \E d \in Dispatcher :
              Packet(d) \/ ExecuteCommands(d) \/ ReadPacket(d)
         \/ \E t \in Thread : LoopCheck(t)
         \/ \E l \in EventLoop :
              WaitReturns(l) \/ EventsDone(l) \/ Interrupted(l)
         \/ DrainWakeup \/ Accept \/ NothingToAccept
  PROVE  ServerTypeOK' /\ WorkIsThere'
<1> USE ThreadKinds DEF ServerTypeOK, net, loops, stopping, memory, history,
                        ThreadPlaces, WorkIsThere
<1>1. CASE Connect
  BY <1>1 DEF Connect
<1>2. ASSUME NEW d \in Dispatcher, Packet(d) PROVE ServerTypeOK' /\ WorkIsThere'
  BY <1>2 DEF Packet
<1>3. ASSUME NEW d \in Dispatcher, ExecuteCommands(d)
      PROVE  ServerTypeOK' /\ WorkIsThere'
  BY <1>3 DEF ExecuteCommands, Handles, Handled
<1>4. ASSUME NEW d \in Dispatcher, ReadPacket(d)
      PROVE  ServerTypeOK' /\ WorkIsThere'
  <2>1. inbox[d] > 0
    BY <1>4 DEF ReadPacket, Handles
  <2>2. inbox' \in [Dispatcher -> Nat]
    BY <1>4, <2>1 DEF ReadPacket
  <2>3. ready' \in [EventLoop -> SUBSET {"wakeup", "work"}]
    BY <1>4, HandledLess DEF ReadPacket
  <2>4. WorkIsThere'
    <3>1. \A k \in Dispatcher : "work" \in ready'[k] =>
            "work" \in ready[k] /\ (k = d => inbox[d] > 1)
      BY <1>4, HandledLess DEF ReadPacket
    <3>2. QED
      BY <1>4, <2>2, <3>1 DEF ReadPacket
  <2>5. queued' \in Nat /\ dbTasks' \in Seq(Dispatcher)
    BY <1>4 DEF ReadPacket, Enqueue
  <2>5a. place' = [place EXCEPT ![DbWorker] = "take"] \/ place' = place
    BY <1>4, Zenon DEF ReadPacket, Enqueue
  <2>5b. place' \in [Thread -> ThreadPlaces]
    BY <2>5a
  <2>6. QED
    BY <1>4, <2>2, <2>3, <2>4, <2>5, <2>5b DEF ReadPacket
<1>5. ASSUME NEW t \in Thread, LoopCheck(t) PROVE ServerTypeOK' /\ WorkIsThere'
  BY <1>5 DEF LoopCheck
<1>6. ASSUME NEW l \in EventLoop, WaitReturns(l)
      PROVE  ServerTypeOK' /\ WorkIsThere'
  <2>1. ready' \in [EventLoop -> SUBSET {"wakeup", "work"}]
    BY <1>6 DEF WaitReturns
  <2>2. WorkIsThere'
    BY <1>6 DEF WaitReturns, HasWork, Dispatcher, Acceptor
  <2>3. QED
    BY <1>6, <2>1, <2>2 DEF WaitReturns
<1>7. ASSUME NEW l \in EventLoop, EventsDone(l) \/ Interrupted(l)
      PROVE  ServerTypeOK' /\ WorkIsThere'
  BY <1>7 DEF EventsDone, Interrupted
<1>8. CASE DrainWakeup \/ NothingToAccept
  BY <1>8, HandledLess DEF DrainWakeup, NothingToAccept
<1>9. CASE Accept
  <2>1. backlog' \in Nat
    BY <1>9 DEF Accept
  <2>1a. posted' \in [Dispatcher -> Nat]
    <3>1. posted' = [posted EXCEPT ![nextShard] = posted[nextShard] + 1]
      BY <1>9, Zenon DEF Accept, Post
    <3>2. posted \in [Dispatcher -> Nat] /\ nextShard \in Dispatcher
      OBVIOUS
    <3>3. QED
      BY <3>1, <3>2
  <2>2. nextShard' \in Dispatcher
    BY <1>9, NextInTurn DEF Accept, Dispatcher
  <2>3. signal' \subseteq EventLoop
    BY <1>9, SignalsLoops DEF Accept, Post
  <2>4. QED
    BY <1>9, <2>1, <2>1a, <2>2, <2>3 DEF Accept
<1>10. QED
  BY <1>1, <1>2, <1>3, <1>4, <1>5, <1>6, <1>7, <1>8, <1>9

\* What the DB worker and main do.
LEMMA WorkerKeepsTypes ==
  ASSUME ServerTypeOK, WorkIsThere, WorkerInOrder, MainInOrder,
         \/ OpenDb \/ TakeDbTask \/ WaitForDbTask \/ DbWakesUnasked
         \/ LeaveQueue \/ RunTask \/ AnswerCrashes \/ StopAcceptor \/ StopNothing
         \/ Halt
  PROVE  ServerTypeOK' /\ WorkIsThere'
<1> USE ThreadKinds DEF ServerTypeOK, net, loops, stopping, memory, history,
                        ThreadPlaces, MainPlaces, WorkIsThere, DbWorkerAt,
                        MainGoes, Halts
<1>1. CASE OpenDb \/ TakeDbTask \/ WaitForDbTask \/ DbWakesUnasked
           \/ LeaveQueue
  BY <1>1 DEF OpenDb, TakeDbTask, WaitForDbTask, DbWakesUnasked,
              LeaveQueue
<1>2. CASE RunTask
  <2>1. dbTasks # <<>>
    BY <1>2 DEF RunTask, WorkerInOrder
  <2>2. Head(dbTasks) \in Dispatcher /\ dbTasks' \in Seq(Dispatcher)
    BY <1>2, <2>1 DEF RunTask
  <2>3. signal' \subseteq EventLoop
    BY <1>2, <2>2, SignalsLoops DEF RunTask
  <2>5. place' \in [Thread -> ThreadPlaces]
    <3>1. place' = [place EXCEPT ![DbWorker] = "take"]
      BY <1>2, Zenon DEF RunTask, DbWorkerAt
    <3>2. QED
      BY <3>1
  <2>6. done' \in Nat
    BY <1>2 DEF RunTask
  <2>7. QED
    BY <1>2, <2>2, <2>3, <2>5, <2>6 DEF RunTask
<1>2a. CASE AnswerCrashes \/ SendBufferPoolClear
  BY <1>2a DEF AnswerCrashes, SendBufferPoolClear
<1>3. CASE StopAcceptor \/ StopNothing \/ StopDispatcher \/ StopDb
           \/ NotifyDb \/ RequestStop \/ Join
  BY <1>3 DEF StopAcceptor, StopNothing, StopDispatcher, StopDb,
              NotifyDb, RequestStop, Join
<1>4. CASE WakeAcceptor
  BY <1>4, SignalsLoops DEF WakeAcceptor
<1>5. CASE WakeDispatcher
  <2>1. halting \in 0 .. Shards - 1
    BY <1>5 DEF WakeDispatcher, MainInOrder
  <2>2. halting \in EventLoop /\ halting' \in 0 .. Shards
    BY <1>5, <2>1 DEF WakeDispatcher, EventLoop, Dispatcher
  <2>3. signal' \subseteq EventLoop
    BY <1>5, <2>2, SignalsLoops DEF WakeDispatcher
  <2>4. main' \in MainPlaces
    BY <1>5 DEF WakeDispatcher
  <2>5. QED
    BY <1>5, <2>2, <2>3, <2>4 DEF WakeDispatcher
<1>6. CASE ClearContext
  <2>1. {posted', sessions'} \subseteq [Dispatcher -> Nat]
    BY <1>6 DEF ClearContext
  <2>2. QED
    BY <1>6, <2>1 DEF ClearContext
<1>7. CASE DeleteDb
  <2>1. dbTasks' \in Seq(Dispatcher)
    BY <1>7 DEF DeleteDb
  <2>2. QED
    BY <1>7, <2>1 DEF DeleteDb
<1>8. QED
  BY <1>1, <1>2, <1>2a, <1>3, <1>4, <1>5, <1>6, <1>7 DEF Halt

\* main gets past the DB worker's stop only after it, and past the join only
\* when everybody has left for good.
LEMMA MainKeepsOrder ==
  ASSUME ServerTypeOK, MainInOrder, ServerNext
  PROVE  MainInOrder'
<1> USE ThreadKinds DEF MainInOrder
<1>1. CASE UNCHANGED <<main, halting, running>> /\ main \notin {"clear", "deleteDb", "end"}
  BY <1>1 DEF DbWorker
<1>2. CASE UNCHANGED <<main, halting, running, place>>
  BY <1>2 DEF DbWorker
<1>3. StopAcceptor => MainInOrder'
  BY DEF StopAcceptor, MainGoes, Halts, DbWorker, Acceptor
<1>4. WakeAcceptor => MainInOrder'
  BY DEF WakeAcceptor, MainGoes, DbWorker
<1>5. StopDispatcher => MainInOrder'
  BY DEF StopDispatcher, MainGoes, Halts, DbWorker
<1>6. WakeDispatcher => MainInOrder'
  <2> SUFFICES ASSUME WakeDispatcher PROVE MainInOrder'
    OBVIOUS
  <2>1. halting < Shards /\ halting \in Nat /\ halting' = halting + 1 /\ running' = running
    BY DEF WakeDispatcher, MainGoes, ServerTypeOK
  <2>2. CASE halting + 1 = Shards
    BY <2>1, <2>2 DEF WakeDispatcher, MainGoes, DbWorker
  <2>3. CASE halting + 1 # Shards
    BY <2>1, <2>3 DEF WakeDispatcher, MainGoes, DbWorker
  <2>4. QED
    BY <2>2, <2>3
<1>6a. SendBufferPoolClear => MainInOrder'
  BY DEF SendBufferPoolClear, MainGoes, DbWorker
<1>7. StopDb => MainInOrder'
  BY DEF StopDb, MainGoes, Halts, DbWorker
<1>8. NotifyDb \/ RequestStop \/ StopNothing => MainInOrder'
  BY DEF NotifyDb, RequestStop, StopNothing, MainGoes,
         DbWorker
<1>9. Join => MainInOrder'
  BY DEF Join, MainGoes, DbWorker
<1>10. ClearContext \/ DeleteDb => MainInOrder'
  BY DEF ClearContext, DeleteDb, MainGoes, DbWorker
<1>11. ASSUME \/ Connect \/ \E d \in Dispatcher : Packet(d)
              \/ \E t \in Thread : Run(t)
              \/ DbWakesUnasked \/ \E l \in EventLoop : Interrupted(l)
       PROVE  MainInOrder'
  <2>1. UNCHANGED <<main, halting, running>>
    BY <1>11 DEF Connect, Packet, Run, DbWakesUnasked,
         Interrupted, LoopCheck, WaitReturns, EventsDone,
         DrainWakeup, Accept, NothingToAccept, ExecuteCommands,
         ReadPacket, OpenDb, TakeDbTask, WaitForDbTask,
         LeaveQueue, RunTask, AnswerCrashes, stopping
  <2>2. CASE main \notin {"clear", "deleteDb", "end"}
    BY <1>1, <2>1, <2>2
  <2>3. CASE main \in {"clear", "deleteDb", "end"}
    <3>1. \A t \in Thread : place[t] = "exited"
      BY <2>3
    <3>2. place' = place
      BY <1>11, <3>1 DEF Connect, Packet, Run, DbWakesUnasked,
         Interrupted, LoopCheck, WaitReturns, EventsDone,
         DrainWakeup, Accept, NothingToAccept, ExecuteCommands,
         ReadPacket, OpenDb, TakeDbTask, WaitForDbTask,
         LeaveQueue, RunTask, AnswerCrashes, Handles, DbWorkerAt
    <3>3. QED
      BY <1>2, <2>1, <3>2
  <2>4. QED
    BY <2>2, <2>3
<1>12. QED
  BY <1>3, <1>4, <1>5, <1>6, <1>6a, <1>7, <1>8, <1>9, <1>10, <1>11 DEF ServerNext, Halt

\* A task is added with its count, and leaves the queue when it has run.
LEMMA TasksStayCounted ==
  ASSUME ServerTypeOK, MainInOrder, WorkerInOrder, TasksCounted, ServerNext
  PROVE  TasksCounted'
<1> USE ThreadKinds DEF TasksCounted
<1>0. main # "end"
  BY DEF ServerNext, Alive
<1>1. CASE RunTask
  <2>1. dbTasks # <<>> /\ dbTasks \in Seq(Dispatcher)
    BY <1>1 DEF RunTask, DbWorkerAt, WorkerInOrder, ServerTypeOK
  <2>2. Len(Tail(dbTasks)) = Len(dbTasks) - 1 /\ Len(dbTasks) \in Nat
    BY <2>1
  <2>3. done' = done + 1 /\ queued' = queued
    BY <1>1 DEF RunTask
  <2>3a. Len(dbTasks') = Len(dbTasks) - 1
    BY <1>1, <2>2 DEF RunTask
  <2>4. done \in Nat /\ queued \in Nat
    BY DEF ServerTypeOK
  <2>5. QED
    BY <1>0, <2>2, <2>3, <2>3a, <2>4
<1>2. ASSUME NEW d \in Dispatcher, ReadPacket(d) PROVE TasksCounted'
  BY <1>0, <1>2 DEF ReadPacket, Enqueue, ServerTypeOK
<1>3. CASE DeleteDb
  BY <1>3 DEF DeleteDb, MainGoes
<1>4. CASE UNCHANGED <<queued, done, dbTasks>>
  BY <1>0, <1>4
<1>5. CASE \/ Connect \/ \E d \in Dispatcher : Packet(d)
           \/ DbWakesUnasked \/ \E l \in EventLoop : Interrupted(l)
           \/ StopAcceptor \/ StopNothing
  BY <1>4, <1>5 DEF Connect, Packet, DbWakesUnasked, Interrupted,
         StopAcceptor, StopNothing, history
<1>6. ASSUME NEW t \in Thread, Run(t) PROVE TasksCounted'
  BY <1>1, <1>2, <1>4, <1>6 DEF Run, LoopCheck, WaitReturns,
         EventsDone, DrainWakeup, Accept, NothingToAccept,
         ExecuteCommands, OpenDb, TakeDbTask, WaitForDbTask,
         LeaveQueue, AnswerCrashes, history
<1>7. CASE Halt
  BY <1>3, <1>4, <1>7 DEF Halt, WakeAcceptor, StopDispatcher,
         WakeDispatcher, SendBufferPoolClear, StopDb, NotifyDb, RequestStop,
         Join, ClearContext, history
<1>8. QED
  BY <1>5, <1>6, <1>7 DEF ServerNext

\* The worker leaves its loop with the queue empty, when nobody counts as early
\* any more.
LEMMA WorkerKeepsOrder ==
  ASSUME ServerTypeOK, MainInOrder, TasksCounted, WorkerInOrder, ServerNext
  PROVE  WorkerInOrder'
<1> USE ThreadKinds DEF WorkerInOrder
<1>0. main # "end" /\ queued = done + Len(dbTasks) /\ Len(dbTasks) \in Nat
      /\ done \in Nat /\ queued \in Nat /\ early \in Nat
  BY DEF ServerNext, Alive, TasksCounted, ServerTypeOK
<1>a. place \in [Thread -> ThreadPlaces] /\ looped \in BOOLEAN
  BY DEF ServerTypeOK
<1>1. CASE UNCHANGED <<place, running, looped, dbTasks, queued, early, done>>
  BY <1>1 DEF DbWorker
<1>2. CASE /\ UNCHANGED <<running, looped, dbTasks, queued, early, done>>
           /\ place'[DbWorker] = place[DbWorker]
  BY <1>2 DEF DbWorker
<1>3. ASSUME NEW t \in Thread, LoopCheck(t) PROVE WorkerInOrder'
  <2>1. /\ UNCHANGED <<running, dbTasks, queued, early, done>>
        /\ place[t] = "loop"
        /\ place' = [place EXCEPT ![t] = IF ~GoesOn(t) THEN "exited"
                                         ELSE IF t = DbWorker THEN "take" ELSE "wait"]
        /\ looped' = (looped \/ (t = DbWorker /\ GoesOn(t)))
    BY <1>3 DEF LoopCheck, stopping
  <2>2. CASE t # DbWorker
    BY <1>2, <1>a, <2>1, <2>2
  <2>3. CASE t = DbWorker /\ GoesOn(DbWorker)
    <3>1. place'[DbWorker] = "take" /\ looped'
      BY <1>a, <2>1, <2>3
    <3>2. QED
      BY <2>1, <3>1 DEF DbWorker
  <2>4. CASE t = DbWorker /\ ~GoesOn(DbWorker)
    <3>1. place[DbWorker] = "loop" /\ place'[DbWorker] = "exited" /\ looped' = looped
      BY <1>a, <2>1, <2>4
    <3>2. QED
      BY <2>1, <3>1 DEF DbWorker
  <2>5. QED
    BY <2>2, <2>3, <2>4
<1>4. ASSUME NEW l \in EventLoop,
             WaitReturns(l) \/ EventsDone(l) \/ Interrupted(l)
      PROVE  WorkerInOrder'
  <2>1. place'[DbWorker] = place[DbWorker]
    BY <1>a, <1>4 DEF WaitReturns, EventsDone, Interrupted
  <2>2. QED
    BY <1>2, <1>4, <2>1 DEF WaitReturns, EventsDone, Interrupted,
         stopping, history
<1>5. CASE \/ Connect \/ \E d \in Dispatcher : Packet(d)
           \/ DrainWakeup \/ Accept \/ NothingToAccept
           \/ \E d \in Dispatcher : ExecuteCommands(d)
  BY <1>1, <1>5 DEF Connect, Packet, DrainWakeup, Accept,
         NothingToAccept, ExecuteCommands, stopping, history
<1>6. ASSUME NEW d \in Dispatcher, ReadPacket(d) PROVE WorkerInOrder'
  <2>1. /\ queued' = queued + 1 /\ early' = early /\ done' = done
        /\ running' = running /\ looped' = looped
    BY <1>6 DEF ReadPacket, Enqueue, stopping
  <2>2. dbTasks' # <<>>
    <3>1. dbTasks' = Append(dbTasks, d) /\ dbTasks \in Seq(Dispatcher)
      BY <1>6 DEF ReadPacket, Enqueue, ServerTypeOK
    <3>2. QED
      BY <3>1
  <2>3. place'[DbWorker] = IF place[DbWorker] = "asleep" THEN "take" ELSE place[DbWorker]
    BY <1>a, <1>6 DEF ReadPacket, Enqueue
  <2>4. QED
    BY <1>0, <2>1, <2>2, <2>3 DEF DbWorker
<1>7. CASE OpenDb
  <2>1. place[DbWorker] = "starting" /\ place'[DbWorker] = "loop"
    BY <1>a, <1>7 DEF OpenDb
  <2>2. UNCHANGED <<running, looped, dbTasks, queued, early, done>>
    BY <1>7 DEF OpenDb, stopping, history
  <2>3. QED
    BY <2>1, <2>2 DEF DbWorker
<1>8. CASE TakeDbTask \/ WaitForDbTask \/ DbWakesUnasked
  <2>1. UNCHANGED <<running, looped, dbTasks, queued, early, done>>
    BY <1>8 DEF TakeDbTask, WaitForDbTask, DbWakesUnasked, stopping,
         history
  <2>2. place[DbWorker] \in {"take", "asleep"} /\ place'[DbWorker] \in {"take", "task", "asleep"}
    BY <1>a, <1>8 DEF TakeDbTask, WaitForDbTask, DbWakesUnasked,
         DbWorkerAt
  <2>3. place'[DbWorker] = "task" => dbTasks # <<>>
    BY <1>a, <1>8 DEF TakeDbTask, WaitForDbTask, DbWakesUnasked,
         DbWorkerAt, SomethingToDo, QueueIsFinished
  <2>4. QED
    BY <2>1, <2>2, <2>3 DEF DbWorker
<1>9. CASE LeaveQueue
  <2>1. UNCHANGED <<running, looped, dbTasks, queued, early, done>>
    BY <1>9 DEF LeaveQueue, stopping, history
  <2>2. DbWorker \notin running /\ dbTasks = <<>> /\ place'[DbWorker] = "loop"
    BY <1>a, <1>9 DEF LeaveQueue, DbWorkerAt, QueueIsFinished
  <2>3. early <= done
    BY <1>0, <2>2
  <2>4. QED
    BY <2>1, <2>2, <2>3 DEF DbWorker
<1>10. CASE RunTask
  <2>1. UNCHANGED <<running, looped, queued, early>> /\ done' = done + 1
    BY <1>10 DEF RunTask, stopping
  <2>2. place[DbWorker] = "task" /\ place'[DbWorker] = "take"
    BY <1>a, <1>10 DEF RunTask, DbWorkerAt
  <2>3. QED
    BY <1>0, <2>1, <2>2 DEF DbWorker
<1>11. CASE StopDb
  <2>1. UNCHANGED <<place, looped, dbTasks, queued, done>> /\ early' = queued
        /\ DbWorker \in running
    BY <1>11 DEF StopDb, MainGoes, MainInOrder
  <2>2. QED
    BY <1>0, <2>1 DEF DbWorker
<1>12. CASE NotifyDb
  <2>1. UNCHANGED <<running, looped, dbTasks, queued, early, done>>
    BY <1>12 DEF NotifyDb, history
  <2>2. place'[DbWorker] = IF place[DbWorker] = "asleep" THEN "take" ELSE place[DbWorker]
    BY <1>a, <1>12 DEF NotifyDb
  <2>3. QED
    BY <2>1, <2>2 DEF DbWorker
<1>13. CASE StopAcceptor \/ StopDispatcher
  <2>1. UNCHANGED <<place, looped, dbTasks, queued, early, done>> /\ running' \subseteq running
    BY <1>13 DEF StopAcceptor, StopDispatcher, Halts, history
  <2>2. QED
    BY <2>1 DEF DbWorker
<1>14. CASE \/ StopNothing \/ WakeAcceptor \/ WakeDispatcher
            \/ SendBufferPoolClear \/ RequestStop \/ Join \/ ClearContext
            \/ AnswerCrashes
  BY <1>1, <1>14 DEF StopNothing, WakeAcceptor, WakeDispatcher,
         SendBufferPoolClear, RequestStop, Join, ClearContext, AnswerCrashes,
         stopping, history
<1>15. CASE DeleteDb
  <2>1. UNCHANGED <<place, running, looped, queued, early, done>> /\ place[DbWorker] = "exited"
    BY <1>15 DEF DeleteDb, MainGoes, history, MainInOrder
  <2>2. QED
    BY <2>1 DEF DbWorker
<1>16. ASSUME NEW t \in Thread, Run(t) PROVE WorkerInOrder'
  BY <1>3, <1>4, <1>5, <1>6, <1>7, <1>8, <1>9, <1>10, <1>14, <1>16 DEF Run
<1>17. QED
  BY <1>4, <1>5, <1>8, <1>11, <1>12, <1>13, <1>14, <1>15, <1>16 DEF ServerNext, Halt

\* Every step keeps the invariant.
LEMMA DrainStep ==
  ASSUME DrainInv, [ServerNext]_serverVars
  PROVE  DrainInv'
<1>1. CASE UNCHANGED serverVars
  BY <1>1 DEF serverVars, stopping, loops, net, memory, history, DrainInv,
       ServerTypeOK, WorkIsThere, MainInOrder, TasksCounted, WorkerInOrder, DbWorker
<1>2. CASE ServerNext
  <2>1. ServerTypeOK' /\ WorkIsThere'
    BY <1>2, LoopKeepsTypes, WorkerKeepsTypes, ThreadKinds
       DEF DrainInv, ServerNext, Run
  <2>2. QED
    BY <1>2, <2>1, MainKeepsOrder, TasksStayCounted, WorkerKeepsOrder DEF DrainInv
<1>3. QED
  BY <1>1, <1>2

\* Every variable of the server's threads keeps its type, from start to end.
THEOREM StopTypeInvariant == ServerSafeSpec => []ServerTypeOK
<1>1. DrainInv => ServerTypeOK
  BY DEF DrainInv
<1>2. QED
  BY <1>1, DrainInit, DrainStep, PTL DEF ServerSafeSpec

\* When the threads are joined, every request that was queued before
\* DbWorker::Stop has been carried out, if the DB worker had got to its loop,
\* for any number of dispatchers, connections and requests.
THEOREM EarlyTasksRunHolds == ServerSafeSpec => []EarlyTasksRun
<1>1. DrainInv => EarlyTasksRun
  <2> SUFFICES ASSUME DrainInv, main \in {"clear", "deleteDb", "end"}, looped
               PROVE  early <= done
    BY DEF EarlyTasksRun, DrainInv, ServerTypeOK
  <2>1. place[DbWorker] = "exited"
    BY ThreadKinds DEF DrainInv, MainInOrder
  <2>2. QED
    BY <2>1 DEF DrainInv, WorkerInOrder
<1>2. QED
  BY <1>1, DrainInit, DrainStep, PTL DEF ServerSafeSpec

----------------------------------------------------------------------------
(***************************************************************************)
(* The wakeups of the stop.  An event loop gets to epoll_wait only while   *)
(* its flag is set, and drains its eventfd only after it has returned from *)
(* epoll_wait; the DB worker looks at its flag before it waits.            *)
(***************************************************************************)
\* Those that main has told to stop, the flag and the wakeup both.
Told(t) ==
  \/ t = Acceptor /\ main \notin {"serve", "deleteRunning", "wakeAcceptor"}
  \/ t \in Dispatcher /\ t < halting
  \/ t = DbWorker /\ main \in {"requestStop", "join", "clear", "deleteDb", "end"}

\* A thread that was told to stop is not asleep, or has its wakeup.  It is what
\* StopReturns rests on: whatever a thread did when main came by, neither the
\* commands, the connections nor the tasks that arrive in between take its wakeup.
WokenToStop ==
  \A t \in Thread : Told(t) =>
    /\ t \notin running
    /\ place[t] = "wait" => t \in signal
    /\ place[t] # "asleep"

\* How far main is with telling them.
ToldInOrder ==
  /\ main \in {"serve", "wakeAcceptor", "deleteRunning"} => halting = 0
  /\ main \notin {"serve", "deleteRunning"} => Acceptor \notin running
  /\ main = "wakeDispatcher" => halting \notin running
  /\ \A d \in Dispatcher : d < halting => d \notin running
  /\ \A l \in EventLoop : place[l] # "asleep"
  /\ place[DbWorker] \notin {"wait", "events"}

\* What a step of a thread or of the outside may do to the threads: one whose
\* flag is cleared does not go to sleep, and one in epoll_wait keeps its wakeup.
KeepsAwake ==
  /\ UNCHANGED <<main, halting, running>>
  /\ \A t \in Thread :
       /\ place'[t] = "asleep" => t = DbWorker /\ (place[t] = "asleep" \/ t \in running)
       /\ place'[t] = "wait" => /\ t # DbWorker
                                /\ place[t] = "wait" \/ t \in running
                                /\ t \in signal => t \in signal'
  /\ place'[DbWorker] # "events"

LEMMA ThreadsKeepAwake ==
  ASSUME ServerTypeOK, ToldInOrder,
         \/ Connect \/ \E d \in Dispatcher : Packet(d)
         \/ \E t \in Thread : Run(t)
         \/ DbWakesUnasked \/ \E l \in EventLoop : Interrupted(l)
  PROVE  KeepsAwake
<1>0. place \in [Thread -> ThreadPlaces] /\ ready \in [EventLoop -> SUBSET {"wakeup", "work"}]
  BY DEF ServerTypeOK
<1>1. /\ \A l \in EventLoop : place[l] # "asleep"
      /\ place[DbWorker] \notin {"wait", "events"}
  BY DEF ToldInOrder
<1>2. \A t \in Thread : t \in EventLoop \/ t = DbWorker
  BY ThreadKinds DEF Thread, EventLoop, Dispatcher, Acceptor, DbWorker
<1> USE ThreadKinds DEF KeepsAwake
<1>3. ASSUME UNCHANGED <<main, halting, running, place>>,
             \A t \in Thread : place[t] = "wait" /\ t \in signal => t \in signal'
      PROVE  KeepsAwake
  BY <1>1, <1>2, <1>3
<1>4. CASE \/ Connect \/ Accept \/ NothingToAccept
           \/ \E d \in Dispatcher : Packet(d)
  BY <1>3, <1>4 DEF Connect, Packet, Accept, NothingToAccept, Post, Signals, stopping, loops
<1>5. CASE DrainWakeup \/ \E d \in Dispatcher : ExecuteCommands(d)
  <2>1. PICK l \in EventLoop : place[l] = "events" /\ signal' = signal \ {l}
    BY <1>5 DEF DrainWakeup, ExecuteCommands, Handles
  <2>2. UNCHANGED <<main, halting, running, place>>
    BY <1>5 DEF DrainWakeup, ExecuteCommands, stopping
  <2>3. QED
    BY <1>3, <2>1, <2>2
<1>6. ASSUME NEW t \in Thread, LoopCheck(t) PROVE KeepsAwake
  <2>1. /\ UNCHANGED <<main, halting, running>>
        /\ place' = [place EXCEPT ![t] = IF ~GoesOn(t) THEN "exited"
                                         ELSE IF t = DbWorker THEN "take" ELSE "wait"]
        /\ signal' = IF GoesOn(t) THEN signal ELSE signal \ {t}
    BY <1>6 DEF LoopCheck, stopping
  <2>2. \A u \in Thread \ {t} : place'[u] = place[u] /\ (u \in signal => u \in signal')
    BY <1>0, <2>1
  <2>3. /\ place'[t] # "asleep" /\ place'[t] # "events"
        /\ place'[t] = "wait" => t # DbWorker /\ t \in running /\ signal' = signal
    BY <1>0, <2>1 DEF GoesOn
  <2>4. QED
    BY <1>1, <1>2, <2>1, <2>2, <2>3
<1>7. ASSUME NEW l \in EventLoop, WaitReturns(l) \/ EventsDone(l) \/ Interrupted(l)
      PROVE  KeepsAwake
  <2>1. UNCHANGED <<main, halting, running, signal>>
    BY <1>7 DEF WaitReturns, EventsDone, Interrupted, stopping, loops
  <2>2. /\ place'[l] \in {"events", "loop"}
        /\ \A u \in Thread \ {l} : place'[u] = place[u]
    BY <1>0, <1>7 DEF WaitReturns, EventsDone, Interrupted
  <2>3. QED
    BY <1>1, <1>2, <2>1, <2>2
<1>8. ASSUME NEW d \in Dispatcher, ReadPacket(d) PROVE KeepsAwake
  <2>1. UNCHANGED <<main, halting, running, signal>>
    BY <1>8 DEF ReadPacket, stopping
  <2>2. place' = [place EXCEPT ![DbWorker] = IF place[DbWorker] = "asleep" THEN "take"
                                             ELSE place[DbWorker]]
    BY <1>8 DEF ReadPacket, Enqueue
  <2>3. /\ place'[DbWorker] # "asleep" /\ place'[DbWorker] \notin {"wait", "events"}
        /\ \A u \in Thread \ {DbWorker} : place'[u] = place[u]
    BY <1>0, <1>1, <2>2
  <2>4. QED
    BY <1>1, <1>2, <2>1, <2>3
<1>9. CASE OpenDb \/ TakeDbTask \/ WaitForDbTask \/ LeaveQueue \/ RunTask \/ DbWakesUnasked
  <2>1. /\ UNCHANGED <<main, halting, running>>
        /\ \A u \in Thread : place[u] = "wait" /\ u \in signal => u \in signal'
    BY <1>9 DEF OpenDb, TakeDbTask, WaitForDbTask, LeaveQueue, RunTask, DbWakesUnasked,
                Signals, stopping, loops
  <2>2. /\ place'[DbWorker] \in {"loop", "take", "task", "asleep"}
        /\ place'[DbWorker] = "asleep" => DbWorker \in running
        /\ \A u \in Thread \ {DbWorker} : place'[u] = place[u]
    BY <1>0, <1>9 DEF OpenDb, TakeDbTask, WaitForDbTask, LeaveQueue, RunTask, DbWakesUnasked,
                      DbWorkerAt, SomethingToDo
  <2>3. QED
    BY <1>1, <1>2, <2>1, <2>2
<1> HIDE DEF KeepsAwake
<1>10. ASSUME NEW t \in Thread, Run(t) PROVE KeepsAwake
  <2>1. CASE LoopCheck(t)
    BY <1>6, <2>1
  <2>2. CASE t \in EventLoop /\ (WaitReturns(t) \/ EventsDone(t))
    BY <1>7, <2>2
  <2>3. CASE DrainWakeup \/ Accept \/ NothingToAccept
    BY <1>4, <1>5, <2>3
  <2>4. CASE t \in Dispatcher /\ (ExecuteCommands(t) \/ ReadPacket(t))
    BY <1>5, <1>8, <2>4
  <2>5. CASE OpenDb \/ TakeDbTask \/ WaitForDbTask \/ LeaveQueue \/ RunTask
    BY <1>9, <2>5
  <2>5a. CASE AnswerCrashes
    BY <1>3, <2>5a DEF AnswerCrashes, stopping, loops
  <2>6. QED
    BY <1>10, <2>1, <2>2, <2>3, <2>4, <2>5, <2>5a DEF Run
<1>11. QED
  BY <1>4, <1>5, <1>6, <1>7, <1>8, <1>9, <1>10

\* And what main does, one call after the other.
LEMMA MainTells ==
  ASSUME ServerTypeOK, MainInOrder, ToldInOrder, WokenToStop,
         StopAcceptor \/ StopNothing \/ Halt
  PROVE  ToldInOrder' /\ WokenToStop'
<1>0. /\ place \in [Thread -> ThreadPlaces] /\ running \subseteq Thread
      /\ halting \in Nat /\ signal \subseteq EventLoop
  BY DEF ServerTypeOK
<1>1. /\ \A d \in Dispatcher : d \in Nat /\ d # Acceptor /\ d # DbWorker
      /\ Acceptor # DbWorker
      /\ \A t \in Thread : t \in Dispatcher \/ t = Acceptor \/ t = DbWorker
      /\ \A t \in EventLoop : t \in Dispatcher \/ t = Acceptor
  BY ThreadKinds DEF Thread, EventLoop, Dispatcher, Acceptor, DbWorker
<1> USE ThreadKinds DEF ToldInOrder, WokenToStop, Told, MainGoes, Halts
<1>2. CASE StopAcceptor
  BY <1>0, <1>1, <1>2 DEF StopAcceptor, loops
<1>3. CASE StopNothing
  BY <1>0, <1>1, <1>3 DEF StopNothing, stopping, loops
<1>4. CASE WakeAcceptor
  <2>1. /\ main = "wakeAcceptor" /\ main' = "stopDispatcher"
        /\ UNCHANGED <<halting, running, place>>
    BY <1>4 DEF WakeAcceptor
  <2>2. signal \subseteq signal' /\ (place[Acceptor] = "wait" => Acceptor \in signal')
    BY <1>4 DEF WakeAcceptor, Signals
  <2>3. QED
    BY <1>0, <1>1, <2>1, <2>2
<1>5. CASE StopDispatcher
  <2>1. /\ main = "stopDispatcher" /\ main' = "wakeDispatcher"
        /\ running' = running \ {halting}
        /\ UNCHANGED <<halting, place, signal>>
    BY <1>5 DEF StopDispatcher, loops
  <2>2. QED
    BY <1>0, <1>1, <2>1
<1>6. CASE WakeDispatcher
  <2>1. /\ main = "wakeDispatcher" /\ main' \in {"clearPool", "stopDispatcher"}
        /\ halting' = halting + 1
        /\ UNCHANGED <<running, place>>
    BY <1>6 DEF WakeDispatcher
  <2>2. signal \subseteq signal' /\ (place[halting] = "wait" => halting \in signal')
    BY <1>6 DEF WakeDispatcher, Signals
  <2>3. \A d \in Dispatcher : d < halting' => d < halting \/ d = halting
    BY <1>0, <1>1, <2>1
  <2>4. halting \in Dispatcher
    BY <1>0, <2>1 DEF MainInOrder, Dispatcher
  <2>5. place[halting] # "asleep" /\ halting \notin running
    BY <2>1, <2>4
  <2>6. QED
    BY <1>0, <1>1, <2>1, <2>2, <2>3, <2>5
<1>6a. CASE SendBufferPoolClear
  BY <1>0, <1>1, <1>6a DEF SendBufferPoolClear, loops
<1>7. CASE StopDb
  BY <1>0, <1>1, <1>7 DEF StopDb, loops
<1>8. CASE NotifyDb
  <2>1. /\ main = "notifyDb" /\ main' = "requestStop"
        /\ UNCHANGED <<halting, running, signal>>
    BY <1>8 DEF NotifyDb, loops
  <2>2. place' = [place EXCEPT ![DbWorker] = IF place[DbWorker] = "asleep" THEN "take"
                                             ELSE place[DbWorker]]
    BY <1>8 DEF NotifyDb
  <2>3. /\ place'[DbWorker] \notin {"wait", "events", "asleep"}
        /\ \A u \in Thread \ {DbWorker} : place'[u] = place[u]
    BY <1>0, <2>2
  <2>4. DbWorker \notin running
    BY <2>1 DEF MainInOrder
  <2>5. QED
    BY <1>0, <1>1, <2>1, <2>3, <2>4
<1>9. CASE RequestStop \/ Join \/ ClearContext \/ DeleteDb
  <2>1. /\ main \in {"requestStop", "join", "clear", "deleteDb"}
        /\ main' \in {"join", "clear", "deleteDb", "end"}
        /\ UNCHANGED <<halting, running, place, signal>>
    BY <1>9 DEF RequestStop, Join, ClearContext, DeleteDb, stopping, loops
  <2>2. QED
    BY <1>0, <1>1, <2>1
<1>10. QED
  BY <1>2, <1>3, <1>4, <1>5, <1>6, <1>6a, <1>7, <1>8, <1>9 DEF Halt

\* No thread sleeps on after it was told to stop: whatever it did when main came
\* by, an event loop in epoll_wait still has its wakeup, and the DB worker is
\* not in its wait, for any number of dispatchers, connections and requests.
THEOREM WokenToStopHolds == ServerSafeSpec => []WokenToStop
<1>1. ServerInit => ToldInOrder /\ WokenToStop
  BY ThreadKinds DEF ServerInit, ToldInOrder, WokenToStop, Told, Dispatcher
<1>2. ASSUME DrainInv, ToldInOrder, WokenToStop, [ServerNext]_serverVars
      PROVE  ToldInOrder' /\ WokenToStop'
  <2>1. ServerTypeOK /\ MainInOrder
    BY <1>2 DEF DrainInv
  <2>2. CASE UNCHANGED serverVars
    BY <1>2, <2>2 DEF serverVars, stopping, loops, ToldInOrder, WokenToStop, Told
  <2>3. CASE StopAcceptor \/ StopNothing \/ Halt
    BY <1>2, <2>1, <2>3, MainTells
  <2>4. ASSUME KeepsAwake PROVE ToldInOrder' /\ WokenToStop'
    BY <1>2, <2>4, ThreadKinds DEF KeepsAwake, ToldInOrder, WokenToStop, Told
  <2>5. QED
    BY <1>2, <2>1, <2>2, <2>3, <2>4, ThreadsKeepAwake DEF ServerNext
<1>3. QED
  BY <1>1, <1>2, DrainInit, DrainStep, PTL DEF ServerSafeSpec
=============================================================================
