----------------------------- MODULE ServerStop -----------------------------
(***************************************************************************)
(* The server's threads together: the acceptor, the dispatchers, the DB    *)
(* worker, and the main thread that stops, joins and frees them.  An       *)
(* accepted connection is posted to a shard, a packet becomes a DB task    *)
(* that holds its session, and the task's answer is posted to the shard.   *)
(*                                                                         *)
(* What one dispatcher does with its mailbox, its sessions and its bytes   *)
(* is in ShardMailbox, SessionLifecycle and RecvFraming; here its handlers *)
(* are single steps, connections and packets are counted, and what matters *)
(* is who still runs, and what is still queued, when main goes on.  How a  *)
(* buffer's deleter races with the clearing of the pool is in              *)
(* SendBufferArena; here the pool is there or cleared, and what goes       *)
(* through it afterwards takes the process down.                           *)
(***************************************************************************)
EXTENDS Naturals, Sequences, FiniteSets

CONSTANTS Shards,      \* number of dispatchers
          MaxConnects, \* bound: clients that connect
          MaxPackets   \* bound: requests that arrive

ASSUME ShardsAssumption == Shards \in Nat \ {0}

Dispatcher == 0 .. Shards - 1
Acceptor == Shards
DbWorker == Shards + 1
Thread == 0 .. Shards + 1
EventLoop == Dispatcher \cup {Acceptor}

VARIABLES
  main,       \* what the main thread is about to do
  halting,    \* the dispatcher that Server::Stop is at
  running,    \* the threads whose _running is set
  stopToken,  \* stop_requested, of all threads
  place,      \* each thread's place in its Run
  signal,     \* the event loops whose eventfd is readable
  ready,      \* what epoll_wait returned: wakeup, work
  backlog,    \* connections to be accepted
  nextShard,  \* _autoIncrementShardId
  posted,     \* accepted connections in each shard's mailbox
  sessions,   \* sessions of each shard
  inbox,      \* packets to be read by each shard
  dbTasks,    \* _taskQueue of the DB worker
  connects,   \* connections so far
  packets,    \* packets so far
  sendPool,   \* S_SendBufferPool: "there" or "cleared"
  hasBuffer,  \* the DB worker has a S_LCurrentSendBuffer
  crashed,    \* the process is gone
  queued,     \* history: calls of Enqueue
  early,      \* history: those before DbWorker::Stop
  done,       \* history: tasks that ran
  looped      \* history: the DB worker got to its inner loop

stopping == <<main, halting, running, stopToken>>
loops == <<signal, ready>>
net == <<backlog, nextShard, posted, sessions, inbox, connects, packets>>
memory == <<sendPool, hasBuffer, crashed>>
history == <<queued, early, done, looped>>
serverVars == <<stopping, place, loops, net, dbTasks, memory, history>>

ServerInit ==
  /\ main = "serve"
  /\ halting = 0
  /\ running = Thread
  /\ stopToken = FALSE
  /\ place = [t \in Thread |-> IF t = DbWorker THEN "starting" ELSE "loop"]
  /\ signal = {}
  /\ ready = [l \in EventLoop |-> {}]
  /\ backlog = 0
  /\ nextShard = 0
  /\ posted = [d \in Dispatcher |-> 0]
  /\ sessions = [d \in Dispatcher |-> 0]
  /\ inbox = [d \in Dispatcher |-> 0]
  /\ dbTasks = <<>>
  /\ connects = 0
  /\ packets = 0
  /\ sendPool = "there"
  /\ hasBuffer = FALSE
  /\ crashed = FALSE
  /\ queued = 0
  /\ early = 0
  /\ done = 0
  /\ looped = FALSE

\* A write to the eventfd of an event loop; once the loop is out, its
\* descriptor is closed and the write does nothing.
Signals(l) == signal' = IF place[l] = "exited" THEN signal ELSE signal \cup {l}

\* PostToShard.  main frees the mailboxes only after everyone has left.
Post(d) == posted' = [posted EXCEPT ![d] = @ + 1] /\ Signals(d)

----------------------------------------------------------------------------
(***************************************************************************)
(* The outside.                                                            *)
(***************************************************************************)

Connect ==
  /\ connects < MaxConnects
  /\ place[Acceptor] # "exited"
  /\ connects' = connects + 1
  /\ backlog' = backlog + 1
  /\ UNCHANGED <<stopping, place, loops, nextShard, posted, sessions, inbox,
                 packets, dbTasks, history, memory>>

Packet(d) ==
  /\ packets < MaxPackets
  /\ sessions[d] > 0
  /\ packets' = packets + 1
  /\ inbox' = [inbox EXCEPT ![d] = @ + 1]
  /\ UNCHANGED <<stopping, place, loops, backlog, nextShard, posted, sessions,
                 connects, dbTasks, history, memory>>

----------------------------------------------------------------------------
(***************************************************************************)
(* Every thread's loop.                                                    *)
(***************************************************************************)

\* The DB worker opens its file first, which takes a while.
OpenDb ==
  /\ place[DbWorker] = "starting"
  /\ place' = [place EXCEPT ![DbWorker] = "loop"]
  /\ UNCHANGED <<stopping, loops, net, dbTasks, history, memory>>

GoesOn(t) == t \in running /\ ~stopToken

\* while (_running && !stop_requested), then Close and the exit callbacks.
LoopCheck(t) ==
  /\ place[t] = "loop"
  /\ place' = [place EXCEPT ![t] = IF ~GoesOn(t) THEN "exited"
                             ELSE IF t = DbWorker THEN "take" ELSE "wait"]
  /\ signal' = IF GoesOn(t) THEN signal ELSE signal \ {t}
  /\ looped' = (looped \/ (t = DbWorker /\ GoesOn(t)))
  /\ UNCHANGED <<stopping, ready, net, dbTasks, queued, early, done, memory>>

HasWork(l) == IF l = Acceptor THEN backlog > 0 ELSE inbox[l] > 0

\* epoll_wait is interrupted by a signal.
Interrupted(l) ==
  /\ place[l] = "wait"
  /\ place' = [place EXCEPT ![l] = "loop"]
  /\ UNCHANGED <<stopping, loops, net, dbTasks, history, memory>>

\* epoll_wait returns with what is ready.
WaitReturns(l) ==
  /\ place[l] = "wait"
  /\ l \in signal \/ HasWork(l)
  /\ ready' = [ready EXCEPT ![l] = (IF l \in signal THEN {"wakeup"} ELSE {}) \cup
                                   (IF HasWork(l) THEN {"work"} ELSE {})]
  /\ place' = [place EXCEPT ![l] = "events"]
  /\ UNCHANGED <<stopping, signal, net, dbTasks, history, memory>>

EventsDone(l) ==
  /\ place[l] = "events" /\ ready[l] = {}
  /\ place' = [place EXCEPT ![l] = "loop"]
  /\ UNCHANGED <<stopping, loops, net, dbTasks, history, memory>>

----------------------------------------------------------------------------
(***************************************************************************)
(* The acceptor.                                                           *)
(***************************************************************************)

Handles(l, event) == place[l] = "events" /\ event \in ready[l]
Handled(l, event) == ready' = [ready EXCEPT ![l] = @ \ {event}]

DrainWakeup ==
  /\ Handles(Acceptor, "wakeup")
  /\ Handled(Acceptor, "wakeup")
  /\ signal' = signal \ {Acceptor}
  /\ UNCHANGED <<stopping, place, net, dbTasks, history, memory>>

\* A connection is accepted and posted to the next shard in turn ...
Accept ==
  /\ Handles(Acceptor, "work")
  /\ backlog > 0
  /\ backlog' = backlog - 1
  /\ nextShard' = (nextShard + 1) % Shards
  /\ Post(nextShard)
  /\ UNCHANGED <<stopping, place, ready, sessions, inbox, connects, packets,
                 dbTasks, history, memory>>

\* ... until there is none, which ends the event.
NothingToAccept ==
  /\ Handles(Acceptor, "work")
  /\ backlog = 0
  /\ Handled(Acceptor, "work")
  /\ UNCHANGED <<stopping, place, signal, net, dbTasks, history, memory>>

----------------------------------------------------------------------------
(***************************************************************************)
(* A dispatcher.                                                           *)
(***************************************************************************)

\* ConsumeEventSignal and ExecuteCommands: the connections become sessions.
ExecuteCommands(d) ==
  /\ Handles(d, "wakeup")
  /\ Handled(d, "wakeup")
  /\ signal' = signal \ {d}
  /\ sessions' = [sessions EXCEPT ![d] = @ + posted[d]]
  /\ posted' = [posted EXCEPT ![d] = 0]
  /\ UNCHANGED <<stopping, place, backlog, nextShard, inbox, connects, packets,
                 dbTasks, history, memory>>

\* Enqueue, with its notify_one.
Enqueue(d) ==
  /\ dbTasks' = Append(dbTasks, d)
  /\ queued' = queued + 1
  /\ place' = [place EXCEPT ![DbWorker] = IF @ = "asleep" THEN "take" ELSE @]

\* A packet is read, and its handler gives the DB worker a task, whether the
\* worker has been stopped or not.
ReadPacket(d) ==
  /\ Handles(d, "work")
  /\ inbox' = [inbox EXCEPT ![d] = @ - 1]
  /\ Enqueue(d)
  /\ IF inbox[d] > 1 THEN UNCHANGED ready ELSE Handled(d, "work")
  /\ UNCHANGED <<stopping, signal, backlog, nextShard, posted, sessions, connects,
                 packets, early, done, looped, memory>>

----------------------------------------------------------------------------
(***************************************************************************)
(* The DB worker.                                                          *)
(***************************************************************************)

DbWorkerAt(from, to) ==
  /\ place[DbWorker] = from
  /\ place' = [place EXCEPT ![DbWorker] = to]

\* Mutant: the worker waits for tasks alone.
AnyTask == dbTasks # <<>>

\* The condition that the worker waits for.
SomethingToDo == dbTasks # <<>> \/ DbWorker \notin running

\* Mutant: a stopped worker leaves its queue.
LeavesAtOnce == DbWorker \notin running

\* What lets it out of the inner loop.
QueueIsFinished == DbWorker \notin running /\ dbTasks = <<>>

\* The task in hand is left at the queue's head until it has run.
TakeDbTask ==
  /\ SomethingToDo /\ ~QueueIsFinished
  /\ DbWorkerAt("take", "task")
  /\ UNCHANGED <<stopping, loops, net, dbTasks, history, memory>>

WaitForDbTask ==
  /\ ~SomethingToDo
  /\ DbWorkerAt("take", "asleep")
  /\ UNCHANGED <<stopping, loops, net, dbTasks, history, memory>>

\* The worker can wake without a notification.
DbWakesUnasked ==
  /\ DbWorkerAt("asleep", "take")
  /\ UNCHANGED <<stopping, loops, net, dbTasks, history, memory>>

LeaveQueue ==
  /\ SomethingToDo /\ QueueIsFinished
  /\ DbWorkerAt("take", "loop")
  /\ UNCHANGED <<stopping, loops, net, dbTasks, history, memory>>

\* The task runs, and its answer is written to the worker's current buffer,
\* which comes from the pool.  A flush is posted to the session's shard, unless
\* one is on its way.
RunTask ==
  /\ DbWorkerAt("task", "take")
  /\ sendPool = "there" \/ hasBuffer
  /\ hasBuffer' = TRUE
  /\ Signals(Head(dbTasks)) \/ UNCHANGED signal
  /\ dbTasks' = Tail(dbTasks)
  /\ done' = done + 1
  /\ UNCHANGED <<stopping, ready, net, sendPool, crashed, queued, early, looped>>

\* It runs, but needs a buffer, its first or one behind a full one, and
\* SwapSendBuffer calls the pool through the pointer that main has reset.
AnswerCrashes ==
  /\ place[DbWorker] = "task"
  /\ sendPool = "cleared"
  /\ crashed' = TRUE
  /\ UNCHANGED <<stopping, place, loops, net, dbTasks, sendPool, hasBuffer, history>>

----------------------------------------------------------------------------
(***************************************************************************)
(* The main thread.                                                        *)
(***************************************************************************)

MainGoes(from, to) == main = from /\ main' = to

Halts(t) == running' = running \ {t}

\* 's' was typed: Acceptor::Stop sets the flag and writes to the eventfd.
StopAcceptor ==
  /\ MainGoes("serve", "wakeAcceptor")
  /\ Halts(Acceptor)
  /\ UNCHANGED <<halting, stopToken, place, loops, net, dbTasks, history, memory>>

WakeAcceptor ==
  /\ MainGoes("wakeAcceptor", "stopDispatcher")
  /\ Signals(Acceptor)
  /\ UNCHANGED <<halting, running, stopToken, place, ready, net, dbTasks, history, memory>>

\* EpollDispatcher::Stop does the same for each dispatcher.
StopDispatcher ==
  /\ MainGoes("stopDispatcher", "wakeDispatcher")
  /\ Halts(halting)
  /\ UNCHANGED <<halting, stopToken, place, loops, net, dbTasks, history, memory>>

WakeDispatcher ==
  /\ MainGoes("wakeDispatcher", IF halting + 1 = Shards THEN "clearPool" ELSE "stopDispatcher")
  /\ halting' = halting + 1
  /\ Signals(halting)
  /\ UNCHANGED <<running, stopToken, place, ready, net, dbTasks, history, memory>>

\* The last thing Server::Stop does, with every thread still running.
SendBufferPoolClear ==
  /\ MainGoes("clearPool", "stopDb")
  /\ sendPool' = "cleared"
  /\ UNCHANGED <<halting, running, stopToken, place, loops, net, dbTasks, hasBuffer,
                 crashed, history>>

\* DbWorker::Stop, and its notify_one after the lock is released.
StopDb ==
  /\ MainGoes("stopDb", "notifyDb")
  /\ Halts(DbWorker)
  /\ early' = queued
  /\ UNCHANGED <<halting, stopToken, place, loops, net, dbTasks, queued,
                 done, looped, memory>>

NotifyDb ==
  /\ MainGoes("notifyDb", "requestStop")
  /\ place' = [place EXCEPT ![DbWorker] = IF @ = "asleep" THEN "take" ELSE @]
  /\ UNCHANGED <<halting, running, stopToken, loops, net, dbTasks, history, memory>>

\* StopAllAndJoin.
RequestStop ==
  /\ MainGoes("requestStop", "join")
  /\ stopToken' = TRUE
  /\ UNCHANGED <<halting, running, place, loops, net, dbTasks, history, memory>>

Join ==
  /\ MainGoes("join", "clear")
  /\ \A t \in Thread : place[t] = "exited"
  /\ UNCHANGED <<halting, running, stopToken, place, loops, net, dbTasks, history, memory>>

\* The registry goes, with the mailboxes and the sessions; then the memory pool.
ClearContext ==
  /\ MainGoes("clear", "deleteDb")
  /\ posted' = [d \in Dispatcher |-> 0]
  /\ sessions' = [d \in Dispatcher |-> 0]
  /\ UNCHANGED <<halting, running, stopToken, place, loops, backlog, nextShard, inbox,
                 connects, packets,
                 dbTasks, history, memory>>

\* Another key was typed: the DB worker and the server are deleted as they are.
StopNothing ==
  /\ MainGoes("serve", "deleteRunning")
  /\ UNCHANGED <<halting, running, stopToken, place, loops, net, dbTasks, history, memory>>

\* delete dbWorker destroys the tasks that are left.  The sessions they hold go
\* back to a memory pool that is deleted, which they may or may not survive.
DeleteDb ==
  /\ MainGoes("deleteDb", "end")
  /\ dbTasks' = <<>>
  /\ dbTasks = <<>> => UNCHANGED crashed
  /\ crashed' \in BOOLEAN
  /\ UNCHANGED <<halting, running, stopToken, place, loops, net, sendPool, hasBuffer,
                 history>>

----------------------------------------------------------------------------
Run(t) ==
  \/ LoopCheck(t)
  \/ t \in EventLoop /\ (WaitReturns(t) \/ EventsDone(t))
  \/ t = Acceptor /\ (DrainWakeup \/ Accept \/ NothingToAccept)
  \/ t \in Dispatcher /\ (ExecuteCommands(t) \/ ReadPacket(t))
  \/ t = DbWorker /\ (OpenDb \/ TakeDbTask \/ WaitForDbTask \/ LeaveQueue
                        \/ RunTask \/ AnswerCrashes)

Halt ==
  \/ WakeAcceptor \/ StopDispatcher \/ WakeDispatcher \/ SendBufferPoolClear
  \/ StopDb \/ NotifyDb \/ RequestStop \/ Join \/ ClearContext \/ DeleteDb

\* Nothing of the program is left to run once main has ended, or deletes what
\* the threads still use, or a thread has crashed.
Alive == main \notin {"end", "deleteRunning"} /\ ~crashed

ServerNext ==
  /\ Alive
  /\ \/ Connect \/ (\E d \in Dispatcher : Packet(d))
     \/ \E t \in Thread : Run(t)
     \/ DbWakesUnasked \/ (\E l \in EventLoop : Interrupted(l))
     \/ StopAcceptor \/ StopNothing \/ Halt

ServerSafeSpec == ServerInit /\ [][ServerNext]_serverVars

\* Threads are scheduled, and main goes on once it has begun to stop; nobody
\* need type 's', interrupt a wait or wake the worker unasked.
ServerSpec ==
  /\ ServerSafeSpec
  /\ \A t \in Thread : WF_serverVars(Alive /\ Run(t))
  /\ WF_serverVars(Alive /\ Halt)

----------------------------------------------------------------------------
\* Where main and the threads can be.
MainPlaces ==
  {"serve", "wakeAcceptor", "stopDispatcher", "wakeDispatcher", "clearPool", "stopDb",
   "notifyDb", "requestStop", "join", "clear", "deleteDb", "end", "deleteRunning"}

ThreadPlaces ==
  {"starting", "loop", "wait", "events", "take", "task", "asleep", "exited"}

ServerTypeOK ==
  /\ main \in MainPlaces
  /\ halting \in 0 .. Shards
  /\ running \subseteq Thread
  /\ place \in [Thread -> ThreadPlaces]
  /\ signal \subseteq EventLoop
  /\ ready \in [EventLoop -> SUBSET {"wakeup", "work"}]
  /\ backlog \in Nat /\ nextShard \in Dispatcher
  /\ {posted, sessions, inbox} \subseteq [Dispatcher -> Nat]
  /\ dbTasks \in Seq(Dispatcher)
  /\ sendPool \in {"there", "cleared"}
  /\ {hasBuffer, crashed, looped} \subseteq BOOLEAN
  /\ {queued, early, done} \subseteq Nat

\* Stop comes to an end: every thread, wherever it is and whatever it waits
\* for, gets to know, and leaves its loop, so that main is not left in the join;
\* unless an answer takes the process down first (StopSurvives).
StopReturns == (main = "wakeAcceptor") ~> (main = "end" \/ crashed)

\* When the threads are joined, every request that was queued before
\* DbWorker::Stop has been carried out, if the DB worker had got to its loop.
EarlyTasksRun == main \in {"clear", "deleteDb", "end"} /\ looped => done >= early

----------------------------------------------------------------------------
(***************************************************************************)
(* Statements that the code refutes.                                       *)
(***************************************************************************)

\* "After all worker and sending threads are joined ... SendBufferPoolClear() as
\* the last thing" (docs/SendBufferPool.md:132-133): no thread that still
\* answers finds the pool gone.  Server::Stop clears it before the join.
StopSurvives == ~crashed

\* The same, though the worker may have been stopped while it opened the file.
QueuedTasksRun == main \in {"clear", "deleteDb", "end"} => done >= early

\* No task is left to be destroyed, with the session it holds, after the memory
\* pool: a dispatcher queues one after the worker has left.
NoTaskOutlivesPool == main = "deleteDb" => dbTasks = <<>>

\* A connection that was accepted is served or closed.  A command that is posted
\* after the dispatcher's last look is dropped with the descriptor in it.
NoCommandDropped == main = "clear" => \A d \in Dispatcher : posted[d] = 0

\* What is deleted is used by no thread.
DeletedIsUnused == main = "deleteRunning" => \A t \in Thread : place[t] = "exited"
=============================================================================
