---------------------------- MODULE ShardMailbox ----------------------------
(***************************************************************************)
(* One shard of the SessionRegistry and the EpollDispatcher that owns it.  *)
(* Threads post commands with PostToShard: they push under shard.lock and, *)
(* after releasing it, wake the dispatcher by writing its eventfd.  The    *)
(* dispatcher sleeps in epoll_wait with no timeout; when the eventfd is    *)
(* reported it drains the counter (ConsumeEventSignal), takes the whole    *)
(* queue under the lock and runs the commands (ExecuteCommands).  Commands *)
(* and session handlers run on the dispatcher and post to the same shard   *)
(* (FlushSendOwner, TryFlushSend, Disconnect).  Stop clears the running    *)
(* flag and writes the eventfd.                                            *)
(*                                                                         *)
(* Pushes and the queue swap are single steps, being critical sections of  *)
(* shard.lock.  The body of a command is abstract: all this module keeps   *)
(* of it is that it may post.                                              *)
(***************************************************************************)
EXTENDS Naturals, Sequences, SequencesExt

CONSTANTS Command,           \* the commands, each posted at most once
          Poster,            \* threads that post from outside the dispatcher
          Dispatcher,        \* the dispatcher thread, which posts as well
          WakeupMax,         \* the eventfd counter at which a write gets EAGAIN
          MaxSessionEvents   \* session events one epoll_wait may report

ASSUME DispatcherAssumption == Dispatcher \notin Poster
ASSUME WakeupMaxAssumption == WakeupMax \in Nat \ {0}
ASSUME MaxSessionEventsAssumption == MaxSessionEvents \in Nat

Thread == Poster \cup {Dispatcher}

VARIABLES
  commandQueue,   \* shard.commandQueue
  wakeups,        \* the eventfd counter
  running,        \* _running
  owesWakeup,     \* threads between the push and the wakeup of PostToShard
  stopper,        \* the thread in Stop: "idle", "signal" (flag cleared), "done"
  pc,             \* where the dispatcher is
  events,         \* what the last epoll_wait reported and Run has yet to visit
  batch,          \* ExecuteCommands' local queue
  executed        \* history: commands run so far

vars == <<commandQueue, wakeups, running, owesWakeup, stopper, pc, events,
          batch, executed>>

NoEvents == [wakeup |-> FALSE, sessions |-> 0]

Init == /\ commandQueue = <<>>
        /\ wakeups = 0
        /\ running = TRUE
        /\ owesWakeup = {}
        /\ stopper = "idle"
        /\ pc = "check"
        /\ events = NoEvents
        /\ batch = <<>>
        /\ executed = <<>>

Posted == ToSet(commandQueue) \cup ToSet(batch) \cup ToSet(executed)

\* The dispatcher thread posts only from a command or from a session handler.
MayPost(t) == t = Dispatcher => pc \in {"command", "handler"}

----------------------------------------------------------------------------
\* write(_wakeupFd, 1): refused at the counter's limit, and lost once Close
\* has closed the descriptor; PostEventSignal ignores both errors.
PostEventSignal ==
  wakeups' = IF pc # "closed" /\ wakeups < WakeupMax THEN wakeups + 1
                                                     ELSE wakeups

\* Mutant: the dispatcher does not wake itself.
PushCommandSilently(t, c) ==
  /\ t \notin owesWakeup
  /\ MayPost(t)
  /\ c \notin Posted
  /\ commandQueue' = Append(commandQueue, c)
  /\ owesWakeup' = (owesWakeup \cup {t}) \ {Dispatcher}
  /\ UNCHANGED <<wakeups, running, stopper, pc, events, batch, executed>>

\* PostToShard, the critical section.
PushCommand(t, c) ==
  /\ t \notin owesWakeup
  /\ MayPost(t)
  /\ c \notin Posted
  /\ commandQueue' = Append(commandQueue, c)
  /\ owesWakeup' = owesWakeup \cup {t}
  /\ UNCHANGED <<wakeups, running, stopper, pc, events, batch, executed>>

\* PostToShard, shard.wakeup() after the lock is released.
PostWakeup(t) ==
  /\ t \in owesWakeup
  /\ PostEventSignal
  /\ owesWakeup' = owesWakeup \ {t}
  /\ UNCHANGED <<commandQueue, running, stopper, pc, events, batch, executed>>

\* EpollDispatcher::Stop, in its two steps.
StopClearsRunning ==
  /\ stopper = "idle"
  /\ running' = FALSE
  /\ stopper' = "signal"
  /\ UNCHANGED <<commandQueue, wakeups, owesWakeup, pc, events, batch, executed>>

\* Mutant: Stop does not write the eventfd.
StopSilently ==
  /\ stopper = "signal"
  /\ stopper' = "done"
  /\ UNCHANGED <<commandQueue, wakeups, running, owesWakeup, pc, events, batch,
                 executed>>

StopWakes ==
  /\ stopper = "signal"
  /\ PostEventSignal
  /\ stopper' = "done"
  /\ UNCHANGED <<commandQueue, running, owesWakeup, pc, events, batch, executed>>

----------------------------------------------------------------------------
\* Mutant: the loop does not look at the flag.
CheckNothing ==
  /\ pc = "check"
  /\ pc' = "wait"
  /\ UNCHANGED <<commandQueue, wakeups, running, owesWakeup, stopper, events,
                 batch, executed>>

\* Run, the loop condition; a false one leaves the loop and calls Close.
CheckRunning ==
  /\ pc = "check"
  /\ pc' = IF running THEN "wait" ELSE "closed"
  /\ UNCHANGED <<commandQueue, wakeups, running, owesWakeup, stopper, events,
                 batch, executed>>

\* epoll_wait returns: the eventfd is level-triggered, so it is reported
\* whenever its counter is not zero; session events come along or alone.
EpollWait ==
  /\ pc = "wait"
  /\ \E n \in 0 .. MaxSessionEvents :
       /\ wakeups > 0 \/ n > 0
       /\ events' = [wakeup |-> wakeups > 0, sessions |-> n]
  /\ pc' = "dispatch"
  /\ UNCHANGED <<commandQueue, wakeups, running, owesWakeup, stopper, batch,
                 executed>>

\* epoll_wait returns -1 with EINTR.
EpollInterrupted ==
  /\ pc = "wait"
  /\ pc' = "check"
  /\ UNCHANGED <<commandQueue, wakeups, running, owesWakeup, stopper, events,
                 batch, executed>>

\* epoll_wait returns -1 for another reason: break, then Close.
EpollFailed ==
  /\ pc = "wait"
  /\ pc' = "closed"
  /\ UNCHANGED <<commandQueue, wakeups, running, owesWakeup, stopper, events,
                 batch, executed>>

\* The wakeup descriptor's event, at any place among the reported events.
VisitWakeup ==
  /\ pc = "dispatch"
  /\ events.wakeup
  /\ events' = [events EXCEPT !.wakeup = FALSE]
  /\ pc' = "consume"
  /\ UNCHANGED <<commandQueue, wakeups, running, owesWakeup, stopper, batch,
                 executed>>

\* A session's event: its handler runs, or, when the low word of the session
\* id happens to equal the wakeup descriptor, Run takes it for a wakeup.
VisitSession ==
  /\ pc = "dispatch"
  /\ events.sessions > 0
  /\ events' = [events EXCEPT !.sessions = @ - 1]
  /\ pc' \in {"handler", "consume"}
  /\ UNCHANGED <<commandQueue, wakeups, running, owesWakeup, stopper, batch,
                 executed>>

FinishHandler ==
  /\ pc = "handler"
  /\ Dispatcher \notin owesWakeup
  /\ pc' = "dispatch"
  /\ UNCHANGED <<commandQueue, wakeups, running, owesWakeup, stopper, events,
                 batch, executed>>

\* ConsumeEventSignal reads until EAGAIN; a read resets the counter.
ConsumeEventSignal ==
  /\ pc = "consume"
  /\ IF wakeups > 0 THEN wakeups' = 0 /\ pc' = pc
                    ELSE pc' = "swap" /\ UNCHANGED wakeups
  /\ UNCHANGED <<commandQueue, running, owesWakeup, stopper, events, batch,
                 executed>>

\* Mutant: one command for each wakeup, though wakeups are merged.
TakeOneCommand ==
  /\ pc = "swap"
  /\ batch' = SubSeq(commandQueue, 1, IF commandQueue = <<>> THEN 0 ELSE 1)
  /\ commandQueue' = SubSeq(commandQueue, 2, Len(commandQueue))
  /\ pc' = "execute"
  /\ UNCHANGED <<wakeups, running, owesWakeup, stopper, events, executed>>

\* ExecuteCommands, the critical section.
SwapCommands ==
  /\ pc = "swap"
  /\ batch' = commandQueue
  /\ commandQueue' = <<>>
  /\ pc' = "execute"
  /\ UNCHANGED <<wakeups, running, owesWakeup, stopper, events, executed>>

\* ExecuteCommands, one turn of its loop: the command runs, and the local
\* queue, which nobody else sees, loses it.
ExecuteCommand ==
  /\ pc = "execute"
  /\ batch # <<>>
  /\ executed' = Append(executed, Head(batch))
  /\ batch' = Tail(batch)
  /\ pc' = "command"
  /\ UNCHANGED <<commandQueue, wakeups, running, owesWakeup, stopper, events>>

FinishCommand ==
  /\ pc = "command"
  /\ Dispatcher \notin owesWakeup
  /\ pc' = "execute"
  /\ UNCHANGED <<commandQueue, wakeups, running, owesWakeup, stopper, events,
                 batch, executed>>

FinishCommands ==
  /\ pc = "execute"
  /\ batch = <<>>
  /\ pc' = "dispatch"
  /\ UNCHANGED <<commandQueue, wakeups, running, owesWakeup, stopper, events,
                 batch, executed>>

\* The reported events are used up; the sweep of pending closes posts nothing.
EndOfBatch ==
  /\ pc = "dispatch"
  /\ events = NoEvents
  /\ pc' = "check"
  /\ UNCHANGED <<commandQueue, wakeups, running, owesWakeup, stopper, events,
                 batch, executed>>

----------------------------------------------------------------------------
ConsumerStep ==
  \/ CheckRunning     \/ VisitWakeup          \/ VisitSession
  \/ FinishHandler    \/ ConsumeEventSignal   \/ SwapCommands
  \/ ExecuteCommand   \/ FinishCommand        \/ FinishCommands
  \/ EndOfBatch

Next ==
  \/ \E t \in Thread, c \in Command : PushCommand(t, c)
  \/ \E t \in Thread : PostWakeup(t)
  \/ StopClearsRunning \/ StopWakes
  \/ EpollWait \/ EpollInterrupted \/ EpollFailed
  \/ ConsumerStep

\* The scheduler runs every thread that can run; epoll_wait is interrupted
\* again and again only finitely often in a row.  Nobody has to post or stop,
\* and epoll_wait has to fail for no one.
Fairness ==
  /\ \A t \in Thread : WF_vars(PostWakeup(t))
  /\ WF_vars(StopWakes)
  /\ SF_vars(EpollWait)
  /\ WF_vars(ConsumerStep)

SafeSpec == Init /\ [][Next]_vars

Spec == SafeSpec /\ Fairness

----------------------------------------------------------------------------
PCs == {"check", "wait", "dispatch", "handler", "consume", "swap", "execute",
        "command", "closed"}

TypeOK ==
  /\ commandQueue \in Seq(Command)
  /\ wakeups \in 0 .. WakeupMax
  /\ running \in BOOLEAN
  /\ owesWakeup \subseteq Thread
  /\ stopper \in {"idle", "signal", "done"}
  /\ pc \in PCs
  /\ events \in [wakeup : BOOLEAN, sessions : 0 .. MaxSessionEvents]
  /\ batch \in Seq(Command)
  /\ executed \in Seq(Command)

\* The dispatcher will swap the queue before it sleeps again.
WillSwap == events.wakeup \/ pc \in {"consume", "swap"}

\* No lost wakeup: while commands are queued on a live shard, the dispatcher
\* is on its way to swap the queue, or the eventfd is readable, or a thread
\* that pushed has yet to write it.  This is why PostToShard writes the
\* eventfd after the push and Run drains it before the swap.
NoLostWakeup ==
  commandQueue # <<>> /\ pc # "closed" =>
    WillSwap \/ wakeups > 0 \/ owesWakeup # {}

\* A stop request is not slept through: once Stop has returned, a dispatcher
\* in epoll_wait has a readable eventfd, whatever drained the counter before.
StopNotMissed == stopper = "done" /\ pc = "wait" => wakeups > 0

\* The commands waiting to run, as a poster sees them.
Outstanding == batch \o commandQueue

\* The shard implements the mailbox: each command runs at most once, in the
\* order of the pushes across all threads, on a consumer not yet closed.
MB == INSTANCE Mailbox WITH pending <- Outstanding, open <- (pc # "closed")

MailboxSafety == MB!SafeSpec

\* The same with the mailbox's fairness: while the dispatcher lives, what was
\* posted is executed, though epoll_wait has no timeout.
MailboxFairness == MB!Spec

\* Stop ends the dispatcher's loop, also when it finds it asleep.
StopCloses == (~running) ~> (pc = "closed")
=============================================================================
