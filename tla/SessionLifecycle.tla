-------------------------- MODULE SessionLifecycle --------------------------
(***************************************************************************)
(* The life of the sessions of one shard, from the acceptor's handoff or   *)
(* ConnectAsync to the sweep of _pendingCloseSessions, on the dispatcher   *)
(* that owns them, with the kernel's descriptor table and epoll set around *)
(* them and, beside them, tasks of the DB worker that hold a shared_ptr to *)
(* a session and answer through it when they are done.                     *)
(*                                                                         *)
(* A descriptor number is given out again once it is closed; a session     *)
(* keeps its number for ever.  What a flush writes is abstracted to the    *)
(* connection that receives it (SessionSend has the queue), and the        *)
(* eventfd to the reporting of posted commands (ShardMailbox has it).      *)
(***************************************************************************)
EXTENDS Naturals, Sequences, SequencesExt

CONSTANTS Fd,             \* descriptor numbers for connections
          Task,           \* jobs of the DB worker
          MaxAccepts,     \* bound: connections the acceptor hands over
          MaxConnects,    \* bound: calls of ConnectAsync
          MaxCommands,    \* bound: commands queued when a handler posts one more
          WakeupFd,       \* the number of the eventfd
          NoConn,         \* the connection of a closed descriptor
          NoEntry         \* a descriptor that is not in the epoll set

ASSUME BoundsAssumption == /\ MaxAccepts \in Nat /\ MaxConnects \in Nat
                           /\ MaxCommands \in Nat /\ WakeupFd \in Nat

\* Each connection, made by either side, takes at most one session id.
MaxConn == MaxAccepts + MaxConnects
Conn == 1 .. MaxConn
SessionId == 1 .. MaxConn

\* What epoll_ctl registers for a descriptor.
Entry == [id : SessionId, in : BOOLEAN, out : BOOLEAN]

ASSUME NoConnAssumption == NoConn \notin Conn

ASSUME NoEntryAssumption == NoEntry \notin Entry

VARIABLES
  connOf,          \* the kernel's table: the connection behind a descriptor
  epoll,           \* the epoll set: what was last registered for a descriptor
  accepts,         \* connections accepted so far
  connects,        \* calls of ConnectAsync so far
  commandQueue,    \* the shard's command queue
  batch,           \* ExecuteCommands' local queue
  sequence,        \* sessionIdSequenceNumber
  sessions,        \* the ids in shard.sessions
  session,         \* the fields of every session ever made
  pc,              \* Run: in epoll_wait, at the events, at the sweep, crashed
  events,          \* reported and not yet visited
  pendingClose,    \* _pendingCloseSessions
  task,            \* for each task its step and the session it holds
  connectedCalls,  \* history: OnConnected calls of each session
  closedCalls,     \* history: OnDisconnected calls of each session
  sentTo,          \* history: the connections a session's bytes went to
  outlived,        \* history: sessions a task still held when they were closed
  swallowed        \* history: sessions with an event taken for a wakeup

vars == <<connOf, epoll, accepts, connects, commandQueue, batch, sequence,
          sessions, session, pc, events, pendingClose, task, connectedCalls,
          closedCalls, sentTo, outlived, swallowed>>

kernel == <<connOf, epoll>>
requests == <<accepts, connects>>
registry == <<sequence, sessions>>
history == <<connectedCalls, closedCalls, sentTo, outlived, swallowed>>
callbacks == <<connectedCalls, closedCalls>>

NoSession == 0
NoEvents == [wakeup |-> FALSE, sessions |-> {}]

Init ==
  /\ connOf = [f \in Fd |-> NoConn]
  /\ epoll = [f \in Fd |-> NoEntry]
  /\ accepts = 0
  /\ connects = 0
  /\ commandQueue = <<>>
  /\ batch = <<>>
  /\ sequence = 0
  /\ sessions = {}
  /\ session = [s \in {} |-> {}]
  /\ pc = "wait"
  /\ events = NoEvents
  /\ pendingClose = <<>>
  /\ task = [k \in Task |-> [step |-> "idle", session |-> NoSession]]
  /\ connectedCalls = [s \in SessionId |-> 0]
  /\ closedCalls = [s \in SessionId |-> 0]
  /\ sentTo = [s \in SessionId |-> {}]
  /\ outlived = {}
  /\ swallowed = {}

----------------------------------------------------------------------------
Free(f) == connOf[f] = NoConn

HeldByTask(s) == \E k \in Task : task[k].session = s

\* Mutant: a command holds a shared_ptr of its own.
AliveForever(s) == s \in DOMAIN session

\* The weak_ptr of a command can be locked: the registry or a task holds the
\* session.
Alive(s) == s \in sessions \/ HeldByTask(s)

AcceptCommand(f, c) == [kind |-> "accept", fd |-> f, conn |-> c]
ConnectCommand(c) == [kind |-> "connect", conn |-> c]
FlushCommand(s) == [kind |-> "flush", session |-> s]
DisconnectCommand(s) == [kind |-> "disconnect", session |-> s]

\* A new Session in the given state, for an accepted connection or not.
NewSession(f, c, st, accepted) ==
  session' = [s \in 1 .. sequence' |->
    IF s = sequence'
      THEN [fd |-> f, conn |-> c, state |-> st, accepted |-> accepted]
      ELSE session[s]]

SetState(s, st) == session' = [session EXCEPT ![s].state = st]

\* epoll_ctl MOD, by EnableEvent and DisableEvent: the session's descriptor,
\* if it is in the epoll set, gets the id of the caller; they build the mask
\* from an uninitialized epoll_event, so the input bit may be lost.
ModifyEvent(s, out) ==
  LET f == session[s].fd
  IN  IF epoll[f] = NoEntry
        THEN UNCHANGED epoll
        ELSE \E in \in BOOLEAN :
               epoll' = [epoll EXCEPT ![f] = [id |-> s, in |-> in, out |-> out]]

\* FlushSendOwner, as far as the connection is concerned: bytes go to what the
\* descriptor stands for now, and all is sent, the kernel is full, or the
\* write fails (always, when the descriptor is closed).
FlushSendOwner(s) ==
  LET c == connOf[session[s].fd]
  IN  /\ \E wrote \in BOOLEAN :
           /\ wrote => c # NoConn
           /\ sentTo' = IF wrote THEN [sentTo EXCEPT ![s] = @ \cup {c}]
                                 ELSE sentTo
      /\ \/ ModifyEvent(s, FALSE) /\ UNCHANGED <<pendingClose, session>>
         \/ /\ c # NoConn
            /\ ModifyEvent(s, TRUE)
            /\ UNCHANGED <<pendingClose, session>>
         \/ /\ ModifyEvent(s, FALSE)
            /\ pendingClose' = Append(pendingClose, s)
            /\ SetState(s, "DisconnectPosted")
      /\ UNCHANGED connOf

----------------------------------------------------------------------------
(***************************************************************************)
(* The other threads.                                                      *)
(***************************************************************************)

\* The acceptor accepts a connection and hands its descriptor over.
Accept(f) ==
  /\ accepts < MaxAccepts
  /\ Free(f)
  /\ accepts' = accepts + 1
  /\ connOf' = [connOf EXCEPT ![f] = accepts' + connects]
  /\ commandQueue' = Append(commandQueue, AcceptCommand(f, accepts' + connects))
  /\ UNCHANGED <<epoll, connects, batch, registry, session, pc, events,
                 pendingClose, task, history>>

\* ConnectAsync posts a connect.
ConnectAsync ==
  /\ connects < MaxConnects
  /\ connects' = connects + 1
  /\ commandQueue' = Append(commandQueue, ConnectCommand(accepts + connects'))
  /\ UNCHANGED <<kernel, accepts, batch, registry, session, pc, events,
                 pendingClose, task, history>>

\* A task has its answer: TryFlushSend looks at the state ...
TaskChecksState(k) ==
  LET s == task[k].session
  IN  /\ task[k].step = "job"
      /\ IF session[s].state = "Connected"
           THEN /\ task' = [task EXCEPT ![k].step = "send"]
                /\ UNCHANGED commandQueue
           ELSE /\ task' = [task EXCEPT ![k].step = "done"]
                /\ commandQueue' = Append(commandQueue, DisconnectCommand(s))
      /\ UNCHANGED <<kernel, requests, batch, registry, session, pc, events,
                     pendingClose, history>>

\* ... and queues the packet and has it flushed.
TaskSends(k) ==
  /\ task[k].step = "send"
  /\ task' = [task EXCEPT ![k].step = "done"]
  /\ commandQueue' = Append(commandQueue, FlushCommand(task[k].session))
  /\ UNCHANGED <<kernel, requests, batch, registry, session, pc, events,
                 pendingClose, history>>

\* The worker destroys the finished task and drops its session.
TaskEnds(k) ==
  /\ task[k].step = "done"
  /\ task' = [task EXCEPT ![k] = [step |-> "idle", session |-> NoSession]]
  /\ UNCHANGED <<kernel, requests, commandQueue, batch, registry, session, pc,
                 events, pendingClose, history>>

----------------------------------------------------------------------------
(***************************************************************************)
(* The dispatcher: Run.                                                    *)
(***************************************************************************)

\* What epoll may report of a registered descriptor: errors always, input and
\* output as far as the mask asks for them.
Reports(f) ==
  {[id |-> epoll[f].id, error |-> e, in |-> i, out |-> o] :
     e \in BOOLEAN, i \in {FALSE, epoll[f].in}, o \in {FALSE, epoll[f].out}}

\* epoll_wait reports some of the ready descriptors, and the eventfd if
\* commands were posted.
EpollWait ==
  /\ pc = "wait"
  /\ \E F \in SUBSET {f \in Fd : epoll[f] # NoEntry} :
       \E r \in [F -> UNION {Reports(f) : f \in F}] :
         /\ \A f \in F : r[f] \in Reports(f) /\ (r[f].error \/ r[f].in \/ r[f].out)
         /\ events' = [wakeup |-> commandQueue # <<>>,
                       sessions |-> {r[f] : f \in F}]
  /\ events' # NoEvents
  /\ pc' = "dispatch"
  /\ UNCHANGED <<kernel, requests, commandQueue, batch, registry, session,
                 pendingClose, task, history>>

\* Between two commands, or with none to run.
AtEvents == pc = "dispatch" /\ batch = <<>>

\* ExecuteCommands takes the queue.
TakeCommands == batch' = commandQueue /\ commandQueue' = <<>>

VisitWakeup ==
  /\ AtEvents
  /\ events.wakeup
  /\ events' = [events EXCEPT !.wakeup = FALSE]
  /\ TakeCommands
  /\ UNCHANGED <<kernel, requests, registry, session, pc, pendingClose, task,
                 history>>

Visit(e) ==
  /\ AtEvents
  /\ e \in events.sessions
  /\ events' = [events EXCEPT !.sessions = @ \ {e}]

\* data.fd, the low half of data.u64, equals the eventfd's number: the event
\* of the session is taken for a wakeup.
VisitAlias(e) ==
  /\ Visit(e)
  /\ e.id = WakeupFd
  /\ TakeCommands
  /\ swallowed' = swallowed \cup {e.id}
  /\ UNCHANGED <<kernel, requests, registry, session, pc, pendingClose, task,
                 callbacks, sentTo, outlived>>

\* The id is not in the shard (any more).
VisitUnknown(e) ==
  /\ Visit(e)
  /\ e.id # WakeupFd
  /\ e.id \notin sessions
  /\ UNCHANGED <<kernel, requests, commandQueue, batch, registry, session, pc,
                 pendingClose, task, history>>

\* The event concerns session e.id.
Found(e) == e.id # WakeupFd /\ e.id \in sessions

\* An error, input on a session that is not connected, or input that ends the
\* stream or cannot be parsed: the session is marked, and so much for it.
VisitClosing(e) ==
  /\ Visit(e)
  /\ Found(e)
  /\ e.error \/ e.in
  /\ pendingClose' = Append(pendingClose, e.id)
  /\ UNCHANGED <<kernel, requests, commandQueue, batch, registry, session, pc,
                 task, history>>

\* The output part of an event whose input has been handled.
OutputPart(e) == IF e.out THEN {[e EXCEPT !.in = FALSE]} ELSE {}

\* What the handler of a packet does besides its own work: nothing, send an
\* answer, disconnect (unknown packet), or queue a job that holds the session.
HandlerPosts(command) ==
  /\ Len(commandQueue) < MaxCommands
  /\ commandQueue' = Append(commandQueue, command)
  /\ UNCHANGED task

StartsJob(s) ==
  /\ \E k \in Task :
       /\ task[k].step = "idle"
       /\ task' = [task EXCEPT ![k] = [step |-> "job", session |-> s]]
  /\ UNCHANGED commandQueue

\* ProcessRecv of a connected session, with a packet or none.
VisitInput(e) ==
  /\ AtEvents
  /\ e \in events.sessions
  /\ Found(e)
  /\ ~e.error /\ e.in
  /\ session[e.id].state = "Connected"
  /\ events' = [events EXCEPT !.sessions = (@ \ {e}) \cup OutputPart(e)]
  /\ \/ UNCHANGED <<commandQueue, task>>
     \/ HandlerPosts(FlushCommand(e.id))
     \/ HandlerPosts(DisconnectCommand(e.id))
     \/ StartsJob(e.id)
  /\ UNCHANGED <<kernel, requests, batch, registry, session, pc, pendingClose,
                 history>>

\* EPOLLOUT alone, or what is left of an event after its input.
Output(e) == Visit(e) /\ Found(e) /\ ~e.error /\ ~e.in

\* The end of an asynchronous connect: TryConnect, ProcessConnect; the second
\* Register changes nothing, the descriptor being in the epoll set already.
VisitConnected(e) ==
  /\ Output(e)
  /\ session[e.id].state = "ConnectPending"
  /\ SetState(e.id, "Connected")
  /\ connectedCalls' = [connectedCalls EXCEPT ![e.id] = @ + 1]
  /\ \/ UNCHANGED commandQueue
     \/ commandQueue' = Append(commandQueue, FlushCommand(e.id))
  /\ UNCHANGED <<kernel, requests, batch, registry, pc, pendingClose, task,
                 closedCalls, sentTo, outlived, swallowed>>

VisitConnectFailed(e) ==
  /\ Output(e)
  /\ session[e.id].state = "ConnectPending"
  /\ pendingClose' = Append(pendingClose, e.id)
  /\ UNCHANGED <<kernel, requests, commandQueue, batch, registry, session, pc,
                 task, history>>

\* OnSendable.
VisitSendable(e) ==
  /\ Output(e)
  /\ session[e.id].state = "Connected"
  /\ FlushSendOwner(e.id)
  /\ UNCHANGED <<requests, commandQueue, batch, registry, pc, task, callbacks,
                 outlived, swallowed>>

VisitSendableClosing(e) ==
  /\ Output(e)
  /\ session[e.id].state \notin {"Connected", "ConnectPending"}
  /\ pendingClose' = Append(pendingClose, e.id)
  /\ UNCHANGED <<kernel, requests, commandQueue, batch, registry, session, pc,
                 task, history>>

----------------------------------------------------------------------------
(***************************************************************************)
(* The dispatcher: the commands.                                           *)
(***************************************************************************)

\* The next command of the local queue.
Command(kind) ==
  /\ pc = "dispatch"
  /\ batch # <<>>
  /\ Head(batch).kind = kind
  /\ batch' = Tail(batch)

AllocateSessionId == sequence' = sequence + 1

\* ProcessAccepted's command: OnConnected before the session is in the map.
ExecuteAccept ==
  LET cmd == Head(batch)
      f == cmd.fd
  IN  /\ Command("accept")
      /\ AllocateSessionId
      /\ NewSession(f, cmd.conn, "Connected", TRUE)
      /\ epoll' = [epoll EXCEPT ![f] = [id |-> sequence', in |-> TRUE, out |-> FALSE]]
      /\ connectedCalls' = [connectedCalls EXCEPT ![sequence'] = @ + 1]
      /\ sessions' = sessions \cup {sequence'}
      /\ UNCHANGED <<connOf, requests, commandQueue, pc, events, pendingClose,
                     task, closedCalls, sentTo, outlived, swallowed>>

\* Mutant: the descriptor of a session that cannot be set up is not closed.
AcceptFailsOpen ==
  /\ Command("accept")
  /\ AllocateSessionId
  /\ NewSession(Head(batch).fd, Head(batch).conn, "Connected", TRUE)
  /\ UNCHANGED <<kernel, requests, commandQueue, sessions, pc, events,
                 pendingClose, task, history>>

\* CreateSession, Register or an option of the socket fails: the descriptor is
\* closed, and with it leaves the epoll set; the session is forgotten.
ExecuteAcceptFails ==
  LET f == Head(batch).fd
  IN  /\ Command("accept")
      /\ AllocateSessionId
      /\ NewSession(f, Head(batch).conn, "Connected", TRUE)
      /\ connOf' = [connOf EXCEPT ![f] = NoConn]
      /\ UNCHANGED <<epoll, requests, commandQueue, sessions, pc, events,
                     pendingClose, task, history>>

\* ConnectAsync's command, connect in progress: registered, then EPOLLOUT.
ExecuteConnectPending ==
  LET c == Head(batch).conn
  IN  /\ Command("connect")
      /\ AllocateSessionId
      /\ \E f \in Fd, in \in BOOLEAN :
           /\ Free(f)
           /\ connOf' = [connOf EXCEPT ![f] = c]
           /\ epoll' = [epoll EXCEPT ![f] = [id |-> sequence', in |-> in, out |-> TRUE]]
           /\ NewSession(f, c, "ConnectPending", FALSE)
      /\ sessions' = sessions \cup {sequence'}
      /\ UNCHANGED <<requests, commandQueue, pc, events, pendingClose, task,
                     history>>

\* connect succeeds at once: the pointer is moved into the map and then
\* dereferenced to call ProcessConnect.
ExecuteConnectAtOnce ==
  LET c == Head(batch).conn
  IN  /\ Command("connect")
      /\ AllocateSessionId
      /\ \E f \in Fd :
           /\ Free(f)
           /\ connOf' = [connOf EXCEPT ![f] = c]
           /\ epoll' = [epoll EXCEPT ![f] = [id |-> sequence', in |-> TRUE, out |-> FALSE]]
           /\ NewSession(f, c, "Connected", FALSE)
      /\ sessions' = sessions \cup {sequence'}
      /\ pc' = "crashed"
      /\ UNCHANGED <<requests, commandQueue, events, pendingClose, task, history>>

\* There is no session object or no socket to be had: nothing happens.
ExecuteConnectNoSocket ==
  /\ Command("connect")
  /\ UNCHANGED <<kernel, requests, commandQueue, registry, session, pc, events,
                 pendingClose, task, history>>

\* connect or Register fails: the id is used up, the descriptor is closed.
ExecuteConnectFails ==
  /\ Command("connect")
  /\ AllocateSessionId
  /\ \E f \in Fd, st \in {"ConnectPending", "Connected"} :
       Free(f) /\ NewSession(f, Head(batch).conn, st, FALSE)
  /\ UNCHANGED <<kernel, requests, commandQueue, sessions, pc, events,
                 pendingClose, task, history>>

ExecuteFlush ==
  LET s == Head(batch).session
  IN  /\ Command("flush")
      /\ Alive(s)
      /\ FlushSendOwner(s)
      /\ UNCHANGED <<requests, commandQueue, registry, pc, events, task,
                     callbacks, outlived, swallowed>>

\* DisconnectOwner.
ExecuteDisconnect ==
  LET s == Head(batch).session
  IN  /\ Command("disconnect")
      /\ Alive(s)
      /\ pendingClose' = Append(pendingClose, s)
      /\ SetState(s, "DisconnectPosted")
      /\ UNCHANGED <<kernel, requests, commandQueue, registry, pc, events, task,
                     history>>

\* A command whose session is gone.
ExecuteExpired ==
  /\ Command("flush") \/ Command("disconnect")
  /\ ~Alive(Head(batch).session)
  /\ UNCHANGED <<kernel, requests, commandQueue, registry, session, pc, events,
                 pendingClose, task, history>>

----------------------------------------------------------------------------
EndOfEvents ==
  /\ AtEvents
  /\ events = NoEvents
  /\ pc' = "sweep"
  /\ UNCHANGED <<kernel, requests, commandQueue, batch, registry, session,
                 events, pendingClose, task, history>>

\* Mutant: the closed session stays in the registry.
SweepKeepsSession ==
  LET s == Head(pendingClose)
      f == session[s].fd
  IN  /\ pc = "sweep"
      /\ pendingClose # <<>>
      /\ s \in sessions
      /\ SetState(s, "Disconnected")
      /\ closedCalls' = [closedCalls EXCEPT ![s] = @ + 1]
      /\ outlived' = IF HeldByTask(s) THEN outlived \cup {s} ELSE outlived
      /\ epoll' = [epoll EXCEPT ![f] = NoEntry]
      /\ connOf' = [connOf EXCEPT ![f] = NoConn]
      /\ pendingClose' = Tail(pendingClose)
      /\ UNCHANGED <<requests, commandQueue, batch, registry, pc, events, task,
                     connectedCalls, sentTo, swallowed>>

\* One turn of the sweep that finds the session: OnDisconnected, UnRegister,
\* close, RemoveSession.
SweepCloses ==
  LET s == Head(pendingClose)
      f == session[s].fd
  IN  /\ pc = "sweep"
      /\ pendingClose # <<>>
      /\ s \in sessions
      /\ SetState(s, "Disconnected")
      /\ closedCalls' = [closedCalls EXCEPT ![s] = @ + 1]
      /\ outlived' = IF HeldByTask(s) THEN outlived \cup {s} ELSE outlived
      /\ epoll' = [epoll EXCEPT ![f] = NoEntry]
      /\ connOf' = [connOf EXCEPT ![f] = NoConn]
      /\ sessions' = sessions \ {s}
      /\ pendingClose' = Tail(pendingClose)
      /\ UNCHANGED <<requests, commandQueue, batch, sequence, pc, events, task,
                     connectedCalls, sentTo, swallowed>>

\* Mutant: OnDisconnected is called again for a session listed twice.
SweepCallsAgain ==
  /\ pc = "sweep"
  /\ pendingClose # <<>>
  /\ Head(pendingClose) \notin sessions
  /\ closedCalls' = [closedCalls EXCEPT ![Head(pendingClose)] = @ + 1]
  /\ pendingClose' = Tail(pendingClose)
  /\ UNCHANGED <<kernel, requests, commandQueue, batch, registry, session, pc,
                 events, task, connectedCalls, sentTo, outlived,
                 swallowed>>

\* One turn for a session that is no longer there: it was listed twice.
SweepSkips ==
  /\ pc = "sweep"
  /\ pendingClose # <<>>
  /\ Head(pendingClose) \notin sessions
  /\ pendingClose' = Tail(pendingClose)
  /\ UNCHANGED <<kernel, requests, commandQueue, batch, registry, session, pc,
                 events, task, history>>

\* Mutant: the list is cleared before it has been gone through.
ClearEarly ==
  /\ pc = "sweep"
  /\ pendingClose' = <<>>
  /\ pc' = "wait"
  /\ UNCHANGED <<kernel, requests, commandQueue, batch, registry, session,
                 events, task, history>>

EndOfSweep ==
  /\ pc = "sweep"
  /\ pendingClose = <<>>
  /\ pc' = "wait"
  /\ UNCHANGED <<kernel, requests, commandQueue, batch, registry, session,
                 events, pendingClose, task, history>>

----------------------------------------------------------------------------
VisitEvent ==
  \/ VisitWakeup
  \/ \E e \in events.sessions :
       \/ VisitAlias(e) \/ VisitUnknown(e) \/ VisitClosing(e) \/ VisitInput(e)
       \/ VisitConnected(e) \/ VisitConnectFailed(e)
       \/ VisitSendable(e) \/ VisitSendableClosing(e)

ExecuteCommand ==
  \/ ExecuteAccept \/ ExecuteAcceptFails
  \/ ExecuteConnectPending \/ ExecuteConnectAtOnce
  \/ ExecuteConnectNoSocket \/ ExecuteConnectFails
  \/ ExecuteFlush \/ ExecuteDisconnect \/ ExecuteExpired

Dispatch ==
  VisitEvent \/ ExecuteCommand \/ EndOfEvents
             \/ SweepCloses \/ SweepSkips \/ EndOfSweep

Next ==
  \/ \E f \in Fd : Accept(f)
  \/ ConnectAsync
  \/ \E k \in Task : TaskChecksState(k) \/ TaskSends(k) \/ TaskEnds(k)
  \/ EpollWait
  \/ Dispatch

\* The dispatcher goes on while it has something to do and wakes up for posted
\* commands; nothing obliges a peer to send, or the worker to be quick.
Fairness == WF_vars(Dispatch) /\ WF_vars(EpollWait /\ events'.wakeup)

SafeSpec == Init /\ [][Next]_vars

Spec == SafeSpec /\ Fairness

----------------------------------------------------------------------------
States == {"ConnectPending", "Connected", "DisconnectPosted", "Disconnected"}

Session == [fd : Fd, conn : Conn, state : States, accepted : BOOLEAN]

Report == [id : SessionId, error : BOOLEAN, in : BOOLEAN, out : BOOLEAN]

Commands ==
  [kind : {"accept"}, fd : Fd, conn : Conn] \cup [kind : {"connect"}, conn : Conn]
    \cup [kind : {"flush", "disconnect"}, session : SessionId]

TypeOK ==
  /\ connOf \in [Fd -> Conn \cup {NoConn}]
  /\ epoll \in [Fd -> Entry \cup {NoEntry}]
  /\ accepts \in 0 .. MaxAccepts
  /\ connects \in 0 .. MaxConnects
  /\ commandQueue \in Seq(Commands)
  /\ batch \in Seq(Commands)
  /\ sequence \in 0 .. MaxConn
  /\ sessions \subseteq DOMAIN session
  /\ session \in [1 .. sequence -> Session]
  /\ pc \in {"wait", "dispatch", "sweep", "crashed"}
  /\ events \in [wakeup : BOOLEAN, sessions : SUBSET Report]
  /\ pendingClose \in Seq(SessionId)
  /\ task \in [Task -> [step : {"idle", "job", "send", "done"},
                        session : SessionId \cup {NoSession}]]
  /\ connectedCalls \in [SessionId -> Nat]
  /\ closedCalls \in [SessionId -> Nat]
  /\ sentTo \in [SessionId -> SUBSET Conn]
  /\ outlived \subseteq SessionId
  /\ swallowed \subseteq SessionId

\* A registered session owns its descriptor: it stands for the session's own
\* connection and for no other session's, so the sweep closes nobody else's.
OwnsDescriptor ==
  \A s \in sessions :
    /\ connOf[session[s].fd] = session[s].conn
    /\ \A r \in sessions \ {s} : session[r].fd # session[s].fd

\* No descriptor leaks: an open one belongs to a registered session or to an
\* accept command on its way to the dispatcher.
NoDescriptorLeak ==
  \A f \in Fd : ~Free(f) =>
    \/ \E s \in sessions : session[s].fd = f
    \/ AcceptCommand(f, connOf[f]) \in ToSet(batch) \cup ToSet(commandQueue)

\* However often a session is marked for closing, OnDisconnected is called
\* once, when it leaves the registry, and on the server after OnConnected.
CallbacksPaired ==
  \A s \in DOMAIN session :
    /\ connectedCalls[s] <= 1
    /\ closedCalls[s] <= 1
    /\ s \in sessions => closedCalls[s] = 0
    /\ s \notin sessions /\ connectedCalls[s] = 1 => closedCalls[s] = 1
    /\ session[s].accepted => closedCalls[s] <= connectedCalls[s]

\* The weak references of the commands keep a session that no task held when it
\* was closed from sending on another connection, whatever descriptor numbers
\* are given out again.
SentToOwnConnection ==
  \A s \in DOMAIN session \ outlived : sentTo[s] \subseteq {session[s].conn}

\* The epoll set reports a registered session's descriptor under its id, as
\* long as no task has outlived its session.
EventsNameOwner ==
  outlived = {} => \A s \in sessions : /\ epoll[session[s].fd] # NoEntry
                                       /\ epoll[session[s].fd].id = s

\* A session marked for closing leaves the registry, unless the process dies of
\* an immediate connect before the sweep.
MarkedIsClosed ==
  \A s \in SessionId :
    (s \in ToSet(pendingClose)) ~> (s \notin sessions \/ pc = "crashed")

(***************************************************************************)
(* What the code does not keep.  Each of these is refuted as soon as it is *)
(* listed under INVARIANTS of MCSessionLifecycle.cfg.                      *)
(***************************************************************************)

\* No session sends on another connection: what the DB worker found is answered
\* on the session that asked (README.md:94).  A flush posted by a task that has
\* outlived its session writes to the number, whoever has it by then.
NeverSentElsewhere ==
  \A s \in DOMAIN session : sentTo[s] \subseteq {session[s].conn}

\* A registered session stays registered for input, all its life: the mask is
\* built from an uninitialized epoll_event.
KeepsListening ==
  \A s \in sessions : epoll[session[s].fd] # NoEntry => epoll[session[s].fd].in

\* Every event of a session is handled as that session's: not if its id is the
\* number of the eventfd.
NoEventSwallowed == swallowed = {}

\* An immediate connect calls OnConnected like any other.
NoCrash == pc # "crashed"
=============================================================================
