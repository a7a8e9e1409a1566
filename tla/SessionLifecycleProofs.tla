----------------------- MODULE SessionLifecycleProofs -----------------------
(***************************************************************************)
(* The life of the sessions, for any number of descriptors, tasks,         *)
(* connections and commands.  Descriptor numbers are given out again, so   *)
(* the argument is not about them but about connections, which are not:    *)
(* the commands still to run carry connections in increasing order, above  *)
(* those of every session there is.  The descriptor table is a function,   *)
(* so sessions and accept commands of different connections have different *)
(* descriptors, and closing one closes nobody else's.                      *)
(***************************************************************************)
EXTENDS SessionLifecycle, SequenceTheorems, TLAPS

\* The commands posted and not yet run, in the order they will run.
Pending == batch \o commandQueue

IsRequest(cmd) == cmd.kind \in {"accept", "connect"}

InOrder(q) ==
  \A i, j \in DOMAIN q :
    i < j /\ IsRequest(q[i]) /\ IsRequest(q[j]) => q[i].conn < q[j].conn

Above(q, n) == \A i \in DOMAIN q : IsRequest(q[i]) => n < q[i].conn

UpTo(q, n) == \A i \in DOMAIN q : IsRequest(q[i]) => q[i].conn <= n

\* A request carries a connection newer than that of the requests before it
\* and of every session: ids never run ahead of connections.
RequestsNumbered ==
  /\ InOrder(Pending)
  /\ UpTo(Pending, accepts + connects)
  /\ Above(Pending, sequence)
  /\ \A s \in 1 .. sequence : Above(Pending, session[s].conn)

SessionsNumbered ==
  /\ sequence <= accepts + connects
  /\ \A s \in 1 .. sequence : session[s].conn <= accepts + connects
  /\ \A r, s \in 1 .. sequence : r < s => session[r].conn < session[s].conn

\* A task at work holds a session that was made.
TasksHold ==
  \A k \in Task : IF task[k].step = "idle" THEN task[k].session = NoSession
                                           ELSE task[k].session \in 1 .. sequence

Numbering == TypeOK /\ RequestsNumbered /\ SessionsNumbered /\ TasksHold

\* An accepted descriptor stays open until its command runs.
AcceptedOpen ==
  \A cmd \in ToSet(Pending) : cmd.kind = "accept" => connOf[cmd.fd] = cmd.conn

OwnsConnection == \A s \in sessions : connOf[session[s].fd] = session[s].conn

\* NoDescriptorLeak, in terms of the commands pending.
DescriptorsOwned ==
  \A f \in Fd : ~Free(f) => \/ \E s \in sessions : session[s].fd = f
                            \/ AcceptCommand(f, connOf[f]) \in ToSet(Pending)

Ownership == AcceptedOpen /\ OwnsConnection /\ DescriptorsOwned

\* What has been called of the sessions still registered and of those to come.
CallsSoFar ==
  /\ \A s \in SessionId : s > sequence => connectedCalls[s] = 0 /\ closedCalls[s] = 0
  /\ \A s \in sessions : session[s].state = "ConnectPending" => connectedCalls[s] = 0
  /\ \A s \in sessions : session[s].accepted => connectedCalls[s] = 1

Calls == CallsSoFar /\ CallbacksPaired

\* A session held by a task after it left the registry was held when it left.
HeldOutlives == \A s \in 1 .. sequence : HeldByTask(s) => s \in sessions \cup outlived

NothingSentYet == \A s \in SessionId : s > sequence => sentTo[s] = {}

Sending == HeldOutlives /\ NothingSentYet /\ SentToOwnConnection

\* What a step leaves of the sessions when it makes none.
SameSessions ==
  /\ DOMAIN session' = DOMAIN session
  /\ \A s \in DOMAIN session :
       /\ session'[s].fd = session[s].fd
       /\ session'[s].conn = session[s].conn
       /\ session'[s].accepted = session[s].accepted
       /\ session'[s].state = "ConnectPending" => session[s].state = "ConnectPending"

\* A step that makes no request and no session.
Steady ==
  /\ \/ Pending' = Pending
     \/ \E c \in Commands : ~IsRequest(c) /\ Pending' = Append(Pending, c)
     \/ Pending # <<>> /\ Pending' = Tail(Pending)
  /\ UNCHANGED <<accepts, connects, sequence>>
  /\ SameSessions

\* A step that neither makes nor runs a request, nor ends a session.
Quiet ==
  /\ \/ Pending' = Pending
     \/ \E c \in Commands : ~IsRequest(c) /\ Pending' = Append(Pending, c)
     \/ /\ Pending # <<>> /\ ~IsRequest(Head(Pending))
        /\ Pending' = Tail(Pending)
  /\ UNCHANGED <<accepts, connects, sequence, sessions, connOf>>
  /\ SameSessions

----------------------------------------------------------------------------
(***************************************************************************)
(* The queue of commands.                                                  *)
(***************************************************************************)

LEMMA PendingTyped ==
  ASSUME TypeOK
  PROVE  Pending \in Seq(Commands)
BY ConcatProperties DEF TypeOK, Pending

\* A command posted is the last of those pending.
LEMMA PendingPost ==
  ASSUME TypeOK, NEW c \in Commands,
         batch' = batch, commandQueue' = Append(commandQueue, c)
  PROVE  Pending' = Append(Pending, c)
<1>1. commandQueue \in Seq(Commands) /\ batch \in Seq(Commands)
  BY DEF TypeOK
<1>2. <<c>> \in Seq(Commands)
  OBVIOUS
<1>3. commandQueue' = commandQueue \o <<c>>
  BY <1>1, AppendIsConcat
<1>4. batch \o (commandQueue \o <<c>>) = (batch \o commandQueue) \o <<c>>
  BY <1>1, <1>2, ConcatAssociative
<1>5. Append(Pending, c) = Pending \o <<c>>
  BY PendingTyped, AppendIsConcat
<1>6. QED
  BY <1>3, <1>4, <1>5 DEF Pending

\* Taking the queue changes neither what is pending nor its order.
LEMMA PendingTaken ==
  ASSUME TypeOK, batch = <<>>, TakeCommands
  PROVE  Pending' = Pending
BY ConcatEmptySeq DEF TypeOK, Pending, TakeCommands

\* The command run is the first of those pending.
LEMMA PendingRun ==
  ASSUME TypeOK, batch # <<>>, batch' = Tail(batch), commandQueue' = commandQueue
  PROVE  /\ Pending # <<>>
         /\ Head(Pending) = Head(batch)
         /\ Pending' = Tail(Pending)
         /\ Head(batch) \in Commands
<1>1. commandQueue \in Seq(Commands) /\ batch \in Seq(Commands)
  BY DEF TypeOK
<1>2. Pending \in Seq(Commands) /\ Pending # <<>>
  BY <1>1, PendingTyped, ConcatEqualIffEmpty DEF Pending
<1>3. Head(Pending) = Head(batch)
  BY <1>1, <1>2, ConcatProperties, EmptySeq DEF Pending
<1>4. Tail(batch) \in Seq(Commands) /\ Head(batch) \in Commands
  BY <1>1, HeadTailProperties
<1>5. Pending' = Tail(batch) \o commandQueue
  BY DEF Pending
<1>6. Tail(Pending) = Tail(batch) \o commandQueue
  <2> DEFINE l == Tail(Pending)
             r == Tail(batch) \o commandQueue
  <2>1. l \in Seq(Commands) /\ r \in Seq(Commands)
    BY <1>1, <1>2, <1>4, HeadTailProperties, ConcatProperties
  <2>2. /\ Len(l) = Len(Pending) - 1 /\ Len(Pending) = Len(batch) + Len(commandQueue)
        /\ Len(r) = Len(Tail(batch)) + Len(commandQueue)
        /\ Len(Tail(batch)) = Len(batch) - 1
    BY <1>1, <1>2, <1>4, HeadTailProperties, ConcatProperties DEF Pending
  <2>3. Len(batch) \in Nat \ {0} /\ Len(commandQueue) \in Nat
    BY <1>1, EmptySeq, LenProperties
  <2>4. ASSUME NEW i \in 1 .. Len(l) PROVE l[i] = r[i]
    <3>1. l[i] = Pending[i + 1]
      BY <1>2, HeadTailProperties
    <3>2. Pending[i + 1] = IF i + 1 <= Len(batch) THEN batch[i + 1]
                                                  ELSE commandQueue[i + 1 - Len(batch)]
      BY <1>1, <2>2, <2>3, ConcatProperties DEF Pending
    <3>3. r[i] = IF i <= Len(Tail(batch)) THEN Tail(batch)[i]
                                          ELSE commandQueue[i - Len(Tail(batch))]
      BY <1>1, <1>4, <2>2, <2>3, ConcatProperties
    <3>4. i <= Len(Tail(batch)) => Tail(batch)[i] = batch[i + 1]
      BY <1>1, <2>2, <2>3, HeadTailProperties
    <3>5. QED
      BY <3>1, <3>2, <3>3, <3>4, <2>2, <2>3
  <2>5. Len(l) = Len(r)
    BY <2>2, <2>3
  <2> HIDE DEF l, r
  <2>6. l = r
    BY <2>1, <2>4, <2>5, SeqEqual
  <2>7. QED
    BY <2>6 DEF l, r
<1>7. QED
  BY <1>2, <1>3, <1>4, <1>5, <1>6

\* A request posted with a newer connection keeps the order.
LEMMA AppendRequest ==
  ASSUME NEW q \in Seq(Commands), NEW c \in Commands, NEW n \in Nat,
         IsRequest(c), c.conn = n + 1, InOrder(q), UpTo(q, n)
  PROVE  InOrder(Append(q, c)) /\ UpTo(Append(q, c), n + 1)
<1>1. /\ Append(q, c) \in Seq(Commands)
      /\ DOMAIN Append(q, c) = 1 .. (Len(q) + 1) /\ DOMAIN q = 1 .. Len(q)
      /\ Append(q, c)[Len(q) + 1] = c
      /\ \A i \in 1 .. Len(q) : Append(q, c)[i] = q[i]
      /\ Len(q) \in Nat
  BY AppendProperties, LenProperties
<1>2. ASSUME NEW d \in Commands, IsRequest(d) PROVE d.conn \in Nat
  BY <1>2 DEF Commands, IsRequest, Conn
<1>3. \A i \in 1 .. Len(q) : q[i] \in Commands
  BY ElementOfSeq
<1>4. QED
  BY <1>1, <1>2, <1>3 DEF InOrder, UpTo

\* A bound the new command respects stays a bound.
LEMMA AppendAbove ==
  ASSUME NEW q \in Seq(Commands), NEW c \in Commands, NEW n,
         Above(q, n), IsRequest(c) => n < c.conn
  PROVE  Above(Append(q, c), n)
BY AppendProperties, LenProperties DEF Above

\* Other commands carry no number.
LEMMA AppendOther ==
  ASSUME NEW q \in Seq(Commands), NEW c \in Commands, NEW n, ~IsRequest(c)
  PROVE  /\ InOrder(q) => InOrder(Append(q, c))
         /\ UpTo(q, n) => UpTo(Append(q, c), n)
<1>1. /\ DOMAIN Append(q, c) = 1 .. (Len(q) + 1) /\ DOMAIN q = 1 .. Len(q)
      /\ Append(q, c)[Len(q) + 1] = c
      /\ \A i \in 1 .. Len(q) : Append(q, c)[i] = q[i]
      /\ Len(q) \in Nat
  BY AppendProperties, LenProperties
<1>2. QED
  BY <1>1 DEF InOrder, UpTo

\* What is left when a command is run: in order, within the same bounds, and
\* above the connection of a request that was run.
LEMMA TailOrder ==
  ASSUME NEW q \in Seq(Commands), q # <<>>
  PROVE  /\ InOrder(q) => InOrder(Tail(q))
         /\ \A n : UpTo(q, n) => UpTo(Tail(q), n)
         /\ \A n : Above(q, n) => Above(Tail(q), n)
         /\ InOrder(q) /\ IsRequest(Head(q)) => Above(Tail(q), Head(q).conn)
<1>1. /\ DOMAIN Tail(q) = 1 .. Len(q) - 1 /\ DOMAIN q = 1 .. Len(q)
      /\ Len(q) \in Nat \ {0}
      /\ \A i \in 1 .. Len(q) - 1 : Tail(q)[i] = q[i + 1]
      /\ Head(q) = q[1]
  BY HeadTailProperties, LenProperties, EmptySeq
<1>2. QED
  BY <1>1 DEF InOrder, UpTo, Above

----------------------------------------------------------------------------
(***************************************************************************)
(* The sessions.                                                           *)
(***************************************************************************)

LEMMA SetStateFacts ==
  ASSUME TypeOK, NEW s \in 1 .. sequence, NEW st \in States, SetState(s, st),
         st # "ConnectPending"
  PROVE  /\ session' \in [1 .. sequence -> Session]
         /\ session'[s].state = st
         /\ \A r \in 1 .. sequence : r # s => session'[r] = session[r]
         /\ SameSessions
<1>1. session \in [1 .. sequence -> Session]
  BY DEF TypeOK
<1>2. session' = [session EXCEPT ![s] = [session[s] EXCEPT !.state = st]]
  BY DEF SetState
<1> DEFINE new == [session[s] EXCEPT !.state = st]
<1>3. session[s] \in Session
  BY <1>1
<1>4. /\ new \in Session /\ new.state = st /\ new.fd = session[s].fd
      /\ new.conn = session[s].conn /\ new.accepted = session[s].accepted
  BY <1>3 DEF Session
<1> HIDE DEF new
<1>5. session' = [session EXCEPT ![s] = new]
  BY <1>2 DEF new
<1>6. QED
  BY <1>1, <1>4, <1>5 DEF SameSessions

LEMMA NewSessionFacts ==
  ASSUME TypeOK, sequence' = sequence + 1, sequence' <= MaxConn,
         NEW f \in Fd, NEW c \in Conn, NEW st \in States, NEW a \in BOOLEAN,
         NewSession(f, c, st, a)
  PROVE  /\ sequence' \in SessionId /\ sequence' \notin 1 .. sequence
         /\ 1 .. sequence' = (1 .. sequence) \cup {sequence'}
         /\ session' \in [1 .. sequence' -> Session]
         /\ session'[sequence'] = [fd |-> f, conn |-> c, state |-> st, accepted |-> a]
         /\ \A s \in 1 .. sequence : session'[s] = session[s]
<1>1. session \in [1 .. sequence -> Session] /\ sequence \in Nat
  BY DEF TypeOK
<1>2. MaxConn \in Nat
  BY BoundsAssumption DEF MaxConn
<1>3. /\ sequence' \in SessionId /\ sequence' \notin 1 .. sequence
      /\ 1 .. sequence' = (1 .. sequence) \cup {sequence'}
      /\ sequence' \in 1 .. sequence'
  BY <1>1, <1>2 DEF SessionId
<1> DEFINE new == [fd |-> f, conn |-> c, state |-> st, accepted |-> a]
<1>4. new \in Session
  BY DEF Session
<1>5. session' = [s \in 1 .. sequence' |-> IF s = sequence' THEN new ELSE session[s]]
  BY DEF NewSession
<1> HIDE DEF new
<1>6. session'[sequence'] = new /\ \A s \in 1 .. sequence : session'[s] = session[s]
  BY <1>3, <1>5
<1>7. session' \in [1 .. sequence' -> Session]
  BY <1>1, <1>3, <1>4, <1>5
<1>8. QED
  BY <1>3, <1>6, <1>7 DEF new

\* What a flush does: it may send to the connection behind the descriptor, set
\* the session's own entry in the epoll set, and mark the session.
LEMMA FlushFacts ==
  ASSUME TypeOK, NEW s \in 1 .. sequence, FlushSendOwner(s)
  PROVE  /\ connOf' = connOf
         /\ session' \in [1 .. sequence -> Session] /\ SameSessions
         /\ \A r \in 1 .. sequence :
              session'[r].state \in {session[r].state, "DisconnectPosted"}
         /\ pendingClose' \in Seq(SessionId)
         /\ \/ epoll' = epoll
            \/ \E e \in Entry : /\ e.id = s
                                /\ epoll' = [epoll EXCEPT ![session[s].fd] = e]
         /\ \/ sentTo' = sentTo
            \/ /\ connOf[session[s].fd] \in Conn
               /\ sentTo' = [sentTo EXCEPT ![s] = @ \cup {connOf[session[s].fd]}]
<1>1. /\ session \in [1 .. sequence -> Session] /\ s \in SessionId
      /\ connOf \in [Fd -> Conn \cup {NoConn}] /\ pendingClose \in Seq(SessionId)
      /\ epoll \in [Fd -> Entry \cup {NoEntry}]
  BY BoundsAssumption DEF TypeOK, SessionId, MaxConn
<1>2. session[s].fd \in Fd
  BY <1>1 DEF Session
<1>3. connOf' = connOf
  BY DEF FlushSendOwner
<1>4. \/ sentTo' = sentTo
      \/ /\ connOf[session[s].fd] \in Conn
         /\ sentTo' = [sentTo EXCEPT ![s] = @ \cup {connOf[session[s].fd]}]
  BY <1>1, <1>2 DEF FlushSendOwner
<1>5. ASSUME NEW out \in BOOLEAN, ModifyEvent(s, out)
      PROVE  \/ epoll' = epoll
             \/ \E e \in Entry : /\ e.id = s
                                 /\ epoll' = [epoll EXCEPT ![session[s].fd] = e]
  <2>1. ASSUME NEW in \in BOOLEAN PROVE [id |-> s, in |-> in, out |-> out] \in Entry
    BY <1>1 DEF Entry
  <2>2. QED
    BY <1>5, <2>1 DEF ModifyEvent
<1>6. \E out \in BOOLEAN : ModifyEvent(s, out)
  BY DEF FlushSendOwner
<1>7. \/ UNCHANGED <<pendingClose, session>>
      \/ pendingClose' = Append(pendingClose, s) /\ SetState(s, "DisconnectPosted")
  BY DEF FlushSendOwner
<1>8. pendingClose' \in Seq(SessionId)
  BY <1>1, <1>7, AppendProperties
<1>9. /\ session' \in [1 .. sequence -> Session] /\ SameSessions
      /\ \A r \in 1 .. sequence :
           session'[r].state \in {session[r].state, "DisconnectPosted"}
  <2>1. CASE UNCHANGED <<pendingClose, session>>
    BY <1>1, <2>1 DEF SameSessions
  <2>2. CASE SetState(s, "DisconnectPosted")
    BY <2>2, SetStateFacts DEF States
  <2>3. QED
    BY <1>7, <2>1, <2>2
<1>10. QED
  BY <1>3, <1>4, <1>5, <1>6, <1>8, <1>9

LEMMA FlushTypes ==
  ASSUME TypeOK, NEW s \in 1 .. sequence, FlushSendOwner(s)
  PROVE  epoll' \in [Fd -> Entry \cup {NoEntry}] /\ sentTo' \in [SessionId -> SUBSET Conn]
<1>1. epoll \in [Fd -> Entry \cup {NoEntry}] /\ sentTo \in [SessionId -> SUBSET Conn]
  BY DEF TypeOK
<1>2. epoll' \in [Fd -> Entry \cup {NoEntry}]
  <2>1. \/ epoll' = epoll
        \/ \E e \in Entry : epoll' = [epoll EXCEPT ![session[s].fd] = e]
    BY FlushFacts
  <2>2. QED
    BY <1>1, <2>1
<1>3. sentTo' \in [SessionId -> SUBSET Conn]
  <2>1. \/ sentTo' = sentTo
        \/ \E c \in Conn : sentTo' = [sentTo EXCEPT ![s] = @ \cup {c}]
    BY FlushFacts
  <2>2. QED
    BY <1>1, <2>1
<1>4. QED
  BY <1>2, <1>3

\* The request about to run: its session's number is within bounds.
LEMMA RequestRun ==
  ASSUME Numbering, NEW kind \in {"accept", "connect"}, Command(kind),
         commandQueue' = commandQueue
  PROVE  /\ Head(batch) \in Commands /\ IsRequest(Head(batch))
         /\ Head(batch).kind = kind /\ Head(batch).conn \in Conn
         /\ kind = "accept" => Head(batch).fd \in Fd
         /\ sequence < Head(batch).conn
         /\ Head(batch).conn <= accepts + connects
         /\ sequence + 1 <= MaxConn
         /\ Pending # <<>> /\ Head(Pending) = Head(batch) /\ Pending' = Tail(Pending)
<1>1. /\ Head(batch) \in Commands /\ Head(batch).kind = kind
      /\ Pending # <<>> /\ Head(Pending) = Head(batch) /\ Pending' = Tail(Pending)
  BY PendingRun DEF Command, Numbering
<1>2. /\ IsRequest(Head(batch)) /\ Head(batch).conn \in Conn
      /\ kind = "accept" => Head(batch).fd \in Fd
  BY <1>1 DEF Commands, IsRequest
<1>3. Pending \in Seq(Commands)
  BY PendingTyped DEF Numbering
<1>4. 1 \in DOMAIN Pending /\ Head(Pending) = Pending[1]
  BY <1>1, <1>3, EmptySeq, LenProperties
<1>5. sequence < Head(batch).conn /\ Head(batch).conn <= accepts + connects
  BY <1>1, <1>2, <1>4 DEF Numbering, RequestsNumbered, Above, UpTo
<1>6. accepts + connects <= MaxConn /\ sequence \in Nat /\ accepts + connects \in Nat
  BY BoundsAssumption DEF Numbering, TypeOK, MaxConn
<1>7. sequence + 1 <= MaxConn
  BY <1>2, <1>5, <1>6, BoundsAssumption DEF Conn, MaxConn
<1>8. QED
  BY <1>1, <1>2, <1>5, <1>7

\* The other commands: they name a session.
LEMMA OtherRun ==
  ASSUME TypeOK, NEW kind \in {"flush", "disconnect"}, Command(kind),
         commandQueue' = commandQueue
  PROVE  /\ Head(batch) \in Commands /\ ~IsRequest(Head(batch))
         /\ Head(batch).session \in SessionId
         /\ Pending # <<>> /\ Head(Pending) = Head(batch) /\ Pending' = Tail(Pending)
<1>1. /\ Head(batch) \in Commands /\ Head(batch).kind = kind
      /\ Pending # <<>> /\ Head(Pending) = Head(batch) /\ Pending' = Tail(Pending)
  BY PendingRun DEF Command
<1>2. ~IsRequest(Head(batch)) /\ Head(batch).session \in SessionId
  BY <1>1 DEF Commands, IsRequest
<1>3. QED
  BY <1>1, <1>2

\* A session a command can still reach was made.
LEMMA AliveMade ==
  ASSUME Numbering, NEW s \in SessionId, Alive(s)
  PROVE  s \in 1 .. sequence
<1>1. CASE s \in sessions
  BY <1>1 DEF Numbering, TypeOK
<1>2. CASE HeldByTask(s)
  <2>1. PICK k \in Task : task[k].session = s
    BY <1>2 DEF HeldByTask
  <2>2. s # NoSession
    BY DEF SessionId, NoSession
  <2>3. QED
    BY <2>1, <2>2 DEF Numbering, TasksHold
<1>3. QED
  BY <1>1, <1>2 DEF Alive

LEMMA SequenceIds ==
  ASSUME TypeOK PROVE 1 .. sequence \subseteq SessionId
BY BoundsAssumption DEF TypeOK, SessionId, MaxConn

LEMMA BeyondSequence ==
  ASSUME TypeOK, NEW r \in SessionId, NEW s \in 1 .. sequence, r > sequence
  PROVE  r # s
BY DEF TypeOK, SessionId

----------------------------------------------------------------------------
(***************************************************************************)
(* Types.                                                                  *)
(***************************************************************************)

LEMMA InitTypes == Init => TypeOK
<1> SUFFICES ASSUME Init PROVE TypeOK
  OBVIOUS
<1>1. session \in [1 .. sequence -> Session] /\ sessions \subseteq DOMAIN session
  BY DEF Init
<1>2. sequence \in 0 .. MaxConn /\ accepts \in 0 .. MaxAccepts /\ connects \in 0 .. MaxConnects
  BY BoundsAssumption DEF Init, MaxConn
<1>3. events \in [wakeup : BOOLEAN, sessions : SUBSET Report]
  BY DEF Init, NoEvents
<1>4. /\ commandQueue \in Seq(Commands) /\ batch \in Seq(Commands)
      /\ pendingClose \in Seq(SessionId)
  BY DEF Init
<1>5. QED
  BY <1>1, <1>2, <1>3, <1>4 DEF Init, TypeOK

\* Posting a command.
LEMMA PostTypes ==
  ASSUME TypeOK, NEW c \in Commands, commandQueue' = Append(commandQueue, c)
  PROVE  commandQueue' \in Seq(Commands)
BY AppendProperties DEF TypeOK

LEMMA OtherThreadsTypes ==
  ASSUME Numbering,
         \/ \E f \in Fd : Accept(f)
         \/ ConnectAsync
         \/ \E k \in Task : TaskChecksState(k) \/ TaskSends(k) \/ TaskEnds(k)
  PROVE  TypeOK'
<1> USE DEF Numbering, registry, kernel, requests, history, callbacks
<1>0. TypeOK
  OBVIOUS
<1>1. ASSUME NEW f \in Fd, Accept(f) PROVE TypeOK'
  <2>1. accepts' \in 0 .. MaxAccepts /\ accepts' + connects \in Conn
    BY <1>1, BoundsAssumption DEF Accept, TypeOK, Conn, MaxConn
  <2>2. AcceptCommand(f, accepts' + connects) \in Commands
    BY <2>1 DEF AcceptCommand, Commands
  <2>3. commandQueue' \in Seq(Commands)
    BY <1>1, <2>2, PostTypes DEF Accept
  <2>4. QED
    BY <1>1, <2>1, <2>3 DEF Accept, TypeOK
<1>2. ASSUME ConnectAsync PROVE TypeOK'
  <2>1. connects' \in 0 .. MaxConnects /\ accepts + connects' \in Conn
    BY <1>2, BoundsAssumption DEF ConnectAsync, TypeOK, Conn, MaxConn
  <2>2. ConnectCommand(accepts + connects') \in Commands
    BY <2>1 DEF ConnectCommand, Commands
  <2>3. commandQueue' \in Seq(Commands)
    BY <1>2, <2>2, PostTypes DEF ConnectAsync
  <2>4. QED
    BY <1>2, <2>1, <2>3 DEF ConnectAsync, TypeOK
<1>3. ASSUME NEW k \in Task, task[k].step # "idle"
      PROVE  /\ task[k].session \in SessionId
             /\ DisconnectCommand(task[k].session) \in Commands
             /\ FlushCommand(task[k].session) \in Commands
  <2>1. task[k].session \in SessionId
    BY <1>3, SequenceIds DEF TasksHold
  <2>2. QED
    BY <2>1 DEF DisconnectCommand, FlushCommand, Commands
<1> DEFINE Holding == [step : {"idle", "job", "send", "done"},
                       session : SessionId \cup {NoSession}]
<1>4. task \in [Task -> Holding]
  BY DEF TypeOK
<1>5. ASSUME NEW k \in Task, NEW st \in {"send", "done"},
             task' = [task EXCEPT ![k].step = st]
      PROVE  task' \in [Task -> Holding]
  <2>1. task' = [task EXCEPT ![k] = [task[k] EXCEPT !.step = st]]
    BY <1>5
  <2>2. [task[k] EXCEPT !.step = st] \in Holding
    BY <1>4
  <2>3. QED
    BY <1>4, <2>1, <2>2
<1>6. ASSUME NEW k \in Task, TaskChecksState(k) PROVE TypeOK'
  <2>1. task' \in [Task -> Holding] /\ commandQueue' \in Seq(Commands)
    <3>1. task[k].step = "job"
      BY <1>6 DEF TaskChecksState
    <3>2. CASE session[task[k].session].state = "Connected"
      BY <1>5, <1>6, <3>2 DEF TaskChecksState, TypeOK
    <3>3. CASE session[task[k].session].state # "Connected"
      BY <1>3, <1>5, <1>6, <3>1, <3>3, PostTypes DEF TaskChecksState
    <3>4. QED
      BY <3>2, <3>3
  <2>2. QED
    BY <1>6, <2>1 DEF TaskChecksState, TypeOK
<1>7. ASSUME NEW k \in Task, TaskSends(k) PROVE TypeOK'
  <2>1. task' \in [Task -> Holding] /\ commandQueue' \in Seq(Commands)
    BY <1>3, <1>5, <1>7, PostTypes DEF TaskSends
  <2>2. QED
    BY <1>7, <2>1 DEF TaskSends, TypeOK
<1>8. ASSUME NEW k \in Task, TaskEnds(k) PROVE TypeOK'
  BY <1>8 DEF TaskEnds, TypeOK
<1>9. QED
  BY <1>1, <1>2, <1>6, <1>7, <1>8

LEMMA WaitTypes ==
  ASSUME TypeOK, EpollWait
  PROVE  TypeOK'
<1> USE DEF registry, kernel, requests, history, callbacks
<1>0. PICK F \in SUBSET {f \in Fd : epoll[f] # NoEntry} :
        \E r \in [F -> UNION {Reports(f) : f \in F}] :
          /\ \A f \in F : r[f] \in Reports(f)
          /\ events' = [wakeup |-> commandQueue # <<>>, sessions |-> {r[f] : f \in F}]
  BY DEF EpollWait
<1>1. PICK r \in [F -> UNION {Reports(f) : f \in F}] :
        /\ \A f \in F : r[f] \in Reports(f)
        /\ events' = [wakeup |-> commandQueue # <<>>, sessions |-> {r[f] : f \in F}]
  BY <1>0
<1>2. ASSUME NEW f \in F PROVE r[f] \in Report
  <2>1. epoll[f] \in Entry
    BY DEF TypeOK
  <2>2. epoll[f].id \in SessionId /\ epoll[f].in \in BOOLEAN /\ epoll[f].out \in BOOLEAN
    BY <2>1 DEF Entry
  <2>3. PICK e \in BOOLEAN, i \in {FALSE, epoll[f].in}, o \in {FALSE, epoll[f].out} :
          r[f] = [id |-> epoll[f].id, error |-> e, in |-> i, out |-> o]
    BY <1>1 DEF Reports
  <2>4. i \in BOOLEAN /\ o \in BOOLEAN
    BY <2>2
  <2>5. QED
    BY <2>2, <2>3, <2>4 DEF Report
<1>3. {r[f] : f \in F} \in SUBSET Report
  BY <1>2
<1>4. events' \in [wakeup : BOOLEAN, sessions : SUBSET Report]
  BY <1>1, <1>3
<1>5. QED
  BY <1>4 DEF EpollWait, TypeOK

\* Visiting an event takes it off the list and may add its output part.
LEMMA VisitTypes ==
  ASSUME TypeOK, NEW e \in events.sessions,
         \/ events' = [events EXCEPT !.sessions = @ \ {e}]
         \/ events' = [events EXCEPT !.sessions = (@ \ {e}) \cup OutputPart(e)]
  PROVE  /\ events' \in [wakeup : BOOLEAN, sessions : SUBSET Report]
         /\ e \in Report /\ e.id \in SessionId
<1>1. events \in [wakeup : BOOLEAN, sessions : SUBSET Report]
  BY DEF TypeOK
<1>2. e \in Report /\ e.id \in SessionId
  BY <1>1 DEF Report
<1>3. OutputPart(e) \subseteq Report
  BY <1>2 DEF OutputPart, Report
<1> DEFINE left == events.sessions \ {e}
           more == (events.sessions \ {e}) \cup OutputPart(e)
<1>4. left \in SUBSET Report /\ more \in SUBSET Report
  BY <1>1, <1>3
<1>5. \/ events' = [events EXCEPT !.sessions = left]
      \/ events' = [events EXCEPT !.sessions = more]
  OBVIOUS
<1> HIDE DEF left, more
<1>6. events' \in [wakeup : BOOLEAN, sessions : SUBSET Report]
  BY <1>1, <1>4, <1>5
<1>7. QED
  BY <1>2, <1>6

LEMMA VisitEventTypes ==
  ASSUME Numbering, VisitEvent
  PROVE  TypeOK'
<1> USE DEF registry, kernel, requests, history, callbacks
<1>0. TypeOK
  BY DEF Numbering
<1>1. ASSUME VisitWakeup PROVE TypeOK'
  <2>1. events' \in [wakeup : BOOLEAN, sessions : SUBSET Report]
    BY <1>0, <1>1 DEF VisitWakeup, TypeOK
  <2>2. batch' \in Seq(Commands) /\ commandQueue' \in Seq(Commands)
    BY <1>0, <1>1 DEF VisitWakeup, TakeCommands, TypeOK
  <2>3. QED
    BY <1>0, <1>1, <2>1, <2>2 DEF VisitWakeup, TypeOK
<1> SUFFICES ASSUME NEW e \in events.sessions,
                    \/ VisitAlias(e) \/ VisitUnknown(e) \/ VisitClosing(e)
                    \/ VisitInput(e) \/ VisitConnected(e) \/ VisitConnectFailed(e)
                    \/ VisitSendable(e) \/ VisitSendableClosing(e)
             PROVE  TypeOK'
  BY <1>1 DEF VisitEvent
<1>2. /\ events' \in [wakeup : BOOLEAN, sessions : SUBSET Report]
      /\ e \in Report /\ e.id \in SessionId
  BY <1>0, VisitTypes DEF VisitAlias, VisitUnknown, VisitClosing, VisitInput,
     VisitConnected, VisitConnectFailed, VisitSendable, VisitSendableClosing,
     Visit, Output
<1>3. FlushCommand(e.id) \in Commands /\ DisconnectCommand(e.id) \in Commands
  BY <1>2 DEF FlushCommand, DisconnectCommand, Commands
<1>4. Append(pendingClose, e.id) \in Seq(SessionId)
  BY <1>0, <1>2, AppendProperties DEF TypeOK
<1>5. e.id \in sessions => e.id \in 1 .. sequence
  BY <1>0 DEF TypeOK
<1>6. CASE VisitAlias(e)
  <2>1. batch' \in Seq(Commands) /\ commandQueue' \in Seq(Commands)
    BY <1>0, <1>6 DEF VisitAlias, TakeCommands, TypeOK
  <2>2. QED
    BY <1>0, <1>2, <1>6, <2>1 DEF VisitAlias, TypeOK
<1>7. CASE VisitUnknown(e)
  BY <1>0, <1>2, <1>7 DEF VisitUnknown, TypeOK
<1>8. CASE VisitClosing(e) \/ VisitConnectFailed(e) \/ VisitSendableClosing(e)
  BY <1>0, <1>2, <1>4, <1>8
     DEF VisitClosing, VisitConnectFailed, VisitSendableClosing, TypeOK
<1>9. CASE VisitInput(e)
  <2>1. commandQueue' \in Seq(Commands)
    BY <1>0, <1>3, <1>9, PostTypes DEF VisitInput, HandlerPosts, StartsJob, TypeOK
  <2> DEFINE Holding == [step : {"idle", "job", "send", "done"},
                         session : SessionId \cup {NoSession}]
  <2>a. task \in [Task -> Holding]
    BY <1>0 DEF TypeOK
  <2>b. \/ task' = task
        \/ \E k \in Task : task' = [task EXCEPT ![k] = [step |-> "job", session |-> e.id]]
    BY <1>9 DEF VisitInput, HandlerPosts, StartsJob
  <2>c. [step |-> "job", session |-> e.id] \in Holding
    BY <1>2
  <2>2. task' \in [Task -> Holding]
    BY <2>a, <2>b, <2>c
  <2>3. QED
    BY <1>0, <1>2, <1>9, <2>1, <2>2 DEF VisitInput, TypeOK
<1>10. CASE VisitConnected(e)
  <2>1. session' \in [1 .. sequence -> Session]
    BY <1>0, <1>5, <1>10, SetStateFacts DEF VisitConnected, Output, Found, States
  <2>2. commandQueue' \in Seq(Commands)
    BY <1>0, <1>3, <1>10, PostTypes DEF VisitConnected, TypeOK
  <2>a. /\ connectedCalls \in [SessionId -> Nat]
        /\ connectedCalls' = [connectedCalls EXCEPT ![e.id] = @ + 1]
    BY <1>0, <1>10 DEF VisitConnected, TypeOK
  <2>3. connectedCalls' \in [SessionId -> Nat]
    BY <1>2, <2>a
  <2>4. sessions' \subseteq DOMAIN session'
    BY <1>0, <1>10, <2>1 DEF VisitConnected, TypeOK
  <2>5. QED
    BY <1>0, <1>2, <1>10, <2>1, <2>2, <2>3, <2>4 DEF VisitConnected, TypeOK
<1>11. CASE VisitSendable(e)
  <2>1. e.id \in 1 .. sequence /\ FlushSendOwner(e.id)
    BY <1>5, <1>11 DEF VisitSendable, Output, Found
  <2>2. /\ connOf' = connOf /\ session' \in [1 .. sequence -> Session]
        /\ pendingClose' \in Seq(SessionId)
    BY <1>0, <2>1, FlushFacts
  <2>3. epoll' \in [Fd -> Entry \cup {NoEntry}] /\ sentTo' \in [SessionId -> SUBSET Conn]
    BY <1>0, <2>1, FlushTypes
  <2>4. sessions' \subseteq DOMAIN session'
    BY <1>0, <1>11, <2>2 DEF VisitSendable, TypeOK
  <2>5. QED
    BY <1>0, <1>2, <1>11, <2>2, <2>3, <2>4 DEF VisitSendable, TypeOK
<1>12. QED
  BY <1>6, <1>7, <1>8, <1>9, <1>10, <1>11

\* Running a request: the new session, the queues and the ids.
LEMMA RequestTypes ==
  ASSUME Numbering, NEW kind \in {"accept", "connect"}, Command(kind),
         commandQueue' = commandQueue, AllocateSessionId,
         NEW f \in Fd, NEW st \in States, NEW a \in BOOLEAN,
         NewSession(f, Head(batch).conn, st, a)
  PROVE  /\ sequence' \in 0 .. MaxConn /\ sequence' \in SessionId
         /\ session' \in [1 .. sequence' -> Session]
         /\ batch' \in Seq(Commands) /\ commandQueue' \in Seq(Commands)
         /\ sessions \cup {sequence'} \subseteq DOMAIN session'
         /\ Head(batch).conn \in Conn
<1>1. TypeOK
  BY DEF Numbering
<1>2. sequence' = sequence + 1 /\ sequence' <= MaxConn /\ Head(batch).conn \in Conn
  BY RequestRun DEF AllocateSessionId
<1>3. /\ sequence' \in SessionId /\ 1 .. sequence' = (1 .. sequence) \cup {sequence'}
      /\ session' \in [1 .. sequence' -> Session]
  BY <1>1, <1>2, NewSessionFacts
<1>4. batch' \in Seq(Commands) /\ commandQueue' \in Seq(Commands)
  BY <1>1, HeadTailProperties DEF TypeOK, Command
<1>5. sequence' \in 0 .. MaxConn
  BY <1>3 DEF SessionId
<1>6. QED
  BY <1>1, <1>2, <1>3, <1>4, <1>5 DEF TypeOK

LEMMA ExecuteRequestTypes ==
  ASSUME Numbering,
         \/ ExecuteAccept \/ ExecuteAcceptFails \/ ExecuteConnectPending
         \/ ExecuteConnectAtOnce \/ ExecuteConnectNoSocket \/ ExecuteConnectFails
  PROVE  TypeOK'
<1> USE DEF registry, kernel, requests, history, callbacks
<1>0. TypeOK
  BY DEF Numbering
<1>1. CASE ExecuteAccept
  <2>1. Command("accept") /\ commandQueue' = commandQueue
    BY <1>1 DEF ExecuteAccept
  <2>2. Head(batch).fd \in Fd
    BY <2>1, RequestRun
  <2>3. /\ sequence' \in 0 .. MaxConn /\ sequence' \in SessionId
        /\ session' \in [1 .. sequence' -> Session]
        /\ batch' \in Seq(Commands) /\ commandQueue' \in Seq(Commands)
        /\ sessions \cup {sequence'} \subseteq DOMAIN session'
    BY <1>1, <2>1, <2>2, RequestTypes DEF ExecuteAccept, States
  <2>4. connectedCalls \in [SessionId -> Nat]
    BY <1>0 DEF TypeOK
  <2>5. connectedCalls' \in [SessionId -> Nat]
    <3>1. connectedCalls' = [connectedCalls EXCEPT ![sequence'] = @ + 1]
      BY <1>1 DEF ExecuteAccept
    <3>2. QED
      BY <2>3, <2>4, <3>1
  <2>6. [id |-> sequence', in |-> TRUE, out |-> FALSE] \in Entry
    BY <2>3 DEF Entry
  <2>7. epoll' \in [Fd -> Entry \cup {NoEntry}]
    BY <1>0, <1>1, <2>2, <2>6 DEF ExecuteAccept, TypeOK
  <2>8. QED
    BY <1>0, <1>1, <2>3, <2>5, <2>7 DEF ExecuteAccept, TypeOK
<1>2. CASE ExecuteAcceptFails
  <2>1. Command("accept") /\ commandQueue' = commandQueue
    BY <1>2 DEF ExecuteAcceptFails
  <2>2. Head(batch).fd \in Fd
    BY <2>1, RequestRun
  <2>3. /\ sequence' \in 0 .. MaxConn
        /\ session' \in [1 .. sequence' -> Session]
        /\ batch' \in Seq(Commands) /\ commandQueue' \in Seq(Commands)
        /\ sessions \cup {sequence'} \subseteq DOMAIN session'
    BY <1>2, <2>1, <2>2, RequestTypes DEF ExecuteAcceptFails, States
  <2>4. connOf' \in [Fd -> Conn \cup {NoConn}]
    BY <1>0, <1>2 DEF ExecuteAcceptFails, TypeOK
  <2>5. QED
    BY <1>0, <1>2, <2>3, <2>4 DEF ExecuteAcceptFails, TypeOK
<1>3. CASE ExecuteConnectPending
  <2>1. Command("connect") /\ commandQueue' = commandQueue
    BY <1>3 DEF ExecuteConnectPending
  <2>2. PICK f \in Fd, in \in BOOLEAN :
          /\ connOf' = [connOf EXCEPT ![f] = Head(batch).conn]
          /\ epoll' = [epoll EXCEPT ![f] = [id |-> sequence', in |-> in, out |-> TRUE]]
          /\ NewSession(f, Head(batch).conn, "ConnectPending", FALSE)
    BY <1>3 DEF ExecuteConnectPending
  <2>3. /\ sequence' \in 0 .. MaxConn /\ sequence' \in SessionId
        /\ session' \in [1 .. sequence' -> Session]
        /\ batch' \in Seq(Commands) /\ commandQueue' \in Seq(Commands)
        /\ sessions \cup {sequence'} \subseteq DOMAIN session'
        /\ Head(batch).conn \in Conn
    BY <1>3, <2>1, <2>2, RequestTypes DEF ExecuteConnectPending, States
  <2>4. [id |-> sequence', in |-> in, out |-> TRUE] \in Entry
    BY <2>3 DEF Entry
  <2>5. epoll' \in [Fd -> Entry \cup {NoEntry}] /\ connOf' \in [Fd -> Conn \cup {NoConn}]
    BY <1>0, <2>2, <2>3, <2>4 DEF TypeOK
  <2>6. QED
    BY <1>0, <1>3, <2>3, <2>5 DEF ExecuteConnectPending, TypeOK
<1>4. CASE ExecuteConnectAtOnce
  <2>1. Command("connect") /\ commandQueue' = commandQueue
    BY <1>4 DEF ExecuteConnectAtOnce
  <2>2. PICK f \in Fd :
          /\ connOf' = [connOf EXCEPT ![f] = Head(batch).conn]
          /\ epoll' = [epoll EXCEPT ![f] = [id |-> sequence', in |-> TRUE, out |-> FALSE]]
          /\ NewSession(f, Head(batch).conn, "Connected", FALSE)
    BY <1>4 DEF ExecuteConnectAtOnce
  <2>3. /\ sequence' \in 0 .. MaxConn /\ sequence' \in SessionId
        /\ session' \in [1 .. sequence' -> Session]
        /\ batch' \in Seq(Commands) /\ commandQueue' \in Seq(Commands)
        /\ sessions \cup {sequence'} \subseteq DOMAIN session'
        /\ Head(batch).conn \in Conn
    BY <1>4, <2>1, <2>2, RequestTypes DEF ExecuteConnectAtOnce, States
  <2>4. [id |-> sequence', in |-> TRUE, out |-> FALSE] \in Entry
    BY <2>3 DEF Entry
  <2>5. epoll' \in [Fd -> Entry \cup {NoEntry}] /\ connOf' \in [Fd -> Conn \cup {NoConn}]
    BY <1>0, <2>2, <2>3, <2>4 DEF TypeOK
  <2>6. QED
    BY <1>0, <1>4, <2>3, <2>5 DEF ExecuteConnectAtOnce, TypeOK
<1>5. CASE ExecuteConnectNoSocket
  <2>1. batch' \in Seq(Commands)
    BY <1>0, <1>5, HeadTailProperties DEF ExecuteConnectNoSocket, Command, TypeOK
  <2>2. QED
    BY <1>0, <1>5, <2>1 DEF ExecuteConnectNoSocket, TypeOK
<1>6. CASE ExecuteConnectFails
  <2>1. Command("connect") /\ commandQueue' = commandQueue
    BY <1>6 DEF ExecuteConnectFails
  <2>2. PICK f \in Fd, st \in {"ConnectPending", "Connected"} :
          NewSession(f, Head(batch).conn, st, FALSE)
    BY <1>6 DEF ExecuteConnectFails
  <2>3. /\ sequence' \in 0 .. MaxConn
        /\ session' \in [1 .. sequence' -> Session]
        /\ batch' \in Seq(Commands) /\ commandQueue' \in Seq(Commands)
        /\ sessions \cup {sequence'} \subseteq DOMAIN session'
    BY <1>6, <2>1, <2>2, RequestTypes DEF ExecuteConnectFails, States
  <2>4. QED
    BY <1>0, <1>6, <2>3 DEF ExecuteConnectFails, TypeOK
<1>7. QED
  BY <1>1, <1>2, <1>3, <1>4, <1>5, <1>6

LEMMA ExecuteOtherTypes ==
  ASSUME Numbering, ExecuteFlush \/ ExecuteDisconnect \/ ExecuteExpired
  PROVE  TypeOK'
<1> USE DEF registry, kernel, requests, history, callbacks
<1>0. TypeOK
  BY DEF Numbering
<1>a. batch # <<>> /\ batch' = Tail(batch)
  BY Zenon DEF ExecuteFlush, ExecuteDisconnect, ExecuteExpired, Command
<1>1. batch' \in Seq(Commands)
  BY <1>0, <1>a, HeadTailProperties DEF TypeOK
<1> DEFINE s == Head(batch).session
<1>2. ASSUME Command("flush") \/ Command("disconnect"), commandQueue' = commandQueue
      PROVE  s \in SessionId
  BY <1>0, <1>2, OtherRun
<1>3. CASE ExecuteFlush
  <2>1. s \in 1 .. sequence /\ FlushSendOwner(s)
    BY <1>2, <1>3, AliveMade DEF ExecuteFlush
  <2> HIDE DEF s
  <2>2. /\ connOf' = connOf /\ session' \in [1 .. sequence -> Session]
        /\ pendingClose' \in Seq(SessionId)
    BY <1>0, <2>1, FlushFacts
  <2>3. epoll' \in [Fd -> Entry \cup {NoEntry}] /\ sentTo' \in [SessionId -> SUBSET Conn]
    BY <1>0, <2>1, FlushTypes
  <2>4. sessions' \subseteq DOMAIN session'
    BY <1>0, <1>3, <2>2 DEF ExecuteFlush, TypeOK
  <2>5. QED
    BY <1>0, <1>1, <1>3, <2>2, <2>3, <2>4 DEF ExecuteFlush, TypeOK
<1>4. CASE ExecuteDisconnect
  <2>1. /\ s \in 1 .. sequence /\ SetState(s, "DisconnectPosted") /\ s \in SessionId
        /\ pendingClose' = Append(pendingClose, s)
    BY <1>2, <1>4, AliveMade DEF ExecuteDisconnect
  <2> HIDE DEF s
  <2>2. session' \in [1 .. sequence -> Session]
    BY <1>0, <2>1, SetStateFacts DEF States
  <2>3. pendingClose' \in Seq(SessionId)
    BY <1>0, <2>1, AppendProperties DEF TypeOK
  <2>4. sessions' \subseteq DOMAIN session'
    BY <1>0, <1>4, <2>2 DEF ExecuteDisconnect, TypeOK
  <2>5. QED
    BY <1>0, <1>1, <1>4, <2>2, <2>3, <2>4 DEF ExecuteDisconnect, TypeOK
<1>5. CASE ExecuteExpired
  BY <1>0, <1>1, <1>5 DEF ExecuteExpired, TypeOK
<1>6. QED
  BY <1>3, <1>4, <1>5

LEMMA SweepTypes ==
  ASSUME Numbering, EndOfEvents \/ SweepCloses \/ SweepSkips \/ EndOfSweep
  PROVE  TypeOK'
<1> USE DEF registry, kernel, requests, history, callbacks
<1>0. TypeOK
  BY DEF Numbering
<1>1. CASE EndOfEvents \/ EndOfSweep
  BY <1>0, <1>1 DEF EndOfEvents, EndOfSweep, AtEvents, TypeOK
<1>2. CASE SweepSkips
  <2>1. pendingClose' \in Seq(SessionId)
    BY <1>0, <1>2, HeadTailProperties DEF SweepSkips, TypeOK
  <2>2. QED
    BY <1>0, <1>2, <2>1 DEF SweepSkips, TypeOK
<1>3. CASE SweepCloses
  <2> DEFINE s == Head(pendingClose)
             f == session[s].fd
  <2>1. pendingClose' \in Seq(SessionId)
    BY <1>0, <1>3, HeadTailProperties DEF SweepCloses, TypeOK
  <2>2. /\ s \in sessions /\ SetState(s, "Disconnected")
        /\ closedCalls' = [closedCalls EXCEPT ![s] = @ + 1]
        /\ outlived' = IF HeldByTask(s) THEN outlived \cup {s} ELSE outlived
        /\ epoll' = [epoll EXCEPT ![f] = NoEntry]
        /\ connOf' = [connOf EXCEPT ![f] = NoConn]
        /\ sessions' = sessions \ {s}
    BY <1>3 DEF SweepCloses
  <2> HIDE DEF s, f
  <2>3. s \in 1 .. sequence /\ s \in SessionId
    BY <1>0, <2>2, SequenceIds DEF TypeOK
  <2>4. session' \in [1 .. sequence -> Session]
    BY <1>0, <2>2, <2>3, SetStateFacts DEF States
  <2>5. closedCalls \in [SessionId -> Nat]
    BY <1>0 DEF TypeOK
  <2>6. closedCalls' \in [SessionId -> Nat]
    BY <2>2, <2>3, <2>5
  <2>7. epoll' \in [Fd -> Entry \cup {NoEntry}] /\ connOf' \in [Fd -> Conn \cup {NoConn}]
    BY <1>0, <2>2 DEF TypeOK
  <2>8. sessions' \subseteq DOMAIN session' /\ outlived' \subseteq SessionId
    BY <1>0, <2>2, <2>3, <2>4 DEF TypeOK
  <2>9. QED
    BY <1>0, <1>3, <2>1, <2>4, <2>6, <2>7, <2>8 DEF SweepCloses, TypeOK
<1>4. QED
  BY <1>1, <1>2, <1>3

LEMMA NextTypes == Numbering /\ [Next]_vars => TypeOK'
<1>1. ASSUME Numbering, UNCHANGED vars PROVE TypeOK'
  BY <1>1 DEF Numbering, TypeOK, vars
<1>2. QED
  BY <1>1, OtherThreadsTypes, WaitTypes, VisitEventTypes, ExecuteRequestTypes,
     ExecuteOtherTypes, SweepTypes DEF Numbering, Next, Dispatch, ExecuteCommand

----------------------------------------------------------------------------
(***************************************************************************)
(* Numbers: connections outrun the ids, in the order of the commands.      *)
(***************************************************************************)

LEMMA SameSessionsUnchanged ==
  ASSUME session' = session PROVE SameSessions
BY DEF SameSessions

LEMMA VisitQuiet ==
  ASSUME Numbering, VisitEvent
  PROVE  Quiet
<1>0. TypeOK
  BY DEF Numbering
<1> USE DEF registry, kernel, requests
<1>1. CASE VisitWakeup
  <2>1. Pending' = Pending
    BY <1>0, <1>1, PendingTaken DEF VisitWakeup, AtEvents
  <2>2. QED
    BY <1>1, <2>1, SameSessionsUnchanged DEF VisitWakeup, Quiet
<1> SUFFICES ASSUME NEW e \in events.sessions,
                    \/ VisitAlias(e) \/ VisitUnknown(e) \/ VisitClosing(e)
                    \/ VisitInput(e) \/ VisitConnected(e) \/ VisitConnectFailed(e)
                    \/ VisitSendable(e) \/ VisitSendableClosing(e)
             PROVE  Quiet
  BY <1>1 DEF VisitEvent
<1>2. e.id \in SessionId /\ (e.id \in sessions => e.id \in 1 .. sequence)
  BY <1>0 DEF TypeOK, Report
<1>3. /\ FlushCommand(e.id) \in Commands /\ ~IsRequest(FlushCommand(e.id))
      /\ DisconnectCommand(e.id) \in Commands /\ ~IsRequest(DisconnectCommand(e.id))
  BY <1>2 DEF FlushCommand, DisconnectCommand, Commands, IsRequest
<1>4. CASE VisitAlias(e)
  <2>1. Pending' = Pending
    BY <1>0, <1>4, PendingTaken DEF VisitAlias, Visit, AtEvents
  <2>2. QED
    BY <1>4, <2>1, SameSessionsUnchanged DEF VisitAlias, Quiet
<1>5. CASE VisitUnknown(e) \/ VisitClosing(e) \/ VisitConnectFailed(e)
           \/ VisitSendableClosing(e)
  BY <1>5, SameSessionsUnchanged DEF VisitUnknown, VisitClosing,
     VisitConnectFailed, VisitSendableClosing, Quiet, Pending
<1>6. CASE VisitInput(e)
  <2>1. \/ commandQueue' = commandQueue
        \/ \E c \in {FlushCommand(e.id), DisconnectCommand(e.id)} :
             commandQueue' = Append(commandQueue, c)
    BY <1>6 DEF VisitInput, HandlerPosts, StartsJob
  <2>2. batch' = batch
    BY <1>6 DEF VisitInput
  <2>3. \/ Pending' = Pending
        \/ \E c \in Commands : ~IsRequest(c) /\ Pending' = Append(Pending, c)
    BY <1>0, <1>3, <2>1, <2>2, PendingPost DEF Pending
  <2>4. QED
    BY <1>6, <2>3, SameSessionsUnchanged DEF VisitInput, Quiet
<1>7. CASE VisitConnected(e)
  <2>1. \/ commandQueue' = commandQueue
        \/ commandQueue' = Append(commandQueue, FlushCommand(e.id))
    BY <1>7 DEF VisitConnected
  <2>2. batch' = batch
    BY <1>7 DEF VisitConnected
  <2>3. \/ Pending' = Pending
        \/ \E c \in Commands : ~IsRequest(c) /\ Pending' = Append(Pending, c)
    BY <1>0, <1>3, <2>1, <2>2, PendingPost DEF Pending
  <2>4. SameSessions
    BY <1>0, <1>2, <1>7, SetStateFacts DEF VisitConnected, Output, Found, States
  <2>5. QED
    BY <1>7, <2>3, <2>4 DEF VisitConnected, Quiet
<1>8. CASE VisitSendable(e)
  <2>1. connOf' = connOf /\ SameSessions
    BY <1>0, <1>2, <1>8, FlushFacts DEF VisitSendable, Output, Found
  <2>2. QED
    BY <1>8, <2>1 DEF VisitSendable, Output, Visit, Quiet, Pending
<1>9. QED
  BY <1>4, <1>5, <1>6, <1>7, <1>8

LEMMA OtherQuiet ==
  ASSUME Numbering,
         \/ UNCHANGED vars
         \/ \E k \in Task : TaskChecksState(k) \/ TaskSends(k) \/ TaskEnds(k)
         \/ EpollWait
         \/ ExecuteFlush \/ ExecuteDisconnect \/ ExecuteExpired
         \/ EndOfEvents \/ SweepSkips \/ EndOfSweep
  PROVE  Quiet
<1>0. TypeOK
  BY DEF Numbering
<1> USE DEF registry, kernel, requests
<1>1. CASE UNCHANGED vars
  BY <1>1, SameSessionsUnchanged DEF vars, Quiet, Pending
<1>2. ASSUME NEW k \in Task, TaskChecksState(k) \/ TaskSends(k) \/ TaskEnds(k)
      PROVE  Quiet
  <2> DEFINE s == task[k].session
  <2>1. ASSUME task[k].step # "idle"
        PROVE  /\ FlushCommand(s) \in Commands /\ ~IsRequest(FlushCommand(s))
               /\ DisconnectCommand(s) \in Commands /\ ~IsRequest(DisconnectCommand(s))
    <3>1. s \in SessionId
      BY <1>0, <2>1, SequenceIds DEF Numbering, TasksHold
    <3>2. QED
      BY <3>1 DEF FlushCommand, DisconnectCommand, Commands, IsRequest
  <2>2. \/ commandQueue' = commandQueue
        \/ /\ task[k].step # "idle"
           /\ \E c \in {FlushCommand(s), DisconnectCommand(s)} :
                commandQueue' = Append(commandQueue, c)
    BY <1>2 DEF TaskChecksState, TaskSends, TaskEnds
  <2>3. batch' = batch
    BY <1>2 DEF TaskChecksState, TaskSends, TaskEnds
  <2>4. \/ Pending' = Pending
        \/ \E c \in Commands : ~IsRequest(c) /\ Pending' = Append(Pending, c)
    BY <1>0, <2>1, <2>2, <2>3, PendingPost DEF Pending
  <2>5. QED
    BY <1>2, <2>4, SameSessionsUnchanged DEF TaskChecksState, TaskSends, TaskEnds, Quiet
<1>3. CASE EpollWait \/ EndOfEvents \/ SweepSkips \/ EndOfSweep
  BY <1>3, SameSessionsUnchanged
     DEF EpollWait, EndOfEvents, SweepSkips, EndOfSweep, Quiet, Pending
<1>4. ASSUME ExecuteFlush \/ ExecuteDisconnect \/ ExecuteExpired
      PROVE  /\ Head(batch).session \in SessionId
             /\ Pending # <<>> /\ ~IsRequest(Head(Pending)) /\ Pending' = Tail(Pending)
             /\ UNCHANGED <<accepts, connects, sequence, sessions>>
  <2>1. Command("flush") \/ Command("disconnect")
    BY <1>4 DEF ExecuteFlush, ExecuteDisconnect, ExecuteExpired
  <2>2. /\ commandQueue' = commandQueue
        /\ UNCHANGED <<accepts, connects, sequence, sessions>>
    BY <1>4 DEF ExecuteFlush, ExecuteDisconnect, ExecuteExpired
  <2>3. QED
    BY <1>0, <2>1, <2>2, OtherRun
<1>5. CASE ExecuteFlush
  <2>1. connOf' = connOf /\ SameSessions
    BY <1>0, <1>4, <1>5, AliveMade, FlushFacts DEF ExecuteFlush
  <2>2. QED
    BY <1>4, <1>5, <2>1 DEF Quiet
<1>6. CASE ExecuteDisconnect
  <2>1. connOf' = connOf /\ SameSessions
    BY <1>0, <1>4, <1>6, AliveMade, SetStateFacts DEF ExecuteDisconnect, States
  <2>2. QED
    BY <1>4, <1>6, <2>1 DEF Quiet
<1>7. CASE ExecuteExpired
  BY <1>4, <1>7, SameSessionsUnchanged DEF ExecuteExpired, Quiet
<1>8. QED
  BY <1>1, <1>2, <1>3, <1>5, <1>6, <1>7

LEMMA SteadyNumbers ==
  ASSUME Numbering, Steady
  PROVE  RequestsNumbered' /\ SessionsNumbered'
<1>1. Pending \in Seq(Commands) /\ session \in [1 .. sequence -> Session]
  BY PendingTyped DEF Numbering, TypeOK
<1>2. SessionsNumbered'
  BY <1>1 DEF Steady, SameSessions, Numbering, SessionsNumbered
<1>3. /\ InOrder(Pending) /\ UpTo(Pending, accepts + connects)
      /\ Above(Pending, sequence)
      /\ \A s \in 1 .. sequence : Above(Pending, session[s].conn)
  BY DEF Numbering, RequestsNumbered
<1>4. /\ InOrder(Pending') /\ UpTo(Pending', accepts + connects)
      /\ Above(Pending', sequence)
      /\ \A s \in 1 .. sequence : Above(Pending', session[s].conn)
  <2>1. CASE Pending' = Pending
    BY <1>3, <2>1
  <2>2. ASSUME NEW c \in Commands, ~IsRequest(c), Pending' = Append(Pending, c)
        PROVE  /\ InOrder(Pending') /\ UpTo(Pending', accepts + connects)
               /\ Above(Pending', sequence)
               /\ \A s \in 1 .. sequence : Above(Pending', session[s].conn)
    BY <1>1, <1>3, <2>2, AppendOther, AppendAbove
  <2>3. CASE Pending # <<>> /\ Pending' = Tail(Pending)
    BY <1>1, <1>3, <2>3, TailOrder
  <2>4. QED
    BY <2>1, <2>2, <2>3 DEF Steady
<1>5. QED
  BY <1>1, <1>2, <1>4 DEF Steady, SameSessions, RequestsNumbered

\* A step that runs a request and makes its session.
Makes(f, st, a) ==
  /\ Pending # <<>> /\ Pending' = Tail(Pending)
  /\ Head(Pending) \in Commands /\ IsRequest(Head(Pending))
  /\ Head(Pending).conn \in Conn
  /\ sequence < Head(Pending).conn /\ Head(Pending).conn <= accepts + connects
  /\ UNCHANGED <<accepts, connects>>
  /\ sequence' = sequence + 1 /\ sequence' \in SessionId
  /\ sequence' \notin 1 .. sequence
  /\ 1 .. sequence' = (1 .. sequence) \cup {sequence'}
  /\ session' \in [1 .. sequence' -> Session]
  /\ session'[sequence'] =
       [fd |-> f, conn |-> Head(Pending).conn, state |-> st, accepted |-> a]
  /\ \A s \in 1 .. sequence : session'[s] = session[s]

LEMMA MakesSession ==
  ASSUME Numbering, NEW kind \in {"accept", "connect"}, Command(kind),
         UNCHANGED <<commandQueue, accepts, connects>>, AllocateSessionId,
         NEW f \in Fd, NEW st \in States, NEW a \in BOOLEAN,
         NewSession(f, Head(batch).conn, st, a)
  PROVE  Makes(f, st, a) /\ Head(Pending) = Head(batch) /\ Head(Pending).kind = kind
<1>1. /\ Head(batch) \in Commands /\ IsRequest(Head(batch))
      /\ Head(batch).kind = kind /\ Head(batch).conn \in Conn
      /\ sequence < Head(batch).conn
      /\ Head(batch).conn <= accepts + connects
      /\ sequence + 1 <= MaxConn
      /\ Pending # <<>> /\ Head(Pending) = Head(batch) /\ Pending' = Tail(Pending)
  BY RequestRun
<1>2. TypeOK /\ sequence' = sequence + 1
  BY DEF Numbering, AllocateSessionId
<1>3. /\ sequence' \in SessionId /\ sequence' \notin 1 .. sequence
      /\ 1 .. sequence' = (1 .. sequence) \cup {sequence'}
      /\ session' \in [1 .. sequence' -> Session]
      /\ session'[sequence'] =
           [fd |-> f, conn |-> Head(batch).conn, state |-> st, accepted |-> a]
      /\ \A s \in 1 .. sequence : session'[s] = session[s]
  BY <1>1, <1>2, NewSessionFacts
<1>4. QED
  BY <1>1, <1>2, <1>3 DEF Makes

LEMMA AcceptMakes ==
  ASSUME Numbering, ExecuteAccept \/ ExecuteAcceptFails
  PROVE  /\ Makes(Head(batch).fd, "Connected", TRUE) /\ Head(batch).fd \in Fd
         /\ Head(Pending) = Head(batch) /\ Head(Pending).kind = "accept"
<1>1. /\ Command("accept") /\ UNCHANGED <<commandQueue, accepts, connects>>
      /\ AllocateSessionId
      /\ NewSession(Head(batch).fd, Head(batch).conn, "Connected", TRUE)
  BY DEF ExecuteAccept, ExecuteAcceptFails, requests, kernel
<1>2. Head(batch).fd \in Fd
  BY <1>1, RequestRun
<1>3. QED
  BY <1>1, <1>2, MakesSession DEF States

LEMMA ConnectMakes ==
  ASSUME Numbering,
         ExecuteConnectPending \/ ExecuteConnectAtOnce \/ ExecuteConnectFails
  PROVE  /\ \E f \in Fd, st \in {"ConnectPending", "Connected"} :
              /\ Free(f) /\ Makes(f, st, FALSE)
              /\ ExecuteConnectFails => connOf' = connOf
              /\ ~ExecuteConnectFails =>
                   /\ connOf' = [connOf EXCEPT ![f] = Head(Pending).conn]
                   /\ \E e \in Entry : e.id = sequence' /\ epoll' = [epoll EXCEPT ![f] = e]
         /\ Head(Pending) = Head(batch) /\ Head(Pending).kind = "connect"
<1>1. /\ Command("connect") /\ UNCHANGED <<commandQueue, accepts, connects>>
      /\ AllocateSessionId
  BY DEF ExecuteConnectPending, ExecuteConnectAtOnce, ExecuteConnectFails,
         requests, kernel
<1>2. ASSUME NEW f \in Fd, NEW st \in {"ConnectPending", "Connected"},
             NewSession(f, Head(batch).conn, st, FALSE)
      PROVE  /\ Makes(f, st, FALSE) /\ sequence' \in SessionId
             /\ Head(Pending) = Head(batch) /\ Head(Pending).kind = "connect"
  <2>1. /\ Makes(f, st, FALSE)
        /\ Head(Pending) = Head(batch) /\ Head(Pending).kind = "connect"
    BY <1>1, <1>2, MakesSession DEF States
  <2>2. QED
    BY <2>1 DEF Makes
<1>3. CASE ExecuteConnectFails
  <2>1. PICK f \in Fd, st \in {"ConnectPending", "Connected"} :
          Free(f) /\ NewSession(f, Head(batch).conn, st, FALSE)
    BY <1>3 DEF ExecuteConnectFails
  <2>2. connOf' = connOf
    BY <1>3 DEF ExecuteConnectFails, kernel
  <2>3. QED
    BY <1>2, <1>3, <2>1, <2>2
<1>4. ASSUME ~ExecuteConnectFails
      PROVE  \E f \in Fd, in \in BOOLEAN, out \in BOOLEAN,
                st \in {"ConnectPending", "Connected"} :
               /\ Free(f) /\ NewSession(f, Head(batch).conn, st, FALSE)
               /\ connOf' = [connOf EXCEPT ![f] = Head(batch).conn]
               /\ epoll' = [epoll EXCEPT ![f] = [id |-> sequence', in |-> in, out |-> out]]
  <2>1. CASE ExecuteConnectPending
    BY <2>1 DEF ExecuteConnectPending
  <2>2. CASE ExecuteConnectAtOnce
    BY <2>2 DEF ExecuteConnectAtOnce
  <2>3. QED
    BY <1>4, <2>1, <2>2
<1>5. CASE ~ExecuteConnectFails
  <2>1. PICK f \in Fd, in \in BOOLEAN, out \in BOOLEAN,
             st \in {"ConnectPending", "Connected"} :
          /\ Free(f) /\ NewSession(f, Head(batch).conn, st, FALSE)
          /\ connOf' = [connOf EXCEPT ![f] = Head(batch).conn]
          /\ epoll' = [epoll EXCEPT ![f] = [id |-> sequence', in |-> in, out |-> out]]
    BY <1>4, <1>5
  <2>2. /\ Makes(f, st, FALSE) /\ sequence' \in SessionId
        /\ Head(Pending) = Head(batch) /\ Head(Pending).kind = "connect"
    BY <1>2, <2>1
  <2> DEFINE e == [id |-> sequence', in |-> in, out |-> out]
  <2>3. e \in Entry /\ e.id = sequence'
    BY <2>2 DEF Entry
  <2> HIDE DEF e
  <2>4. epoll' = [epoll EXCEPT ![f] = e]
    BY <2>1 DEF e
  <2>5. QED
    BY <1>5, <2>1, <2>2, <2>3, <2>4
<1>6. QED
  BY <1>3, <1>5

LEMMA MakesNumbers ==
  ASSUME Numbering, NEW f, NEW st, NEW a, Makes(f, st, a)
  PROVE  RequestsNumbered' /\ SessionsNumbered'
<1> DEFINE c == Head(Pending).conn
<1>a. /\ Pending \in Seq(Commands) /\ session \in [1 .. sequence -> Session]
      /\ sequence \in Nat
  BY PendingTyped DEF Numbering, TypeOK
<1>b. accepts + connects \in Nat
  BY DEF Numbering, TypeOK
<1>c. \A s \in 1 .. sequence : session[s].conn \in Nat
  BY <1>a DEF Session, Conn
<1>1. /\ Pending \in Seq(Commands) /\ session \in [1 .. sequence -> Session]
      /\ sequence \in Nat /\ accepts + connects \in Nat
      /\ \A s \in 1 .. sequence : session[s].conn \in Nat
  BY <1>a, <1>b, <1>c
<1>2. 1 \in DOMAIN Pending /\ Head(Pending) = Pending[1] /\ c \in Nat
  BY <1>1, EmptySeq, LenProperties DEF Makes, Conn
<1>3. /\ InOrder(Pending) /\ UpTo(Pending, accepts + connects)
      /\ \A s \in 1 .. sequence : Above(Pending, session[s].conn)
  BY DEF Numbering, RequestsNumbered
<1>4. /\ InOrder(Pending') /\ UpTo(Pending', accepts + connects) /\ Above(Pending', c)
      /\ \A s \in 1 .. sequence : Above(Pending', session[s].conn)
  BY <1>1, <1>3, TailOrder DEF Makes
<1>5. \A i \in DOMAIN Pending' : IsRequest(Pending'[i]) => Pending'[i].conn \in Nat
  <2>1. Pending' \in Seq(Commands)
    BY <1>1, HeadTailProperties DEF Makes
  <2>2. \A i \in DOMAIN Pending' : Pending'[i] \in Commands
    BY <2>1, LenProperties
  <2>3. \A d \in Commands : IsRequest(d) => d.conn \in Nat
    BY DEF Commands, IsRequest, Conn
  <2>4. QED
    BY <2>2, <2>3
<1>6. /\ sequence' = sequence + 1 /\ sequence < c /\ c <= accepts + connects
      /\ 1 .. sequence' = (1 .. sequence) \cup {sequence'}
      /\ session'[sequence'].conn = c
      /\ \A s \in 1 .. sequence : session'[s] = session[s]
      /\ accepts' = accepts /\ connects' = connects
  BY DEF Makes
<1>7. \A s \in 1 .. sequence : session[s].conn < c
  BY <1>2, <1>3 DEF Makes, Above
<1> HIDE DEF c
<1>8. Above(Pending', sequence')
  BY <1>1, <1>2, <1>4, <1>5, <1>6 DEF Above
<1>9. RequestsNumbered'
  BY <1>4, <1>6, <1>8 DEF RequestsNumbered
<1>10. SessionsNumbered'
  <2>1. /\ \A s \in 1 .. sequence : session[s].conn <= accepts + connects
        /\ \A r, s \in 1 .. sequence : r < s => session[r].conn < session[s].conn
    BY DEF Numbering, SessionsNumbered
  <2>2. \A r \in 1 .. sequence : r < sequence' /\ ~(sequence' < r)
    BY <1>1, <1>6
  <2>3. ASSUME NEW r \in 1 .. sequence', NEW s \in 1 .. sequence', r < s
        PROVE  session'[r].conn < session'[s].conn
    <3>1. r \in 1 .. sequence
      BY <1>1, <1>6, <2>3
    <3>2. CASE s = sequence'
      BY <1>6, <1>7, <3>1, <3>2
    <3>3. CASE s \in 1 .. sequence
      BY <1>6, <2>1, <2>3, <3>1, <3>3
    <3>4. QED
      BY <1>6, <3>2, <3>3
  <2>4. QED
    BY <1>1, <1>2, <1>6, <2>1, <2>3 DEF SessionsNumbered
<1>11. QED
  BY <1>9, <1>10

LEMMA PostsRequest ==
  ASSUME Numbering, (\E f \in Fd : Accept(f)) \/ ConnectAsync
  PROVE  RequestsNumbered' /\ SessionsNumbered'
<1>0. TypeOK
  BY DEF Numbering
<1>1. \E c \in Commands :
        /\ IsRequest(c) /\ c.conn = accepts + connects + 1
        /\ commandQueue' = Append(commandQueue, c)
        /\ accepts' + connects' = accepts + connects + 1
        /\ batch' = batch /\ sequence' = sequence /\ session' = session
  <2>1. ASSUME NEW f \in Fd, Accept(f) PROVE AcceptCommand(f, accepts' + connects) \in Commands
    <3>1. accepts' + connects \in Conn
      BY <1>0, <2>1, BoundsAssumption DEF Accept, TypeOK, Conn, MaxConn
    <3>2. QED
      BY <3>1 DEF AcceptCommand, Commands
  <2>2. ASSUME NEW f \in Fd, Accept(f)
        PROVE  /\ AcceptCommand(f, accepts' + connects).conn = accepts + connects + 1
               /\ accepts' + connects' = accepts + connects + 1
    BY <1>0, <2>2 DEF AcceptCommand, Accept, TypeOK
  <2>3. ASSUME ConnectAsync PROVE ConnectCommand(accepts + connects') \in Commands
    <3>1. accepts + connects' \in Conn
      BY <1>0, <2>3, BoundsAssumption DEF ConnectAsync, TypeOK, Conn, MaxConn
    <3>2. QED
      BY <3>1 DEF ConnectCommand, Commands
  <2>4. ASSUME ConnectAsync
        PROVE  /\ ConnectCommand(accepts + connects').conn = accepts + connects + 1
               /\ accepts' + connects' = accepts + connects + 1
    BY <1>0, <2>4 DEF ConnectCommand, ConnectAsync, TypeOK
  <2>5. /\ \A f \in Fd, n \in Conn : IsRequest(AcceptCommand(f, n))
        /\ \A n \in Conn : IsRequest(ConnectCommand(n))
    BY DEF IsRequest, AcceptCommand, ConnectCommand
  <2>6. CASE \E f \in Fd : Accept(f)
    <3>1. PICK f \in Fd : Accept(f)
      BY <2>6
    <3>2. IsRequest(AcceptCommand(f, accepts' + connects))
      BY DEF IsRequest, AcceptCommand
    <3>3. QED
      BY <2>1, <2>2, <3>1, <3>2 DEF Accept, registry
  <2>7. CASE ConnectAsync
    <3>1. IsRequest(ConnectCommand(accepts + connects'))
      BY DEF IsRequest, ConnectCommand
    <3>2. QED
      BY <2>3, <2>4, <2>7, <3>1 DEF ConnectAsync, registry
  <2>8. QED
    BY <2>6, <2>7
<1>2. PICK c \in Commands :
        /\ IsRequest(c) /\ c.conn = accepts + connects + 1
        /\ commandQueue' = Append(commandQueue, c)
        /\ accepts' + connects' = accepts + connects + 1
        /\ batch' = batch /\ sequence' = sequence /\ session' = session
  BY <1>1
<1>3. /\ Pending' = Append(Pending, c) /\ Pending \in Seq(Commands)
      /\ accepts + connects \in Nat /\ sequence \in Nat
  <2>1. Pending' = Append(Pending, c) /\ Pending \in Seq(Commands)
    BY <1>0, <1>2, PendingPost, PendingTyped
  <2>2. accepts + connects \in Nat /\ sequence \in Nat
    BY <1>0 DEF TypeOK
  <2>3. QED
    BY <2>1, <2>2
<1>4. /\ InOrder(Pending) /\ UpTo(Pending, accepts + connects)
      /\ Above(Pending, sequence)
      /\ \A s \in 1 .. sequence : Above(Pending, session[s].conn)
  BY DEF Numbering, RequestsNumbered
<1>5. /\ sequence < c.conn
      /\ \A s \in 1 .. sequence : session[s].conn \in Nat /\ session[s].conn < c.conn
  <2>1. \A s \in 1 .. sequence : session[s].conn \in Nat
    BY <1>0 DEF TypeOK, Session, Conn
  <2>2. QED
    BY <1>2, <1>3, <2>1 DEF Numbering, SessionsNumbered
<1>6. InOrder(Pending') /\ UpTo(Pending', accepts' + connects')
  BY <1>2, <1>3, <1>4, AppendRequest
<1>7. /\ Above(Pending', sequence)
      /\ \A s \in 1 .. sequence : Above(Pending', session[s].conn)
  BY <1>3, <1>4, <1>5, AppendAbove
<1>8. QED
  <2>1. RequestsNumbered'
    BY <1>2, <1>6, <1>7 DEF RequestsNumbered
  <2>2. SessionsNumbered'
    BY <1>2, <1>3, <1>5 DEF Numbering, SessionsNumbered
  <2>3. QED
    BY <2>1, <2>2

LEMMA NoSocketRuns ==
  ASSUME Numbering, ExecuteConnectNoSocket
  PROVE  /\ Pending # <<>> /\ Pending' = Tail(Pending)
         /\ Head(Pending) = Head(batch) /\ Head(Pending).kind = "connect"
         /\ UNCHANGED <<accepts, connects, sequence, sessions, session, connOf>>
BY RequestRun DEF ExecuteConnectNoSocket, requests, registry, kernel

LEMMA SweepSteady ==
  ASSUME Numbering, SweepCloses
  PROVE  /\ Steady /\ Pending' = Pending
         /\ Head(pendingClose) \in sessions /\ Head(pendingClose) \in 1 .. sequence
         /\ session'[Head(pendingClose)].state = "Disconnected"
         /\ \A r \in 1 .. sequence : r # Head(pendingClose) => session'[r] = session[r]
<1> DEFINE s == Head(pendingClose)
<1>1. s \in sessions /\ SetState(s, "Disconnected")
  BY DEF SweepCloses
<1> HIDE DEF s
<1>2. s \in 1 .. sequence
  BY <1>1 DEF Numbering, TypeOK
<1>3. /\ SameSessions /\ session'[s].state = "Disconnected"
      /\ \A r \in 1 .. sequence : r # s => session'[r] = session[r]
  BY <1>1, <1>2, SetStateFacts DEF Numbering, States
<1>4. Pending' = Pending /\ UNCHANGED <<accepts, connects, sequence>>
  BY DEF SweepCloses, Pending, requests
<1>5. QED
  BY <1>1, <1>2, <1>3, <1>4 DEF Steady, s

LEMMA QuietSteady == Quiet => Steady
BY DEF Quiet, Steady

\* The kinds of steps, for what follows.
LEMMA StepKinds ==
  ASSUME Numbering, [Next]_vars
  PROVE  \/ Quiet
         \/ \E f \in Fd : Accept(f)
         \/ ConnectAsync
         \/ ExecuteAccept \/ ExecuteAcceptFails
         \/ ExecuteConnectPending \/ ExecuteConnectAtOnce
         \/ ExecuteConnectNoSocket \/ ExecuteConnectFails
         \/ SweepCloses
BY VisitQuiet, OtherQuiet DEF Next, Dispatch, ExecuteCommand

LEMMA NextNumbers ==
  ASSUME Numbering, [Next]_vars
  PROVE  RequestsNumbered' /\ SessionsNumbered'
<1>1. CASE Quiet
  BY <1>1, QuietSteady, SteadyNumbers
<1>2. CASE (\E f \in Fd : Accept(f)) \/ ConnectAsync
  BY <1>2, PostsRequest
<1>3. CASE ExecuteAccept \/ ExecuteAcceptFails
  BY <1>3, AcceptMakes, MakesNumbers
<1>4. CASE ExecuteConnectPending \/ ExecuteConnectAtOnce \/ ExecuteConnectFails
  BY <1>4, ConnectMakes, MakesNumbers
<1>5. CASE ExecuteConnectNoSocket
  BY <1>5, NoSocketRuns, SameSessionsUnchanged, SteadyNumbers DEF Steady
<1>6. CASE SweepCloses
  BY <1>6, SweepSteady, SteadyNumbers
<1>7. QED
  BY <1>1, <1>2, <1>3, <1>4, <1>5, <1>6, StepKinds

\* Ids are never taken back.
LEMMA SequenceGrows ==
  ASSUME Numbering, [Next]_vars
  PROVE  1 .. sequence \subseteq 1 .. sequence'
<1>1. CASE Quiet \/ (\E f \in Fd : Accept(f)) \/ ConnectAsync
  BY <1>1 DEF Quiet, Accept, ConnectAsync, registry
<1>2. CASE ExecuteAccept \/ ExecuteAcceptFails
  BY <1>2, AcceptMakes DEF Makes
<1>3. CASE ExecuteConnectPending \/ ExecuteConnectAtOnce \/ ExecuteConnectFails
  <2>1. PICK f \in Fd, st \in {"ConnectPending", "Connected"} : Makes(f, st, FALSE)
    BY <1>3, ConnectMakes
  <2>2. QED
    BY <2>1 DEF Makes
<1>4. CASE ExecuteConnectNoSocket \/ SweepCloses
  BY <1>4 DEF ExecuteConnectNoSocket, SweepCloses, registry
<1>5. QED
  BY <1>1, <1>2, <1>3, <1>4, StepKinds

\* A task changes hands only for a registered session.
TaskSteps ==
  \/ task' = task
  \/ \E k \in Task : /\ task[k].step # "idle"
                     /\ \E st \in {"send", "done"} :
                          task' = [task EXCEPT ![k].step = st]
  \/ \E k \in Task : task' = [task EXCEPT ![k] = [step |-> "idle", session |-> NoSession]]
  \/ \E k \in Task, s \in sessions :
       /\ task' = [task EXCEPT ![k] = [step |-> "job", session |-> s]]
       /\ sessions' = sessions

LEMMA NextTasks == [Next]_vars => TaskSteps
<1> SUFFICES ASSUME [Next]_vars PROVE TaskSteps
  OBVIOUS
<1>1. CASE \E k \in Task : TaskChecksState(k) \/ TaskSends(k) \/ TaskEnds(k)
  BY <1>1 DEF TaskChecksState, TaskSends, TaskEnds, TaskSteps
<1>2. CASE \E e \in events.sessions : VisitInput(e)
  BY <1>2 DEF VisitInput, HandlerPosts, StartsJob, Found, registry, TaskSteps
<1>3. CASE \E e \in events.sessions :
              \/ VisitAlias(e) \/ VisitUnknown(e) \/ VisitClosing(e)
              \/ VisitConnected(e) \/ VisitConnectFailed(e)
              \/ VisitSendable(e) \/ VisitSendableClosing(e)
  BY <1>3 DEF VisitAlias, VisitUnknown, VisitClosing, VisitConnected,
     VisitConnectFailed, VisitSendable, VisitSendableClosing, TaskSteps
<1>4. CASE (\E f \in Fd : Accept(f)) \/ ConnectAsync \/ EpollWait \/ VisitWakeup
  BY <1>4 DEF Accept, ConnectAsync, EpollWait, VisitWakeup, TaskSteps
<1>5. CASE ExecuteCommand
  BY <1>5 DEF ExecuteCommand, ExecuteAccept, ExecuteAcceptFails,
     ExecuteConnectPending, ExecuteConnectAtOnce, ExecuteConnectNoSocket,
     ExecuteConnectFails, ExecuteFlush, ExecuteDisconnect, ExecuteExpired, TaskSteps
<1>6. CASE EndOfEvents \/ SweepCloses \/ SweepSkips \/ EndOfSweep
  BY <1>6 DEF EndOfEvents, SweepCloses, SweepSkips, EndOfSweep, TaskSteps
<1>7. CASE UNCHANGED vars
  BY <1>7 DEF vars, TaskSteps
<1>8. QED
  BY <1>1, <1>2, <1>3, <1>4, <1>5, <1>6, <1>7 DEF Next, Dispatch, VisitEvent

LEMMA NextTasksHold ==
  ASSUME Numbering, [Next]_vars
  PROVE  TasksHold'
<1>1. 1 .. sequence \subseteq 1 .. sequence'
  BY SequenceGrows
<1>2. /\ task \in [Task -> [step : {"idle", "job", "send", "done"},
                            session : SessionId \cup {NoSession}]]
      /\ \A k \in Task : IF task[k].step = "idle" THEN task[k].session = NoSession
                         ELSE task[k].session \in 1 .. sequence
      /\ sessions \subseteq 1 .. sequence
  BY DEF Numbering, TasksHold, TypeOK
<1>3. SUFFICES ASSUME NEW j \in Task
               PROVE  IF task'[j].step = "idle" THEN task'[j].session = NoSession
                      ELSE task'[j].session \in 1 .. sequence'
  BY DEF TasksHold
<1>4. CASE task' = task
  BY <1>1, <1>2, <1>4
<1>5. ASSUME NEW k \in Task, task[k].step # "idle", NEW st \in {"send", "done"},
             task' = [task EXCEPT ![k].step = st]
      PROVE  IF task'[j].step = "idle" THEN task'[j].session = NoSession
             ELSE task'[j].session \in 1 .. sequence'
  BY <1>1, <1>2, <1>5
<1>6. ASSUME NEW k \in Task,
             task' = [task EXCEPT ![k] = [step |-> "idle", session |-> NoSession]]
      PROVE  IF task'[j].step = "idle" THEN task'[j].session = NoSession
             ELSE task'[j].session \in 1 .. sequence'
  BY <1>1, <1>2, <1>6
<1>7. ASSUME NEW k \in Task, NEW s \in sessions,
             task' = [task EXCEPT ![k] = [step |-> "job", session |-> s]]
      PROVE  IF task'[j].step = "idle" THEN task'[j].session = NoSession
             ELSE task'[j].session \in 1 .. sequence'
  BY <1>1, <1>2, <1>7
<1>8. QED
  BY <1>4, <1>5, <1>6, <1>7, NextTasks DEF TaskSteps

LEMMA InitNumbering == Init => Numbering
<1> SUFFICES ASSUME Init PROVE Numbering
  OBVIOUS
<1>1. Pending = <<>>
  BY ConcatEmptySeq DEF Init, Pending
<1>2. RequestsNumbered
  BY <1>1 DEF RequestsNumbered, InOrder, UpTo, Above
<1>3. SessionsNumbered /\ TasksHold
  BY DEF Init, SessionsNumbered, TasksHold
<1>4. QED
  BY <1>2, <1>3, InitTypes DEF Numbering

\* Every session gets an id and a connection of its own, and neither runs out
\* before the requests do.
THEOREM NumberingInvariant == SafeSpec => []Numbering
<1>1. Numbering /\ [Next]_vars => Numbering'
  BY NextTypes, NextNumbers, NextTasksHold DEF Numbering
<1>2. QED
  BY InitNumbering, <1>1, PTL DEF SafeSpec

\* Every variable of the sessions' life keeps its type.
THEOREM TypeInvariant == SafeSpec => []TypeOK
<1>1. Numbering => TypeOK
  BY DEF Numbering
<1>2. QED
  BY NumberingInvariant, <1>1, PTL

----------------------------------------------------------------------------
(***************************************************************************)
(* Descriptors: each open one stands for the connection of its owner.      *)
(***************************************************************************)

LEMMA ConcatSet ==
  ASSUME NEW p \in Seq(Commands), NEW q \in Seq(Commands)
  PROVE  ToSet(p \o q) = ToSet(p) \cup ToSet(q)
<1>1. /\ DOMAIN (p \o q) = 1 .. Len(p) + Len(q)
      /\ DOMAIN p = 1 .. Len(p) /\ DOMAIN q = 1 .. Len(q)
      /\ Len(p) \in Nat /\ Len(q) \in Nat
      /\ \A i \in 1 .. Len(p) + Len(q) :
           (p \o q)[i] = IF i <= Len(p) THEN p[i] ELSE q[i - Len(p)]
  BY ConcatProperties, LenProperties
<1>2. ToSet(p \o q) \subseteq ToSet(p) \cup ToSet(q)
  <2>1. SUFFICES ASSUME NEW i \in 1 .. Len(p) + Len(q)
                 PROVE  (p \o q)[i] \in ToSet(p) \cup ToSet(q)
    BY <1>1 DEF ToSet
  <2>2. CASE i <= Len(p)
    BY <1>1, <2>2 DEF ToSet
  <2>3. CASE i > Len(p)
    <3>1. (p \o q)[i] = q[i - Len(p)] /\ i - Len(p) \in DOMAIN q
      BY <1>1, <2>3
    <3>2. QED
      BY <3>1 DEF ToSet
  <2>4. QED
    BY <1>1, <2>2, <2>3
<1>3. ToSet(p) \subseteq ToSet(p \o q)
  BY <1>1 DEF ToSet
<1>4. ToSet(q) \subseteq ToSet(p \o q)
  <2>1. SUFFICES ASSUME NEW i \in 1 .. Len(q) PROVE q[i] \in ToSet(p \o q)
    BY <1>1 DEF ToSet
  <2>2. i + Len(p) \in DOMAIN (p \o q) /\ (p \o q)[i + Len(p)] = q[i]
    BY <1>1
  <2>3. QED
    BY <2>2 DEF ToSet
<1>5. QED
  BY <1>2, <1>3, <1>4

LEMMA AppendSet ==
  ASSUME NEW q \in Seq(Commands), NEW c \in Commands
  PROVE  ToSet(Append(q, c)) = ToSet(q) \cup {c}
<1>1. /\ DOMAIN Append(q, c) = 1 .. (Len(q) + 1) /\ DOMAIN q = 1 .. Len(q)
      /\ Append(q, c)[Len(q) + 1] = c
      /\ \A i \in 1 .. Len(q) : Append(q, c)[i] = q[i]
      /\ Len(q) \in Nat
  BY AppendProperties, LenProperties
<1>2. QED
  BY <1>1 DEF ToSet

LEMMA TailSet ==
  ASSUME NEW q \in Seq(Commands), q # <<>>
  PROVE  ToSet(q) = {Head(q)} \cup ToSet(Tail(q))
<1>1. /\ DOMAIN Tail(q) = 1 .. Len(q) - 1 /\ DOMAIN q = 1 .. Len(q)
      /\ Len(q) \in Nat \ {0}
      /\ \A i \in 1 .. Len(q) - 1 : Tail(q)[i] = q[i + 1]
      /\ Head(q) = q[1]
  BY HeadTailProperties, LenProperties, EmptySeq
<1>2. ToSet(q) \subseteq {Head(q)} \cup ToSet(Tail(q))
  <2>1. SUFFICES ASSUME NEW i \in 1 .. Len(q), i # 1 PROVE q[i] \in ToSet(Tail(q))
    BY <1>1 DEF ToSet
  <2>2. i - 1 \in DOMAIN Tail(q) /\ Tail(q)[i - 1] = q[i]
    BY <1>1, <2>1
  <2>3. QED
    BY <2>2 DEF ToSet
<1>3. {Head(q)} \cup ToSet(Tail(q)) \subseteq ToSet(q)
  BY <1>1 DEF ToSet
<1>4. QED
  BY <1>2, <1>3

LEMMA AboveSet ==
  ASSUME NEW q \in Seq(Commands), NEW n, Above(q, n),
         NEW c \in ToSet(q), IsRequest(c)
  PROVE  n < c.conn
BY DEF Above, ToSet

LEMMA SetTyped ==
  ASSUME NEW q \in Seq(Commands) PROVE ToSet(q) \subseteq Commands
BY LenProperties DEF ToSet

LEMMA AcceptTyped ==
  ASSUME NEW c \in Commands, c.kind = "accept"
  PROVE  IsRequest(c) /\ c.fd \in Fd /\ c.conn \in Conn
BY DEF Commands, IsRequest

\* The accept commands pending, before and after a quiet step.
LEMMA QuietAccepts ==
  ASSUME Numbering, Quiet, NEW c, c.kind = "accept"
  PROVE  c \in ToSet(Pending') <=> c \in ToSet(Pending)
<1>1. Pending \in Seq(Commands)
  BY PendingTyped DEF Numbering
<1>2. IsRequest(c)
  BY DEF IsRequest
<1>3. CASE Pending' = Pending
  BY <1>3
<1>4. ASSUME NEW d \in Commands, ~IsRequest(d), Pending' = Append(Pending, d)
      PROVE  c \in ToSet(Pending') <=> c \in ToSet(Pending)
  BY <1>1, <1>2, <1>4, AppendSet
<1>5. CASE Pending # <<>> /\ ~IsRequest(Head(Pending)) /\ Pending' = Tail(Pending)
  BY <1>1, <1>2, <1>5, TailSet
<1>6. QED
  BY <1>3, <1>4, <1>5 DEF Quiet

LEMMA QuietOwnership ==
  ASSUME Numbering, Ownership, Quiet
  PROVE  Ownership'
<1>1. AcceptedOpen'
  BY QuietAccepts DEF Ownership, AcceptedOpen, Quiet
<1>2. \A s \in sessions : s \in DOMAIN session
  BY DEF Numbering, TypeOK
<1>3. OwnsConnection'
  BY <1>2 DEF Ownership, OwnsConnection, Quiet, SameSessions
<1>4. DescriptorsOwned'
  <2>1. SUFFICES ASSUME NEW f \in Fd, connOf[f] # NoConn
                 PROVE  \/ \E s \in sessions : session'[s].fd = f
                        \/ AcceptCommand(f, connOf[f]) \in ToSet(Pending')
    BY DEF DescriptorsOwned, Free, Quiet
  <2>2. AcceptCommand(f, connOf[f]).kind = "accept"
    BY DEF AcceptCommand
  <2>3. QED
    BY <1>2, <2>1, <2>2, QuietAccepts
       DEF Ownership, DescriptorsOwned, Free, Quiet, SameSessions
<1>5. QED
  BY <1>1, <1>3, <1>4 DEF Ownership

LEMMA AcceptOwnership ==
  ASSUME Numbering, Ownership, NEW f \in Fd, Accept(f)
  PROVE  Ownership'
<1> DEFINE n == accepts' + connects
           new == AcceptCommand(f, n)
<1>1. n \in Conn
  BY BoundsAssumption DEF Numbering, TypeOK, Accept, Conn, MaxConn
<1>2. new \in Commands
  BY <1>1 DEF AcceptCommand, Commands
<1>3. /\ new.fd = f /\ new.conn = n
      /\ \A g \in Fd : AcceptCommand(g, n).fd = g
  BY DEF AcceptCommand
<1>4. /\ connOf[f] = NoConn /\ connOf' = [connOf EXCEPT ![f] = n]
      /\ commandQueue' = Append(commandQueue, new) /\ batch' = batch
      /\ sessions' = sessions /\ session' = session
  BY DEF Accept, Free, registry
<1>5. /\ connOf \in [Fd -> Conn \cup {NoConn}] /\ Pending \in Seq(Commands)
      /\ session \in [1 .. sequence -> Session] /\ sessions \subseteq 1 .. sequence
  BY PendingTyped DEF Numbering, TypeOK
<1> HIDE DEF n, new
<1>6. ToSet(Pending') = ToSet(Pending) \cup {new}
  BY <1>2, <1>4, <1>5, PendingPost, AppendSet DEF Numbering
<1>7. \A s \in sessions : /\ session[s].fd \in Fd /\ session[s].conn \in Conn
                          /\ connOf[session[s].fd] = session[s].conn
  BY <1>5 DEF Session, Ownership, OwnsConnection
<1>8. \A c \in ToSet(Pending) :
        c.kind = "accept" => /\ c.fd \in Fd /\ c.conn \in Conn
                             /\ connOf[c.fd] = c.conn
  BY <1>5, SetTyped, AcceptTyped DEF Ownership, AcceptedOpen
<1>9. AcceptedOpen'
  BY <1>3, <1>4, <1>5, <1>6, <1>8, NoConnAssumption DEF AcceptedOpen
<1>10. OwnsConnection'
  BY <1>4, <1>5, <1>7, NoConnAssumption DEF OwnsConnection
<1>11. DescriptorsOwned'
  <2>1. SUFFICES ASSUME NEW g \in Fd, connOf'[g] # NoConn
                 PROVE  \/ \E s \in sessions : session[s].fd = g
                        \/ AcceptCommand(g, connOf'[g]) \in ToSet(Pending')
    BY <1>4 DEF DescriptorsOwned, Free
  <2>2. CASE g = f
    BY <1>4, <1>5, <1>6, <2>2 DEF new
  <2>3. CASE g # f
    BY <1>4, <1>5, <1>6, <2>1, <2>3 DEF Ownership, DescriptorsOwned, Free
  <2>4. QED
    BY <2>2, <2>3
<1>12. QED
  BY <1>9, <1>10, <1>11 DEF Ownership

\* What is known of the descriptors when a request is about to run.
LEMMA MakesOwned ==
  ASSUME Numbering, Ownership, Pending # <<>>, IsRequest(Head(Pending)),
         Pending' = Tail(Pending)
  PROVE  /\ ToSet(Pending) = {Head(Pending)} \cup ToSet(Pending')
         /\ Head(Pending).kind = "accept" =>
              /\ Head(Pending).fd \in Fd /\ Head(Pending).conn \in Conn
              /\ connOf[Head(Pending).fd] = Head(Pending).conn
         /\ \A c \in ToSet(Pending') : c.kind = "accept" =>
              /\ c.fd \in Fd /\ c.conn \in Conn /\ connOf[c.fd] = c.conn
              /\ c.conn # Head(Pending).conn
         /\ \A s \in sessions : /\ session[s].fd \in Fd /\ session[s].conn \in Conn
                                /\ connOf[session[s].fd] = session[s].conn
                                /\ session[s].conn # Head(Pending).conn
<1> DEFINE h == Head(Pending)
<1>1. /\ Pending \in Seq(Commands) /\ InOrder(Pending)
      /\ \A s \in 1 .. sequence : Above(Pending, session[s].conn)
      /\ session \in [1 .. sequence -> Session] /\ sessions \subseteq 1 .. sequence
  BY PendingTyped DEF Numbering, RequestsNumbered, TypeOK
<1>2. Tail(Pending) \in Seq(Commands)
  BY <1>1, HeadTailProperties
<1>3. ToSet(Pending) = {h} \cup ToSet(Pending')
  BY <1>1, TailSet
<1>4. ToSet(Pending) \subseteq Commands
  BY <1>1, SetTyped
<1>5. \A c \in ToSet(Pending) : c.kind = "accept" =>
        c.fd \in Fd /\ c.conn \in Conn /\ connOf[c.fd] = c.conn
  BY <1>4, AcceptTyped DEF Ownership, AcceptedOpen
<1>6. h.conn \in Conn
  BY <1>3, <1>4 DEF Commands, IsRequest
<1>7. ASSUME NEW c \in ToSet(Pending'), c.kind = "accept" PROVE c.conn # h.conn
  <2>1. Above(Pending', h.conn)
    BY <1>1, TailOrder
  <2>2. h.conn < c.conn
    BY <1>2, <1>7, <2>1, AboveSet DEF IsRequest
  <2>3. QED
    BY <1>6, <2>2 DEF Conn
<1>8. ASSUME NEW s \in sessions
      PROVE  /\ session[s].fd \in Fd /\ session[s].conn \in Conn
             /\ connOf[session[s].fd] = session[s].conn /\ session[s].conn # h.conn
  <2>1. session[s].conn < h.conn
    BY <1>1, <1>3, AboveSet
  <2>2. session[s].fd \in Fd /\ session[s].conn \in Conn
    BY <1>1 DEF Session
  <2>3. session[s].conn # h.conn
    BY <2>1, <2>2, <1>6 DEF Conn
  <2>4. QED
    BY <2>2, <2>3 DEF Ownership, OwnsConnection
<1>9. QED
  BY <1>3, <1>5, <1>7, <1>8

LEMMA ConnectAsyncOwnership ==
  ASSUME Numbering, Ownership, ConnectAsync
  PROVE  Ownership'
<1> DEFINE new == ConnectCommand(accepts + connects')
<1>1. accepts + connects' \in Conn
  BY BoundsAssumption DEF Numbering, TypeOK, ConnectAsync, Conn, MaxConn
<1>2. new \in Commands /\ new.kind = "connect"
  BY <1>1 DEF ConnectCommand, Commands
<1>3. /\ commandQueue' = Append(commandQueue, new) /\ batch' = batch
      /\ UNCHANGED <<connOf, sessions, session>>
  BY DEF ConnectAsync, registry, kernel
<1> HIDE DEF new
<1>4. ToSet(Pending') = ToSet(Pending) \cup {new}
  BY <1>2, <1>3, PendingPost, PendingTyped, AppendSet DEF Numbering
<1>5. QED
  BY <1>2, <1>3, <1>4
     DEF Ownership, AcceptedOpen, OwnsConnection, DescriptorsOwned, Free

LEMMA ExecuteAcceptOwnership ==
  ASSUME Numbering, Ownership, ExecuteAccept
  PROVE  Ownership'
<1> DEFINE h == Head(Pending)
<1>1. /\ Makes(h.fd, "Connected", TRUE) /\ h.fd \in Fd /\ h.kind = "accept"
      /\ connOf' = connOf /\ sessions' = sessions \cup {sequence'}
  BY AcceptMakes DEF ExecuteAccept
<1>2. /\ session'[sequence'].fd = h.fd /\ session'[sequence'].conn = h.conn
      /\ \A s \in sessions : session'[s] = session[s]
  BY <1>1 DEF Makes, Numbering, TypeOK
<1>3. /\ ToSet(Pending) = {h} \cup ToSet(Pending')
      /\ connOf[h.fd] = h.conn
  BY <1>1, MakesOwned DEF Makes
<1>4. AcceptedOpen'
  BY <1>1, <1>3 DEF Ownership, AcceptedOpen
<1>5. OwnsConnection'
  BY <1>1, <1>2, <1>3 DEF Ownership, OwnsConnection
<1>6. DescriptorsOwned'
  <2>1. SUFFICES ASSUME NEW f \in Fd, connOf[f] # NoConn
                 PROVE  \/ \E s \in sessions' : session'[s].fd = f
                        \/ AcceptCommand(f, connOf[f]) \in ToSet(Pending')
    BY <1>1 DEF DescriptorsOwned, Free
  <2>2. CASE \E s \in sessions : session[s].fd = f
    BY <1>1, <1>2, <2>2
  <2>3. CASE AcceptCommand(f, connOf[f]) = h
    <3>1. h.fd = f
      BY <2>3 DEF AcceptCommand
    <3>2. QED
      BY <1>1, <1>2, <3>1
  <2>4. QED
    BY <1>3, <2>1, <2>2, <2>3 DEF Ownership, DescriptorsOwned, Free
<1>7. QED
  BY <1>4, <1>5, <1>6 DEF Ownership

LEMMA AcceptFailsOwnership ==
  ASSUME Numbering, Ownership, ExecuteAcceptFails
  PROVE  Ownership'
<1> DEFINE h == Head(Pending)
<1>1. /\ Makes(h.fd, "Connected", TRUE) /\ h.fd \in Fd /\ h.kind = "accept"
      /\ connOf' = [connOf EXCEPT ![h.fd] = NoConn] /\ sessions' = sessions
  BY AcceptMakes DEF ExecuteAcceptFails
<1>2. \A s \in sessions : session'[s] = session[s]
  BY <1>1 DEF Makes, Numbering, TypeOK
<1>3. /\ ToSet(Pending) = {h} \cup ToSet(Pending')
      /\ connOf[h.fd] = h.conn
      /\ \A c \in ToSet(Pending') : c.kind = "accept" =>
           c.fd \in Fd /\ connOf[c.fd] = c.conn /\ c.conn # h.conn
      /\ \A s \in sessions : /\ session[s].fd \in Fd
                             /\ connOf[session[s].fd] = session[s].conn
                             /\ session[s].conn # h.conn
  BY <1>1, MakesOwned DEF Makes
<1>4. connOf \in [Fd -> Conn \cup {NoConn}]
  BY DEF Numbering, TypeOK
<1> HIDE DEF h
<1>5. AcceptedOpen'
  BY <1>1, <1>3, <1>4 DEF AcceptedOpen
<1>6. OwnsConnection'
  BY <1>1, <1>2, <1>3, <1>4 DEF OwnsConnection
<1>7. DescriptorsOwned'
  <2>1. SUFFICES ASSUME NEW f \in Fd, connOf'[f] # NoConn
                 PROVE  \/ \E s \in sessions : session'[s].fd = f
                        \/ AcceptCommand(f, connOf'[f]) \in ToSet(Pending')
    BY <1>1 DEF DescriptorsOwned, Free
  <2>2. f # h.fd /\ connOf'[f] = connOf[f]
    BY <1>1, <1>4, <2>1
  <2>3. AcceptCommand(f, connOf[f]) # h
    BY <2>2 DEF AcceptCommand
  <2>4. QED
    BY <1>2, <1>3, <2>1, <2>2, <2>3 DEF Ownership, DescriptorsOwned, Free
<1>8. QED
  BY <1>5, <1>6, <1>7 DEF Ownership

\* A connect takes a free descriptor: nobody's.
LEMMA ConnectOwnership ==
  ASSUME Numbering, Ownership,
         ExecuteConnectPending \/ ExecuteConnectAtOnce
  PROVE  Ownership'
<1> DEFINE h == Head(Pending)
<1>1. PICK f \in Fd, st \in {"ConnectPending", "Connected"} :
        /\ connOf[f] = NoConn /\ Makes(f, st, FALSE)
        /\ ExecuteConnectFails => connOf' = connOf
        /\ ~ExecuteConnectFails => connOf' = [connOf EXCEPT ![f] = h.conn]
  BY ConnectMakes DEF Free
<1>2. ~ExecuteConnectFails
  <2>1. sequence' \in sessions' /\ sequence' \notin sessions
    BY <1>1 DEF ExecuteConnectPending, ExecuteConnectAtOnce, Makes, Numbering, TypeOK
  <2>2. QED
    BY <2>1 DEF ExecuteConnectFails
<1>3. /\ connOf' = [connOf EXCEPT ![f] = h.conn]
      /\ sessions' = sessions \cup {sequence'}
  BY <1>1, <1>2 DEF ExecuteConnectPending, ExecuteConnectAtOnce
<1>4. /\ session'[sequence'].fd = f /\ session'[sequence'].conn = h.conn
      /\ \A s \in sessions : session'[s] = session[s]
  BY <1>1 DEF Makes, Numbering, TypeOK
<1>5. /\ ToSet(Pending) = {h} \cup ToSet(Pending') /\ h.conn \in Conn
      /\ \A c \in ToSet(Pending') : c.kind = "accept" =>
           c.fd \in Fd /\ c.conn \in Conn /\ connOf[c.fd] = c.conn
      /\ \A s \in sessions : /\ session[s].fd \in Fd /\ session[s].conn \in Conn
                             /\ connOf[session[s].fd] = session[s].conn
  BY <1>1, MakesOwned DEF Makes
<1>6. connOf \in [Fd -> Conn \cup {NoConn}]
  BY DEF Numbering, TypeOK
<1>7. h.kind = "connect"
  BY ConnectMakes
<1> HIDE DEF h
<1>8. AcceptedOpen'
  BY <1>1, <1>3, <1>5, <1>6, NoConnAssumption DEF AcceptedOpen
<1>9. OwnsConnection'
  BY <1>1, <1>3, <1>4, <1>5, <1>6, NoConnAssumption DEF OwnsConnection
<1>10. DescriptorsOwned'
  <2>1. SUFFICES ASSUME NEW g \in Fd, connOf'[g] # NoConn
                 PROVE  \/ \E s \in sessions' : session'[s].fd = g
                        \/ AcceptCommand(g, connOf'[g]) \in ToSet(Pending')
    BY DEF DescriptorsOwned, Free
  <2>2. CASE g = f
    BY <1>3, <1>4, <2>2
  <2>3. CASE g # f
    <3>1. connOf'[g] = connOf[g]
      BY <1>3, <1>6, <2>3
    <3>2. AcceptCommand(g, connOf[g]) # h
      BY <1>7 DEF AcceptCommand
    <3>3. QED
      BY <1>3, <1>4, <1>5, <2>1, <3>1, <3>2 DEF Ownership, DescriptorsOwned, Free
  <2>4. QED
    BY <2>2, <2>3
<1>11. QED
  BY <1>8, <1>9, <1>10 DEF Ownership

LEMMA ConnectNotOwnership ==
  ASSUME Numbering, Ownership, ExecuteConnectFails \/ ExecuteConnectNoSocket
  PROVE  Ownership'
<1> DEFINE h == Head(Pending)
<1>1. /\ Pending # <<>> /\ Pending' = Tail(Pending)
      /\ h.kind = "connect" /\ connOf' = connOf /\ sessions' = sessions
      /\ \A s \in 1 .. sequence : session'[s] = session[s]
  <2>1. CASE ExecuteConnectNoSocket
    BY <2>1, NoSocketRuns
  <2>2. CASE ExecuteConnectFails
    <3>1. PICK f \in Fd, st \in {"ConnectPending", "Connected"} :
            Makes(f, st, FALSE) /\ connOf' = connOf
      BY <2>2, ConnectMakes
    <3>2. h.kind = "connect" /\ sessions' = sessions
      BY <2>2, ConnectMakes DEF ExecuteConnectFails
    <3>3. QED
      BY <3>1, <3>2 DEF Makes
  <2>3. QED
    BY <2>1, <2>2
<1>2. \A s \in sessions : session'[s] = session[s]
  BY <1>1 DEF Numbering, TypeOK
<1>3. ToSet(Pending) = {h} \cup ToSet(Pending')
  BY <1>1, MakesOwned DEF IsRequest
<1>4. \A f \in Fd : AcceptCommand(f, connOf[f]) # h
  BY <1>1 DEF AcceptCommand
<1> HIDE DEF h
<1>5. QED
  BY <1>1, <1>2, <1>3, <1>4
     DEF Ownership, AcceptedOpen, OwnsConnection, DescriptorsOwned, Free

LEMMA DistinctConnections ==
  ASSUME Numbering, NEW r \in 1 .. sequence, NEW s \in 1 .. sequence, r # s
  PROVE  session[r].conn # session[s].conn
<1>1. session \in [1 .. sequence -> Session] /\ sequence \in Nat
  BY DEF Numbering, TypeOK
<1>2. session[r].conn \in Nat /\ session[s].conn \in Nat
  BY <1>1 DEF Session, Conn
<1>3. r < s \/ s < r
  BY <1>1
<1>4. session[r].conn < session[s].conn \/ session[s].conn < session[r].conn
  BY <1>3 DEF Numbering, SessionsNumbered
<1>5. QED
  BY <1>2, <1>4

LEMMA SweepOwnership ==
  ASSUME Numbering, Ownership, SweepCloses
  PROVE  Ownership'
<1> DEFINE s == Head(pendingClose)
<1>1. /\ s \in sessions /\ s \in 1 .. sequence
      /\ connOf' = [connOf EXCEPT ![session[s].fd] = NoConn]
      /\ sessions' = sessions \ {s} /\ Pending' = Pending
      /\ \A r \in DOMAIN session : /\ session'[r].fd = session[r].fd
                                   /\ session'[r].conn = session[r].conn
  BY SweepSteady DEF SweepCloses, Steady, SameSessions
<1> HIDE DEF s
<1>2. /\ Pending \in Seq(Commands) /\ sessions \subseteq 1 .. sequence
      /\ session \in [1 .. sequence -> Session]
      /\ connOf \in [Fd -> Conn \cup {NoConn}]
  BY PendingTyped DEF Numbering, TypeOK
<1>3. \A r \in 1 .. sequence : session[r].fd \in Fd /\ session[r].conn \in Conn
  BY <1>2 DEF Session
<1>4. \A r \in sessions : connOf[session[r].fd] = session[r].conn
  BY DEF Ownership, OwnsConnection
<1>5. ASSUME NEW r \in sessions, r # s PROVE session[r].fd # session[s].fd
  BY <1>1, <1>2, <1>4, <1>5, DistinctConnections
<1>6. ASSUME NEW c \in ToSet(Pending), c.kind = "accept"
      PROVE  c.fd \in Fd /\ connOf[c.fd] = c.conn /\ c.fd # session[s].fd
  <2>1. c \in Commands /\ IsRequest(c) /\ c.fd \in Fd /\ c.conn \in Conn
    BY <1>2, <1>6, SetTyped, AcceptTyped
  <2>2. session[s].conn < c.conn
    BY <1>1, <1>2, <2>1, AboveSet DEF Numbering, RequestsNumbered
  <2>3. session[s].conn # c.conn
    BY <1>1, <1>3, <2>1, <2>2 DEF Conn
  <2>4. connOf[c.fd] = c.conn
    BY <1>6 DEF Ownership, AcceptedOpen
  <2>5. QED
    BY <1>1, <1>4, <2>1, <2>3, <2>4
<1>7. AcceptedOpen'
  BY <1>1, <1>2, <1>6 DEF AcceptedOpen
<1>8. OwnsConnection'
  BY <1>1, <1>2, <1>3, <1>4, <1>5 DEF OwnsConnection
<1>9. DescriptorsOwned'
  <2>1. SUFFICES ASSUME NEW f \in Fd, connOf'[f] # NoConn
                 PROVE  \/ \E r \in sessions' : session'[r].fd = f
                        \/ AcceptCommand(f, connOf'[f]) \in ToSet(Pending')
    BY DEF DescriptorsOwned, Free
  <2>2. f # session[s].fd /\ connOf'[f] = connOf[f]
    BY <1>1, <1>2, <2>1
  <2>3. QED
    BY <1>1, <1>2, <2>1, <2>2 DEF Ownership, DescriptorsOwned, Free
<1>10. QED
  BY <1>7, <1>8, <1>9 DEF Ownership

LEMMA InitOwnership == Init => Ownership
<1> SUFFICES ASSUME Init PROVE Ownership
  OBVIOUS
<1>1. Pending = <<>>
  BY ConcatEmptySeq DEF Init, Pending
<1>2. ToSet(Pending) = {}
  BY <1>1 DEF ToSet
<1>3. QED
  BY <1>2 DEF Init, Ownership, AcceptedOpen, OwnsConnection, DescriptorsOwned, Free

LEMMA NextOwnership ==
  ASSUME Numbering, Ownership, [Next]_vars
  PROVE  Ownership'
BY StepKinds, QuietOwnership, AcceptOwnership, ConnectAsyncOwnership,
   ExecuteAcceptOwnership, AcceptFailsOwnership, ConnectOwnership,
   ConnectNotOwnership, SweepOwnership

LEMMA OwnershipInvariant == SafeSpec => []Ownership
<1>1. Numbering /\ Ownership /\ [Next]_vars => Ownership'
  BY NextOwnership
<1>2. QED
  BY InitOwnership, NumberingInvariant, <1>1, PTL DEF SafeSpec

LEMMA Owned ==
  ASSUME Numbering, Ownership PROVE OwnsDescriptor
<1>1. SUFFICES ASSUME NEW s \in sessions, NEW r \in sessions,
                      r # s
               PROVE  session[r].fd # session[s].fd
  BY DEF OwnsDescriptor, Ownership, OwnsConnection
<1>2. r \in 1 .. sequence /\ s \in 1 .. sequence
  BY <1>1 DEF Numbering, TypeOK
<1>3. session[r].conn # session[s].conn
  BY <1>1, <1>2, DistinctConnections
<1>4. QED
  BY <1>1, <1>3 DEF Ownership, OwnsConnection

\* A registered session's descriptor stands for its own connection and is no
\* other session's: closing it closes nobody else's connection.
THEOREM OwnsDescriptorInvariant == SafeSpec => []OwnsDescriptor
<1>1. Numbering /\ Ownership => OwnsDescriptor
  BY Owned
<1>2. QED
  BY <1>1, NumberingInvariant, OwnershipInvariant, PTL

\* An open descriptor has a registered session or an accept command on its way.
THEOREM NoDescriptorLeakInvariant == SafeSpec => []NoDescriptorLeak
<1>1. Numbering /\ Ownership => NoDescriptorLeak
  <2> SUFFICES ASSUME Numbering, Ownership PROVE NoDescriptorLeak
    OBVIOUS
  <2>1. ToSet(Pending) = ToSet(batch) \cup ToSet(commandQueue)
    BY ConcatSet DEF Numbering, TypeOK, Pending
  <2>2. QED
    BY <2>1 DEF Ownership, DescriptorsOwned, NoDescriptorLeak
<1>2. QED
  BY <1>1, NumberingInvariant, OwnershipInvariant, PTL

----------------------------------------------------------------------------
(***************************************************************************)
(* Callbacks: once each, and OnConnected first.                            *)
(***************************************************************************)

\* Who calls back.
LEMMA CallSteps ==
  ASSUME [Next]_vars
  PROVE  \/ UNCHANGED callbacks
         \/ ExecuteAccept
         \/ \E e \in events.sessions : VisitConnected(e)
         \/ SweepCloses
<1> USE DEF history, callbacks
<1>1. CASE \E k \in Task : TaskChecksState(k) \/ TaskSends(k) \/ TaskEnds(k)
  BY <1>1 DEF TaskChecksState, TaskSends, TaskEnds
<1>2. CASE \E e \in events.sessions :
              \/ VisitAlias(e) \/ VisitUnknown(e) \/ VisitClosing(e)
              \/ VisitInput(e) \/ VisitConnectFailed(e)
              \/ VisitSendable(e) \/ VisitSendableClosing(e)
  BY <1>2 DEF VisitAlias, VisitUnknown, VisitClosing, VisitInput,
     VisitConnectFailed, VisitSendable, VisitSendableClosing
<1>3. CASE (\E f \in Fd : Accept(f)) \/ ConnectAsync \/ EpollWait \/ VisitWakeup
  BY <1>3 DEF Accept, ConnectAsync, EpollWait, VisitWakeup
<1>4. CASE \/ ExecuteAcceptFails \/ ExecuteConnectPending \/ ExecuteConnectAtOnce
           \/ ExecuteConnectNoSocket \/ ExecuteConnectFails
           \/ ExecuteFlush \/ ExecuteDisconnect \/ ExecuteExpired
  BY <1>4 DEF ExecuteAcceptFails, ExecuteConnectPending, ExecuteConnectAtOnce,
     ExecuteConnectNoSocket, ExecuteConnectFails, ExecuteFlush,
     ExecuteDisconnect, ExecuteExpired
<1>5. CASE EndOfEvents \/ SweepSkips \/ EndOfSweep
  BY <1>5 DEF EndOfEvents, SweepSkips, EndOfSweep
<1>6. CASE UNCHANGED vars
  BY <1>6 DEF vars
<1>7. QED
  BY <1>1, <1>2, <1>3, <1>4, <1>5, <1>6
     DEF Next, Dispatch, VisitEvent, ExecuteCommand

\* Nothing is called and no session is made or ends.
LEMMA SteadyCalls ==
  ASSUME Numbering, Calls, SameSessions, UNCHANGED <<sequence, sessions, callbacks>>
  PROVE  Calls'
<1>1. sessions \subseteq DOMAIN session
  BY DEF Numbering, TypeOK
<1>2. QED
  BY <1>1 DEF Calls, CallsSoFar, CallbacksPaired, SameSessions, callbacks

\* A session is made and nothing is called: either it is not registered, or it
\* was not accepted.
LEMMA MakesCalls ==
  ASSUME Numbering, Calls, NEW f, NEW st, NEW a, Makes(f, st, a),
         UNCHANGED callbacks,
         \/ sessions' = sessions
         \/ sessions' = sessions \cup {sequence'} /\ a = FALSE
  PROVE  Calls'
<1>1. /\ sequence \in Nat /\ sessions \subseteq 1 .. sequence
      /\ DOMAIN session = 1 .. sequence
  BY DEF Numbering, TypeOK
<1>2. /\ sequence' \in SessionId /\ sequence' = sequence + 1
      /\ DOMAIN session' = (1 .. sequence) \cup {sequence'}
      /\ sequence' \notin 1 .. sequence
      /\ \A s \in 1 .. sequence : session'[s] = session[s]
      /\ session'[sequence'].accepted = a
  BY DEF Makes
<1>3. connectedCalls[sequence'] = 0 /\ closedCalls[sequence'] = 0
  BY <1>1, <1>2 DEF Calls, CallsSoFar
<1>4. \A s \in SessionId : s > sequence' => s > sequence
  BY <1>1, <1>2 DEF SessionId
<1>5. CallsSoFar'
  BY <1>1, <1>2, <1>3, <1>4 DEF Calls, CallsSoFar, callbacks
<1>6. CallbacksPaired'
  BY <1>1, <1>2, <1>3 DEF Calls, CallbacksPaired, callbacks
<1>7. QED
  BY <1>5, <1>6 DEF Calls

LEMMA AcceptCalls ==
  ASSUME Numbering, Calls, ExecuteAccept
  PROVE  Calls'
<1>1. /\ sequence \in Nat /\ sessions \subseteq 1 .. sequence
      /\ DOMAIN session = 1 .. sequence
      /\ connectedCalls \in [SessionId -> Nat]
  BY DEF Numbering, TypeOK
<1>2. Makes(Head(batch).fd, "Connected", TRUE)
  BY AcceptMakes
<1>3. /\ sequence' \in SessionId /\ sequence' = sequence + 1
      /\ DOMAIN session' = (1 .. sequence) \cup {sequence'}
      /\ sequence' \notin 1 .. sequence
      /\ \A s \in 1 .. sequence : session'[s] = session[s]
      /\ session'[sequence'].state = "Connected"
  BY <1>2 DEF Makes
<1>4. /\ connectedCalls' = [connectedCalls EXCEPT ![sequence'] = @ + 1]
      /\ closedCalls' = closedCalls /\ sessions' = sessions \cup {sequence'}
  BY DEF ExecuteAccept
<1>5. connectedCalls[sequence'] = 0 /\ closedCalls[sequence'] = 0
  BY <1>1, <1>3 DEF Calls, CallsSoFar
<1>6. /\ connectedCalls'[sequence'] = 1
      /\ \A s \in SessionId : s # sequence' => connectedCalls'[s] = connectedCalls[s]
  BY <1>1, <1>3, <1>4, <1>5
<1>7. /\ \A s \in SessionId : s > sequence' => s > sequence /\ s # sequence'
      /\ \A s \in 1 .. sequence : s \in SessionId /\ s # sequence'
  BY <1>1, <1>3, SequenceIds DEF SessionId, Numbering
<1>8. CallsSoFar'
  BY <1>1, <1>3, <1>4, <1>6, <1>7 DEF Calls, CallsSoFar
<1>9. CallbacksPaired'
  BY <1>1, <1>3, <1>4, <1>5, <1>6, <1>7 DEF Calls, CallbacksPaired
<1>10. QED
  BY <1>8, <1>9 DEF Calls

LEMMA ConnectedCalls ==
  ASSUME Numbering, Calls, NEW e \in events.sessions, VisitConnected(e)
  PROVE  Calls'
<1> DEFINE s == e.id
<1>1. /\ s \in sessions /\ session[s].state = "ConnectPending"
      /\ connectedCalls' = [connectedCalls EXCEPT ![s] = @ + 1]
      /\ UNCHANGED <<sequence, sessions, closedCalls>>
      /\ SetState(s, "Connected")
  BY DEF VisitConnected, Output, Found, registry
<1> HIDE DEF s
<1>2. /\ sessions \subseteq 1 .. sequence /\ DOMAIN session = 1 .. sequence
      /\ 1 .. sequence \subseteq SessionId
      /\ connectedCalls \in [SessionId -> Nat]
  BY SequenceIds DEF Numbering, TypeOK
<1>3. SameSessions /\ session'[s].state = "Connected"
  BY <1>1, <1>2, SetStateFacts DEF Numbering, States
<1>4. connectedCalls[s] = 0 /\ ~session[s].accepted
  BY <1>1 DEF Calls, CallsSoFar
<1>5. /\ connectedCalls'[s] = 1
      /\ \A r \in SessionId : r # s => connectedCalls'[r] = connectedCalls[r]
  BY <1>1, <1>2, <1>4
<1>a. closedCalls[s] = 0
  BY <1>1, <1>2 DEF Calls, CallbacksPaired
<1>b. s \in SessionId /\ s \in 1 .. sequence
  BY <1>1, <1>2
<1>6. CallsSoFar'
  <2>1. \A r \in SessionId : r > sequence => r # s
    BY <1>b, BeyondSequence DEF Numbering
  <2>2. QED
    BY <1>1, <1>2, <1>3, <1>4, <1>5, <2>1 DEF Calls, CallsSoFar, SameSessions
<1>7. CallbacksPaired'
  BY <1>1, <1>2, <1>3, <1>4, <1>5, <1>a DEF Calls, CallbacksPaired, SameSessions
<1>8. QED
  BY <1>6, <1>7 DEF Calls

LEMMA SweepCalls ==
  ASSUME Numbering, Calls, SweepCloses
  PROVE  Calls'
<1> DEFINE s == Head(pendingClose)
<1>1. /\ s \in sessions /\ s \in 1 .. sequence /\ SameSessions
      /\ sequence' = sequence /\ sessions' = sessions \ {s}
      /\ connectedCalls' = connectedCalls
      /\ closedCalls' = [closedCalls EXCEPT ![s] = @ + 1]
  BY SweepSteady DEF SweepCloses, Steady
<1> HIDE DEF s
<1>2. /\ sessions \subseteq 1 .. sequence /\ DOMAIN session = 1 .. sequence
      /\ 1 .. sequence \subseteq SessionId
      /\ closedCalls \in [SessionId -> Nat] /\ connectedCalls \in [SessionId -> Nat]
  BY SequenceIds DEF Numbering, TypeOK
<1>3. closedCalls[s] = 0
  BY <1>1, <1>2 DEF Calls, CallbacksPaired
<1>4. /\ closedCalls'[s] = 1
      /\ \A r \in SessionId : r # s => closedCalls'[r] = closedCalls[r]
  BY <1>1, <1>2, <1>3
<1>5. \A r \in SessionId : r > sequence => r # s
  BY <1>1, BeyondSequence DEF Numbering
<1>6. CallsSoFar'
  BY <1>1, <1>2, <1>4, <1>5 DEF Calls, CallsSoFar, SameSessions
<1>7. session[s].accepted => connectedCalls[s] = 1
  BY <1>1 DEF Calls, CallsSoFar
<1>8. CallbacksPaired'
  BY <1>1, <1>2, <1>4, <1>7 DEF Calls, CallbacksPaired, SameSessions
<1>9. QED
  BY <1>6, <1>8 DEF Calls

LEMMA NextCalls ==
  ASSUME Numbering, Calls, [Next]_vars
  PROVE  Calls'
<1>1. CASE ExecuteAccept \/ SweepCloses \/ \E e \in events.sessions : VisitConnected(e)
  BY <1>1, AcceptCalls, SweepCalls, ConnectedCalls
<1>2. ASSUME UNCHANGED callbacks PROVE Calls'
  <2>1. CASE Quiet
    BY <1>2, <2>1, SteadyCalls DEF Quiet
  <2>2. CASE (\E f \in Fd : Accept(f)) \/ ConnectAsync
    <3>1. session' = session /\ UNCHANGED <<sequence, sessions>>
      BY <2>2 DEF Accept, ConnectAsync, registry
    <3>2. QED
      BY <1>2, <3>1, SameSessionsUnchanged, SteadyCalls
  <2>3. CASE ExecuteConnectNoSocket
    BY <1>2, <2>3, NoSocketRuns, SameSessionsUnchanged, SteadyCalls
  <2>4. CASE ExecuteAcceptFails
    <3>1. sessions' = sessions
      BY <2>4 DEF ExecuteAcceptFails
    <3>2. QED
      BY <1>2, <2>4, <3>1, AcceptMakes, MakesCalls
  <2>5. CASE ExecuteConnectPending \/ ExecuteConnectAtOnce \/ ExecuteConnectFails
    <3>1. sessions' = sessions \/ sessions' = sessions \cup {sequence'}
      BY <2>5 DEF ExecuteConnectPending, ExecuteConnectAtOnce, ExecuteConnectFails
    <3>2. PICK f \in Fd, st \in {"ConnectPending", "Connected"} : Makes(f, st, FALSE)
      BY <2>5, ConnectMakes
    <3>3. QED
      BY <1>2, <3>1, <3>2, MakesCalls
  <2>6. QED
    BY <1>1, <2>1, <2>2, <2>3, <2>4, <2>5, StepKinds
<1>3. QED
  BY <1>1, <1>2, CallSteps

LEMMA InitCalls == Init => Calls
BY DEF Init, Calls, CallsSoFar, CallbacksPaired

\* OnConnected at most once, OnDisconnected once and when the session leaves the
\* registry, and on the server never without OnConnected before.
THEOREM CallbacksPairedInvariant == SafeSpec => []CallbacksPaired
<1>1. Numbering /\ Calls /\ [Next]_vars => Calls'
  BY NextCalls
<1>2. Calls => CallbacksPaired
  BY DEF Calls
<1>3. QED
  BY InitCalls, NumberingInvariant, <1>1, <1>2, PTL DEF SafeSpec

----------------------------------------------------------------------------
(***************************************************************************)
(* Flushes: to the session's own connection, and under its own id.         *)
(***************************************************************************)

\* A flush of a session that can still be reached.
Flushes(s) == /\ s \in 1 .. sequence /\ Alive(s) /\ FlushSendOwner(s)
              /\ UNCHANGED <<outlived, sessions, sequence>>

LEMMA FlushSteps ==
  ASSUME Numbering,
         ExecuteFlush \/ \E e \in events.sessions : VisitSendable(e)
  PROVE  \E s \in 1 .. sequence : Flushes(s)
<1>1. CASE ExecuteFlush
  <2>1. Command("flush") /\ commandQueue' = commandQueue
    BY <1>1 DEF ExecuteFlush
  <2>2. Head(batch).session \in SessionId
    BY <2>1, OtherRun DEF Numbering
  <2>3. Head(batch).session \in 1 .. sequence
    BY <1>1, <2>2, AliveMade DEF ExecuteFlush
  <2>4. QED
    BY <1>1, <2>3 DEF ExecuteFlush, Flushes, registry
<1>2. ASSUME NEW e \in events.sessions, VisitSendable(e)
      PROVE  \E s \in 1 .. sequence : Flushes(s)
  <2>1. e.id \in sessions
    BY <1>2 DEF VisitSendable, Output, Found
  <2>2. e.id \in 1 .. sequence
    BY <2>1 DEF Numbering, TypeOK
  <2>3. QED
    BY <1>2, <2>1, <2>2 DEF VisitSendable, Flushes, Alive, registry
<1>3. QED
  BY <1>1, <1>2

\* Who sends, who registers, and when a session is outlived.
LEMMA SendSteps ==
  ASSUME Numbering, [Next]_vars
  PROVE  \/ UNCHANGED <<sentTo, outlived, epoll>>
         \/ \E s \in 1 .. sequence : Flushes(s)
         \/ /\ ExecuteAccept \/ ExecuteConnectPending \/ ExecuteConnectAtOnce
            /\ UNCHANGED <<sentTo, outlived>>
         \/ SweepCloses /\ UNCHANGED sentTo
<1> USE DEF history, callbacks, kernel
<1>1. CASE \E k \in Task : TaskChecksState(k) \/ TaskSends(k) \/ TaskEnds(k)
  BY <1>1 DEF TaskChecksState, TaskSends, TaskEnds
<1>2. CASE \E e \in events.sessions :
              \/ VisitAlias(e) \/ VisitUnknown(e) \/ VisitClosing(e)
              \/ VisitInput(e) \/ VisitConnected(e) \/ VisitConnectFailed(e)
              \/ VisitSendableClosing(e)
  BY <1>2 DEF VisitAlias, VisitUnknown, VisitClosing, VisitInput,
     VisitConnected, VisitConnectFailed, VisitSendableClosing
<1>3. CASE (\E f \in Fd : Accept(f)) \/ ConnectAsync \/ EpollWait \/ VisitWakeup
  BY <1>3 DEF Accept, ConnectAsync, EpollWait, VisitWakeup
<1>4. CASE \/ ExecuteAcceptFails \/ ExecuteConnectNoSocket \/ ExecuteConnectFails
           \/ ExecuteDisconnect \/ ExecuteExpired
  BY <1>4 DEF ExecuteAcceptFails, ExecuteConnectNoSocket, ExecuteConnectFails,
     ExecuteDisconnect, ExecuteExpired
<1>5. CASE EndOfEvents \/ SweepSkips \/ EndOfSweep
  BY <1>5 DEF EndOfEvents, SweepSkips, EndOfSweep
<1>6. CASE UNCHANGED vars
  BY <1>6 DEF vars
<1>7. CASE ExecuteAccept \/ ExecuteConnectPending \/ ExecuteConnectAtOnce \/ SweepCloses
  BY <1>7 DEF ExecuteAccept, ExecuteConnectPending, ExecuteConnectAtOnce, SweepCloses
<1>8. CASE ExecuteFlush \/ \E e \in events.sessions : VisitSendable(e)
  BY <1>8, FlushSteps
<1>9. QED
  BY <1>1, <1>2, <1>3, <1>4, <1>5, <1>6, <1>7, <1>8
     DEF Next, Dispatch, VisitEvent, ExecuteCommand

\* How the set of registered sessions and the sessions made change.
LEMMA SessionSteps ==
  ASSUME Numbering, [Next]_vars
  PROVE  /\ \/ SweepCloses
            \/ sessions \subseteq sessions'
         /\ sessions' \subseteq sessions \cup {sequence + 1}
         /\ \A s \in 1 .. sequence : /\ session'[s].fd = session[s].fd
                                     /\ session'[s].conn = session[s].conn
         /\ \/ sequence' = sequence
            \/ sequence' = sequence + 1 /\ 1 .. sequence' = (1 .. sequence) \cup {sequence'}
<1>0. DOMAIN session = 1 .. sequence
  BY DEF Numbering, TypeOK
<1>1. CASE Quiet
  BY <1>0, <1>1 DEF Quiet, SameSessions
<1>2. CASE (\E f \in Fd : Accept(f)) \/ ConnectAsync
  BY <1>2 DEF Accept, ConnectAsync, registry
<1>3. CASE ExecuteConnectNoSocket
  BY <1>3, NoSocketRuns
<1>4. CASE SweepCloses
  BY <1>0, <1>4, SweepSteady DEF SweepCloses, Steady, SameSessions
<1>5. ASSUME NEW f, NEW st, NEW a, Makes(f, st, a)
      PROVE  /\ sequence' = sequence + 1
             /\ 1 .. sequence' = (1 .. sequence) \cup {sequence'}
             /\ \A s \in 1 .. sequence : session'[s] = session[s]
  BY <1>5 DEF Makes
<1>6. CASE \/ ExecuteAccept \/ ExecuteAcceptFails \/ ExecuteConnectPending
           \/ ExecuteConnectAtOnce \/ ExecuteConnectFails
  <2>1. \E f, st, a : Makes(f, st, a)
    <3>1. CASE ExecuteAccept \/ ExecuteAcceptFails
      BY <3>1, AcceptMakes
    <3>2. CASE ExecuteConnectPending \/ ExecuteConnectAtOnce \/ ExecuteConnectFails
      BY <3>2, ConnectMakes
    <3>3. QED
      BY <1>6, <3>1, <3>2
  <2>2. sessions' = sessions \/ sessions' = sessions \cup {sequence'}
    BY <1>6 DEF ExecuteAccept, ExecuteAcceptFails, ExecuteConnectPending,
       ExecuteConnectAtOnce, ExecuteConnectFails
  <2>3. QED
    BY <1>5, <2>1, <2>2
<1>7. QED
  BY <1>1, <1>2, <1>3, <1>4, <1>6, StepKinds

\* Who registers a session.
LEMMA RegisteringSteps ==
  ASSUME Numbering, [Next]_vars
  PROVE  \/ sessions' \subseteq sessions
         \/ ExecuteAccept \/ ExecuteConnectPending \/ ExecuteConnectAtOnce
BY StepKinds DEF Quiet, Accept, ConnectAsync, ExecuteAcceptFails,
   ExecuteConnectNoSocket, ExecuteConnectFails, SweepCloses, registry

LEMMA NextIds ==
  ASSUME Numbering, [Next]_vars
  PROVE  1 .. sequence' \subseteq SessionId
<1>1. sequence' \in 0 .. MaxConn
  BY NextTypes DEF TypeOK
<1>2. MaxConn \in Nat
  BY BoundsAssumption DEF MaxConn
<1>3. QED
  BY <1>1, <1>2 DEF SessionId

\* A session a task holds is registered, or is noted when it leaves.
LEMMA NextHeld ==
  ASSUME Numbering, HeldOutlives, [Next]_vars
  PROVE  HeldOutlives'
<1>1. outlived \subseteq outlived'
  BY SendSteps DEF Flushes, SweepCloses
<1>2. ASSUME NEW s \in 1 .. sequence, HeldByTask(s)
      PROVE  s \in sessions' \cup outlived'
  <2>1. s \in sessions \cup outlived
    BY <1>2 DEF HeldOutlives
  <2>2. CASE SweepCloses
    BY <1>1, <1>2, <2>1, <2>2 DEF SweepCloses
  <2>3. CASE ~SweepCloses
    BY <1>1, <2>1, <2>3, SessionSteps
  <2>4. QED
    BY <2>2, <2>3
<1>3. task \in [Task -> [step : {"idle", "job", "send", "done"},
                         session : SessionId \cup {NoSession}]]
  BY DEF Numbering, TypeOK
<1>4. SUFFICES ASSUME NEW s \in 1 .. sequence', NEW k \in Task, task'[k].session = s
               PROVE  s \in sessions' \cup outlived'
  BY DEF HeldOutlives, HeldByTask
<1>5. s # NoSession /\ (s \notin 1 .. sequence => s = sequence + 1)
  BY SessionSteps DEF NoSession, Numbering, TypeOK
<1>6. CASE task[k].session = s
  <2>1. task[k].session \in 1 .. sequence
    BY <1>5, <1>6 DEF Numbering, TasksHold
  <2>2. QED
    BY <1>2, <1>6, <2>1 DEF HeldByTask
<1>7. CASE task[k].session # s
  <2>1. ASSUME NEW j \in Task, NEW r \in sessions,
               task' = [task EXCEPT ![j] = [step |-> "job", session |-> r]],
               sessions' = sessions
        PROVE  s \in sessions'
    BY <1>3, <1>4, <1>7, <2>1
  <2>2. ASSUME NEW j \in Task,
               task' = [task EXCEPT ![j] = [step |-> "idle", session |-> NoSession]]
        PROVE  FALSE
    BY <1>3, <1>4, <1>5, <1>7, <2>2
  <2>3. ASSUME NEW j \in Task, NEW st \in {"send", "done"},
               task' = [task EXCEPT ![j].step = st]
        PROVE  FALSE
    BY <1>3, <1>4, <1>7, <2>3
  <2>4. QED
    BY <1>4, <1>7, <2>1, <2>2, <2>3, NextTasks DEF TaskSteps
<1>8. QED
  BY <1>6, <1>7

LEMMA FlushConnection ==
  ASSUME Numbering, Ownership, HeldOutlives, NEW s \in 1 .. sequence, Flushes(s),
         s \notin outlived
  PROVE  s \in sessions /\ connOf[session[s].fd] = session[s].conn
BY DEF Flushes, Alive, HeldOutlives, Ownership, OwnsConnection

LEMMA NextSending ==
  ASSUME Numbering, Ownership, Sending, [Next]_vars
  PROVE  Sending'
<1>1. HeldOutlives'
  BY NextHeld DEF Sending
<1>2. outlived \subseteq outlived'
  BY SendSteps DEF Flushes, SweepCloses
<1>3. /\ sentTo \in [SessionId -> SUBSET Conn] /\ sequence \in Nat
      /\ DOMAIN session = 1 .. sequence /\ 1 .. sequence \subseteq SessionId
      /\ DOMAIN session' = 1 .. sequence'
  <2>1. DOMAIN session' = 1 .. sequence'
    BY NextTypes DEF TypeOK
  <2>2. /\ sentTo \in [SessionId -> SUBSET Conn] /\ sequence \in Nat
        /\ DOMAIN session = 1 .. sequence
    BY DEF Numbering, TypeOK
  <2>3. 1 .. sequence \subseteq SessionId
    BY SequenceIds DEF Numbering
  <2>4. QED
    BY <2>1, <2>2, <2>3
<1>4. \/ sentTo' = sentTo
      \/ \E s \in 1 .. sequence :
           /\ Flushes(s) /\ outlived' = outlived
           /\ sentTo' = [sentTo EXCEPT ![s] = @ \cup {connOf[session[s].fd]}]
  <2>1. ASSUME NEW s \in 1 .. sequence, Flushes(s)
        PROVE  /\ outlived' = outlived
               /\ \/ sentTo' = sentTo
                  \/ sentTo' = [sentTo EXCEPT ![s] = @ \cup {connOf[session[s].fd]}]
    BY <2>1, FlushFacts DEF Flushes, Numbering
  <2>2. QED
    BY <2>1, SendSteps
<1>5. NothingSentYet'
  <2>1. SUFFICES ASSUME NEW r \in SessionId, r > sequence'
                 PROVE  sentTo'[r] = {}
    BY DEF NothingSentYet
  <2>2. r > sequence
    BY <1>3, <2>1, SessionSteps DEF SessionId
  <2>3. sentTo[r] = {}
    BY <2>2 DEF Sending, NothingSentYet
  <2>4. \A s \in 1 .. sequence : r # s
    BY <2>2, BeyondSequence DEF Numbering
  <2>5. QED
    BY <1>3, <1>4, <2>3, <2>4
<1>6. SentToOwnConnection'
  <2>1. SUFFICES ASSUME NEW r \in 1 .. sequence', r \notin outlived'
                 PROVE  sentTo'[r] \subseteq {session'[r].conn}
    BY <1>3 DEF SentToOwnConnection
  <2>2. CASE r \in 1 .. sequence
    <3>1. sentTo[r] \subseteq {session[r].conn} /\ session'[r].conn = session[r].conn
      BY <1>2, <1>3, <2>1, <2>2, SessionSteps DEF Sending, SentToOwnConnection
    <3>2. CASE sentTo' = sentTo
      BY <3>1, <3>2
    <3>3. ASSUME NEW s \in 1 .. sequence, Flushes(s), outlived' = outlived,
                 sentTo' = [sentTo EXCEPT ![s] = @ \cup {connOf[session[s].fd]}]
          PROVE  sentTo'[r] \subseteq {session'[r].conn}
      <4>1. CASE r = s
        <5>1. connOf[session[s].fd] = session[s].conn
          BY <2>1, <3>3, <4>1, FlushConnection DEF Sending
        <5>2. sentTo'[r] = sentTo[r] \cup {session[r].conn}
          BY <1>3, <3>3, <4>1, <5>1
        <5>3. QED
          BY <3>1, <5>2
      <4>2. CASE r # s
        BY <1>3, <3>1, <3>3, <4>2
      <4>3. QED
        BY <4>1, <4>2
    <3>4. QED
      BY <1>4, <3>2, <3>3
  <2>3. CASE r \notin 1 .. sequence
    <3>1. r = sequence + 1 /\ r \in SessionId
      <4>1. r = sequence + 1
        BY <2>3, SessionSteps
      <4>2. r \in SessionId
        BY <2>1, NextIds
      <4>3. QED
        BY <4>1, <4>2
    <3>2. sentTo[r] = {}
      BY <1>3, <3>1 DEF Sending, NothingSentYet
    <3>3. \A s \in 1 .. sequence : r # s
      BY <2>3
    <3>4. sentTo'[r] = {}
      BY <1>3, <1>4, <3>1, <3>2, <3>3
    <3>5. QED
      BY <3>4
  <2>4. QED
    BY <2>2, <2>3
<1>7. QED
  BY <1>1, <1>5, <1>6 DEF Sending

LEMMA InitSending == Init => Sending
BY DEF Init, Sending, HeldOutlives, HeldByTask, NothingSentYet, SentToOwnConnection

LEMMA SendingInvariant == SafeSpec => []Sending
<1>1. Numbering /\ Ownership /\ Sending /\ [Next]_vars => Sending'
  BY NextSending
<1>2. QED
  BY InitSending, NumberingInvariant, OwnershipInvariant, <1>1, PTL DEF SafeSpec

\* Whatever descriptor numbers are given out again, the bytes of a session go to
\* its own connection, as long as no task held it when it was closed.
THEOREM SentToOwnConnectionInvariant == SafeSpec => []SentToOwnConnection
<1>1. Sending => SentToOwnConnection
  BY DEF Sending
<1>2. QED
  BY SendingInvariant, <1>1, PTL

LEMMA NextEvents ==
  ASSUME Numbering, Ownership, HeldOutlives, EventsNameOwner, [Next]_vars
  PROVE  EventsNameOwner'
<1>1. outlived \subseteq outlived'
  BY SendSteps DEF Flushes, SweepCloses
<1>2. SUFFICES ASSUME outlived' = {}, NEW r \in sessions'
               PROVE  epoll'[session'[r].fd] # NoEntry /\ epoll'[session'[r].fd].id = r
  BY DEF EventsNameOwner
<1>3. /\ outlived = {} /\ sessions \subseteq 1 .. sequence
      /\ epoll \in [Fd -> Entry \cup {NoEntry}] /\ session \in [1 .. sequence -> Session]
      /\ \A s \in sessions : epoll[session[s].fd] # NoEntry /\ epoll[session[s].fd].id = s
  BY <1>1, <1>2 DEF Numbering, TypeOK, EventsNameOwner
<1>4. \A s \in 1 .. sequence : session[s].fd \in Fd /\ session'[s].fd = session[s].fd
  BY <1>3, SessionSteps DEF Session
<1>5. \A s, t \in sessions : s # t => session[s].fd # session[t].fd
  BY Owned DEF OwnsDescriptor
<1>6. CASE r \in sessions /\ epoll' = epoll
  BY <1>3, <1>4, <1>6
<1>7. ASSUME r \in sessions, NEW s \in 1 .. sequence, Flushes(s)
      PROVE  epoll'[session'[r].fd] # NoEntry /\ epoll'[session'[r].fd].id = r
  <2>1. s \in sessions
    BY <1>3, <1>7, FlushConnection
  <2>2. \/ epoll' = epoll
        \/ \E e \in Entry : e.id = s /\ epoll' = [epoll EXCEPT ![session[s].fd] = e]
    BY <1>7, FlushFacts DEF Flushes, Numbering
  <2>3. ASSUME NEW e \in Entry, e.id = s, epoll' = [epoll EXCEPT ![session[s].fd] = e]
        PROVE  epoll'[session'[r].fd] # NoEntry /\ epoll'[session'[r].fd].id = r
    <3>1. e # NoEntry
      BY NoEntryAssumption
    <3>2. CASE r = s
      BY <1>3, <1>4, <2>1, <2>3, <3>1, <3>2
    <3>3. CASE r # s
      BY <1>3, <1>4, <1>5, <1>7, <2>1, <2>3, <3>3
    <3>4. QED
      BY <3>2, <3>3
  <2>4. QED
    BY <1>6, <1>7, <2>2, <2>3
<1>8. ASSUME NEW f \in Fd, NEW st, NEW a, Makes(f, st, a), NEW e \in Entry, e.id = sequence',
             epoll' = [epoll EXCEPT ![f] = e], sessions' = sessions \cup {sequence'},
             \A s \in sessions : session[s].fd # f
      PROVE  epoll'[session'[r].fd] # NoEntry /\ epoll'[session'[r].fd].id = r
  <2>1. session'[sequence'].fd = f /\ e # NoEntry
    BY <1>8, NoEntryAssumption DEF Makes
  <2>2. CASE r = sequence'
    BY <1>3, <1>8, <2>1, <2>2
  <2>3. CASE r \in sessions
    BY <1>3, <1>4, <1>8, <2>3
  <2>4. QED
    BY <1>2, <1>8, <2>2, <2>3
<1>9. CASE ExecuteAccept
  <2> DEFINE h == Head(Pending)
  <2>1. /\ Makes(h.fd, "Connected", TRUE) /\ h.fd \in Fd /\ h.kind = "accept"
        /\ epoll' = [epoll EXCEPT ![h.fd] = [id |-> sequence', in |-> TRUE, out |-> FALSE]]
        /\ sessions' = sessions \cup {sequence'}
    BY <1>9, AcceptMakes DEF ExecuteAccept
  <2>2. \A s \in sessions : session[s].fd # h.fd
    BY <2>1, MakesOwned DEF Makes
  <2> HIDE DEF h
  <2>3. sequence' \in SessionId
    BY <2>1 DEF Makes
  <2> DEFINE e == [id |-> sequence', in |-> TRUE, out |-> FALSE]
  <2>4. e \in Entry /\ e.id = sequence'
    BY <2>3 DEF Entry
  <2>5. epoll' = [epoll EXCEPT ![h.fd] = e]
    BY <2>1
  <2> HIDE DEF e
  <2>6. QED
    BY <1>8, <2>1, <2>2, <2>4, <2>5
<1>10. CASE ExecuteConnectPending \/ ExecuteConnectAtOnce
  <2>1. PICK f \in Fd, st \in {"ConnectPending", "Connected"} :
          /\ connOf[f] = NoConn /\ Makes(f, st, FALSE)
          /\ ~ExecuteConnectFails =>
               \E e \in Entry : e.id = sequence' /\ epoll' = [epoll EXCEPT ![f] = e]
    BY <1>10, ConnectMakes DEF Free
  <2>2. sessions' = sessions \cup {sequence'} /\ ~ExecuteConnectFails
    <3>1. sessions' = sessions \cup {sequence'}
      BY <1>10 DEF ExecuteConnectPending, ExecuteConnectAtOnce
    <3>2. sequence' \notin sessions
      BY <1>3, <2>1 DEF Makes
    <3>3. QED
      BY <3>1, <3>2 DEF ExecuteConnectFails
  <2>3. \A s \in sessions : session[s].fd # f
    <3>1. \A s \in sessions : connOf[session[s].fd] \in Conn
      BY <2>1, MakesOwned DEF Makes
    <3>2. QED
      BY <2>1, <3>1, NoConnAssumption
  <2>4. QED
    BY <1>8, <2>1, <2>2, <2>3
<1>11. CASE SweepCloses
  <2> DEFINE s == Head(pendingClose)
  <2>1. /\ s \in sessions /\ sessions' = sessions \ {s}
        /\ epoll' = [epoll EXCEPT ![session[s].fd] = NoEntry]
    BY <1>11 DEF SweepCloses
  <2> HIDE DEF s
  <2>2. QED
    BY <1>2, <1>3, <1>4, <1>5, <2>1
<1>12. QED
  <2>1. CASE r \in sessions
    BY <1>6, <1>7, <1>9, <1>10, <1>11, <2>1, SendSteps
  <2>2. CASE r \notin sessions
    BY <1>2, <1>9, <1>10, <2>2, RegisteringSteps
  <2>3. QED
    BY <2>1, <2>2

\* The epoll set reports a session's descriptor under its id, as long as no task
\* has outlived its session.
THEOREM EventsNameOwnerInvariant == SafeSpec => []EventsNameOwner
<1>1. Init => EventsNameOwner
  BY DEF Init, EventsNameOwner
<1>2. /\ Numbering /\ Ownership /\ Sending /\ EventsNameOwner /\ [Next]_vars
      => EventsNameOwner'
  BY NextEvents DEF Sending
<1>3. QED
  BY <1>1, NumberingInvariant, OwnershipInvariant, SendingInvariant, <1>2, PTL
     DEF SafeSpec

=============================================================================
