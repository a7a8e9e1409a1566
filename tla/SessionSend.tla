----------------------------- MODULE SessionSend -----------------------------
(***************************************************************************)
(* The send path of one Session.  Any thread calls TryFlushSend: it pushes *)
(* a SendContext under _lock and, if it is the one that turns _isSending   *)
(* from false to true, posts a flush command to the owner's shard.  The    *)
(* owner, the dispatcher thread of the shard, runs FlushSendOwner for that *)
(* command or for EPOLLOUT: it takes the whole queue, writes to the socket *)
(* until the kernel refuses, and either waits for EPOLLOUT still holding   *)
(* _isSending, or releases _isSending and looks at the queue once more.    *)
(*                                                                         *)
(* Commands of the session wait in the shard's mailbox, of which this      *)
(* module keeps how many there are: every order of execution is explored,  *)
(* and that posted commands are executed is what ShardMailbox shows.       *)
(* Critical sections of _lock are single steps: mutual exclusion of        *)
(* engine::Lock is assumed here.                                           *)
(***************************************************************************)
EXTENDS Naturals, Sequences, FiniteSets, SequencesExt

CONSTANTS Packet,          \* the SendContexts, each handed to TryFlushSend once
          Size,            \* bytes of each packet
          Worker,          \* threads other than the owner that send
          NoPacket,        \* what a thread outside TryFlushSend has in hand
          Owner,           \* the dispatcher thread of the session's shard
          SocketRoom,      \* bytes the kernel's send buffer holds
          Kinds,           \* of sessions: TRUE for an accepted one, FALSE for
                           \* one made by ConnectAsync
          MaxDisconnects   \* bound: disconnect commands posted by handlers

ASSUME OwnerAssumption == Owner \notin Worker
ASSUME NoPacketAssumption == NoPacket \notin Packet
ASSUME SizeAssumption == Size \in [Packet -> Nat \ {0}]
ASSUME SocketRoomAssumption == SocketRoom \in Nat \ {0}
ASSUME KindsAssumption == Kinds \subseteq BOOLEAN
ASSUME MaxDisconnectsAssumption == MaxDisconnects \in Nat

Thread == Worker \cup {Owner}

VARIABLES
  accepted,            \* which kind of session this is
  state,               \* _state
  sendContextQueue,    \* _sendContextQueue, under _lock
  isSending,           \* _isSending
  offset,              \* SendContext::offset of each packet
  fresh,               \* packets no thread has handed over yet
  step,                \* each thread's place in TryFlushSend
  inHand,              \* the packet a thread is about to push
  flushCommands,       \* flush commands in the shard's mailbox
  disconnectCommands,  \* disconnect commands in the shard's mailbox
  pc,                  \* the owner's place in FlushSendOwner
  batch,               \* FlushSendOwner's local queue
  sendEvent,           \* EPOLLOUT is in the socket's epoll mask
  pendingClose,        \* the session's id is in _pendingCloseSessions
  closed,              \* the sweep has closed the socket and erased the session
  room,                \* free bytes of the kernel's send buffer
  pushed,              \* history: the packets in the order of the pushes
  wire                 \* history: the owner of each byte put on the connection

vars == <<accepted, state, sendContextQueue, isSending, offset, fresh, step,
          inHand, flushCommands, disconnectCommands, pc, batch, sendEvent,
          pendingClose, closed, room, pushed, wire>>

\* Groups of variables that an action leaves alone together.
callers == <<fresh, step, inHand>>
commands == <<flushCommands, disconnectCommands>>
socket == <<offset, room, wire>>
closing == <<pendingClose, closed>>

\* An accepted session is registered for input only; a connected one still has
\* the EPOLLOUT interest with which the end of connect was awaited.
Init ==
  /\ accepted \in Kinds
  /\ state = "Connected"
  /\ sendContextQueue = <<>>
  /\ isSending = FALSE
  /\ offset = [p \in Packet |-> 0]
  /\ fresh = Packet
  /\ step = [t \in Thread |-> "idle"]
  /\ inHand = [t \in Thread |-> NoPacket]
  /\ flushCommands = 0
  /\ disconnectCommands = 0
  /\ pc = "idle"
  /\ batch = <<>>
  /\ sendEvent = ~accepted
  /\ pendingClose = FALSE
  /\ closed = FALSE
  /\ room = SocketRoom
  /\ pushed = <<>>
  /\ wire = <<>>

----------------------------------------------------------------------------
(***************************************************************************)
(* TryFlushSend, by any thread.                                            *)
(***************************************************************************)

\* The owner is one thread: it calls TryFlushSend from a session handler and
\* handles nothing else until the call has returned.
OwnerFree == pc = "idle" /\ step[Owner] = "idle"

\* ProcessRecv calls the handlers of a registered, connected session only.
HandlerRuns == OwnerFree /\ ~closed /\ state = "Connected"

\* The state check.
CheckState(t, p) ==
  /\ step[t] = "idle"
  /\ t = Owner => HandlerRuns
  /\ p \in fresh
  /\ state = "Connected"
  /\ fresh' = fresh \ {p}
  /\ inHand' = [inHand EXCEPT ![t] = p]
  /\ step' = [step EXCEPT ![t] = "push"]
  /\ UNCHANGED <<accepted, state, sendContextQueue, isSending, commands, pc,
                 batch, sendEvent, closing, pushed, socket>>

\* A session that is not connected refuses the packet and posts a disconnect.
RefuseSend(t, p) ==
  /\ step[t] = "idle"
  /\ t # Owner
  /\ p \in fresh
  /\ state # "Connected"
  /\ fresh' = fresh \ {p}
  /\ disconnectCommands' = disconnectCommands + 1
  /\ UNCHANGED <<accepted, state, sendContextQueue, isSending, step, inHand,
                 flushCommands, pc, batch, sendEvent, closing, pushed, socket>>

\* The push, under _lock.
PushContext(t) ==
  /\ step[t] = "push"
  /\ sendContextQueue' = Append(sendContextQueue, inHand[t])
  /\ pushed' = Append(pushed, inHand[t])
  /\ inHand' = [inHand EXCEPT ![t] = NoPacket]
  /\ step' = [step EXCEPT ![t] = "exchange"]
  /\ UNCHANGED <<accepted, state, isSending, fresh, commands, pc, batch,
                 sendEvent, closing, socket>>

\* Mutant: the old value of the flag is ignored.
ExchangeAlwaysPosts(t) ==
  /\ step[t] = "exchange"
  /\ isSending' = TRUE
  /\ step' = [step EXCEPT ![t] = "post"]
  /\ UNCHANGED <<accepted, state, sendContextQueue, fresh, inHand, commands,
                 pc, batch, sendEvent, closing, pushed, socket>>

\* _isSending.exchange(true).
ExchangeSending(t) ==
  /\ step[t] = "exchange"
  /\ isSending' = TRUE
  /\ step' = [step EXCEPT ![t] = IF isSending THEN "idle" ELSE "post"]
  /\ UNCHANGED <<accepted, state, sendContextQueue, fresh, inHand, commands,
                 pc, batch, sendEvent, closing, pushed, socket>>

PostFlush(t) ==
  /\ step[t] = "post"
  /\ flushCommands' = flushCommands + 1
  /\ step' = [step EXCEPT ![t] = "idle"]
  /\ UNCHANGED <<accepted, state, sendContextQueue, isSending, fresh, inHand,
                 disconnectCommands, pc, batch, sendEvent, closing, pushed,
                 socket>>

\* Disconnect, which a handler calls for a packet it cannot dispatch.
HandlerDisconnects ==
  /\ HandlerRuns
  /\ disconnectCommands < MaxDisconnects
  /\ disconnectCommands' = disconnectCommands + 1
  /\ UNCHANGED <<accepted, state, sendContextQueue, isSending, callers,
                 flushCommands, pc, batch, sendEvent, closing, pushed, socket>>

----------------------------------------------------------------------------
(***************************************************************************)
(* The owner: FlushSendOwner, DisconnectOwner, OnSendable and the sweep.   *)
(***************************************************************************)

\* FlushSendOwner swaps the queue for an empty one, under _lock.
TakeQueue ==
  /\ pc' = "flush"
  /\ batch' = sendContextQueue
  /\ sendContextQueue' = <<>>

\* A flush command reaches a live session.  A closed one lives on as long as
\* some task holds a reference to it, and is then flushed all the same.
ExecuteFlush ==
  /\ OwnerFree
  /\ flushCommands > 0
  /\ flushCommands' = flushCommands - 1
  /\ TakeQueue
  /\ UNCHANGED <<accepted, state, isSending, callers, disconnectCommands,
                 sendEvent, closing, pushed, socket>>

\* The weak_ptr of a command cannot be locked: nobody holds the session.
ExpireCommands ==
  /\ OwnerFree
  /\ closed
  /\ \A t \in Thread : step[t] = "idle"
  /\ flushCommands + disconnectCommands > 0
  /\ flushCommands' = 0
  /\ disconnectCommands' = 0
  /\ UNCHANGED <<accepted, state, sendContextQueue, isSending, callers, pc,
                 batch, sendEvent, closing, pushed, socket>>

\* EPOLLOUT: OnSendable closes a session that is not connected, and flushes
\* the others.
SendableClosing ==
  /\ OwnerFree
  /\ sendEvent /\ room > 0
  /\ state # "Connected"
  /\ pendingClose' = TRUE
  /\ UNCHANGED <<accepted, state, sendContextQueue, isSending, callers,
                 commands, pc, batch, sendEvent, closed, pushed, socket>>

OnSendable ==
  /\ OwnerFree
  /\ sendEvent /\ room > 0
  /\ state = "Connected"
  /\ TakeQueue
  /\ UNCHANGED <<accepted, state, isSending, callers, commands, sendEvent,
                 closing, pushed, socket>>

\* sendmsg takes a part of the front packet, or all that is left of it.
SendBytes ==
  /\ pc = "flush"
  /\ batch # <<>>
  /\ ~closed
  /\ \E n \in 1 .. room :
       LET p == Head(batch)
           sent == offset[p] + n
       IN  /\ sent <= Size[p]
           /\ offset' = [offset EXCEPT ![p] = sent]
           /\ batch' = IF sent = Size[p] THEN Tail(batch) ELSE batch
           /\ wire' = wire \o [i \in 1 .. n |-> p]
           /\ room' = room - n
  /\ UNCHANGED <<accepted, state, sendContextQueue, isSending, callers,
                 commands, pc, sendEvent, closing, pushed>>

\* Mutants: the front packet is dropped; EPOLLOUT is not asked for.
RequeueWithoutFront ==
  sendContextQueue' = sendContextQueue \o Tail(batch) /\ batch' = <<>>

LeaveSendEvent == UNCHANGED sendEvent

\* Under _lock, the rest of the local queue goes behind what is queued now.
Requeue == sendContextQueue' = sendContextQueue \o batch /\ batch' = <<>>

EnableSendEvent == sendEvent' = TRUE

\* EAGAIN: what is left goes back, behind whatever was pushed meanwhile, and
\* the owner waits for EPOLLOUT with _isSending still set.
SendWouldBlock ==
  /\ pc = "flush"
  /\ batch # <<>>
  /\ ~closed
  /\ room = 0
  /\ Requeue
  /\ EnableSendEvent
  /\ pc' = "idle"
  /\ UNCHANGED <<accepted, state, isSending, callers, commands, closing,
                 pushed, socket>>

\* Mutant: the state is set and the pending close forgotten.
PostDisconnectedOnly == state' = "DisconnectPosted" /\ UNCHANGED pendingClose

\* AddPendingCloseSession and SetState, which always come together.
PostDisconnected == pendingClose' = TRUE /\ state' = "DisconnectPosted"

\* sendmsg fails, or the descriptor is closed: the session is given up with
\* _isSending still set and the rest of the local queue dropped.
SendFails ==
  /\ pc = "flush"
  /\ batch # <<>>
  /\ sendEvent' = FALSE
  /\ PostDisconnected
  /\ batch' = <<>>
  /\ pc' = "idle"
  /\ UNCHANGED <<accepted, sendContextQueue, isSending, callers, commands,
                 closed, pushed, socket>>

\* Everything is sent: DisableSendEvent, then _isSending is released.
ReleaseSending ==
  /\ pc = "flush"
  /\ batch = <<>>
  /\ sendEvent' = FALSE
  /\ isSending' = FALSE
  /\ pc' = "released"
  /\ UNCHANGED <<accepted, state, sendContextQueue, callers, commands, batch,
                 closing, pushed, socket>>

\* Mutant: no second look.
CheckNoMore ==
  /\ pc = "released"
  /\ pc' = "idle"
  /\ UNCHANGED <<accepted, state, sendContextQueue, isSending, callers,
                 commands, batch, sendEvent, closing, pushed, socket>>

\* The second look at the queue, under _lock.
CheckMore ==
  /\ pc = "released"
  /\ pc' = IF sendContextQueue = <<>> THEN "idle" ELSE "reclaim"
  /\ UNCHANGED <<accepted, state, sendContextQueue, isSending, callers,
                 commands, batch, sendEvent, closing, pushed, socket>>

\* Mutant: the flag is set again and nothing is posted.
ReclaimWithoutPost ==
  /\ pc = "reclaim"
  /\ isSending' = TRUE
  /\ pc' = "idle"
  /\ UNCHANGED <<accepted, state, sendContextQueue, callers, commands, batch,
                 sendEvent, closing, pushed, socket>>

\* compare_exchange_strong(false, true).
ReclaimSending ==
  /\ pc = "reclaim"
  /\ isSending' = TRUE
  /\ pc' = IF isSending THEN "idle" ELSE "repost"
  /\ UNCHANGED <<accepted, state, sendContextQueue, callers, commands, batch,
                 sendEvent, closing, pushed, socket>>

RepostFlush ==
  /\ pc = "repost"
  /\ flushCommands' = flushCommands + 1
  /\ pc' = "idle"
  /\ UNCHANGED <<accepted, state, sendContextQueue, isSending, callers,
                 disconnectCommands, batch, sendEvent, closing, pushed,
                 socket>>

DisconnectOwner ==
  /\ OwnerFree
  /\ disconnectCommands > 0
  /\ disconnectCommands' = disconnectCommands - 1
  /\ PostDisconnected
  /\ UNCHANGED <<accepted, sendContextQueue, isSending, callers, flushCommands,
                 pc, batch, sendEvent, closed, pushed, socket>>

\* EPOLLERR, EPOLLHUP, EPOLLRDHUP, end of stream, or input that cannot be
\* parsed.
PeerGone ==
  /\ OwnerFree
  /\ ~closed
  /\ pendingClose' = TRUE
  /\ UNCHANGED <<accepted, state, sendContextQueue, isSending, callers,
                 commands, pc, batch, sendEvent, closed, pushed, socket>>

\* The sweep at the end of the events: it closes a session it still finds.
SweepPendingClose ==
  /\ OwnerFree
  /\ pendingClose
  /\ pendingClose' = FALSE
  /\ state' = IF closed THEN state ELSE "Disconnected"
  /\ sendEvent' = IF closed THEN sendEvent ELSE FALSE
  /\ closed' = TRUE
  /\ UNCHANGED <<accepted, sendContextQueue, isSending, callers, commands, pc,
                 batch, pushed, socket>>

\* The peer acknowledges bytes; the kernel's buffer has room for as many more.
PeerReads ==
  /\ room < SocketRoom
  /\ \E n \in 1 .. SocketRoom - room : room' = room + n
  /\ UNCHANGED <<accepted, state, sendContextQueue, isSending, callers,
                 commands, pc, batch, sendEvent, closing, pushed, offset,
                 wire>>

----------------------------------------------------------------------------
TryFlushSend(t) ==
  \/ \E p \in Packet : CheckState(t, p) \/ RefuseSend(t, p)
  \/ PushContext(t) \/ ExchangeSending(t) \/ PostFlush(t)

FlushSendOwner ==
  \/ SendBytes \/ SendWouldBlock \/ ReleaseSending \/ CheckMore
  \/ ReclaimSending \/ RepostFlush

Next ==
  \/ \E t \in Thread : TryFlushSend(t)
  \/ HandlerDisconnects
  \/ ExecuteFlush \/ ExpireCommands \/ OnSendable \/ SendableClosing
  \/ FlushSendOwner \/ SendFails
  \/ DisconnectOwner \/ PeerGone \/ SweepPendingClose
  \/ PeerReads

\* A thread inside TryFlushSend goes on; the owner runs the posted commands
\* and the events epoll reports; the peer, while connected, reads.
Fairness ==
  /\ \A t \in Thread :
       WF_vars(PushContext(t) \/ ExchangeSending(t) \/ PostFlush(t))
  /\ WF_vars(ExecuteFlush)
  /\ WF_vars(OnSendable)
  /\ WF_vars(FlushSendOwner)
  /\ WF_vars(DisconnectOwner)
  /\ WF_vars(SweepPendingClose)
  /\ WF_vars(PeerReads)

SafeSpec == Init /\ [][Next]_vars

Spec == SafeSpec /\ Fairness

----------------------------------------------------------------------------
States == {"Connected", "DisconnectPosted", "Disconnected"}

TypeOK ==
  /\ accepted \in Kinds
  /\ state \in States
  /\ sendContextQueue \in Seq(Packet)
  /\ isSending \in BOOLEAN
  /\ offset \in [Packet -> Nat]
  /\ fresh \subseteq Packet
  /\ step \in [Thread -> {"idle", "push", "exchange", "post"}]
  /\ inHand \in [Thread -> Packet \cup {NoPacket}]
  /\ \A t \in Thread : step[t] = "push" <=> inHand[t] \in Packet
  /\ flushCommands \in Nat
  /\ disconnectCommands \in Nat
  /\ pc \in {"idle", "flush", "released", "reclaim", "repost"}
  /\ batch \in Seq(Packet)
  /\ sendEvent \in BOOLEAN
  /\ pendingClose \in BOOLEAN
  /\ closed \in BOOLEAN
  /\ room \in 0 .. SocketRoom
  /\ pushed \in Seq(Packet)
  /\ wire \in Seq(Packet)

\* No lost send: while the session is connected, a queued packet has someone
\* who will see to it: the holder of _isSending, a thread that pushed and has
\* yet to exchange the flag, or the owner before its second look at the queue.
NoLostSend ==
  sendContextQueue # <<>> /\ state = "Connected" =>
    \/ isSending
    \/ \E t \in Thread : step[t] = "exchange"
    \/ pc \in {"released", "reclaim"}

\* _isSending is never left set with nobody to release it: on a connected
\* session a flush is running, posted, about to be posted, or due at EPOLLOUT.
SendingHasFlusher ==
  isSending /\ state = "Connected" =>
    \/ pc \in {"flush", "repost"}
    \/ flushCommands > 0
    \/ \E t \in Thread : step[t] = "post"
    \/ sendEvent

\* The flush of an accepted session is scheduled only once (Session.cpp:43): no
\* second flush command is posted, or about to be, while one is waiting, running
\* or due at EPOLLOUT.
FlushScheduledOnce ==
  accepted =>
    /\ flushCommands <= 1
    /\ \A t \in Thread : step[t] = "post" =>
         /\ \A u \in Thread \ {t} : step[u] # "post"
         /\ flushCommands = 0
         /\ pc \notin {"flush", "repost"}
         /\ ~sendEvent
    /\ flushCommands > 0 => pc \notin {"flush", "repost"} /\ ~sendEvent

\* Packets are neither lost nor doubled by partial sends and requeueing: on a
\* connected session an unfinished packet stands in the queue or in the local
\* queue exactly once, and a finished one in neither.
Occurrences(p) ==
  Cardinality({i \in DOMAIN (batch \o sendContextQueue) :
                 (batch \o sendContextQueue)[i] = p})

PacketsConserved ==
  state = "Connected" =>
    \A p \in ToSet(pushed) :
      Occurrences(p) = IF offset[p] < Size[p] THEN 1 ELSE 0

\* The bytes of a packet are contiguous on the connection, so that the peer
\* finds the next packet's header where the size of the last one says.
PacketsContiguous ==
  \A i, j \in DOMAIN wire :
    i < j /\ wire[i] = wire[j] => \A k \in i .. j : wire[k] = wire[i]

\* A pushed packet is sent completely, unless the session goes down.
PushedIsSent ==
  \A p \in Packet :
    (p \in ToSet(pushed)) ~> (offset[p] = Size[p] \/ state # "Connected")

\* A session that leaves Connected is closed by the sweep, though the state
\* is set in one place and the pending close recorded in another.
LeavingIsClosed == (state # "Connected") ~> closed
=============================================================================
