------------------------- MODULE SessionSendProofs -------------------------
(***************************************************************************)
(* The send path, for any number of sending threads, any packets and any   *)
(* size of the kernel's buffer.  _isSending is a token that is passed on:  *)
(* from the thread that turns it true to its flush command, from the       *)
(* command to the running flush, from there to the EPOLLOUT interest or    *)
(* back to nobody.  NoLostSend says a queued packet finds the token or     *)
(* somebody about to look for it, SendingHasFlusher that the token is not  *)
(* dropped, FlushScheduledOnce that there is one.  PacketsConserved is     *)
(* about the contexts: the queue, the batch and what goes back from one to *)
(* the other never hold a packet twice.                                    *)
(***************************************************************************)
EXTENDS SessionSend, FiniteSetTheorems, TLAPS

\* A session that was closed is not connected again.
ClosedIsDown == closed => state # "Connected"

\* Nobody holds the token.
NoFlusher ==
  /\ flushCommands = 0
  /\ \A t \in Thread : step[t] # "post"
  /\ pc \notin {"flush", "repost"}
  /\ ~sendEvent

OnceInv ==
  accepted => /\ FlushScheduledOnce
              /\ ~isSending => NoFlusher
              /\ pc = "repost" => ~sendEvent

----------------------------------------------------------------------------
\* Every variable of the send path keeps its type.
THEOREM TypeInvariant == SafeSpec => []TypeOK
<1> USE OwnerAssumption, NoPacketAssumption, SizeAssumption,
        SocketRoomAssumption, KindsAssumption
<1>1. Init => TypeOK
  <2> SUFFICES ASSUME Init PROVE TypeOK
    OBVIOUS
  <2>1. /\ sendContextQueue \in Seq(Packet) /\ batch \in Seq(Packet)
        /\ pushed \in Seq(Packet) /\ wire \in Seq(Packet)
    BY DEF Init
  <2>2. /\ step \in [Thread -> {"idle", "push", "exchange", "post"}]
        /\ inHand \in [Thread -> Packet \cup {NoPacket}]
        /\ \A t \in Thread : step[t] = "push" <=> inHand[t] \in Packet
    BY DEF Init
  <2>3. sendEvent \in BOOLEAN /\ accepted \in Kinds
    BY Zenon DEF Init
  <2>4. /\ isSending \in BOOLEAN /\ pendingClose \in BOOLEAN
        /\ closed \in BOOLEAN
    BY Zenon DEF Init
  <2>5. /\ state \in States /\ fresh \subseteq Packet
        /\ flushCommands \in Nat /\ disconnectCommands \in Nat
        /\ pc \in {"idle", "flush", "released", "reclaim", "repost"}
        /\ room \in 0 .. SocketRoom /\ offset \in [Packet -> Nat]
    BY DEF Init, States
  <2>6. QED
    BY <2>1, <2>2, <2>3, <2>4, <2>5 DEF TypeOK
<1>2. TypeOK /\ [Next]_vars => TypeOK'
  <2> SUFFICES ASSUME TypeOK, [Next]_vars PROVE TypeOK'
    OBVIOUS
  <2> USE DEF TypeOK, States, callers, commands, socket, closing
  <2>1. ASSUME NEW t \in Thread, NEW p \in Packet, CheckState(t, p)
        PROVE  TypeOK'
    BY <2>1 DEF CheckState
  <2>2. ASSUME NEW t \in Thread, NEW p \in Packet, RefuseSend(t, p)
        PROVE  TypeOK'
    BY <2>2 DEF RefuseSend
  <2>3. ASSUME NEW t \in Thread, PushContext(t) PROVE TypeOK'
    <3>1. inHand[t] \in Packet
      BY <2>3 DEF PushContext
    <3>2. sendContextQueue' \in Seq(Packet) /\ pushed' \in Seq(Packet)
      BY <2>3, <3>1 DEF PushContext
    <3>3. QED
      BY <2>3, <3>2 DEF PushContext
  <2>4. ASSUME NEW t \in Thread, ExchangeSending(t) PROVE TypeOK'
    BY <2>4 DEF ExchangeSending
  <2>5. ASSUME NEW t \in Thread, PostFlush(t) PROVE TypeOK'
    BY <2>5 DEF PostFlush
  <2>6. CASE HandlerDisconnects
    BY <2>6 DEF HandlerDisconnects
  <2>7. CASE ExpireCommands
    BY <2>7 DEF ExpireCommands
  <2>8. CASE ExecuteFlush
    BY <2>8 DEF ExecuteFlush, TakeQueue
  <2>9. CASE OnSendable
    BY <2>9 DEF OnSendable, TakeQueue
  <2>10. CASE SendableClosing
    BY <2>10 DEF SendableClosing
  <2>11. CASE SendBytes
    <3>1. PICK n \in 1 .. room :
            /\ offset' = [offset EXCEPT ![Head(batch)] = offset[Head(batch)] + n]
            /\ batch' = batch \/ batch' = Tail(batch)
            /\ wire' = wire \o [i \in 1 .. n |-> Head(batch)]
            /\ room' = room - n
      BY <2>11 DEF SendBytes
    <3>2. batch # <<>> /\ Head(batch) \in Packet
      BY <2>11 DEF SendBytes
    <3>3. batch' \in Seq(Packet)
      <4>1. Tail(batch) \in Seq(Packet)
        BY <3>2
      <4>2. QED
        BY <3>1, <4>1
    <3>4. wire' \in Seq(Packet)
      <4>1. [i \in 1 .. n |-> Head(batch)] \in Seq(Packet)
        BY <3>2
      <4>2. QED
        BY <3>1, <4>1
    <3>5. offset' \in [Packet -> Nat]
      BY <3>1, <3>2
    <3>6. room' \in 0 .. SocketRoom
      BY <3>1
    <3>7. QED
      BY <2>11, <3>3, <3>4, <3>5, <3>6 DEF SendBytes
  <2>12. CASE SendWouldBlock
    <3>1. sendContextQueue' \in Seq(Packet) /\ batch' \in Seq(Packet)
      BY <2>12 DEF SendWouldBlock, Requeue
    <3>2. QED
      BY <2>12, <3>1 DEF SendWouldBlock, EnableSendEvent
  <2>13. CASE SendFails
    <3>1. /\ state' \in States /\ batch' \in Seq(Packet)
          /\ pc' \in {"idle", "flush", "released", "reclaim", "repost"}
      BY <2>13 DEF SendFails, PostDisconnected
    <3>2. sendEvent' \in BOOLEAN /\ pendingClose' \in BOOLEAN
      BY <2>13 DEF SendFails, PostDisconnected
    <3>3. UNCHANGED <<accepted, sendContextQueue, isSending, fresh, step, inHand,
                      flushCommands, disconnectCommands, closed, pushed,
                      offset, room, wire>>
      BY <2>13 DEF SendFails
    <3>4. QED
      BY <3>1, <3>2, <3>3
  <2>14. CASE ReleaseSending
    BY <2>14 DEF ReleaseSending
  <2>15. CASE CheckMore
    BY <2>15 DEF CheckMore
  <2>16. CASE ReclaimSending
    BY <2>16 DEF ReclaimSending
  <2>17. CASE RepostFlush
    BY <2>17 DEF RepostFlush
  <2>18. CASE DisconnectOwner
    BY <2>18 DEF DisconnectOwner, PostDisconnected
  <2>19. CASE PeerGone
    BY <2>19 DEF PeerGone
  <2>20. CASE SweepPendingClose
    BY <2>20 DEF SweepPendingClose
  <2>21. CASE PeerReads
    BY <2>21 DEF PeerReads
  <2>22. CASE UNCHANGED vars
    BY <2>22 DEF vars
  <2>23. QED
    BY <2>1, <2>2, <2>3, <2>4, <2>5, <2>6, <2>7, <2>8, <2>9, <2>10, <2>11,
       <2>12, <2>13, <2>14, <2>15, <2>16, <2>17, <2>18, <2>19, <2>20, <2>21,
       <2>22 DEF Next, TryFlushSend, FlushSendOwner
<1>3. QED
  BY <1>1, <1>2, PTL DEF SafeSpec

\* The sweep leaves nothing connected.
LEMMA ClosedIsDownHolds == SafeSpec => []ClosedIsDown
<1> USE DEF ClosedIsDown, callers, commands, socket, closing
<1>1. Init => ClosedIsDown
  BY DEF Init
<1>2. ClosedIsDown /\ [Next]_vars => ClosedIsDown'
  <2> SUFFICES ASSUME ClosedIsDown, [Next]_vars PROVE ClosedIsDown'
    OBVIOUS
  <2>1. CASE SendFails \/ DisconnectOwner \/ SweepPendingClose
    \* The three that take the state down or close.
    BY <2>1 DEF SendFails, DisconnectOwner, PostDisconnected, SweepPendingClose
  <2>2. UNCHANGED <<closed, state>> => ClosedIsDown'
    OBVIOUS
  <2>3. ASSUME NEW t \in Thread, TryFlushSend(t) PROVE UNCHANGED <<closed, state>>
    BY <2>3 DEF TryFlushSend, CheckState, RefuseSend, PushContext,
                ExchangeSending, PostFlush
  <2>4. CASE HandlerDisconnects \/ ExecuteFlush \/ ExpireCommands \/ OnSendable
               \/ SendableClosing \/ FlushSendOwner \/ PeerGone \/ PeerReads
    BY <2>1, <2>4 DEF HandlerDisconnects, ExecuteFlush, ExpireCommands, OnSendable,
                SendableClosing, FlushSendOwner, SendBytes, SendWouldBlock,
                ReleaseSending, CheckMore, ReclaimSending, RepostFlush,
                PeerGone, PeerReads
  <2> QED
    BY <2>1, <2>2, <2>3, <2>4 DEF Next, vars
<1>3. QED
  BY <1>1, <1>2, PTL DEF SafeSpec

----------------------------------------------------------------------------
\* A packet the owner has taken and not sent has somebody, too: the holder of
\* _isSending or the thread that pushed it and is about to exchange the flag.
TakenIsSeen ==
  pc = "flush" /\ batch # <<>> /\ state = "Connected" =>
    isSending \/ \E t \in Thread : step[t] = "exchange"

\* While the session is connected no packet stays in the queue unseen: the
\* push comes before the exchange, and the release before the second look.
THEOREM NoLostSendHolds == SafeSpec => []NoLostSend
<1> DEFINE LostInv == NoLostSend /\ TakenIsSeen
<1> USE DEF NoLostSend, TakenIsSeen, callers, commands, socket, closing
<1>1. Init => LostInv
  BY DEF Init
<1>2. TypeOK /\ LostInv /\ [Next]_vars => LostInv'
  <2> SUFFICES ASSUME TypeOK, LostInv, [Next]_vars PROVE LostInv'
    OBVIOUS
  <2>0. step \in [Thread -> {"idle", "push", "exchange", "post"}]
    BY DEF TypeOK
  <2>1. ASSUME NEW t \in Thread, NEW p \in Packet,
               CheckState(t, p) \/ RefuseSend(t, p)
        PROVE  LostInv'
    BY <2>0, <2>1 DEF CheckState, RefuseSend
  <2>2. ASSUME NEW t \in Thread, PushContext(t) PROVE LostInv'
    BY <2>0, <2>2 DEF PushContext
  <2>3. ASSUME NEW t \in Thread, ExchangeSending(t) PROVE LostInv'
    BY <2>3 DEF ExchangeSending
  <2>4. ASSUME NEW t \in Thread, PostFlush(t) PROVE LostInv'
    BY <2>0, <2>4 DEF PostFlush
  <2>5. CASE ExecuteFlush \/ OnSendable
    BY <2>5 DEF ExecuteFlush, OnSendable, TakeQueue, OwnerFree
  <2>6. CASE HandlerDisconnects \/ ExpireCommands \/ SendableClosing
               \/ PeerGone \/ PeerReads
    BY <2>6 DEF HandlerDisconnects, ExpireCommands, SendableClosing, PeerGone,
                PeerReads
  <2>7. CASE SendBytes
    BY <2>7 DEF SendBytes
  <2>8. CASE SendWouldBlock
    BY <2>8 DEF SendWouldBlock
  <2>9. CASE SendFails \/ DisconnectOwner
    BY <2>9 DEF SendFails, DisconnectOwner, PostDisconnected
  <2>10. CASE ReleaseSending \/ CheckMore \/ ReclaimSending \/ RepostFlush
    BY <2>10 DEF ReleaseSending, CheckMore, ReclaimSending, RepostFlush
  <2>11. CASE SweepPendingClose
    BY <2>11 DEF SweepPendingClose
  <2>12. CASE UNCHANGED vars
    BY <2>12 DEF vars
  <2>13. QED
    BY <2>1, <2>2, <2>3, <2>4, <2>5, <2>6, <2>7, <2>8, <2>9, <2>10, <2>11,
       <2>12 DEF Next, TryFlushSend, FlushSendOwner
<1>3. QED
  BY <1>1, <1>2, TypeInvariant, PTL DEF SafeSpec

\* _isSending is not left set without anybody to release it, so that no later
\* sender waits for a flush that nobody has posted.
THEOREM SendingHasFlusherHolds == SafeSpec => []SendingHasFlusher
<1> USE DEF SendingHasFlusher, callers, commands, socket, closing
<1>1. Init => SendingHasFlusher
  BY DEF Init
<1>2. TypeOK /\ ClosedIsDown /\ SendingHasFlusher /\ [Next]_vars
        => SendingHasFlusher'
  <2> SUFFICES ASSUME TypeOK, ClosedIsDown, SendingHasFlusher, [Next]_vars
               PROVE  SendingHasFlusher'
    OBVIOUS
  <2>0. /\ step \in [Thread -> {"idle", "push", "exchange", "post"}]
        /\ flushCommands \in Nat
    BY DEF TypeOK
  <2>1. ASSUME NEW t \in Thread, NEW p \in Packet,
               CheckState(t, p) \/ RefuseSend(t, p)
        PROVE  SendingHasFlusher'
    BY <2>0, <2>1 DEF CheckState, RefuseSend
  <2>2. ASSUME NEW t \in Thread, PushContext(t) PROVE SendingHasFlusher'
    BY <2>0, <2>2 DEF PushContext
  <2>3. ASSUME NEW t \in Thread, ExchangeSending(t) PROVE SendingHasFlusher'
    BY <2>0, <2>3 DEF ExchangeSending
  <2>4. ASSUME NEW t \in Thread, PostFlush(t) PROVE SendingHasFlusher'
    BY <2>0, <2>4 DEF PostFlush
  <2>5. CASE ExecuteFlush \/ OnSendable
    BY <2>5 DEF ExecuteFlush, OnSendable, TakeQueue
  <2>6. CASE ExpireCommands
    BY <2>6 DEF ExpireCommands, ClosedIsDown
  <2>7. CASE HandlerDisconnects \/ SendableClosing \/ PeerGone \/ PeerReads
    BY <2>7 DEF HandlerDisconnects, SendableClosing, PeerGone, PeerReads
  <2>8. CASE SendBytes
    BY <2>8 DEF SendBytes
  <2>9. CASE SendWouldBlock
    BY <2>9 DEF SendWouldBlock, EnableSendEvent
  <2>10. CASE SendFails \/ DisconnectOwner
    BY <2>10 DEF SendFails, DisconnectOwner, PostDisconnected
  <2>11. CASE ReleaseSending \/ CheckMore \/ ReclaimSending
    BY <2>11 DEF ReleaseSending, CheckMore, ReclaimSending
  <2>12. CASE RepostFlush
    BY <2>0, <2>12 DEF RepostFlush
  <2>13. CASE SweepPendingClose
    BY <2>13 DEF SweepPendingClose, ClosedIsDown
  <2>14. CASE UNCHANGED vars
    BY <2>14 DEF vars
  <2>15. QED
    BY <2>1, <2>2, <2>3, <2>4, <2>5, <2>6, <2>7, <2>8, <2>9, <2>10, <2>11,
       <2>12, <2>13, <2>14 DEF Next, TryFlushSend, FlushSendOwner
<1>3. QED
  BY <1>1, <1>2, TypeInvariant, ClosedIsDownHolds, PTL DEF SafeSpec

----------------------------------------------------------------------------
\* On an accepted session, whose EPOLLOUT interest belongs to the send path
\* alone, there is one token: no flush is posted while another is waiting,
\* running or due.
THEOREM FlushScheduledOnceHolds == SafeSpec => []FlushScheduledOnce
<1> USE KindsAssumption DEF OnceInv, FlushScheduledOnce, NoFlusher, callers, commands, socket,
            closing
<1>1. Init => OnceInv
  <2> SUFFICES ASSUME Init PROVE OnceInv
    OBVIOUS
  <2>1. accepted => ~sendEvent
    BY Zenon DEF Init
  <2>2. QED
    BY <2>1 DEF Init
<1>2. TypeOK /\ OnceInv /\ [Next]_vars => OnceInv'
  <2> SUFFICES ASSUME TypeOK, OnceInv, [Next]_vars PROVE OnceInv'
    OBVIOUS
  <2>0. /\ step \in [Thread -> {"idle", "push", "exchange", "post"}]
        /\ flushCommands \in Nat /\ isSending \in BOOLEAN
        /\ sendEvent \in BOOLEAN /\ accepted \in BOOLEAN
    BY DEF TypeOK
  <2>1. ASSUME NEW t \in Thread, NEW p \in Packet,
               CheckState(t, p) \/ RefuseSend(t, p)
        PROVE  OnceInv'
    BY <2>0, <2>1 DEF CheckState, RefuseSend
  <2>2. ASSUME NEW t \in Thread, PushContext(t) PROVE OnceInv'
    BY <2>0, <2>2 DEF PushContext
  <2>3. ASSUME NEW t \in Thread, ExchangeSending(t) PROVE OnceInv'
    <3>1. CASE isSending
      BY <2>0, <2>3, <3>1 DEF ExchangeSending
    <3>2. CASE ~isSending
      BY <2>0, <2>3, <3>2 DEF ExchangeSending
    <3>3. QED
      BY <3>1, <3>2
  <2>4. ASSUME NEW t \in Thread, PostFlush(t) PROVE OnceInv'
    <3>1. accepted =>
          /\ flushCommands = 0 /\ pc \notin {"flush", "repost"} /\ ~sendEvent
          /\ \A u \in Thread \ {t} : step[u] # "post"
          /\ isSending
      BY <2>4 DEF PostFlush
    <3>2. accepted => \A u \in Thread : step'[u] # "post"
      BY <2>0, <2>4, <3>1 DEF PostFlush
    <3>3. QED
      BY <2>4, <3>1, <3>2 DEF PostFlush
  <2>5. CASE ExecuteFlush
    BY <2>0, <2>5 DEF ExecuteFlush, TakeQueue
  <2>6. CASE OnSendable
    BY <2>0, <2>6 DEF OnSendable, TakeQueue
  <2>7. CASE ExpireCommands
    BY <2>0, <2>7 DEF ExpireCommands
  <2>8. CASE HandlerDisconnects \/ SendableClosing \/ PeerGone \/ PeerReads
    BY <2>8 DEF HandlerDisconnects, SendableClosing, PeerGone, PeerReads
  <2>9. CASE SendBytes
    BY <2>9 DEF SendBytes
  <2>10. CASE SendWouldBlock
    BY <2>0, <2>10 DEF SendWouldBlock, EnableSendEvent
  <2>11. CASE SendFails
    BY <2>0, <2>11 DEF SendFails
  <2>12. CASE ReleaseSending
    BY <2>0, <2>12 DEF ReleaseSending
  <2>13. CASE CheckMore
    BY <2>0, <2>13 DEF CheckMore
  <2>14. CASE ReclaimSending
    BY <2>0, <2>14 DEF ReclaimSending
  <2>15. CASE RepostFlush
    BY <2>0, <2>15 DEF RepostFlush
  <2>16. CASE DisconnectOwner
    BY <2>16 DEF DisconnectOwner
  <2>17. CASE SweepPendingClose
    BY <2>0, <2>17 DEF SweepPendingClose
  <2>18. CASE UNCHANGED vars
    BY <2>18 DEF vars
  <2>19. QED
    BY <2>1, <2>2, <2>3, <2>4, <2>5, <2>6, <2>7, <2>8, <2>9, <2>10, <2>11,
       <2>12, <2>13, <2>14, <2>15, <2>16, <2>17, <2>18
       DEF Next, TryFlushSend, FlushSendOwner
<1>3. QED
  BY <1>1, <1>2, TypeInvariant, PTL DEF SafeSpec

----------------------------------------------------------------------------
(***************************************************************************)
(* What is waiting to be sent.  A packet passes from fresh to one thread's *)
(* hand, from there to the queue, and then between the queue and the local *)
(* queue; it leaves them with its last byte.  The queues are compared as   *)
(* the sets of their elements: SendWouldBlock puts the one behind the      *)
(* other, which changes the order and neither the elements nor that each   *)
(* stands there once.                                                      *)
(***************************************************************************)

\* A packet is handed over once, by one thread, with nothing sent of it.
HandedOnce ==
  /\ ToSet(pushed) \cap fresh = {}
  /\ \A t \in Thread : step[t] = "push" =>
       /\ inHand[t] \notin fresh \cup ToSet(pushed)
       /\ \A u \in Thread \ {t} : inHand[u] # inHand[t]
  /\ \A p \in Packet \ ToSet(pushed) : offset[p] = 0

\* FlushSendOwner leaves nothing in the local queue when it returns.
BatchInFlush == pc # "flush" => batch = <<>>

\* No packet stands in the queues twice.
WaitingOnce ==
  /\ IsInjective(batch)
  /\ IsInjective(sendContextQueue)
  /\ ToSet(batch) \cap ToSet(sendContextQueue) = {}

Unfinished == {p \in ToSet(pushed) : offset[p] < Size[p]}

\* What waits is unfinished, and on a connected session all of that waits.
UnfinishedWaits ==
  /\ ToSet(batch) \cup ToSet(sendContextQueue) \subseteq Unfinished
  /\ state = "Connected" =>
       Unfinished \subseteq ToSet(batch) \cup ToSet(sendContextQueue)

WaitingInv == HandedOnce /\ BatchInFlush /\ WaitingOnce /\ UnfinishedWaits

LEMMA EmptyElements == ToSet(<<>>) = {} /\ IsInjective(<<>>)
BY DEF ToSet, IsInjective

LEMMA AppendElements ==
  ASSUME NEW S, NEW q \in Seq(S), NEW e \in S
  PROVE  /\ ToSet(Append(q, e)) = ToSet(q) \cup {e}
         /\ IsInjective(q) /\ e \notin ToSet(q) => IsInjective(Append(q, e))
<1> DEFINE r == Append(q, e)
<1>1. /\ r \in Seq(S) /\ Len(r) = Len(q) + 1 /\ r[Len(q) + 1] = e
      /\ \A i \in 1 .. Len(q) : r[i] = q[i]
      /\ DOMAIN r = 1 .. Len(q) + 1 /\ DOMAIN q = 1 .. Len(q)
      /\ Len(q) \in Nat
  OBVIOUS
<1>2. ToSet(r) = ToSet(q) \cup {e}
  <2>1. ASSUME NEW x \in ToSet(r) PROVE x \in ToSet(q) \cup {e}
    BY <1>1, <2>1 DEF ToSet
  <2>2. ASSUME NEW x \in ToSet(q) \cup {e} PROVE x \in ToSet(r)
    BY <1>1, <2>2 DEF ToSet
  <2>3. QED
    BY <2>1, <2>2
<1>3. IsInjective(q) /\ e \notin ToSet(q) => IsInjective(r)
  BY <1>1 DEF ToSet, IsInjective
<1>4. QED
  BY <1>2, <1>3

LEMMA ConcatElements ==
  ASSUME NEW S, NEW q \in Seq(S), NEW r \in Seq(S)
  PROVE  /\ ToSet(q \o r) = ToSet(q) \cup ToSet(r)
         /\ IsInjective(q) /\ IsInjective(r) /\ ToSet(q) \cap ToSet(r) = {}
              => IsInjective(q \o r)
<1> DEFINE w == q \o r
<1>1. /\ Len(w) = Len(q) + Len(r) /\ Len(q) \in Nat /\ Len(r) \in Nat
      /\ DOMAIN w = 1 .. Len(q) + Len(r)
      /\ DOMAIN q = 1 .. Len(q) /\ DOMAIN r = 1 .. Len(r)
      /\ \A i \in 1 .. Len(q) : w[i] = q[i]
      /\ \A i \in 1 .. Len(q) + Len(r) : i > Len(q) => w[i] = r[i - Len(q)]
      /\ \A j \in 1 .. Len(r) : w[Len(q) + j] = r[j]
  OBVIOUS
<1>2. ToSet(w) = ToSet(q) \cup ToSet(r)
  <2>1. ASSUME NEW i \in DOMAIN w PROVE w[i] \in ToSet(q) \cup ToSet(r)
    <3>1. CASE i <= Len(q)
      BY <1>1, <3>1 DEF ToSet
    <3>2. CASE i > Len(q)
      <4>1. i - Len(q) \in DOMAIN r /\ w[i] = r[i - Len(q)]
        BY <1>1, <3>2
      <4>2. QED
        BY <4>1 DEF ToSet
    <3>3. QED
      BY <1>1, <3>1, <3>2
  <2>2. ASSUME NEW i \in DOMAIN q PROVE q[i] \in ToSet(w)
    BY <1>1 DEF ToSet
  <2>3. ASSUME NEW j \in DOMAIN r PROVE r[j] \in ToSet(w)
    <3>1. Len(q) + j \in DOMAIN w /\ w[Len(q) + j] = r[j]
      BY <1>1
    <3>2. QED
      BY <3>1 DEF ToSet
  <2>4. QED
    BY <2>1, <2>2, <2>3 DEF ToSet
<1>3. ASSUME IsInjective(q), IsInjective(r), ToSet(q) \cap ToSet(r) = {},
             NEW i \in DOMAIN w, NEW j \in DOMAIN w, w[i] = w[j]
      PROVE  i = j
  <2>1. CASE i <= Len(q) /\ j <= Len(q)
    BY <1>1, <1>3, <2>1 DEF IsInjective
  <2>2. CASE i > Len(q) /\ j > Len(q)
    <3>1. i - Len(q) \in DOMAIN r /\ j - Len(q) \in DOMAIN r
      BY <1>1, <2>2
    <3>2. r[i - Len(q)] = r[j - Len(q)]
      BY <1>1, <1>3, <2>2
    <3>3. i - Len(q) = j - Len(q)
      BY <1>3, <3>1, <3>2 DEF IsInjective
    <3>4. QED
      BY <1>1, <3>3
  <2>3. ASSUME NEW m \in DOMAIN w, NEW n \in DOMAIN w, m <= Len(q),
               n > Len(q), w[m] = w[n]
        PROVE  FALSE
    <3>1. w[m] \in ToSet(q)
      BY <1>1, <2>3 DEF ToSet
    <3>2. n - Len(q) \in DOMAIN r /\ w[n] = r[n - Len(q)]
      BY <1>1, <2>3
    <3>3. w[n] \in ToSet(r)
      BY <3>2 DEF ToSet
    <3>4. QED
      BY <1>3, <2>3, <3>1, <3>3
  <2>4. QED
    BY <1>1, <1>3, <2>1, <2>2, <2>3
<1>4. QED
  BY <1>2, <1>3 DEF IsInjective

LEMMA TailElements ==
  ASSUME NEW S, NEW q \in Seq(S), q # <<>>, IsInjective(q)
  PROVE  /\ Head(q) \in ToSet(q)
         /\ ToSet(Tail(q)) = ToSet(q) \ {Head(q)}
         /\ IsInjective(Tail(q))
<1> DEFINE r == Tail(q)
<1>1. /\ Len(q) \in Nat /\ Len(q) >= 1 /\ Head(q) = q[1]
      /\ DOMAIN q = 1 .. Len(q) /\ DOMAIN r = 1 .. Len(q) - 1
      /\ \A i \in 1 .. Len(q) - 1 : r[i] = q[i + 1]
  OBVIOUS
<1>2. Head(q) \in ToSet(q)
  BY <1>1 DEF ToSet
<1>3. ASSUME NEW i \in DOMAIN r PROVE r[i] \in ToSet(q) \ {Head(q)}
  <2>1. i + 1 \in DOMAIN q /\ 1 \in DOMAIN q /\ i + 1 # 1
    BY <1>1
  <2>2. q[i + 1] # q[1]
    BY <2>1 DEF IsInjective
  <2>3. QED
    BY <1>1, <2>1, <2>2 DEF ToSet
<1>4. ASSUME NEW i \in DOMAIN q, q[i] # Head(q) PROVE q[i] \in ToSet(r)
  <2>1. i - 1 \in DOMAIN r /\ r[i - 1] = q[i]
    BY <1>1, <1>4
  <2>2. QED
    BY <2>1 DEF ToSet
<1>5. ToSet(r) = ToSet(q) \ {Head(q)}
  BY <1>3, <1>4 DEF ToSet
<1>6. ASSUME NEW i \in DOMAIN r, NEW j \in DOMAIN r, r[i] = r[j] PROVE i = j
  <2>1. i + 1 \in DOMAIN q /\ j + 1 \in DOMAIN q /\ q[i + 1] = q[j + 1]
    BY <1>1, <1>6
  <2>2. i + 1 = j + 1
    BY <2>1 DEF IsInjective
  <2>3. QED
    BY <1>1, <2>2
<1>7. QED
  BY <1>2, <1>5, <1>6 DEF IsInjective

\* An element of an injective sequence stands at one position of it.
LEMMA OnePosition ==
  ASSUME NEW w, IsInjective(w), NEW p
  PROVE  Cardinality({i \in DOMAIN w : w[i] = p})
           = IF p \in ToSet(w) THEN 1 ELSE 0
<1> DEFINE At == {i \in DOMAIN w : w[i] = p}
<1>1. CASE p \in ToSet(w)
  <2>1. PICK k \in DOMAIN w : w[k] = p
    BY <1>1 DEF ToSet
  <2>2. At = {k}
    BY <2>1 DEF IsInjective
  <2>3. QED
    BY <1>1, <2>2, FS_Singleton
<1>2. CASE p \notin ToSet(w)
  <2>1. At = {}
    BY <1>2 DEF ToSet
  <2>2. QED
    BY <1>2, <2>1, FS_EmptySet
<1>3. QED
  BY <1>1, <1>2

\* Every step keeps the queues and the unfinished packets in agreement.
LEMMA WaitingInvHolds == SafeSpec => []WaitingInv
<1> USE SizeAssumption DEF callers, commands, socket, closing
<1>1. Init => WaitingInv
  <2> SUFFICES ASSUME Init PROVE WaitingInv
    OBVIOUS
  <2>1. /\ ToSet(batch) = {} /\ ToSet(sendContextQueue) = {}
        /\ ToSet(pushed) = {} /\ IsInjective(batch)
        /\ IsInjective(sendContextQueue)
    BY EmptyElements DEF Init
  <2>2. HandedOnce /\ BatchInFlush
    BY <2>1 DEF Init, HandedOnce, BatchInFlush
  <2>3. WaitingOnce /\ UnfinishedWaits
    BY <2>1 DEF WaitingOnce, UnfinishedWaits, Unfinished
  <2>4. QED
    BY <2>2, <2>3 DEF WaitingInv
<1>2. TypeOK /\ WaitingInv /\ [Next]_vars => WaitingInv'
  <2> SUFFICES ASSUME TypeOK, WaitingInv, [Next]_vars PROVE WaitingInv'
    OBVIOUS
  <2>0. /\ step \in [Thread -> {"idle", "push", "exchange", "post"}]
        /\ inHand \in [Thread -> Packet \cup {NoPacket}]
        /\ \A t \in Thread : step[t] = "push" <=> inHand[t] \in Packet
        /\ offset \in [Packet -> Nat] /\ fresh \subseteq Packet
        /\ batch \in Seq(Packet) /\ sendContextQueue \in Seq(Packet)
        /\ pushed \in Seq(Packet) /\ room \in 0 .. SocketRoom
    BY DEF TypeOK
  <2>01. HandedOnce /\ BatchInFlush /\ WaitingOnce /\ UnfinishedWaits
    BY DEF WaitingInv
  <2>02. /\ ToSet(batch) \subseteq Packet
         /\ ToSet(sendContextQueue) \subseteq Packet
         /\ ToSet(pushed) \subseteq Packet
    BY <2>0 DEF ToSet
  <2>1. ASSUME NEW t \in Thread, NEW p \in Packet, CheckState(t, p)
        PROVE  WaitingInv'
    <3>1. UNCHANGED <<state, sendContextQueue, batch, pc, pushed, offset>>
      BY <2>1 DEF CheckState
    <3>2. p \notin ToSet(pushed)
      BY <2>1, <2>01 DEF CheckState, HandedOnce
    <3>3. ASSUME NEW u \in Thread, step[u] = "push"
          PROVE  inHand[u] # p
      BY <2>1, <2>01, <3>3 DEF CheckState, HandedOnce
    <3>4. HandedOnce'
      BY <2>0, <2>1, <2>01, <3>1, <3>2, <3>3 DEF CheckState, HandedOnce
    <3>5. QED
      BY <2>01, <3>1, <3>4
         DEF WaitingInv, BatchInFlush, WaitingOnce, UnfinishedWaits, Unfinished
  <2>2. ASSUME NEW t \in Thread, NEW p \in Packet, RefuseSend(t, p)
        PROVE  WaitingInv'
    <3>1. UNCHANGED <<state, sendContextQueue, batch, pc, pushed, offset>>
      BY <2>2 DEF RefuseSend
    <3>2. HandedOnce'
      BY <2>2, <2>01, <3>1 DEF RefuseSend, HandedOnce
    <3>3. QED
      BY <2>01, <3>1, <3>2
         DEF WaitingInv, BatchInFlush, WaitingOnce, UnfinishedWaits, Unfinished
  <2>3. ASSUME NEW t \in Thread, PushContext(t) PROVE WaitingInv'
    <3> DEFINE p == inHand[t]
    <3>1. /\ step[t] = "push" /\ p \in Packet
          /\ p \notin fresh /\ p \notin ToSet(pushed)
          /\ \A u \in Thread \ {t} : inHand[u] # p
      BY <2>3, <2>0, <2>01 DEF PushContext, HandedOnce
    <3>2. /\ sendContextQueue' = Append(sendContextQueue, p)
          /\ pushed' = Append(pushed, p)
          /\ UNCHANGED <<state, batch, pc, offset, fresh>>
      BY <2>3 DEF PushContext
    <3>3. p \notin ToSet(batch) /\ p \notin ToSet(sendContextQueue)
      BY <2>01, <3>1 DEF UnfinishedWaits, Unfinished
    <3>4. /\ ToSet(pushed)' = ToSet(pushed) \cup {p}
          /\ ToSet(sendContextQueue)' = ToSet(sendContextQueue) \cup {p}
          /\ IsInjective(sendContextQueue)'
      BY <2>0, <2>01, <3>1, <3>2, <3>3, AppendElements DEF WaitingOnce
    <3>5. \A u \in Thread : step'[u] = "push" =>
            u # t /\ step[u] = "push" /\ inHand'[u] = inHand[u]
      BY <2>3, <2>0 DEF PushContext
    <3>6. \A u \in Thread : inHand'[u] = IF u = t THEN NoPacket ELSE inHand[u]
      BY <2>3, <2>0 DEF PushContext
    <3>7. HandedOnce'
      <4>1. ASSUME NEW u \in Thread, step'[u] = "push"
            PROVE  /\ inHand'[u] \notin fresh' \cup ToSet(pushed)'
                   /\ \A v \in Thread \ {u} : inHand'[v] # inHand'[u]
        <5>1. /\ u # t /\ step[u] = "push" /\ inHand'[u] = inHand[u]
              /\ inHand[u] \in Packet /\ inHand[u] # p
          BY <2>0, <3>1, <3>5, <4>1
        <5>2. inHand'[u] \notin fresh' \cup ToSet(pushed)'
          BY <2>01, <3>2, <3>4, <5>1 DEF HandedOnce
        <5>3. \A v \in Thread \ {u} : inHand'[v] # inHand'[u]
          BY <2>01, <3>6, <5>1, NoPacketAssumption DEF HandedOnce
        <5>4. QED
          BY <5>2, <5>3
      <4>2. QED
        BY <2>01, <3>1, <3>2, <3>4, <4>1 DEF HandedOnce
    <3>8. Unfinished' = Unfinished \cup {p}
      <4>1. offset[p] = 0 /\ 0 < Size[p]
        BY <2>01, <3>1 DEF HandedOnce
      <4>2. QED
        BY <3>2, <3>4, <4>1 DEF Unfinished
    <3>9. WaitingOnce'
      BY <2>01, <3>2, <3>3, <3>4 DEF WaitingOnce
    <3>10. UnfinishedWaits'
      BY <2>01, <3>2, <3>4, <3>8 DEF UnfinishedWaits
    <3>11. QED
      BY <2>01, <3>2, <3>7, <3>9, <3>10 DEF WaitingInv, BatchInFlush
  <2>4. ASSUME NEW t \in Thread, ExchangeSending(t) \/ PostFlush(t)
        PROVE  WaitingInv'
    <3>1. UNCHANGED <<state, sendContextQueue, batch, pc, pushed, offset, fresh,
                      inHand>>
      BY <2>4 DEF ExchangeSending, PostFlush
    <3>2. \A u \in Thread : step'[u] = "push" => step[u] = "push"
      BY <2>4, <2>0 DEF ExchangeSending, PostFlush
    <3>3. HandedOnce'
      BY <2>01, <3>1, <3>2 DEF HandedOnce
    <3>4. QED
      BY <2>01, <3>1, <3>3
         DEF WaitingInv, BatchInFlush, WaitingOnce, UnfinishedWaits, Unfinished
  <2>5. CASE ExecuteFlush \/ OnSendable
    <3>1. /\ batch = <<>>
          /\ batch' = sendContextQueue /\ sendContextQueue' = <<>>
          /\ pc' = "flush"
          /\ UNCHANGED <<state, pushed, offset, fresh, inHand, step>>
      BY <2>5, <2>01
         DEF ExecuteFlush, OnSendable, TakeQueue, OwnerFree, BatchInFlush
    <3>2. /\ ToSet(batch)' = ToSet(sendContextQueue)
          /\ ToSet(sendContextQueue)' = ToSet(batch)
          /\ IsInjective(batch)' /\ IsInjective(sendContextQueue)'
      BY <2>01, <3>1, EmptyElements DEF WaitingOnce
    <3>3. QED
      BY <2>01, <3>1, <3>2 DEF WaitingInv, HandedOnce, BatchInFlush,
                               WaitingOnce, UnfinishedWaits, Unfinished
  <2>6. CASE SendBytes
    <3> DEFINE p == Head(batch)
    <3>1. batch # <<>> /\ p \in Packet
      BY <2>6, <2>0 DEF SendBytes
    <3>2. PICK n \in 1 .. room :
            /\ offset[p] + n <= Size[p]
            /\ offset' = [offset EXCEPT ![p] = offset[p] + n]
            /\ batch' = IF offset[p] + n = Size[p] THEN Tail(batch) ELSE batch
      BY <2>6 DEF SendBytes
    <3>3. UNCHANGED <<state, sendContextQueue, pc, pushed, fresh, inHand, step>>
      BY <2>6 DEF SendBytes
    <3>4. /\ p \in ToSet(batch)
          /\ ToSet(Tail(batch)) = ToSet(batch) \ {p}
          /\ IsInjective(Tail(batch))
      BY <2>0, <2>01, <3>1, TailElements DEF WaitingOnce
    <3>5. p \in ToSet(pushed)
      BY <2>01, <3>4 DEF UnfinishedWaits, Unfinished
    <3>6. \A q \in Packet : offset'[q] = IF q = p THEN offset[p] + n ELSE offset[q]
      BY <2>0, <3>1, <3>2
    <3>7. HandedOnce'
      BY <2>01, <3>3, <3>5, <3>6 DEF HandedOnce
    <3>8. pc' = "flush"
      BY <2>6 DEF SendBytes
    <3>9. p \in Unfinished
      BY <2>01, <3>4 DEF UnfinishedWaits
    <3>10. CASE offset[p] + n = Size[p]
      <4>1. Unfinished' = Unfinished \ {p}
        BY <2>0, <2>02, <3>3, <3>6, <3>10 DEF Unfinished
      <4>2. ToSet(batch)' = ToSet(batch) \ {p} /\ IsInjective(batch)'
        BY <3>2, <3>4, <3>10
      <4>3. p \notin ToSet(sendContextQueue)
        BY <2>01, <3>4 DEF WaitingOnce
      <4>4. WaitingOnce'
        BY <2>01, <3>3, <4>2 DEF WaitingOnce
      <4>5. UnfinishedWaits'
        BY <2>01, <3>3, <4>1, <4>2, <4>3 DEF UnfinishedWaits
      <4>6. QED
        BY <3>7, <3>8, <4>4, <4>5 DEF WaitingInv, BatchInFlush
    <3>11. CASE offset[p] + n # Size[p]
      <4>1. Size[p] \in Nat /\ offset[p] \in Nat /\ n \in Nat
        BY <2>0, <3>1, <3>2
      <4>2. offset[p] + n < Size[p]
        BY <3>2, <3>11, <4>1
      <4>3. Unfinished' = Unfinished
        BY <2>02, <3>3, <3>6, <3>9, <4>2 DEF Unfinished
      <4>4. batch' = batch
        BY <3>2, <3>11
      <4>5. QED
        BY <2>01, <3>3, <3>7, <3>8, <4>3, <4>4
           DEF WaitingInv, BatchInFlush, WaitingOnce, UnfinishedWaits
    <3>12. QED
      BY <3>10, <3>11
  <2>7. CASE SendWouldBlock
    <3>1. /\ batch' = <<>> /\ sendContextQueue' = sendContextQueue \o batch
          /\ UNCHANGED <<state, pushed, offset, fresh, inHand, step>>
      BY <2>7 DEF SendWouldBlock, Requeue
    <3>2. /\ ToSet(batch)' = {} /\ IsInjective(batch)'
          /\ ToSet(sendContextQueue)' = ToSet(sendContextQueue) \cup ToSet(batch)
          /\ IsInjective(sendContextQueue)'
      BY <2>0, <2>01, <3>1, EmptyElements, ConcatElements DEF WaitingOnce
    <3>3. QED
      BY <2>01, <3>1, <3>2 DEF WaitingInv, HandedOnce, BatchInFlush,
                               WaitingOnce, UnfinishedWaits, Unfinished
  <2>8. CASE SendFails
    <3>1. /\ batch' = <<>> /\ state' # "Connected"
          /\ UNCHANGED <<sendContextQueue, pushed, offset, fresh, inHand, step>>
      BY <2>8 DEF SendFails, PostDisconnected
    <3>2. ToSet(batch)' = {} /\ IsInjective(batch)'
      BY <3>1, EmptyElements
    <3>3. QED
      BY <2>01, <3>1, <3>2 DEF WaitingInv, HandedOnce, BatchInFlush,
                               WaitingOnce, UnfinishedWaits, Unfinished
  <2>9. CASE ReleaseSending \/ CheckMore \/ ReclaimSending \/ RepostFlush
    <3>1. /\ batch = <<>>
          /\ UNCHANGED <<state, sendContextQueue, batch, pushed, offset, fresh,
                         inHand, step>>
      BY <2>9, <2>01 DEF ReleaseSending, CheckMore, ReclaimSending,
                         RepostFlush, BatchInFlush
    <3>2. QED
      BY <2>01, <3>1 DEF WaitingInv, HandedOnce, BatchInFlush,
                         WaitingOnce, UnfinishedWaits, Unfinished
  <2>10. CASE \/ HandlerDisconnects \/ ExpireCommands \/ SendableClosing
              \/ PeerGone \/ PeerReads \/ UNCHANGED vars
    <3>1. UNCHANGED <<state, sendContextQueue, batch, pc, pushed, offset, fresh,
                      inHand, step>>
      BY <2>10 DEF HandlerDisconnects, ExpireCommands, SendableClosing,
                   PeerGone, PeerReads, vars
    <3>2. QED
      BY <2>01, <3>1 DEF WaitingInv, HandedOnce, BatchInFlush,
                         WaitingOnce, UnfinishedWaits, Unfinished
  <2>11. CASE DisconnectOwner \/ SweepPendingClose
    <3>1. /\ state' = "Connected" => state = "Connected"
          /\ UNCHANGED <<sendContextQueue, batch, pc, pushed, offset, fresh,
                         inHand, step>>
      BY <2>11 DEF DisconnectOwner, PostDisconnected, SweepPendingClose
    <3>2. QED
      BY <2>01, <3>1 DEF WaitingInv, HandedOnce, BatchInFlush,
                         WaitingOnce, UnfinishedWaits, Unfinished
  <2>12. QED
    BY <2>1, <2>2, <2>3, <2>4, <2>5, <2>6, <2>7, <2>8, <2>9, <2>10, <2>11
       DEF Next, TryFlushSend, FlushSendOwner
<1>3. QED
  BY <1>1, <1>2, TypeInvariant, PTL DEF SafeSpec

\* No packet is lost or doubled by a partial send or by the requeueing of what
\* the kernel refused: while the session is connected, an unfinished packet
\* stands in the queue or in the local queue once, and a finished one in
\* neither.
THEOREM PacketsConservedHolds == SafeSpec => []PacketsConserved
<1>1. TypeOK /\ WaitingInv => PacketsConserved
  <2> SUFFICES ASSUME TypeOK, WaitingInv, state = "Connected",
                      NEW p \in ToSet(pushed)
               PROVE  Occurrences(p) = IF offset[p] < Size[p] THEN 1 ELSE 0
    BY DEF PacketsConserved
  <2> DEFINE w == batch \o sendContextQueue
  <2>1. /\ ToSet(w) = ToSet(batch) \cup ToSet(sendContextQueue)
        /\ IsInjective(w)
    BY ConcatElements DEF TypeOK, WaitingInv, WaitingOnce
  <2>2. p \in ToSet(w) <=> offset[p] < Size[p]
    BY <2>1 DEF WaitingInv, UnfinishedWaits, Unfinished
  <2>3. Occurrences(p) = IF p \in ToSet(w) THEN 1 ELSE 0
    BY <2>1, OnePosition DEF Occurrences
  <2>4. QED
    BY <2>2, <2>3
<1>2. QED
  BY <1>1, TypeInvariant, WaitingInvHolds, PTL

=============================================================================
