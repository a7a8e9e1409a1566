------------------------- MODULE ShardMailboxProofs -------------------------
(***************************************************************************)
(* Proofs about ShardMailbox for every set of commands and posters.        *)
(***************************************************************************)
EXTENDS ShardMailbox, SequenceTheorems, TLAPS

(***************************************************************************)
(* The inductive invariant.  To the properties it adds what the position   *)
(* of the dispatcher says: before it sleeps it has visited every reported  *)
(* event, its local queue is empty outside ExecuteCommands, and the flag   *)
(* is down from the moment Stop begins.                                    *)
(***************************************************************************)
EventsVisited == pc \in {"check", "wait"} => ~events.wakeup

BatchIsLocal == batch # <<>> => pc \in {"execute", "command"}

StopperClears == running <=> stopper = "idle"

IInv == TypeOK /\ EventsVisited /\ BatchIsLocal /\ StopperClears
               /\ NoLostWakeup /\ StopNotMissed

----------------------------------------------------------------------------
\* The pushes, the swap and the rest of the dispatcher keep every variable in
\* its type; the eventfd counter never passes its limit.
LEMMA TypeInvariant == SafeSpec => []TypeOK
<1>1. Init => TypeOK
  BY WakeupMaxAssumption, MaxSessionEventsAssumption
  DEF Init, TypeOK, PCs, NoEvents
<1>2. TypeOK /\ [Next]_vars => TypeOK'
  <2> SUFFICES ASSUME TypeOK, [Next]_vars PROVE TypeOK'
    OBVIOUS
  <2> USE WakeupMaxAssumption, MaxSessionEventsAssumption DEF TypeOK, PCs
  <2>1. ASSUME NEW t \in Thread, NEW c \in Command, PushCommand(t, c)
        PROVE  TypeOK'
    BY <2>1 DEF PushCommand
  <2>2. ASSUME NEW t \in Thread, PostWakeup(t) PROVE TypeOK'
    BY <2>2 DEF PostWakeup, PostEventSignal
  <2>3. CASE StopClearsRunning
    BY <2>3 DEF StopClearsRunning
  <2>4. CASE StopWakes
    BY <2>4 DEF StopWakes, PostEventSignal
  <2>5. CASE EpollWait
    BY <2>5 DEF EpollWait
  <2>6. CASE EpollInterrupted \/ EpollFailed
    BY <2>6 DEF EpollInterrupted, EpollFailed
  <2>7. CASE CheckRunning \/ FinishHandler \/ FinishCommand
             \/ FinishCommands \/ EndOfBatch
    BY <2>7
    DEF CheckRunning, FinishHandler, FinishCommand, FinishCommands, EndOfBatch
  <2>8. CASE VisitWakeup
    BY <2>8, ZenonT(30) DEF VisitWakeup
  <2>9. CASE VisitSession
    <3>1. events.sessions - 1 \in 0 .. MaxSessionEvents
      BY <2>9 DEF VisitSession
    <3>2. events' \in [wakeup : BOOLEAN, sessions : 0 .. MaxSessionEvents]
      BY <2>9, <3>1, ZenonT(30) DEF VisitSession
    <3> QED
      BY <2>9, <3>2 DEF VisitSession
  <2>10. CASE ConsumeEventSignal
    BY <2>10 DEF ConsumeEventSignal
  <2>11. CASE SwapCommands
    BY <2>11 DEF SwapCommands
  <2>12. CASE ExecuteCommand
    BY <2>12 DEF ExecuteCommand
  <2>13. CASE UNCHANGED vars
    BY <2>13 DEF vars
  <2> QED
    BY <2>1, <2>2, <2>3, <2>4, <2>5, <2>6, <2>7, <2>8, <2>9, <2>10, <2>11,
       <2>12, <2>13 DEF Next, ConsumerStep
<1> QED
  BY <1>1, <1>2, PTL DEF SafeSpec

\* IInv is inductive: one step per action, in the order of the module.
THEOREM InductiveInvariant == SafeSpec => []IInv
<1>1. Init => IInv
  BY WakeupMaxAssumption, MaxSessionEventsAssumption
  DEF Init, IInv, TypeOK, PCs, NoEvents, EventsVisited, BatchIsLocal,
      StopperClears, NoLostWakeup, StopNotMissed
<1>2. IInv /\ TypeOK' /\ [Next]_vars => IInv'
  <2> SUFFICES ASSUME IInv, TypeOK', [Next]_vars PROVE IInv'
    OBVIOUS
  <2> USE WakeupMaxAssumption, MaxSessionEventsAssumption
      DEF IInv, EventsVisited, BatchIsLocal, StopperClears, NoLostWakeup,
          StopNotMissed, WillSwap
  <2>1. ASSUME NEW t \in Thread, NEW c \in Command, PushCommand(t, c)
        PROVE  IInv'
    BY <2>1 DEF PushCommand
  <2>2. ASSUME NEW t \in Thread, PostWakeup(t) PROVE IInv'
    BY <2>2 DEF PostWakeup, PostEventSignal, TypeOK
  <2>3. CASE StopClearsRunning
    BY <2>3 DEF StopClearsRunning
  <2>4. CASE StopWakes
    BY <2>4 DEF StopWakes, PostEventSignal, TypeOK
  <2>5. CASE EpollWait
    BY <2>5 DEF EpollWait
  <2>6. CASE EpollInterrupted \/ EpollFailed
    BY <2>6 DEF EpollInterrupted, EpollFailed
  <2>7. CASE CheckRunning
    BY <2>7 DEF CheckRunning
  <2>8. CASE FinishHandler \/ FinishCommand \/ FinishCommands
    BY <2>8 DEF FinishHandler, FinishCommand, FinishCommands
  <2>9. CASE EndOfBatch
    BY <2>9 DEF EndOfBatch, NoEvents
  <2>10. CASE VisitWakeup
    BY <2>10 DEF VisitWakeup, TypeOK
  <2>11. CASE VisitSession
    BY <2>11 DEF VisitSession, TypeOK
  <2>12. CASE ConsumeEventSignal
    BY <2>12 DEF ConsumeEventSignal
  <2>13. CASE SwapCommands
    BY <2>13 DEF SwapCommands
  <2>14. CASE ExecuteCommand
    BY <2>14 DEF ExecuteCommand
  <2>15. CASE UNCHANGED vars
    BY <2>15 DEF vars, TypeOK
  <2> QED
    BY <2>1, <2>2, <2>3, <2>4, <2>5, <2>6, <2>7, <2>8, <2>9, <2>10, <2>11,
       <2>12, <2>13, <2>14, <2>15 DEF Next, ConsumerStep
<1> QED
  BY <1>1, <1>2, TypeInvariant, PTL DEF SafeSpec

\* Commands on a live shard are never left behind a sleeping dispatcher.
THEOREM NoLostWakeupHolds == SafeSpec => []NoLostWakeup
  BY InductiveInvariant, PTL DEF IInv

\* A dispatcher is never asleep without a readable eventfd after Stop.
THEOREM StopNotMissedHolds == SafeSpec => []StopNotMissed
  BY InductiveInvariant, PTL DEF IInv
----------------------------------------------------------------------------
(***************************************************************************)
(* The shard implements the mailbox.                                       *)
(***************************************************************************)

\* What a concatenation holds is what its two parts hold.
LEMMA ToSetConcat ==
  ASSUME NEW S, NEW s \in Seq(S), NEW t \in Seq(S)
  PROVE  ToSet(s \o t) = ToSet(s) \cup ToSet(t)
<1>1. ToSet(s \o t) \subseteq ToSet(s) \cup ToSet(t)
  BY DEF ToSet
<1>2. ToSet(s) \subseteq ToSet(s \o t)
  BY DEF ToSet
<1>3. ASSUME NEW i \in DOMAIN t PROVE t[i] \in ToSet(s \o t)
  <2>1. Len(s) + i \in DOMAIN (s \o t) /\ (s \o t)[Len(s) + i] = t[i]
    BY <1>3
  <2> QED
    BY <2>1 DEF ToSet
<1> QED
  BY <1>1, <1>2, <1>3 DEF ToSet

\* Appending to the second part is appending to the whole.
LEMMA AppendConcat ==
  ASSUME NEW S, NEW s \in Seq(S), NEW t \in Seq(S), NEW e \in S
  PROVE  s \o Append(t, e) = Append(s \o t, e)
  OBVIOUS

\* Head and Tail of a concatenation are those of a non-empty first part.
LEMMA HeadTailConcat ==
  ASSUME NEW S, NEW s \in Seq(S), NEW t \in Seq(S), s # <<>>
  PROVE  /\ s \o t # <<>>
         /\ Head(s \o t) = Head(s)
         /\ Tail(s \o t) = Tail(s) \o t
  OBVIOUS

\* Every step of the shard is a step of the mailbox or leaves it unchanged: a
\* push posts, a turn of ExecuteCommands executes, leaving the loop closes,
\* and swapping the queue moves nothing.
THEOREM ImplementsMailbox == SafeSpec => MailboxSafety
<1> USE DEF MB!vars
<1>1. Init => MB!Init
  BY DEF Init, MB!Init, Outstanding
<1>2. IInv /\ [Next]_vars => [MB!Next]_(MB!vars)
  <2> SUFFICES ASSUME IInv, [Next]_vars PROVE [MB!Next]_(MB!vars)
    OBVIOUS
  <2>a. /\ batch \in Seq(Command) /\ commandQueue \in Seq(Command)
        /\ executed \in Seq(Command) /\ pc \in PCs
    BY DEF IInv, TypeOK
  <2>b. ToSet(Outstanding) = ToSet(batch) \cup ToSet(commandQueue)
    BY <2>a, ToSetConcat DEF Outstanding
  <2>1. ASSUME NEW t \in Thread, NEW c \in Command, PushCommand(t, c)
        PROVE  MB!Post(c)
    <3>1. c \notin ToSet(Outstanding) \cup ToSet(executed)
      BY <2>1, <2>b DEF PushCommand, Posted
    <3>2. Outstanding' = Append(Outstanding, c)
      BY <2>1, <2>a, AppendConcat DEF PushCommand, Outstanding
    <3> QED
      BY <2>1, <3>1, <3>2 DEF PushCommand, MB!Post, ToSet, MB!ToSet
  <2>2. ASSUME NEW t \in Thread, PostWakeup(t) PROVE UNCHANGED MB!vars
    BY <2>2 DEF PostWakeup, Outstanding
  <2>3. CASE StopClearsRunning \/ StopWakes
    BY <2>3 DEF StopClearsRunning, StopWakes, Outstanding
  <2>4. CASE CheckRunning \/ EpollFailed
    BY <2>4 DEF CheckRunning, EpollFailed, Outstanding, MB!Next, MB!Close
  <2>5. CASE EpollWait \/ EpollInterrupted
    BY <2>5 DEF EpollWait, EpollInterrupted, Outstanding
  <2>6. CASE VisitWakeup \/ FinishHandler \/ FinishCommand
             \/ FinishCommands \/ EndOfBatch
    BY <2>6 DEF VisitWakeup, FinishHandler, FinishCommand, FinishCommands,
                EndOfBatch, Outstanding
  <2>7. CASE VisitSession
    BY <2>7 DEF VisitSession, Outstanding
  <2>8. CASE ConsumeEventSignal
    BY <2>8 DEF ConsumeEventSignal, Outstanding
  <2>9. CASE SwapCommands
    <3>1. batch = <<>>
      BY <2>9 DEF IInv, BatchIsLocal, SwapCommands
    <3>2. Outstanding' = Outstanding
      BY <2>9, <2>a, <3>1 DEF SwapCommands, Outstanding
    <3> QED
      BY <2>9, <3>2 DEF SwapCommands
  <2>10. CASE ExecuteCommand
    <3>1. /\ Outstanding # <<>>
          /\ Head(Outstanding) = Head(batch)
          /\ Outstanding' = Tail(Outstanding)
      BY <2>10, <2>a, HeadTailConcat DEF ExecuteCommand, Outstanding
    <3> QED
      BY <2>10, <3>1 DEF ExecuteCommand, MB!Next, MB!Execute
  <2>11. CASE UNCHANGED vars
    BY <2>11 DEF vars, Outstanding
  <2> QED
    BY <2>1, <2>2, <2>3, <2>4, <2>5, <2>6, <2>7, <2>8, <2>9, <2>10, <2>11
    DEF Next, ConsumerStep, MB!Next
<1> QED
  BY <1>1, <1>2, InductiveInvariant, PTL
  DEF SafeSpec, MailboxSafety, MB!SafeSpec
=============================================================================
