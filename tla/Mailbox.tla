------------------------------ MODULE Mailbox ------------------------------
(***************************************************************************)
(* What a shard's command queue promises the threads that post to it: a    *)
(* command is executed at most once, in the order of the posts, by one     *)
(* consumer, and as long as the consumer is open it is executed.           *)
(* ShardMailbox is shown to implement this specification.                  *)
(***************************************************************************)
EXTENDS Sequences, SequencesExt

CONSTANT Command            \* the commands that may be posted, each once

VARIABLES pending,          \* posted, not yet executed
          executed,         \* executed, in order
          open              \* the consumer still runs

vars == <<pending, executed, open>>

Init == /\ pending = <<>>
        /\ executed = <<>>
        /\ open = TRUE

Post(c) == /\ c \notin ToSet(pending) \cup ToSet(executed)
           /\ pending' = Append(pending, c)
           /\ UNCHANGED <<executed, open>>

Execute == /\ open
           /\ pending # <<>>
           /\ executed' = Append(executed, Head(pending))
           /\ pending' = Tail(pending)
           /\ UNCHANGED open

Close == /\ open
         /\ open' = FALSE
         /\ UNCHANGED <<pending, executed>>

Next == (\E c \in Command : Post(c)) \/ Execute \/ Close

SafeSpec == Init /\ [][Next]_vars

Spec == SafeSpec /\ WF_vars(Execute)
=============================================================================
