-------------------------- MODULE SendBufferArena --------------------------
(***************************************************************************)
(* The memory that packets are written to: SendBuffer, the pool of them,   *)
(* each thread's current buffer (SendBufferArena), SendPacket, and the     *)
(* end of a SendContext.  A buffer is held by shared pointers: a thread's  *)
(* current buffer and the contexts of packets that are still to be sent.   *)
(* Whoever drops the last pointer runs the deleter, which reads a flag and *)
(* then returns the buffer to the pool or frees it, while Server::Stop     *)
(* clears the pool from the main thread.                                   *)
(*                                                                         *)
(* A packet is a number, its byte i is <<packet, i>>, and Capacity stands  *)
(* for SEND_BUFFER_SIZE.  Threads both write packets and send them, and    *)
(* the one that lives longest also stands for the main thread, which drops *)
(* what is queued at the end; the order in which a session sends is        *)
(* SessionSend's matter.                                                   *)
(***************************************************************************)
EXTENDS Naturals, Sequences, FiniteSets

CONSTANTS Sender,      \* the threads that send
          Buffer,      \* SendBuffer objects that can come to exist
          PoolSize,    \* buffers that the pool starts with
          Capacity,    \* bytes in a buffer
          MaxSize,     \* bound: the largest packet
          MaxPackets,  \* bound: calls of SendPacket
          NoBuffer     \* a null pointer

ASSUME BufferAssumption == NoBuffer \notin Buffer /\ IsFiniteSet(Buffer)
ASSUME SizeAssumption == /\ PoolSize \in Nat /\ PoolSize <= Cardinality(Buffer)
                         /\ Capacity \in Nat \ {0} /\ MaxSize \in Nat
                         /\ MaxPackets \in Nat

VARIABLES
  pool,       \* _pool: a queue of buffers
  life,       \* what SendBufferPoolClear has done so far; "crash" is the end
  born,       \* the buffers that have been allocated
  deleted,    \* those that have been deleted
  used,       \* _usedSize of each buffer
  content,    \* the bytes of each buffer
  current,    \* S_LCurrentSendBuffer of each thread
  job,        \* the packet that a thread is in SendPacket with
  packets,    \* calls of SendPacket so far
  contexts,   \* packets that wait to be sent
  releasing,  \* the buffer whose deleter a thread is running
  returning,  \* the threads whose deleter found the flag clear
  sent,       \* history: the bytes that went out for each packet
  atBase      \* history: the packets that were written to a buffer's start

arena == <<used, content, current, job>>
history == <<sent, atBase>>
deleter == <<releasing, returning>>
arenaVars == <<pool, life, born, deleted, arena, packets, contexts, deleter,
          history>>

NoJob == [step |-> "none", size |-> 0, packet |-> 0]
Unwritten == <<0, 0>>

RangeOf(s) == {s[i] : i \in DOMAIN s}

ArenaInit ==
  /\ \E s \in [1 .. PoolSize -> Buffer] :
       /\ \A i, j \in DOMAIN s : s[i] = s[j] => i = j
       /\ pool = s
  /\ life = "open"
  /\ born = RangeOf(pool)
  /\ deleted = {}
  /\ used = [b \in Buffer |-> 0]
  /\ content = [b \in Buffer |-> [i \in 1 .. Capacity |-> Unwritten]]
  /\ current = [t \in Sender |-> NoBuffer]
  /\ job = [t \in Sender |-> NoJob]
  /\ packets = 0
  /\ contexts = {}
  /\ releasing = [t \in Sender |-> NoBuffer]
  /\ returning = {}
  /\ sent = [p \in 1 .. MaxPackets |-> <<>>]
  /\ atBase = {}

\* Mutant: the threads' own pointers are forgotten.
HeldByPackets(cur, ctx) == {c.buffer : c \in ctx}

\* The buffers that shared pointers keep alive, given those of threads and
\* those of contexts.
Held(cur, ctx) == {cur[t] : t \in Sender} \cup {c.buffer : c \in ctx}

\* After its pointers have become cur and ctx, thread t runs b's deleter if b
\* has lost the last one.
LetGo(t, b, cur, ctx) ==
  releasing' = [releasing EXCEPT ![t] = IF b \in Held(cur, ctx) THEN NoBuffer ELSE b]

Free(t) == life # "crash" /\ releasing[t] = NoBuffer
At(t, step) == Free(t) /\ job[t].step = step

\* CanUseSize.
Fits(b, size) == b # NoBuffer /\ used[b] + size <= Capacity

----------------------------------------------------------------------------
(***************************************************************************)
(* SendPacket, up to the call of TryFlushSend.                             *)
(***************************************************************************)

\* A packet is begun, with the current buffer if it has room.
SendPacket(t, size) ==
  /\ At(t, "none")
  /\ packets < MaxPackets
  /\ packets' = packets + 1
  /\ job' = [job EXCEPT ![t] = [step   |-> IF Fits(current[t], size) THEN "write" ELSE "swap",
                                size   |-> size,
                                packet |-> packets + 1]]
  /\ UNCHANGED <<pool, life, born, deleted, used, content, current, contexts,
                 deleter, history>>

\* SwapSendBuffer: the next buffer of the pool, or a new one, takes the place
\* of the current one, which is let go.
SwapSendBuffer(t) ==
  /\ At(t, "swap")
  /\ life # "gone"
  /\ \E b \in IF pool # <<>> THEN {Head(pool)} ELSE Buffer \ born :
       LET cur == [current EXCEPT ![t] = b]
       IN  /\ pool' = IF pool # <<>> THEN Tail(pool) ELSE pool
           /\ born' = born \cup {b}
           /\ current' = cur
           /\ IF current[t] = NoBuffer THEN UNCHANGED releasing
                                       ELSE LetGo(t, current[t], cur, contexts)
  /\ job' = [job EXCEPT ![t].step = "write"]
  /\ UNCHANGED <<life, deleted, used, content, contexts, returning, packets, history>>

\* SwapSendBuffer through the null pointer that SendBufferPoolClear left.
SwapCrashes(t) ==
  /\ At(t, "swap")
  /\ life = "gone"
  /\ life' = "crash"
  /\ UNCHANGED <<pool, born, deleted, arena, contexts, deleter, packets, history>>

\* Mutant: the room is not taken.
FillAgain(t, n) ==
  LET b == current[t]
      base == used[b]
  IN  /\ UNCHANGED used
      /\ content' = [content EXCEPT ![b] =
           [i \in 1 .. Capacity |-> IF i - base \in 1 .. n
                                      THEN <<job[t].packet, i - base>> ELSE @[i]]]

\* n bytes of t's packet are written to the room that Allocate set aside.
Fill(t, n) ==
  LET b == current[t]
      base == used[b]
  IN  /\ used' = [used EXCEPT ![b] = base + job[t].size]
      /\ content' = [content EXCEPT ![b] =
           [i \in 1 .. Capacity |-> IF i - base \in 1 .. n
                                      THEN <<job[t].packet, i - base>> ELSE @[i]]]

\* The packet is written and queued for its session.
WritePacket(t) ==
  /\ At(t, "write")
  /\ Fits(current[t], job[t].size)
  /\ Fill(t, job[t].size)
  /\ contexts' = contexts \cup {[buffer |-> current[t], base |-> used[current[t]],
                                 size |-> job[t].size, offset |-> 0,
                                 packet |-> job[t].packet]}
  /\ atBase' = IF used[current[t]] = 0 THEN atBase \cup {job[t].packet} ELSE atBase
  /\ job' = [job EXCEPT ![t] = NoJob]
  /\ UNCHANGED <<pool, life, born, deleted, current, deleter, packets, sent>>

\* A part of the packet cannot be written: what was written stays in the
\* buffer, and nothing is sent.
WriteFails(t) ==
  /\ At(t, "write")
  /\ Fits(current[t], job[t].size)
  /\ \E n \in 1 .. job[t].size - 1 : Fill(t, n)
  /\ job' = [job EXCEPT ![t] = NoJob]
  /\ UNCHANGED <<pool, life, born, deleted, current, contexts, deleter, packets, history>>

\* A packet larger than a buffer has no room in a new one either: the header's
\* first write fails on the null segment, and nothing is sent.
TooLarge(t) ==
  /\ At(t, "write")
  /\ ~Fits(current[t], job[t].size)
  /\ job' = [job EXCEPT ![t] = NoJob]
  /\ UNCHANGED <<pool, life, born, deleted, used, content, current, contexts,
                 deleter, packets, history>>

----------------------------------------------------------------------------
(***************************************************************************)
(* The owner of a session sends, or drops, what is queued.                 *)
(***************************************************************************)

\* The bytes that sendmsg takes from a buffer whose base is iov_base.
Gathered(c, n) == [i \in 1 .. n |-> content[c.buffer][c.offset + i]]

\* Mutant: a partial send starts over.
SentAgain(c, n) == [c EXCEPT !.offset = IF n = c.size THEN n ELSE 0]

Sent(c, n) == [c EXCEPT !.offset = @ + n]

\* sendmsg takes n bytes, from the base of the buffer (iov_base), not from the
\* packet's place in it.  The last byte ends the context.
Transfer(t, c, n) ==
  LET d == Sent(c, n)
  IN  /\ At(t, "none")
      /\ sent' = [sent EXCEPT ![c.packet] = @ \o Gathered(c, n)]
      /\ IF d.offset >= d.size
           THEN /\ contexts' = contexts \ {c}
                /\ LetGo(t, c.buffer, current, contexts \ {c})
           ELSE /\ contexts' = (contexts \ {c}) \cup {d}
                /\ UNCHANGED releasing
      /\ UNCHANGED <<pool, life, born, deleted, arena, returning, packets, atBase>>

\* A connection fails, and its session's queue goes with it.
Discard(t, c) ==
  /\ At(t, "none")
  /\ contexts' = contexts \ {c}
  /\ LetGo(t, c.buffer, current, contexts \ {c})
  /\ UNCHANGED <<pool, life, born, deleted, arena, returning, packets, history>>

\* A thread's exit callback: ThreadSendBufferClear.
ThreadSendBufferClear(t) ==
  /\ At(t, "none")
  /\ LET cur == [current EXCEPT ![t] = NoBuffer]
     IN  /\ current' = cur
         /\ IF current[t] = NoBuffer THEN UNCHANGED releasing
                                     ELSE LetGo(t, current[t], cur, contexts)
  /\ job' = [job EXCEPT ![t].step = "exited"]
  /\ UNCHANGED <<pool, life, born, deleted, used, content, contexts, returning,
                 packets, history>>

----------------------------------------------------------------------------
(***************************************************************************)
(* ReturnSendBufferToPool, the deleter.                                    *)
(***************************************************************************)

Releasing(t) == life # "crash" /\ releasing[t] # NoBuffer

\* The flag decides; with the flag set the buffer is deleted.
ReadFlag(t) ==
  /\ Releasing(t) /\ t \notin returning
  /\ IF life = "open"
       THEN returning' = returning \cup {t} /\ UNCHANGED <<deleted, releasing>>
       ELSE /\ deleted' = deleted \cup {releasing[t]}
            /\ releasing' = [releasing EXCEPT ![t] = NoBuffer]
            /\ UNCHANGED returning
  /\ UNCHANGED <<pool, life, born, arena, contexts, packets, history>>

\* The flag was clear: Push, if there is a pool still.
Push(t) ==
  /\ Releasing(t) /\ t \in returning
  /\ IF life = "gone"
       THEN life' = "crash" /\ UNCHANGED <<pool, used, deleter>>
       ELSE /\ used' = [used EXCEPT ![releasing[t]] = 0]
            /\ pool' = Append(pool, releasing[t])
            /\ releasing' = [releasing EXCEPT ![t] = NoBuffer]
            /\ returning' = returning \ {t}
            /\ UNCHANGED life
  /\ UNCHANGED <<born, deleted, content, current, job, contexts, packets, history>>

----------------------------------------------------------------------------
(***************************************************************************)
(* SendBufferPoolClear, on the main thread.                                *)
(***************************************************************************)

ReleaseSendBufferDeleter ==
  /\ life = "open"
  /\ life' = "flagged"
  /\ UNCHANGED <<pool, born, deleted, arena, contexts, deleter, packets, history>>

PoolClear ==
  /\ life = "flagged"
  /\ life' = "emptied"
  /\ pool' = <<>>
  /\ deleted' = deleted \cup RangeOf(pool)
  /\ UNCHANGED <<born, arena, contexts, deleter, packets, history>>

\* The pool goes; a buffer that has come back in between is lost.
ResetPool ==
  /\ life = "emptied"
  /\ life' = "gone"
  /\ pool' = <<>>
  /\ UNCHANGED <<born, deleted, arena, contexts, deleter, packets, history>>

----------------------------------------------------------------------------
ArenaNext ==
  \/ \E t \in Sender :
       \/ \E size \in 1 .. MaxSize : SendPacket(t, size)
       \/ SwapSendBuffer(t) \/ SwapCrashes(t)
       \/ WritePacket(t) \/ WriteFails(t) \/ TooLarge(t)
       \/ \E c \in contexts :
            Discard(t, c) \/ \E n \in 1 .. c.size - c.offset : Transfer(t, c, n)
       \/ ThreadSendBufferClear(t)
       \/ ReadFlag(t) \/ Push(t)
  \/ ReleaseSendBufferDeleter \/ PoolClear \/ ResetPool

ArenaSpec == ArenaInit /\ [][ArenaNext]_arenaVars

----------------------------------------------------------------------------
\* A byte says whose it is and where in the packet; Unwritten is <<0, 0>>.
Byte == (0 .. MaxPackets) \X (0 .. MaxSize)

Job == [step   : {"none", "swap", "write", "exited"},
        size   : 0 .. MaxSize,
        packet : 0 .. MaxPackets]

SendContext == [buffer : Buffer, base : 0 .. Capacity, size : 1 .. MaxSize,
                offset : 0 .. MaxSize, packet : 1 .. MaxPackets]

ArenaTypeOK ==
  /\ pool \in Seq(Buffer)
  /\ life \in {"open", "flagged", "emptied", "gone", "crash"}
  /\ born \subseteq Buffer /\ deleted \subseteq born
  /\ used \in [Buffer -> 0 .. Capacity]
  /\ content \in [Buffer -> [1 .. Capacity -> Byte]]
  /\ current \in [Sender -> Buffer \cup {NoBuffer}]
  /\ job \in [Sender -> Job]
  /\ contexts \subseteq SendContext
  /\ releasing \in [Sender -> Buffer \cup {NoBuffer}]
  /\ returning \subseteq Sender
  /\ packets \in 0 .. MaxPackets
  /\ sent \in [1 .. MaxPackets -> Seq(Byte)]
  /\ atBase \subseteq 1 .. MaxPackets

\* The buffers that are somewhere, and where.
InPool == RangeOf(pool)
InUse == Held(current, contexts) \ {NoBuffer}
InDeleter == {releasing[t] : t \in Sender} \ {NoBuffer}

\* A buffer is in one place: in the pool, once; or in use; or in one thread's
\* deleter; or freed.  However swaps, ends of sends and the clearing of the pool
\* interleave, none is pooled or freed while a packet or a thread has it, and
\* until the clearing begins none is lost.
EachBufferOnce ==
  /\ \A i, j \in DOMAIN pool : pool[i] = pool[j] => i = j
  /\ \A t, u \in Sender : releasing[t] = releasing[u] /\ releasing[t] # NoBuffer => t = u
  /\ InPool \cap (InUse \cup InDeleter \cup deleted) = {}
  /\ InUse \cap (InDeleter \cup deleted) = {}
  /\ InDeleter \cap deleted = {}
  /\ life = "open" => born = InPool \cup InUse \cup InDeleter

\* The bytes of a packet that waits to be sent are those that were written for
\* it: no other packet, and no reuse of the buffer, touches them.
LiveBytesKept ==
  \A c \in contexts :
    /\ c.base + c.size <= used[c.buffer]
    /\ \A i \in 1 .. c.size : content[c.buffer][c.base + i] = <<c.packet, i>>

\* What goes out for a packet that was written to the start of its buffer is
\* that packet, from its first byte on, however the sends are split.
FirstPacketIntact ==
  \A p \in atBase : \A i \in DOMAIN sent[p] : sent[p][i] = <<p, i>>

----------------------------------------------------------------------------
(***************************************************************************)
(* Statements that the code refutes.                                       *)
(***************************************************************************)

\* Every packet is sent as it was written: SendPacket points its context at the
\* packet's own bytes (Protocol.h:233), as the example in docs/SendBufferPool.md:161
\* does.  Session.cpp:119 sends from the base of the buffer, so the second packet
\* of a buffer goes out as the first.
SendsOwnBytes == \A p \in DOMAIN sent : \A i \in DOMAIN sent[p] : sent[p][i] = <<p, i>>

\* The flag keeps a deleter from a pool that is gone (docs/SendBufferPool.md:125),
\* and the pool goes after the threads (:132).  The flag is read before the pool is
\* used, and Stop clears the pool before the threads are joined (NetworkCore.cpp:65).
NoNullPool == life # "crash"
=============================================================================
