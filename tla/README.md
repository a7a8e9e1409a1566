# Verification of the Real-Time Communication Platform

TLA+ models of the network server in `src/`, the TLC configurations that check
them on small instances, and TLAPS proofs of what matters most about them.
Paths below are relative to the repository; `network/` stands for
`src/src/network/`, `engine/` for `src/src/engine/`, `server/` for
`src/apps/server/`. `PROJECT.json` maps every definition to the lines it models.

## 1. The system

The server accepts TCP connections on one thread and hands each descriptor to
one of N *dispatch* threads. A dispatch thread owns a *shard*: an epoll set, the
sessions registered in it, and a queue of commands that other threads post to it.
A session reads packets (`uint16 size | uint16 id | payload`) and sends
answers; handlers that need the database queue a task on the single DB worker,
which holds a `shared_ptr` to the session and answers through it.

| component | state | operations | talks to |
|---|---|---|---|
| Shard and dispatcher (`SessionRegistry`, `EpollDispatcher`) | `commandQueue` under a mutex, eventfd, `_running`, `sessions`, `_pendingCloseSessions`, epoll set | `PostToShard`, `ExecuteCommands`, `Run`, `Stop`, `ProcessAccepted`, `ConnectAsync`, `Register`, `UnRegister`, `EnableEvent`, `DisableEvent` | every thread posts to it; it calls the sessions |
| `Session` | `_state`, `_sendContextQueue` under `engine::Lock`, `_isSending`, `_recvBuffer` | `TryFlushSend`, `FlushSendOwner`, `OnSendable`, `Disconnect`, `ProcessRecv`, `PacketParsing`, `ProcessConnect` | its dispatcher (commands, events), any sending thread |
| `StreamBuffer` | bytes, `_readPos`, `_writePos` | `OnWrite`, `OnRead`, `Clean` | `ProcessRecv` |
| `engine::Lock` | `_ownerThreadId`, `_recursion`, `_mutex` | `WriteLock`, `WriteUnLock` | the send queue |
| `Acceptor` | listening socket, own epoll, eventfd, round-robin counter | accept loop, handoff, `Stop` | `SessionRegistry::ProcessAccepted` |
| `SendBuffer`, `SendBufferPool`, `SendBufferArena` | each thread's current buffer with its bump position, the pool, the release flag | `Allocate`, `SwapSendBuffer`, `ReturnSendBufferToPool`, `ThreadSendBufferClear`, `SendBufferPoolClear` | `SendPacket`, `FlushSendOwner`, `Server::Stop` |
| `MemoryPool`, `ThreadLocalCache` | size classes with thread caches and global lists | `Allocate`, `Deallocate` | every allocation of the engine |
| `ThreadManager`, `TaskQueue`, `Task` | worker threads, queue, cancellation flag | `Spawn`, `Push`, `Pop`, `Cancel`, `StopAllAndJoin` | `main` |
| `DbWorker`, `AuthService`, `AuthDb` | task queue, SQLite tables `users` and `sessions` | `Enqueue`, `Run`, `Stop`; `RegisterUser`, `Login`, `Resume` | handlers, sessions |
| `BinaryReader`, `BinaryWriter`, `Protocol.h` | positions in a buffer | reads and writes of scalars and strings | packets |
| `main`, `Server`, `Client`, `GlobalContext` | order of construction and destruction | start, stop, clear | everything |

What is hard here, and has no test in the repository:

* *the wakeup protocol*: epoll_wait has no timeout, the eventfd merges wakeups
  and saturates, `Stop` shares it with the commands;
* *the hand-over of `_isSending`* between any sending thread and the owner, with
  partial writes, EAGAIN and EPOLLOUT in between;
* *the life of a session* whose descriptor number the kernel gives out again
  while commands, reported events and DB tasks still name the session;
* *edge-triggered input* through a buffer of fixed size, in pieces of any size,
  with sizes announced by the peer;
* *a hand-written re-entrant lock* with a spin phase and a mutex phase;
* *shared buffers*: a packet is a place in a thread's buffer, whose last pointer
  may go on any thread, while another clears the pool;
* *a task queue under a condition variable* that several workers share, with
  cancellation racing execution;
* *accounts*: a login is several statements, any of which may fail, and the
  process may die between them;
* *start and stop*: four kinds of threads, each woken in its own way, and who is
  joined, cleared and destroyed first.

`PROJECT.json` lists the hazards one by one with the line where each bites and
the properties that watch it.

## 2. The modules

| module | models | abstraction |
|---|---|---|
| `Mailbox` | what a shard's queue promises: each command at most once, in the order of the posts, while the consumer is open | |
| `ShardMailbox` | `PostToShard`, `ExecuteCommands`, the eventfd, the control of `Run`, `Stop` | a command's body: all that is kept is that it may post |
| `SessionSend` | one session's send path, the disconnects that end it | packets are values with a length; the mailbox is two counters of commands |
| `SessionLifecycle` | all sessions of one shard, descriptor table, epoll set, commands, sweep, DB tasks that hold a session | bytes sent are recorded as "went to that connection" |
| `RecvFraming` | recv loop, `StreamBuffer`, `PacketParsing`, the edge of EPOLLIN | bytes are stream offsets; two bytes are what they would say as a size field |
| `SpinLock` | `WriteLock`, `WriteUnLock`, one atomic operation or call for the mutex per step | the number of spins |
| `MemoryPool` | size classes, thread caches, the lists behind them, refill, the end of a thread and of the pool | a block is one result of `posix_memalign`; what is constructed in it is left out |
| `SendBufferArena` | `SendBuffer`, the pool, each thread's current buffer, `SendPacket` up to the queue, the bytes `FlushSendOwner` takes, the deleter, `SendBufferPoolClear` | byte i of packet p is `<<p, i>>`; sessions and their order are left to `SessionSend` |
| `TaskQueue` | `TaskQueue` and `Task` | a task's function: all that is kept is that it is called |
| `AuthLedger` | what the account database promises: a registration or a login is one step, and a login's token takes the place of all earlier ones | |
| `AuthService` | the three handlers, the DB worker's queue, `RegisterUser`, `Login`, `Resume` statement by statement, the answers, death and restart | the file is three sets; passwords are left out: a check or a hash succeeds or fails (section 5 on `VerifyPassword`) |
| `ServerStop` | `main`, `Server::Stop`, `Acceptor::Run`, the dispatchers' loops, `DbWorker`, `StopAllAndJoin` together | connections, sessions and packets are counted; the send buffer pool is there or cleared |
| `*Proofs` | theorems about the module of the same name; `MemoryPoolProofs` also those about `SendBufferArena`, `TaskQueueProofs` also those about `ServerStop` | |
| `MC*` | instances for TLC | |

How they fit together. `ShardMailbox` shows that a posted command is executed,
at most once and in order. `SessionSend` and `SessionLifecycle` build on that:
the first counts posted flush and disconnect commands and lets the owner execute
them in any order, so it does not even need the order; the second has the queue
itself and is the one that knows about descriptor numbers. `SessionSend` and
`ShardMailbox` take a critical section of a lock as one step; for the
`engine::Lock` of the send queue that is an assumption, since `SpinLock` shows
under which conditions it excludes (section 4). In `SessionLifecycle` a flush is
one step, because only its effects on descriptors, epoll entries and pending
closes are visible to the other sessions; its inner steps are `SessionSend`'s.
`SendBufferArena` takes up a packet before `SessionSend` does and its bytes
afterwards. `ServerStop` composes the threads: one dispatcher's
mailbox in it is the set of `ShardMailbox` taken at once, which the refinement
of `Mailbox` justifies, and its DB worker is the queue that `AuthService` reads
from.

### State and actions against the code

**ShardMailbox.** `pc` is the dispatcher's place in `Run`: at the loop condition
(`check`), in epoll_wait, among the reported events (`dispatch`), in
`ConsumeEventSignal`, before the swap, at the local queue, inside a command or a
session handler, or after `Close`. `owesWakeup` holds the threads between the
push and the eventfd write of `PostToShard`, which is the gap a lost wakeup
would need. `PostEventSignal` drops the write at the counter's limit, as the code
ignores EAGAIN. `Stop` is two steps. An epoll event of a session whose number
equals the eventfd's is taken for a wakeup, as in `NetworkDispatcher.cpp:71`.

**SessionSend.** A thread's `step` is its place in `TryFlushSend`: the state is
checked, the context pushed under the lock, `_isSending` exchanged, the command
posted. The owner's `pc` is its place in `FlushSendOwner`: after the swap it
sends part by part; `released` is after `_isSending.store(false)`, `reclaim`
before the second exchange, `repost` before the second post. `room` is the
kernel's send buffer, which the peer empties.

**SessionLifecycle.** `connOf` and `epoll` are the kernel's; `session` keeps the
fields of every session ever made, since commands and tasks may hold one that
left `sessions`. `Alive` is whether a `weak_ptr` can be locked: the registry or
a task holds the session. Events reported in one epoll_wait are visited in any
order. `EnableEvent` and `DisableEvent` lose or keep the input bit, because the
code builds the mask from an uninitialized `epoll_event`.

**RecvFraming.** `buffer` holds stream offsets so that a byte moved wrongly
shows. The stream is chosen with the offsets where its packets begin
(`boundaries`, which `Framed` ties to the size fields). `PacketSize` reads the size field at the *start of the buffer* in every
turn of the parsing loop, as `Session.cpp:283` does. A size of zero makes the
loop spin (`ParseSpins`).

**SpinLock.** `expected` is the local that the failed compare-and-swaps overwrite
and that the slow path then uses. A thread that has used up its spins calls for the
mutex (`GiveUp`), gets it when it is free (`LockMutex`) and retries behind it.
`trespassed` remembers that some thread has taken the lock past an owner, in one of
the two ways the code leaves open: it has id 0, the mark of a free lock
(`NamedLikeNobody`), or its retry replaced the owner that its last spin saw. Ids are
0, 1, 2 as `ThreadManager::Spawn` gives them (`SpawnedIds`).

**MemoryPool.** `Allocate` is one step when the thread's cache has a block. When
it has none it is several, as in the code: what the list has is taken under the
mutex of the class into the local `memoryBlocks`, the rest is asked from the
system block by block, then the blocks go to the cache and the last of them is
handed out. `posix_memalign` may fail at every turn; if nothing at all was got,
`Allocate` returns an address behind a null header, which the program writes to
(`crashed`). `Deallocate` files a block by the `allocSize` in its header,
in the cache of the thread that frees it, whatever `dataSize` was last written there.
Threads end with
`DestroyLThreadLocalCache`, and the pool is destroyed by the last one.

**SendBufferArena.** Its and `ServerStop`'s specifications are called `ArenaSpec` and
`ServerSpec`, so that a module of proofs can extend them beside another. `current` is the thread-local `S_LCurrentSendBuffer`; it and
the `contexts` are the shared pointers, `Held` the buffers they keep alive. Whoever
drops the last one has the buffer in `releasing` until its deleter is done: the look
at the flag (`ReadFlag`) and the push are two steps, and the three lines of
`SendBufferPoolClear` are three more. A packet that does not fit a new buffer gets a
null segment, on which `BinaryWriter` refuses to write. `Gathered` takes bytes from
the *base* of the buffer, as `Session.cpp:116` does.

**TaskQueue.** The critical sections are steps, the notifications after them steps of
their own (`owed` are the `notify_one` calls still to come, `gate = "closing"` is the
`notify_all`), and a waiting worker may also wake unasked. `TryStart`,
the look at `_cancelRequested` and the call of the function are three steps, and so
are the two halves of `Cancel`. No program in the repository runs such a queue yet;
the worker's loop is Pop and Execute until Pop returns null.

**AuthService.** `disk` is the committed file and `work` what the connection sees. Each
statement is a step, and any may fail (`StatementFails`, or the second disjunct of the
others), which leads to the rollback where the code calls it. A `ROLLBACK` undoes the
transaction: SQLite refuses one only when it has undone it by itself. A crash at any step loses `work`, the queue and the sessions. `AnswerSilently` is what
becomes of a success with an empty token: `BinaryWriter::Write` refuses to write zero bytes.

**ServerStop.** `main` is what the main thread does next, one call a step, `Stop`'s
flag and its wakeup apart. Each thread has its own `running` and its own way to be
woken: an eventfd for the acceptor and the dispatchers, a condition for the DB
worker, which also looks at the stop token only between its inner loops.
`SendBufferPoolClear` is the last thing `Server::Stop` does, with all threads running:
from then on a task of the DB worker that needs a buffer, its first or one behind a full
one, takes the process down (`AnswerCrashes`; a thread that has a buffer with room goes
on). Only DB tasks answer in this server, so no dispatcher is exposed. A task that is left at
the end is destroyed by `delete dbWorker` with the session it holds, whose memory goes
back to a pool that is deleted (`DeleteDb`). What a shard is told by an answer is a
wakeup only; `posted` counts accepted connections.
If any other key than `s` is typed, nothing is stopped and the owners are deleted
(`StopNothing`).

### Modelling decisions

* Operations of `std::atomic` are sequentially consistent steps; the weaker
  orders of the code are not modelled.
* recv fails with EAGAIN or not at all: other errors come with EPOLLERR or
  EPOLLHUP, which `SessionLifecycle` reports as `error`.
* epoll_wait fails with EINTR only, except in `ShardMailbox` (`EpollFailed`).
* epoll_wait reports any non-empty set of ready descriptors, in any order;
  EPOLLERR and EPOLLHUP may come at any time.
* History variables (`executed`, `pushed`, `wire`, `frames`, `depth`,
  `connectedCalls`, `closedCalls`, `sentTo`, `swallowed`, `outlived`, `trespassed`,
  `sent`, `atBase`, `runs`, `confirmed`, `answered`, `silent`, `lost`, `told`,
  `queued`, `early`, `done`, `looped`) are read by properties
  only, except that `depth` bounds nesting, that `executed` keeps a command from
  being posted twice, and that no guard depends on the others.
* The loop condition's other half, `st.stop_requested()`, is in `ServerStop` and not in
  `ShardMailbox`: main sets it only after every `Stop`.
* `EnableEvent` succeeds in `SessionSend`: `FlushSendOwner` ignores a failing `epoll_ctl`
  (`NetworkDispatcher.cpp:327`), after which no EPOLLOUT would come and `_isSending` would
  stay set. What keeps `epoll_ctl` from failing, a descriptor that is registered, is
  `OwnsDescriptor` and `EventsNameOwner`.
* A flush in `SessionLifecycle` leaves out the flush that the owner posts again after
  `_isSending` was released (`Session.cpp:185`), which is in `SessionSend`: it would only
  name a session that is registered, or one that a task has outlived, for which the task's own flushes stand.
* `ExecuteAcceptFails` uses up a session number even if `CreateSession` failed, before
  the code takes one (`SessionRegistry.cpp:51`): numbers are left out either way.
* In `AuthService` an answer is given when `SendPacket` has it; a session that has left
  `Connected` drops it (`Session.cpp:32`), and the peer is gone. A resume's answer looks up
  the token's owner where the code uses the id it read before (`AuthService.cpp:198`): a
  token's owner never changes.

## 3. The runs

| run | question | instance |
|---|---|---|
| `shard_mailbox` | Is any command slept on, is a stop missed, does the shard implement `Mailbox` with its liveness? | 3 commands, 2 posters and the dispatcher, eventfd limit 2, one session event at a time |
| `send` | Is a packet lost in the hand-over of `_isSending`, is a flush scheduled twice, is all that is pushed sent, does a dying session close? | sessions of both kinds (the connected one starts with EPOLLOUT interest left from the connect), 3 packets, one of two bytes, a worker and the owner, 2 bytes of kernel buffer, one disconnect |
| `lifecycle` | Do descriptors leak, is one closed under its owner, are callbacks paired, are stale flushes kept off reused descriptors, are marked sessions closed? | an accepted and a connected session, 2 descriptor numbers, one DB task, 2 commands at a time, the eventfd's number equal to the second session's |
| `recv_framing` | Does the buffer keep the stream, does recv always have room, is no edge lost, does a peer with one packet size get its packets through? | every stream of 6 bytes, sizes 2 and 3 (and 0 as payload), buffer of 4 |
| `spinlock` | Until a thread enters past an owner: is one thread at a time inside, are its guards counted, does everyone who wants the lock get it, through all paths? | 3 threads with ids 0, 1, 2, nesting 2 |
| `memory_pool` | Is a block ever at two places or lost, is a cache overrun, is a block used for another class than it goes back to? | 2 threads, 4 blocks, sizes 16, 20 and 48 (two of one class), caches of 2, refills of 2 |
| `task_queue` | Is a task run twice or after a confirmed cancel, is one left with everyone asleep, do all workers return? | 2 workers, 2 tasks, each pushed up to twice |
| `send_buffers` | Is a buffer ever at two places, are a waiting packet's bytes overwritten, does a buffer's first packet go out as written? | 2 threads, 3 buffers (one in the pool at first) of 2 bytes, 3 packets of 1 to 3 bytes |
| `auth` | Is the file ever between two logins, has a user two valid tokens or none, is an answer lost by a crash, whom does a session act for? Does `AuthService` implement `AuthLedger`? | 2 users, 2 tokens, 1 session, 4 requests, 1 crash |
| `server_stop` | Does a stop reach every thread, wherever it is, and are the tasks queued before it carried out? | 2 dispatchers, 1 connection, 2 requests |
| `send_framing`, `recv_mixed` | the findings of section 5 | |

Why the bounds are enough. *Mailbox*: a lost wakeup needs a push between the
drain and the swap or a refused write; two posters and a limit of two give both,
and the dispatcher's own posts give re-entrance. *Send*: the interesting pattern
is a push during each of the owner's steps, with a packet cut in two by EAGAIN;
three packets allow one being sent, one requeued and one arriving. *Lifecycle*:
reuse needs two connections, one for each way a session is made; the third party is one task.
*Receive*: six bytes hold three packets of two, two of three and every mix with
a packet cut at any place; a buffer one byte longer than the longest packet is
the tightest that `CapacityAssumption` allows (the code: a `uint16` size against
65536 bytes). *Lock*: one thread inside, one that competes in the slow
path and one that waits for the mutex or spins; after a
trespass, which lasts, the properties hold whatever comes, and the run does not go on
(`UntilTrespass`), which loses no behaviour that could break them. *Task queue*: a lost wakeup needs two
workers and two tasks, a double run one task that is queued twice. *Send buffers*:
two packets share a buffer of two bytes, one fills it, one exceeds it; the third
buffer is allocated while one is in use and one on its way back. *Accounts*: a
registration and two logins of one user leave one request for another user or a
resume, and the two logins take two tokens; one crash falls into any step, and the run goes on after it. *Stop*: two
dispatchers are stopped one after the other, with work in between; of two requests one may give
the DB worker its buffer before the pool is cleared and one find it cleared. *Pool*: two threads give
back each other's blocks; caches of two with refills of two meet every relation
of list, refill and limit (a list with none, part or all of a refill, a cache
that is full); four blocks overflow one cache into the list and let the system
run out; threads and blocks are symmetric, and states are told apart without the sizes
that no step reads any more (`Read`). The theorems of section
4 remove the bounds for the invariants they cover. Named bounds
(`MaxAccepts`, `MaxConnects`, `MaxCommands`, `MaxDisconnects`, `MaxDepth`,
`MaxSessionEvents`, `MaxPushes`, `MaxPackets`, `MaxSize`, `MaxRequests`, `MaxCrashes`) are constants in the guards.

Deadlock is not checked where the system may stop: no more packets, commands,
connections or bytes are left, or `Run` has returned. It is checked for the lock.

### Fairness

* A thread inside a function goes on (WF on its steps): the scheduler runs every
  runnable thread.
* The dispatcher wakes for a readable eventfd. In `ShardMailbox` this is SF on
  `EpollWait`, since a signal may interrupt it any number of times, but not for
  ever.
* In `SessionSend` the peer reads and the owner executes posted commands (shown
  by `ShardMailbox`); nobody is obliged to send, to disconnect or to fail.
* In `SessionLifecycle` neither peers nor the DB worker owe anything.
* In `SpinLock` a compare-and-swap that could succeed again and again does at
  last (SF): this is an assumption on the machine, without which a spin lock
  can starve a thread. The mutex likewise goes to a thread that calls for it (SF), and
  nobody has to give up spinning. Guards are scopes and end: SF on the outermost unlock,
  because nested guards may come and go in between.
* In `TaskQueue` a worker that has the mutex or a task goes on, and so does a
  `Shutdown` that has begun. Nobody need push, cancel or shut down, and no wait ends
  without a notification.
* In `AuthService` the DB thread goes on while there is a request; nobody need send
  one, and a crash is never due.
* In `ServerStop` each thread goes on by itself, and `main` once it has begun to
  stop. Nobody need type `s`, connect or send, no wait is interrupted and none ends
  by itself.
* `SendBufferArena` and `MemoryPool` have no fairness: they promise nothing that must come.

## 4. The theorems

All are checked by `tlapm` to the last leaf, for every value of the constants
that the modules' named assumptions allow. Every invariant that a run of section 3
checks is one of them, and so is every action property.

* **ShardMailboxProofs** `NoLostWakeupHolds`, `StopNotMissedHolds`,
  `ImplementsMailbox`. The first is inductive with the type invariant: the push adds
  its thread to `owesWakeup`, the write turns that into a readable eventfd, the
  drain turns that into a dispatcher before the swap, and the swap empties the
  queue. For the second, the invariant adds that a dispatcher that has seen
  `running` true has not yet drained Stop's write. The refinement maps
  `pending` to `batch \o commandQueue`: pushes append to it, the swap leaves it
  alone, a turn of the command loop takes its head.
* **SessionSendProofs** `TypeInvariant`, `NoLostSendHolds`,
  `SendingHasFlusherHolds` (server and client), `FlushScheduledOnceHolds`
  (server). The argument is about a token: `_isSending` is true exactly while
  one of a set of places holds it (a thread about to post, a posted command, a
  running flush, EPOLLOUT interest), and each step hands it from one place to
  the next. On the client the EPOLLOUT interest left by the connect starts
  flushes outside that hand-over, which is why "once" is stated
  for accepted sessions.
  `PacketsConservedHolds` needs `WaitingInv`: a packet is handed over once and with
  nothing sent of it, the local queue is empty outside a flush, no packet stands in the
  two queues twice, and what stands there is, on a connected session, exactly what was
  handed over and is not wholly sent. A disconnect may only make the second half stop
  holding.
* **SessionLifecycleProofs** `NumberingInvariant`, `TypeInvariant`,
  `OwnsDescriptorInvariant`, `NoDescriptorLeakInvariant`, `CallbacksPairedInvariant`,
  `SentToOwnConnectionInvariant`, `EventsNameOwnerInvariant`. Descriptor numbers are
  given out again, so the argument is about connections, which are not. `Numbering`
  says that the commands still to run, `batch \o commandQueue`, carry connections in
  increasing order and above those of every session, so no session is made twice and ids do
  not run out. `Ownership` adds that an accepted descriptor stays open until its command
  runs, that a registered session's descriptor leads to its connection, and that every
  open descriptor has one of the two as its owner; because the kernel's table is a
  function, different connections have different descriptors, and closing one closes
  nobody else's. `Calls` follows the callbacks of a session from none over connected to
  closed, and `Sending` says that what a task holds after it was closed is in
  `outlived`, the sessions that the two statements on bytes and events except. The
  proofs use that `NoConn` is no connection and `NoEntry` no epoll entry
  (`NoConnAssumption`, `NoEntryAssumption`): the kernel tells a closed descriptor from an
  open one, and one that is in the epoll set from one that is not.
* **RecvFramingProofs** `TypeInvariant`, `RoomToReceiveHolds`,
  `ParsedWithinBufferHolds`, `ClosesOnlyAtEndHolds`, `BufferHoldsRestHolds`,
  `NoStrandedBytesHolds`, `StreamRestoredHolds`. One invariant says that before each
  recv the buffer starts at 0, holds less than one packet and thus has room; it rests on
  `CapacityAssumption`, every size field is less than the capacity. For the last
  theorem `ParsesInTurn` adds that the frames handed over tile the stream up to
  the place parsed to, and, if the peer sends packets of one size, that this place and
  the start of the buffer are both boundaries: then the size at the start of the buffer,
  which `Session.cpp:283` reads, is the size of the packet at hand.
* **SpinLockProofs** `TypeInvariant`, `MutualExclusionHolds`, `RecursionCountsHolds`, for any
  number of threads and any ids, id 0 included, through the fast path, re-entry and the slow
  path. The invariant `PlaceInv` says for every place of a thread who owns the lock and
  what the count is; a thread in the slow path may hold the mutex and another the lock, and
  a retry from 0 is as good as a spin. Both theorems hold up to the step in which a thread
  enters past an owner (`~trespassed`); section 5 says how the program gets there.
* **MemoryPoolProofs**, on the pool: `BucketIndexInArray` and `ClassHoldsSize` about the
  size classes; `TypeInvariant`; `CacheWithinLimitHolds`, which is inductive because
  it also bounds what a refill still has to add and says that the cache it is for
  stays empty meanwhile; `SameClassHolds`, from the
  invariant `WellMade`: wherever a block is kept, it is kept under the class of the
  size it was made for, so that it is handed out for sizes of that class only. That it has room
  for them does not follow (section 5). `EachBlockOnceHolds`: each operation takes a set of blocks from one place
  to another and leaves all other places alone, and one lemma says that this keeps every
  block at one place; `OnceInv` adds that only a refill has blocks in hand, and that
  every block was made for some request, so that it has a class to go back to.
* **MemoryPoolProofs**, on the send buffers: `ArenaTypeInvariant`, `EachBufferOnceHolds`,
  `LiveBytesKeptHolds`, from `ArenaInv`: a packet's number is its thread's until it is
  its context's, a buffer that is anywhere was allocated, and a waiting packet lies below
  its buffer's `used`, which only grows while the buffer is held, so a later packet is
  written above it. `FirstPacketIntactHolds`, from `FirstPacketInv`: nothing is sent of a
  packet before it is written, and of a packet at its buffer's start as much has been sent as its
  context's offset says.
* **TaskQueueProofs**, on the queue: `TypeInvariant`; `RunOrCancelledHolds`: a task that is
  started or running has left `Created` for good, so that its status counts the runs
  and tells them from confirmed cancels; `NoStrandedTaskHolds`, which counts: a push adds a
  task and a notification, a worker that is woken turns a notification into itself, and
  one that goes to sleep found the queue empty.
* **TaskQueueProofs**, on the stop: `StopTypeInvariant`; `EarlyTasksRunHolds`, from
  `DrainInv`: what was queued is done or still in the queue, the worker leaves its inner loop only
  stopped and with nothing in the queue, and `main` is past the join only when everyone has
  left. `WokenToStopHolds`: a thread that `main` has told to stop is not in the DB worker's
  wait, and if it is in epoll_wait its eventfd is readable, whatever arrives in between.
  It is the part of `StopReturns` that can be proved here, and no run lists it; it holds on
  the instance of `server_stop`.
* **AuthServiceProofs** `TransactionInv`, which says for every place of the DB
  thread how `work` differs from `disk`; from it `ImplementsLedgerHolds` (the commit is
  the only step that changes the file, and it then does all of a registration or a login),
  `OneValidTokenHolds` and `AnsweredIsCommittedHolds` by following that step, and
  `ActsForTokenOwnerHolds`, because between the look at a token and the answer no one else
  uses the connection.

The type invariants `TypeOK` (`ArenaTypeOK`, `ServerTypeOK`) are proved in the modules
named above (`AuthService`'s as part of `TransactionInv`), and so they are not listed in
the runs. The inductive invariants were checked by TLC on the instances of section 3
before they were proved.

Only model-checked: what is temporal and needs fairness (`MailboxFairness`, `StopCloses`,
`PushedIsSent`, `LeavingIsClosed`, `MarkedIsClosed`, `ArrivedIsHandedOver`, `WaiterEnters`,
`WorkersReturn`, `LoginsAnswered`, `StopReturns`), because the provers used here do not
reason about ENABLED, which weak and strong fairness are defined by. Most of them rest
on a safety property that is proved: `PushedIsSent` on `NoLostSend`, `MailboxFairness` and
`StopCloses` on `NoLostWakeup` and `StopNotMissed`, `ArrivedIsHandedOver` on
`NoStrandedBytes`, `WorkersReturn` on `NoStrandedTask`, `StopReturns` on `WokenToStop`.
The statements of section 5 are refuted by TLC.

## 5. What the code does otherwise than it says

Shown by runs that look for the violation:

* **Interleaved packets** (`send_framing`). After EAGAIN the unsent rest goes
  *behind* packets pushed meanwhile (`Session.cpp:157`), so two packets
  interleave on the connection.
* **Framing of mixed sizes** (`recv_mixed`). Every turn of the parsing loop reads
  the size at the start of the buffer (`Session.cpp:283`).

Part of the models, with no run of their own. The modules concerned end with the
statements that the code refutes; listing one under `INVARIANTS` (or `PROPERTIES` if it is temporal)
of the module's cfg file makes TLC print the steps that lead there.

* **Bytes on a foreign connection** (`NeverSentElsewhere`). A DB task
  keeps a closed session alive; its flush writes to a descriptor number that may have
  been given to another connection (`Session.cpp:126`); README.md:94 promises the
  answer on the session. The same flush rewrites the new session's epoll entry with
  the dead session's id (`NetworkDispatcher.cpp:346`): `EventsNameOwner` without its
  `outlived = {}`.
* **The first packet's bytes for the second** (`SendsOwnBytes`).
  `SendPacket` points the context at the packet's bytes (`Protocol.h:233`), and
  `FlushSendOwner` points it back to the start of the buffer (`Session.cpp:119`), so the
  second packet of a buffer goes out with bytes of the first.
* **The pool gone under a thread** (`NoNullPool`).
  docs/SendBufferPool.md:125-129 tell deleters apart by a flag, but the flag is read before
  the pool is used, and a thread that needs a new buffer does not look at it.
* **The pool gone at the stop** (`StopSurvives`). docs/SendBufferPool.md:132
  clears the pool after the join; `Server::Stop` does it before (`NetworkCore.cpp:65`), while the
  DB worker still has tasks to answer. `StopReturns` therefore says "or crashed".
* **Thread id 0** (`Exclusion`) is also the mark of a free lock
  (`Lock.cpp:19`, `Lock.h:29`), and `ThreadManager::Spawn` numbers from 0.
* **The slow path of the lock** (`CountedByOwner`) compares with the owner
  the last spin saw, and takes the lock from it (`Lock.cpp:46`); then a thread that
  does not own the lock writes the count that Lock.h:32 reserves for the owner. For this and
  for `Exclusion` take the `CONSTRAINT` out of `MCSpinLock.cfg`.
* **Blocks smaller than their class** (`FitsRequest`).
  docs/MemoryPool.md:22 speaks of blocks of fixed size and :23 of requests rounded up to a
  class, but a block is allocated for the exact size of its first request
  (`MemoryPool.cpp:292`), while it is filed under the class and handed out for any size
  of it. Sizes beyond `MaxBlockSize` share the last class in the same way, as the comment at
  `MemoryPool.cpp:90` admits.
* **Swallowed events** (`NetworkDispatcher.cpp:71`): a session whose number equals
  the eventfd's is taken for it (`NoEventSwallowed`).
* **Lost input interest** (`NetworkDispatcher.cpp:320`, `:340`): uninitialized
  `epoll_event` (`KeepsListening`).
* **Immediate connect** (`SessionRegistry.cpp:128`): a moved-from pointer is
  dereferenced (`NoCrash`).
* **Silent success** (`EveryRequestAnswered`). The answer to a successful
  registration or resume has an empty token, which `BinaryWriter` refuses to write
  (`BinaryWriter.cpp:21`), so nothing is sent.
* **Logged in as nobody** (`LoginIsAuthed`). `Login` never fills in the user id of its
  result (`AuthService.cpp:162`), and the session is given 0.
* **The password check** is not a statement of a module, since passwords are left out; it was
  met while reading. `VerifyPassword` (`AuthService.cpp:265`) gives the library
  `password.size() == 0` where it wants the length, and returns the library's 0, which stands
  for success, as false: its result is the wrong way round. The handlers capture the user's
  name as the password (`PacketHandler.cpp:22`, `:57`). `FindUser` may therefore succeed or fail
  for any request, which covers this check and a repaired one.
* **Left behind at the stop** (`ServerStop`). A connection that is posted after the
  dispatcher's last look is dropped with its descriptor (`NoCommandDropped`); a task
  queued after the DB worker has left is destroyed after the memory pool
  (`NoTaskOutlivesPool`); tasks queued while the worker still opened its file are not run
  if the stop comes then (`QueuedTasksRun`); and any key but `s` deletes the owners
  while their threads run (`DeletedIsUnused`).
* **A second flush command** on a connected-by-us session: the comment at
  `Session.cpp:43` says a flush is scheduled only once; EPOLLOUT interest left by
  the connect lets `OnSendable` release `_isSending` while a command is still
  posted. `FlushScheduledOnce` fails without its `accepted =>`. It is harmless,
  as the other properties of `send` show.

## 6. Not modelled

`PROJECT.json` has the list with reasons.

* **Dear ImGui** (`imgui/`), which is nine tenths of the lines under `src/`, is
  vendored third-party code for the client's window. The share of the repository that
  the models cover is small for that reason: they are about the remaining lines,
  of which the engine, the network library and the server carry all the state that
  more than one thread sees.
* **The client application**: its user interface, a token file and handlers that show
  results, all on one thread. The network library it is built on is
  modelled, with sessions made by `ConnectAsync`.
* **Serialization** beyond what a failed write does, the wrappers of system calls
  and SQLite, logging and the frame timer: sequential code that keeps no state between
  calls, or none that another part depends on.
* **The monitoring server** is an empty build file.
* **The cryptography**, SQLite, epoll and the kernel's descriptor table are external.
  They are modelled as the code uses them.

## 7. Plan

The models are complete as far as the code has state worth it, and the invariants and
action properties of the runs are theorems. What is left:

1. The safety parts of the other liveness properties, as `WokenToStop` is for
   `StopReturns`: a session that is leaving has its close on the way (`LeavingIsClosed`,
   `MarkedIsClosed`), a queue that is shut down has no worker asleep without a
   notification (`WorkersReturn`), a request at the DB worker has its thread awake
   (`LoginsAnswered`).
2. The steps of one dispatcher in `ServerStop` against `ShardMailbox`, as a refinement: its
   mailbox is a counter there.
