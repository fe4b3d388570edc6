# Verification of Private-Distributed-Cloud

The repository stripes a block device over eight IoT nodes: the Linux kernel's
nbd driver hands read and write requests to a user-space server, the server cuts
each request into fragments of 1024 bytes, sends every fragment to the node that
owns it, collects the replies and answers the kernel. The server is built on a
small framework: a reactor, a thread pool with a shared queue, semaphores, a
factory, a singleton and an observer. Paths below are relative to
`src/final_project/`.

This directory holds TLA+ models of that code, TLC configurations that check
them on small instances and TLAPS proofs for all instances.

## 1. Inventory

| Component | State | Operations | Talks to |
|---|---|---|---|
| **NbdComm** `concrete/src/nbd/nbd_comm.c` | the nbd device, the socket pair, one `NbdRequest` per request with its data buffer | `NbdDevOpen` (geometry, fork of the process for the nbd driver), `NbdRequestRead` (header, then the payload of a WRITE), `NbdRequestDone` (reply, then the data of a READ, then free), `read_all`/`write_all`, `CleanUp` | kernel through a socket; RequestHost |
| **RequestDispatcher** `concrete/src/RequestDispatcher` | `m_activeRequests`: request uid to `RequestHost` | `NbdRequestsHandle` (nbd socket readable), `IotHandle` (a node's socket readable) | both run on the reactor thread; calls RequestHost |
| **RequestHost** `concrete/src/RequestHost` | static `req_uid`, the request, `fragmentation_set` of unacknowledged fragments | `Create`, `Distribute` (queues a task per node), `SendMsgWrapper` (task, runs on a worker), `ReadReply`, `Peek` | ThreadPool, Command, NbdComm |
| **Command** `concrete/src/command` | none | `ReadRequest::SendRequest`, `WriteRequest::SendRequest`: a blocking `sendmsg` of header and payload | a node's socket |
| **atlas_iots** `concrete/src/atlas_iots` | sockets 0..8 | `main`: connects, opens the device, registers the handlers, runs the reactor | puts everything above together |
| **ThreadPool** `framework/src/ThreadPool` | threads, queue of tasks, per task status and semaphore | `Async`, `Future::Wait`, `ShutDown`, destructor, `TaskDespacher` | BtsQueue, Semaphore |
| **BtsQueue** `framework/include/BTreadSafeQ.hpp` | priority queue, mutex, condition variable | `Enqueue` (notify after unlock), `Dequeue` (waits while empty), `Clear` | ThreadPool |
| **Semaphore** `framework/src/semaphore` | count, mutex, condition variable | `Wait`, `Post` | ThreadPool |
| **Reactor / Select** `framework/include/reactor.hpp`, `framework/src/rector/select.cpp` | handlers by descriptor, the fd sets of a round | `RegisterReadHandler`, `Run`, `WaitForEvent`, `GetNextReadFd`, `SetRead` | calls the dispatcher's handlers |
| **Singleton** `framework/include/singleton.hpp` | instance pointer | `GetInstance` (lock-free), `CleanUp` at exit | factory of commands |
| **Factory** `framework/include/factory.hpp` | creators by key | `Add`, `Create` | lives in the Singleton; RequestDispatcher, RequestHost |
| **Function** `framework/include/function.hpp` | a type-erased callable: nothing, a free function with its bound argument, a member function with its object | call, copy | Reactor, Observer |
| **Observer** `concrete/src/observer` | a Dispatcher's set of Callbacks, a Callback's pointer to its Dispatcher | `Add`, `Remove`, `Notify`, both destructors, the implicit copy | no program uses it yet, only its test |
| **atlas_main**, **atlas_ThreadPool** | forerunners of atlas_iots with one node | send from the reactor thread; send from the pool and match answers by pointer | as atlas_iots |
| **main** `concrete/src/main` | one array | the same promise with `memcpy` | NbdComm |

Where it is hard:

* *Reactor against workers.* A host and its request are freed by the reactor on
  the last reply, while up to eight tasks hold raw pointers to them. Whether a
  worker still needs them is decided only by the order of messages through the
  nodes.
* *Ordering.* Replies come back on eight sockets in any order; tasks leave the
  pool's queue by heap address; the host must be registered before its tasks
  are queued.
* *Blocking.* Workers block in `sendmsg`, nodes block on their replies, the
  reactor blocks in `recv` and `write`; a wait for each other must not arise.
* *Arithmetic.* The loop in `SendMsgWrapper` advances the fragment number, the
  node offset and the buffer independently of the formulas in `Distribute`;
  offsets are `uint32_t`.
* *Failure.* The result of `sendmsg` is ignored, and a closed connection meets
  assertions or SIGPIPE.
* *Two processes.* `NbdDevOpen` forks. The child is meant to stay in
  `ioctl(NBD_DO_IT)`, but returns from it on a disconnect, a timeout or an error,
  and then either cleans up or goes on in `main` as a second server. What each
  process may still read, and whether the other one notices that it is gone,
  depends on who holds which end of the socket pair.
* *Construction and destruction.* The Singleton is built without a lock by
  whichever thread comes first, and deleted at exit. Callbacks and Dispatchers
  point at each other, and a Notify may be under way when either goes.
* *Pool.* A notification is sent after the unlock, a function that returns -1
  is taken for a BADAPPLE, and shutdown is itself a set of queued tasks.

What makes each component correct:

* RequestHost, RequestDispatcher, Command: every fragment of a request is sent
  once, to the right node, at the right offset, with the right bytes; a reply
  is matched with a live host; a request is answered once, after all its
  fragments; memory is not used after release beyond the loop's last test; and
  together they implement a block device.
* ThreadPool with its queue and semaphores: each task runs at most once, `Wait`
  returns the task's result after it returned, no wakeup is lost, `ShutDown`
  returns.
* Reactor: only registered handlers are called, streams stay at message
  boundaries, every readable descriptor is served.
* atlas_main, atlas_ThreadPool: an address names one live request wherever it is
  still mentioned; both, and main, implement the block device.
* NbdComm's set-up, and the `main` of each program: one process reads the
  device; each handler is registered on its own socket; a failed set-up gives its
  descriptors back; neither process is left behind when the other is gone.
* Singleton and Factory: one instance is built and everybody finds it; the order
  in which atlas_iots sets up keeps it from an instance that is not there yet or
  not any more, from a concurrent change of the table, and from a missing creator.
* Observer and Function: both sides of a subscription agree; a Notify reaches
  whoever stays subscribed, whatever the callbacks do meanwhile; each undefined
  behaviour takes a misuse that can be named.

## 2. Modules

| Module | What it is |
|---|---|
| `Striping` | the address arithmetic of `Create`, `Distribute` and `SendMsgWrapper`, with its assumptions |
| `BlockDevice` | abstract specification: requests pending on a device, each fragment takes effect at one moment, the answer comes after all of them |
| `Atlas`, `MCAtlas` | the atlas_iots server: reactor handlers, pool workers, kernel, nodes and sockets; its instances |
| `AtlasInv` | the inductive invariants of `Atlas` |
| `IotStream`, `MCIotStream` | one connection between atlas_iots and a node, piece by piece, with `recv_all`, `MSG_PEEK` and blocking `sendmsg` |
| `AtlasSingle`, `MCAtlasSingle` | the single-node servers atlas_main and atlas_ThreadPool over a stream of chunks |
| `LocalStore` | the handler of the array server main.cpp |
| `NbdDev` | how a server comes up: `NbdDevOpen`, the fork, connections, registration, both processes' descriptors |
| `LocalServer`, `MCLocalServer` | `NbdDev` and `LocalStore` together: the array server with the forked process beside it |
| `Executor` | abstract specification of a thread pool |
| `ThreadPool` | ThreadPool, BtsQueue and Semaphore at the grain of their locks |
| `Reactor`, `MCReactor` | the reactor with its select monitor and the Functions it calls |
| `Singleton` | `Singleton<Factory>`: construction race, use, `CleanUp` at exit |
| `Observer` | Dispatcher, Callback and the Functions they call |
| `AtlasProofs`, `AtlasSingleProofs`, `IotStreamProofs`, `LocalServerProofs`, `ThreadPoolProofs`, `ReactorProofs`, `ObserverProofs`, `SingletonProofs` | theorems and proofs |

`Atlas`, `AtlasSingle` and `LocalStore` instantiate `BlockDevice` (property
`RefinesBlockDevice`), `ThreadPool` instantiates `Executor` (`RefinesExecutor`).
The servers use the pool as `Executor` describes it, tasks in any order and each
once, the reactor as `Reactor` describes it, every readable descriptor being
handled, and the connections as `IotStream` describes them, queues of messages
until a message is split or a peek torn. `LocalServer` composes `NbdDev` and
`LocalStore` step by step: requests exist while the driver's process is in the
kernel, and the handler runs while the server's process is in its reactor.

### Atlas and the code

State. `nbdSock`, `toIot`, `fromIot` are sockets (FIFO, at most `SockCap`
messages); `nbdReq`, `dataBuf` and `fragSet` are a host's request, its buffer by
fragment and its `fragmentation_set`; `active` is the key set of
`m_activeRequests`, and since a host lives exactly as long as its entry, also
says whether its memory exists; `reqUid` is the static counter; `tasks` is the
pool's queue as seen by this program; `pc` and `info` are a worker's place in
`SendMsgWrapper` and its `SendMsgInfo`; `store` is the memory of the nodes;
`fault` says what ended the process.

Actions. `NbdRequestsHandle` and `IotHandle` are whole handlers. They may be one
step each because they run to completion on one thread, the workers see of them
only the queued tasks and the release of the request, and in both functions the
queueing, respectively the release, comes last: `NbdRequestsHandle` registers
the host before `Distribute` queues, `IotHandle` frees after the reply is
written. Partial reads inside `recv_all` block the reactor until the message is
whole, so a message is received in one step. `Distribute` queues several tasks
in one action; a worker that took the first before the second is queued could
only do steps that commute with the queueing of others.
A worker's loop is cut into `Dequeue`, `LoopTest` or `StaleLoopTest` (the read of
`m_nbq_req->dataLen`) and `SendRequest` (the body up to `sendmsg` and the
increments after it). The test is `StaleLoopTest` once the request was freed:
what such a read yields is undefined, and the constant `StaleRead` names the
outcomes considered: the test still fails (`"done"`), succeeds (`"more"`), or
faults. The kernel and the nodes are external: a node executes its commands in
order and echoes uid and fragment, as `ReadReply` expects of it.

Data. A fragment's bytes are named by request and fragment; a node's memory is a
function of the byte offset it is addressed at, which is enough because accesses
have one size and `BlocksDoNotOverlap` shows distinct offsets to be disjoint.

### ThreadPool and the code

A section under a mutex is one step, and what follows the unlock, in particular
`notify_one`, is another. `BtsQueue<shared_ptr<Task>>` is a `priority_queue` with
`std::less` on the pointers, which orders by heap address; here the queue is a
sequence, highest address first, in which a new task may take any place.
`Async`/`AsyncNotify`, `CallWait`/`WaitReturns`, `CallShutDown`, `PushPill`,
`PillNotify`, `Join` and `Destroy` belong to clients, `Dequeue`, `Run`, `Post` to
`TaskDespacher`. Condition variables may wake up spuriously (`SpuriousWakeup`). A
client's function may return -1, the value of BADAPPLE. `owed` is a history
variable (what was queued when ShutDown was called). `Future::Post` has no
caller and `Future::Cancel` no definition, so neither is an action.

### Reactor and the code

`RegisterReadHandler` fills `m_handlers` and the monitor's master set and maximum;
the programs do so before `Run`, in any order of descriptors. A round is
`WaitForEvent` (or `SelectFails`: -1, with the set as it was before the call),
then `CallHandler` for the lowest descriptor still set. `m_handlers[fd]` holds a
Function with the descriptor bound to it, or the empty one that `operator[]`
inserts, whose call ends in `crashed`. A handler reads a message
of `Pieces` pieces in a loop, as `read_all` and `recv_all` do, and blocks when a
piece is missing (`HandlerReads`), which holds up every other descriptor.

### AtlasSingle and the code

The two programs share `NbdHandle` up to who sends, and `IotHandle`; `program`,
chosen at the start, says which one runs. `heap` maps an address to the request
whose `NbdRequest` lives there: the address is what the header carries as uid, and
malloc may return one again once it was freed. A message may be longer than the
connection's buffer, so the connection is a stream of chunks (a header, a block of
data) here. `SendChunk` is a part of a blocking `sendmsg`: `lock` is the thread
that holds the socket while it copies, and a thread that finds the buffer full
waits without it. `rx` is a READ whose data `IotHandle` is reading, while the
reactor does nothing else, or the request with whose reply the process died.
The fields `req` and `idx` of chunks are there for the properties and for the
node, which finds type, offset and length in the header. What follows a pointer to
freed memory is not modelled further (`fault`).

### IotStream and the code

One connection of atlas_iots as two streams of pieces: the two halves of a uid,
the rest of the header, the data. `SendRequest` copies as much of its message as
there is room for; a `sendmsg` that has sent a part waits without the socket's lock,
and `split` remembers that another one went on meanwhile. `Peek` is
`RequestHost::Peek`: `recv_all` asks again for the bytes it still lacks, but
`MSG_PEEK` starts at the beginning of the stream again, so with only half a uid
there it gets that half twice (`torn`). Then `ReadReply` is called on a null host
(`crashed`), or on another request, whose length it reads. After `split` or `torn`
the module claims nothing; up to there it justifies what `Atlas` assumes. It has
one fragment per request and one node, which is what one connection can tell
apart.

### NbdDev, LocalServer, LocalStore and the code

`fds` are the descriptor tables of the server and of the forked process; `open`,
`socketpair` and `socket` take the lowest free numbers. The stages of `NbdDevOpen` are
`OpenDevice`, `SocketPair`, `Fork` (with the ioctls before it), each of which may
fail into `NbdDevOpenFails`. `CleanUp` is given `sp` and `nbd` as they are, `sp`
uninitialised if the pair was not made, and gives up at the first `close` that
fails. The child closes its copy of the server's socket (`DoIt`), and may come out of
the kernel at any time (`DoItReturns`): with 0 it goes on as the parent does
(`NbdDevOpenReturns`), with a number of a descriptor it has closed, which one of
its own connections then gets; else it cleans up. `InitSocket`,
`RegisterReadHandlers` and `MainReturns` are the programs' `main`, with the number
of nodes each connects to. `Dies` is the end of a process for any reason outside
the model.

`LocalStore` is `Handle` of main.cpp: `NbdRequestRead`, one `Copy` per block of
the memcpy, `NbdRequestDone`. `LocalServer` adds `WriteFails` and `ReadEnds`: with
no process left that holds the other end, a reply meets SIGPIPE or an assertion,
and the reactor finds the end of its socket. The second server's handlers on the
closed number are kept as the code leaves them; `ReadEnds` covers the case that
they sit on the server's socket, which `OneServerReadsTheDevice` excludes.

### Singleton and the code

Each access to the statics is a step: `Construct` (the first, plain test),
`TestAndSet` (`ctor_started`), `NewT` or `NewThrows`, `Store`, `AtExit`, and `Spin` for the
losers. `Arrow` is `operator->`. `Add` and `AddReturns` are the two ends of an
insertion into `m_creators`, `Create` the lookup by a worker. `CleanUp` deletes, then
stores 0xdeadbeef (`Beef`). The "server" is atlas_iots, where the main thread adds both
creators before there are workers and exits before it has the Singleton or never; in the
"library" threads do as they like. Undefined behaviour ends the model with a
`fault`.

### Observer and the code

A Callback is named by its address, because `std::set` iterates in that order. A
Notify in progress is a frame of `stack`: where its iterator stands, whether it is
still valid, and, as a history, who is still due. Between two steps of its loop the
callback may do anything a user may, further Notifies included. Constructors,
destructors (`DeleteCallback`, `DeleteDispatcher`), `Add` and `Remove` are whole.
`m_dispatcher` starts `Unset`, as no constructor sets it. The compiler's copy
constructor is `CopyCallback`. `fault` is the undefined behaviour met, where the
model stops; `misuse` collects what the user did that the classes do not guard
against: a copy, an empty Function, adding to a second Dispatcher, removing from
one that is not the callback's own, removing what an iterator stands on. A
Callback lives in the object its Function is bound to, as in the test.

## 3. Runs

| Run | What it checks | What it shows |
|---|---|---|
| `atlas_core` | `TypeOK`, `StaleOnlyAtLastTest`, `FragmentsAccountedFor`, `CommandsAddressed`, `FaultsHaveACause`, `RefinesBlockDevice`, `RequestsAreAnswered` | two overlapping requests in every interleaving, one node closing at any time; a stale loop test may end the loop or fault: the server is a block device, stops only for a closed connection or a fault of that test, and otherwise answers every READ and WRITE although sockets hold one message and sends block |
| `atlas_stale` | `FullInv` | a stale loop test may also send the worker round once more, a DISC may come, and the nbd socket may close: the whole invariant of the proofs still holds (`Accounts` included, the part the refinement needs) |
| `atlas_memory` | `BlocksHoldWhatWasWritten`, violated | see findings |
| `iot_stream` | `TypeOK`, `RepliesMeetTheirRequest`, `RequestsAreAnswered` | three requests whose uids share halves, two workers, messages in pieces: until a `sendmsg` is split or a peek torn, each reply is received by the request it is for, to its end, and each request is answered |
| `single` | `TypeOK`, `AddressesNameRequests`, `FaultsHaveACause`, `RefinesBlockDevice`, `RequestsAreAnswered` | both single-node servers, three requests at two addresses, either peer closing at any time; atlas_ThreadPool with two workers, a `sendmsg` that returns -1 ending its worker, and room for what is outstanding; atlas_main with messages longer than the connection's buffer: nothing outlives the request whose address it holds, both implement the block device, and requests are answered unless atlas_main, in `sendmsg`, and the node, in its reply, wait for each other |
| `single_split` | `BlocksHoldWhatWasWritten`, violated | see findings |
| `local_server` | `TypeOK`, `OneServerReadsTheDevice`, `HandlersOnTheirSockets`, `FailureReleasesAll`, `ReadsAreInOrder`, `RefinesBlockDevice`, `EndTogether`, `RequestsAreAnswered` | every way a server with no, one or two nodes comes up or fails to, with the forked process leaving the kernel at any time, and the array server at work: one process reads the device, handlers sit on their sockets, a set-up that fails after the socket pair leaks nothing, neither process is left behind in its role, and the array is a block device that is even sequential |
| `pool_core` | `TypeOK`, `NobodySleepsOverWork`, `RefinesExecutor`, `WaitsReturn`, `ShutDownReturns` | no lost wakeup; tasks run once and `Wait` tells their result, BADAPPLE and shutdown included; a `Wait` returns while workers are left; `ShutDown` always returns |
| `pool_finish` | `FinishesQueue`, violated | see findings |
| `reactor` | `TypeOK`, `RoundsAreExact`, `MessagesStayFramed`, `EventsAreServed` | three descriptors in any order of registration, messages in two pieces, interrupted selects: no handler is called that nobody registered, nor for another's socket, streams stay at message boundaries, and a readable descriptor is handled however busy a lower one is |
| `singleton` | `TypeOK`, `OneInstance`, `FaultsHaveACause`, `EveryoneGetsIt` | four threads race for the instance, `new` may throw, the main thread may exit: one instance is built; everyone gets it unless `new` threw, when the losers spin for ever; atlas_iots meets no fault, and other programs meet a dead instance only while they exit |
| `observer` | `SubscriptionsAgree`, `FaultsHaveACause`, `NotifyReachesAll` | two dispatchers and two callbacks, every operation at any point of two nested Notifies: which misuse each undefined behaviour takes, and that without it both sides of a subscription agree |

Bounds. All instances of Atlas have 2 nodes, fragments of 2 bytes, a device of 4
blocks (8 bytes, with `Word` = 8, so offsets reach the end of the word), 2 requests,
2 workers and sockets of one message.
In `single` the pool's way to the node (`OutCap`, 6 chunks) holds all that
two outstanding requests can send, so that no message is split, and atlas_main's 2
chunks less than a message; the way back
(`InCap`) has one chunk, so that the node waits for the reactor at each; `single_split`
lowers the pool's `OutCap` to 2. `MutualWait` is reachable in `single`. Two addresses
and three requests make an address come back. In `iot_stream`, five pieces to the
node hold a message and the beginning of the next, three back less than a READ's reply,
so both `split` and `torn` are reachable, as is a torn uid that names another request.
Descriptors 3, 4 and 6 have a gap; three pieces of buffer hold a message and a
half. For the array server all requests of one or two blocks on three and three
requests give every overlap; two nodes are the least that make descriptors of
the second server's connections differ, and eight descriptors are all that two
nodes need. Two callbacks are enough for one to remove, delete or follow the one an
iterator stands on, two dispatchers for one to be the wrong one, and a nested
Notify for an iterator of the same set below. Four threads let two losers spin
beside a winner and a late comer.

Bounds of Atlas and the pool. Two nodes and a request of three fragments make one strand of two
fragments (the loop goes round) and one of one (it does not), on different
nodes; requests that start at odd and even blocks rotate the nodes; two requests
overlap in a block, so that reads and writes race; one-message sockets make
every sender block; as many workers as strands allow two requests' tasks to be
mixed. A third request adds no new pair of actors. The constants a test would
not reach (8 nodes, 2^32) are covered by the proofs. For the pool, two workers
are enough for a wakeup to reach the wrong one, two tasks and two pills for any
overtaking in the queue, and the boss and one more client for a `Wait` against a
shutdown. Workers are symmetric; runs with fairness use no symmetry.

Deadlock is checked in the runs of `Atlas`, `Reactor` and `LocalServer` and in
`single`. `Quiet` of `Atlas` and `AtlasSingle` stutters exactly where all requests are
answered or the process has ended (for atlas_main also in `MutualWait`, which its
liveness property names), and `Over` of `LocalServer` where both processes are gone,
so a standstill anywhere else is reported. It is switched off where stopping is
legitimate: a pool that was destroyed, or a client waiting on a pool without workers;
a program that has ended or met a fault in `singleton` and `observer`; a connection
whose framing is lost (`single_split`, `iot_stream`) or whose requests are all answered.
What must not stop there is stated as a liveness property.

Bounds in the guards: `MaxReqs` requests (`req_uid` does not wrap), `SockCap`
messages, `MaxTasks` calls of `Async`, `MaxFd` descriptors, `MaxDepth` nested Notifies,
`OutCap`, `InCap` and `Cap` pieces on a connection, one life per Callback and
Dispatcher, and in `StaleLoopTest` a worker that reads
"more" goes on only while the block it would address exists.

## 4. Fairness

`Atlas` (`Fairness`): weak fairness of the nbd handler, of each node socket's
handler, of each node and of each worker. The kernel schedules runnable threads;
`Select` returns the set of readable descriptors and `Run` serves each of them
before it selects again, so a readable socket is served in its round; a
blocked `sendmsg` resumes when there is room. No fairness is assumed of the kernel
issuing requests or of peers closing. Weak fairness is enough: a socket with a
message stays readable until it is handled, and there is one sender per strand;
two workers that want the last place of one socket take turns because requests
are finite.

`Reactor`: weak fairness of the thread, strong fairness of a select that succeeds
(not every select is interrupted), and a peer completes a message it has begun;
nobody has to begin one. Its `EventsAreServed` is what the other models assume of
the reactor. `AtlasSingle`: as Atlas.

`IotStream`: weak fairness of each worker, of the node, of the arrival of a reply
that was sent, and of the reactor, for the same reasons; the reactor never waits
for a worker, so nothing stronger is needed.

`LocalServer`: weak fairness of each process' own steps; `NBD_DO_IT` returns at the
latest when the other end of its socket is closed, as the kernel's driver notices
that. Nothing is assumed of the kernel's requests, of an earlier return, or of who dies.

`Singleton`: weak fairness of a thread inside the constructor. Nobody has to enter it.

`ThreadPool`: weak fairness of each worker, of a pending notification, of
returning from a posted semaphore and of ShutDown's steps. Functions are assumed
to return. No client has to call anything.

## 5. Findings

* `atlas_memory`. `SendMsgWrapper`'s loop condition reads `m_nbq_req->dataLen`
  after the last `sendmsg` (`RequestHost.cpp:43`), when the reactor may have freed
  request and host already. If the memory was reused for a longer request the
  worker sends once more, from a freed buffer, and a node stores the result: a
  block holds what no WRITE of it put there, while `README.md` calls the system a
  shared memory. That the damage can only arise at this last test is
  `StaleOnlyAtLastTest`, which is proved.
* `single_split`. The workers of atlas_ThreadPool call `sendmsg` on one stream
  socket with no lock of their own (`atlas_ThreadPool.cpp:59`). A blocking `sendmsg`
  that waits for room lets another in; the node then takes a header for data and
  stores it. With one worker, or room for everything, this cannot happen.
* `pool_finish`. `ThreadPool.hpp:25` says `ShutDown` "finishes what currently in
  queue". The queue orders tasks by address, so both BadApple tasks may be popped
  before a task queued earlier; it never runs, and a `Wait` for it blocks.

## 6. What is proved

The theorems hold for every value of the constants that the named assumption of the
module allows: any number of nodes, workers, clients, requests, blocks,
descriptors, callbacks. Each `*Proofs` module has an inductive invariant (`IInv`, or one
named below), one lemma per action that it is preserved, and the properties as
consequences.

`AtlasProofs`, the arithmetic (`StripingAssumption`: sizes are positive, a `uint32_t`
addresses the device). From facts on division: for blocks of the device the
`uint32_t` product in the offset does not wrap (`IotOffsetExact`), so blocks `NumIot * m`
apart are on one node, `m * FragSize` bytes apart (`RoundsApart`), whether or not
`NumIot` divides `FragSize`. Hence `LoopFollowsStriping` (going round the loop once,
block `k + NumIot` is on the same node, `FragSize` further) and
`BlocksDoNotOverlap` (two blocks on one node do not share a byte).

`AtlasProofs`, the server (`AtlasAssumption`: requests lie on whole blocks inside the
device, as the geometry set in `NbdDevOpen` makes the kernel send them).
`Invariance`: `Spec => []IInv`.
None of the properties is inductive alone. The argument, in the order of `IInv`'s
parts: each *strand* of a request (every `NumIot`-th fragment) is in the hands of
one task or worker (`OneHolder`), which knows the right socket, offset and buffer
for its block (`HoldersAddressed`, which rests on `LoopFollowsStriping`); a message
on a socket is about a fragment its strand's holder has passed (`SentOnce`), so an
acknowledged fragment will not be sent again (`AcknowledgedOnce`); a request is
released exactly when nothing is unacknowledged (`ReleasedWhenDone`). When it is
released, then, every holder has passed every fragment. That gives
`ReleaseIsLate` (`StaleOnlyAtLastTest`), for any outcome of a stale read. While the
request lives its buffer is intact (`WriteBuffersIntact`), so a command carries the
bytes of its own fragment: `CommandsReachTheirBlock` (`CommandsAddressed`).
`TypeCorrect` gives `TypeOK`, including that a request is answered at most once.

`FullInvariance` adds `Accounts`. `FragmentsAreAccountedFor` follows each fragment
through its places (`Places`: tasks, workers, commands, replies): every action moves
one of them on or takes it away with the acknowledgement, so a reply always finds its
request and no second reply can. With it `FaultsAreCaused`: what is left to stop the
server is a closed connection or the stale loop test. `ImplementsBlockDevice`:
`Spec => RefinesBlockDevice` under `"more" \notin StaleRead`. The hypothesis is needed:
if a freed `dataLen` reads as more, a worker sends for a block after its request was
answered, which is no behaviour of a block device and is finding `atlas_memory`. A
daemon's execution of a command is the moment a fragment takes effect; that it is the
first and the last for this fragment is `Places`, that the block and its bytes are right
is `CommandsAddressed`, that the answer finds all fragments taken is `ReleasedWhenDone`.

`AtlasSingleProofs` (`SingleAssumption`: blocks are numbered from 0, requests lie inside
the device, a DISC has no data, no address is one of the marks of an idle or an ended
thread). `TypeCorrect` is unconditional: even when messages mix, no request is answered
twice and no READ is read past its end. Everything else needs whole messages: finding
`single_split` is a behaviour in which the node takes a header for data, and then an
address may outlive its request. The proviso is `NoSplit`: no thread copies a chunk to
the connection while another is halfway through its message. `Whole` proves it for both
programs where it is true: for atlas_main always, as only the reactor sends; for
atlas_ThreadPool with a single worker (`OneWorker`), or when the connection has `Room`
for as many of the longest commands as there are addresses. With room nobody has to
wait, so whoever is halfway still has the socket's lock (`LockHeld`): the chunks on the
connection are of different address and number, and a thread with chunks to send knows
one that is not there, so the connection is not full. Run `single` has exactly this much
room, `single_split` has less. The argument (`Invariance`: `Spec /\ [][NoSplit]_vars =>
[]IInv`): a request goes from the queue to a thread, from there chunk by chunk to the
connection, to the node, back, and to `IotHandle`; at each place there is of it only
what no later place has (`TasksFirst`, `SendersNext`, `CommandsNext`, `NodeNext`,
`RepliesLast`). So when the last chunk of a reply is read and the address freed nobody
mentions it any more, and malloc may give it to the next request (`Named`). That the
node's and the reactor's reads meet the beginning of a message is `ToNodeFramed` and
`FromNodeFramed`, with `MidwayContinues` and `NodeContinues` for the one that is only
half there; that what arrives are the bytes of the WRITE is `BuffersIntact` and
`ChunksIntact`. `AddressesAreGood`, `FaultsAreCaused` and `ImplementsBlockDevice`
follow, each under `WholeMessages` (`NoSplit`, or one of these three). In the refinement
the node's store of a block and its reply chunk are the moments a WRITE and a READ take
effect.

`LocalServerProofs` (`LocalAssumption`: blocks are numbered from 0, requests lie inside
the array, a DISC has no data; `NbdDevAssumption` of `NbdDev`: the descriptors suffice).
`StoreInv` finds two numbers at any moment: the requests answered and the requests
issued; those between are in the socket in their order, but for the one `Handle` works
on, and the array holds the last WRITE of each block below the first number, the memcpy
in progress overlaid up to `copied` (`Progress`, `Contents`). So `ReadsInOrder`, and
`ImplementsBlockDevice`, with `Copy` as the step at which a block takes effect. `DevInv`
gives each process' whole descriptor table at each stage of its start (`PairTab`,
`ServerTab(k)` after k connections, and `DriverTab(k)` for the forked process, whose first
connection takes over the number of the socket it has closed). From these tables
`OneServer`, `HandlersFit` and `FailuresRelease` are read off, for any number of nodes.

`IotStreamProofs` (`StreamAssumption`: uids have two halves, there is room for at least a
piece). `TypeCorrect` is inductive once a registered request has a type. For `RepliesMeet`
each piece on its way is labelled with the request it belongs to and its number in the
message. `Framed` says that labels C for what goes to the node (what it has read, the
connection, the rest of the one message that is half sent) and R for what comes back
(what `ReadReply` has, the connection, the rest of the node's reply) can be found such
that each is a row of whole messages and no label occurs twice (`Row`), and that every
request's message is in one place (`Placed`). A new message is added at the end of C
when its `sendmsg` begins (`RowAdd`), goes from the front of C to the end of R when the
node replies (`RowDrop`), and from the front of R when `ReadReply` is done. A sendmsg that
is split would put a label between two of another message, a torn Peek would read none:
the invariant is `~split /\ ~torn => Framed`, and nothing is claimed after either.

`ThreadPoolProofs` (`PoolAssumption`: finitely many threads, at least one worker).
`NobodySleepsOverWork` speaks of an empty or a non-empty queue only, which is not
inductive: two tasks may be queued and one notification left. `Counted` is: while any
worker sleeps, the queue is no longer than the workers about to look at it and the
notifications on their way together. `NoLostWakeup` follows. `Placed` (a task is in the
queue or in one worker's hands) and `Posted` (its semaphore is posted after that, with
the status set) give `TypeCorrect`. `ImplementsExecutor`: `Spec => RefinesExecutor`. A
task's phase is read off the queue and the workers' hands, a worker is spent when a
status becomes -1. What the mapping needs beyond `IInv` is that a status is set by the
one run of its task (`NotYetRun`, `RanAsMeant`), that the worker of a -1 takes no other
task (`BadStops`), and that a semaphore told is not posted again (`ToldOnce`). That a
task is started only while a worker is left is a count of workers (`RoomForOne`).

`ReactorProofs` (`ReactorAssumption`: finitely many descriptors, messages and buffers of
some size). `RoundsCallWhatIsReady`: what select watches has its handler below the
maximum (`Registered`), and the counter of a round is the size of its set, a failed
select included. `StreamsStayFramed`: what a socket holds beyond what its handler and
its peer have still to do is a whole number of messages (`AllFramed`).

`ObserverProofs` (`ObserverAssumption`: addresses are positive and finitely many).
`Agreement` and `CausesOfFaults` need, besides each other, that a Callback that was not
copied is in the set it points to (`BoundIsSubscribed`) and has its own object
(`OwnObject`). `NotifyIsComplete` needs that a valid iterator is owed subscribers only
(`DueAreSubscribed`), and that the least element after one is passed by nobody
(`FollowingIsNext`).

`SingletonProofs` (`SingletonAssumption`: finitely many threads, at least one creator).
`OneIsBuilt` from who has found `ctor_started` unset (`OneWinner`) and what the
statics are while it constructs (`WinnerState`, `Statics`); `ServerIsSafe` from the
order in which atlas_iots sets up (`ServerOrder`).

Every invariant and every safety property a passing run checks is stated by a theorem. Two
are proved under a proviso, given with them above: `Atlas`' refinement when a stale
length never reads as more, and all of `AtlasSingle` but its types when messages are whole.
Out of the prover's reach: liveness (`RequestsAreAnswered`, `WaitsReturn`,
`ShutDownReturns`, `EventsAreServed`, `EndTogether`, `EveryoneGetsIt`), which rests on
fairness.

## 7. Plan

What is left, in this order:

1. `Atlas` over `IotStream` rather than over queues.
2. Repeated Waits on one Future, and copies of it.

## 8. Not modelled

* Argument parsing, logging, and `consts.hpp`, which nothing that runs includes. Tests
  and Makefiles.
* The kernel's 30 second timeout but for its effect, that `NBD_DO_IT` returns.
* What a second server (the forked process, after `NBD_DO_IT` returned 0) does with
  the descriptor it has closed: `select` fails with EBADF and its reactor
  spins, or it serves a node's socket under that number. It reads no request, which is
  what `OneServerReadsTheDevice` says.
* Leaks of `CleanUp` before the socket pair is made or in the forked process, where
  it stops at a number that is not open: `FailureReleasesAll` excludes them, as
  both processes exit at once.
* `BtsQueue::Clear`, the monitor's `ClearRead` and `Future::Post`, which have no caller;
  `Future::Cancel`, which has no definition.
* The wrap of `req_uid` after 2^32 requests, and starvation of tasks at low addresses:
  no bounded instance reaches either. A second Wait on one Future.
* The header `framework/include/ThreadPool.hpp`, which the servers include, lacks the
  destructor and `m_running` of the one beside `ThreadPool.cpp`; `ThreadPool` models
  the latter. Layouts of objects are outside TLA+.
* What follows undefined behaviour: the models stop with a `fault`, but for the stale
  loop test of `Atlas`, whose outcomes `StaleRead` enumerates.
