# TLA+ models of the GPUDirect-TCPXO NCCL plugin

These modules model the programs of this repository: the NCCL network plugin,
the DXS client library it uses, the receive-data-path manager RxDM that imports
GPU memory for it, and the prober. TLC checks them on small instances, and TLAPS
proves the safety properties of most of them for all values of their constants.

DXS, the process (outside this repository) that moves the data, is modelled only
as far as the client's code shows what it may do. So are NCCL, dcsctp (the SCTP
implementation), gRPC and CUDA.

## The system

```
 NCCL ── plugin (nccl_shim) ── DxsClient ──┬─ SctpHandler ── SCTP ── DXS
              │                            └─ LlcmHandler ── rings ── DXS
              └─ BufferManagerClient ── Unix socket ── RxDM ── BufferManager ── SCTP ── DXS
 prober agents: gRPC between agents, DxsClient and BufferManagerClient below
```

| part | state | operations | what makes it hard | module |
|---|---|---|---|---|
| SPSC ring (`dxs/client/spsc_queue`) | bytes, counters that wrap, doorbells in the peer's memory | send, receive, save, restore | two processors without a lock, late visibility, wrap-around | `SpscQueue` |
| SCTP handler | `receive_buffer_`, `active_receive_`, `connected_`, `running_` | handler thread, poll, Shutdown, destructor | who delivers, outside the lock, in which order | `SctpHandler` |
| LLCM handler | `overflow_`, two rings | send, RxPoll, answer to PING, Shutdown | a full ring, order of ring and overflow | `LlcmHandler` |
| DXS client | tables of sockets, ops and pings | Init, Listen, Accept, Connect, Send, Recv, Ping, acks, failure | acks before the send returns, failure at any point, two channels | `DxsClient` |
| buffer manager | counter and last ack of a registration | RegBuffer, DeregBuffer, acks | waits with timeouts, late acks, shared state | `BufferManager` |
| RxDM import service | tracker, mappings, connected clients | requests, hang-up, CleanUp, stop | processes that die, DXS that stays silent | `GpuMemImporter` |
| plugin: transfers | stages of Connect and Accept, flow index, requests | Listen, Connect, Accept, Isend, Irecv, Test | two sides that count on their own | `NcclComm` |
| plugin: registration cache | sorted slots with reference counts | RegMr, DeregMr | overlapping ranges, holders of one slot | `MrCache` |
| plugin: initialisation and shared clients | once flag, a shim per GPU, two clients per NIC, their locks | Init, GetShim, NicClientRouter, Close, exit | first calls of several threads and GPUs at once, errors half-way | `Plugin` |
| prober | two lists of connections with a mutex each, probes | StartPings, StopPings, setup, teardown, CleanUp | agents that wait for each other with mutexes held | `Prober` |

What is left out is listed under "Not modelled" below.

## Modules

`MessageChannel` is the abstract specification of a control channel: a FIFO
queue whose output is the last message taken. `SpscQueue`, `SctpHandler` and
`LlcmHandler` each implement it under a refinement mapping; in each the property
is called `InOrder`. The modules above them use what this shows: `LlcmHandler`
takes the rings to be FIFO queues, `DxsClient` and `BufferManager` take the two
channels to be FIFO queues.

`GpuMemImporter` extends `BufferManager`: the event thread of RxDM is its only
caller. `MrCache` sees RxDM through what RegBuf and DeregBuf return; `Plugin`
extends it, and its threads use the cache through their connections. Modules
`MC*` instantiate the others for TLC, and modules `*Proofs` hold the theorems;
`DxsClientInv` has the inductive invariant of `DxsClient` and the proof that the
client's own steps preserve it, `DxsClientProofs` the steps of DXS, the handlers
and the theorems.

Definitions keep the names of the functions they model. A step is the code
between two points where another thread can interfere: an unlock, a wait, or a
store or load of shared memory. Mutants are definitions marked `mutant`: a
plausible mistake in the definition that follows, used to see that a property
can fail.

### SpscQueue
One direction of the pair; the other is the same code. The sender's steps are
the loads and stores of `Send`/`Commit`, the receiver's those of `Receive` and
the release of the space. Data stores reach the peer's memory in any order up to
the barrier, doorbell stores some time after they are issued. Counters are taken modulo `Mod`. Either end may be
saved, lost and restored from its state (`SaveState`, `RestoreState`).

### SctpHandler
The handler thread, the application threads in `ReadSocket`, the thread in
`Shutdown` and the destructor. Packets carry numbered messages.

### LlcmHandler
All operations hold `mutex_`; DXS uses the rings at any time, so a step is one
operation on a ring.

### DxsClient
`Init` fails without a handshake when the LLCM handler cannot be set up. A call
registers its table entry under `mu_`, then sends without it. `Accept` takes two
steps: it removes a connection from the listening socket under the socket's own
mutex, and enters the new data socket under `mu_` later, so that another thread
or the failure handler can come in between. Every message from DXS is handled in
one hold of `mu_`. The link may be lost at any
time; the failure handler then marks every entry, those that had already
completed included, as the code does.

### BufferManager and GpuMemImporter
RegBuffer sends its iovecs in several messages and waits for as many acks;
DeregBuffer waits for one. Both have timeouts, after which the acks may still
come. A buffer without iovecs sends nothing, and its call returns what the last
ack left. RxDM's event thread of one NIC serves several processes; the daemon's main
thread starts it, waits for the stop flag and runs the destructor. A request is
read in two events, first its length and then its text (`read_state`); a hang-up
drops a request of which only the length was read. When `close()` fails in
`UntrackBuffer` the buffer, already unmapped, stays tracked until CleanUp.
*Assumption about DXS:* once it rejects a message of a registration it rejects
the rest of it, since the client looks at the status of the last ack only.

### NcclComm
Both sides of one communicator: a sender that connects its flows and a receiver
that accepts them, then numbered messages. DXS pairs the ops of a flow in order.
A call that DXS refuses returns before the flow index moves. A request that timed
out stays: DXS may complete it later, and NCCL may test it again, which returns
the error that the request remembers.

### MrCache
The cache of one NIC as a sequence of slots ordered by address, what NCCL holds,
and what RxDM has registered for the process. `reg_mutex` is held across the
whole call, so a call is one step. The array grows when it is full; when
`realloc` fails the array is gone while the cache still counts its slots
(`lost`), and the next call that uses the cache crashes. The scan for the slot of
an address also reads the slot after the last one; what it reads there decides
nothing, since the code looks at the position first. A request that RxDM fails ends its connection
and takes every registration of the process back, while slots and handles stay,
as in the code.

### Plugin
The threads of NCCL, each with a GPU current, in the entry points. `once`,
`polls` and `initState` are `PluginCoreInit` and the wait for RxDM; `gpuLock` and
`shim` are `per_gpu_init_locks` and `per_gpu_clients`; `mu` and `clients` are the
router's. `live` has every client that exists, so that a client the router lost
would be seen. A step ends where another thread can get in: at a lock, at an
unlocked load of the shim, between the two clients of a NIC. An error in Init is
fatal (`process = "aborted"`), as is the use of a lost cache; in other calls it
is returned and the next call tries again. With `kFastrakAllowNicSubset` a GPU
whose NIC is missing gets a shim without clients.
*Assumption about NCCL:* some Init has been done before other entry points are
called (`fastrak_plugin.cc:53` says so), and no call is running when the
destructor of the library runs.

### Prober
Two agents with one NIC each. The RPC of the controller that is being served, or
CleanUp, is `job`; the mutexes are held exactly while `PingLocked` and
`PongLocked` say so. A TearDownConnection request may be lost or handled after
its caller gave up. One controller call at a time is served by an agent.
*Assumption about DXS:* a flow on which an op failed does not carry data again.

## Runs

| run | instance | checks |
|---|---|---|
| `spsc_queue` | ring of 8 bytes, alignment 4, header 2, counters mod 16, messages of 2 and 3 bytes, and of 5, over the limit of 4 | `CountersInOrder`, `NoOverwrite`, `HeaderContiguous`, `MessageComplete`, `RestoreAccepted`, `InOrder`, `EventuallyHandled`, `SpaceReturns` |
| `sctp_receive` | 2 polling threads, 4 messages | `OneOutstandingCall`, `BufferHasOwner`, `InOrder`, `EventuallyDelivered`, `FailureReported`, `DestructorReturns` |
| `sctp_failure` | 1 polling thread | `FailureIsFinal`, violated |
| `llcm_channel` | 2 threads, rings of 2, batches of 2, 4 sends, 3 PINGs, 1 ack | `EachPingAnsweredOnce`, `InOrder`, `SendsArrive` |
| `dxs_client_safety` | 2 threads, 1 listening socket, 2 data sockets, 2 connections, 2 ops, 3 server versions | `TypeOK`, `RequestsAfterOpen`, `ResultsAreReal`, `ConnectionsConserved`, `NothingPendingAfterFailure` |
| `dxs_client_liveness` | 2 threads, 1 data socket, 2 ops, 1 ping | `OpsAnswered`, `CallsReturn`, `InitCompletes` |
| `buffer_manager_threads` | 2 calling threads, 2 registrations | `HandleIsOwn`, violated |
| `importer_safety` | 2 processes, 2 registrations of up to 2 messages | `TypeOK`, `TrackedIsUsable`, `MappedWhileRegistered` |
| `importer_liveness` | 2 processes, 2 registrations of 1 message | `BuffersReleased`, `RequestAnswered` |
| `nccl_comm` | 2 flows, 3 messages, 2 refusals | `TypeOK`, `TransferInOrder` |
| `plugin` | 2 threads, 2 GPUs that share a NIC, a second NIC, 1 failure, 1 poll of RxDM, `kFastrakAllowNicSubset` set; 3 pages, 2 registrations, 2 holders, an array of 1 slot that grows | `MrUsable`, `MrAccounted`, `OneClientPerNic`, `PointersCurrent`, `EntryPointsReturn` |
| `prober` | 2 agents, 2 connections, limit 1, 2 probe rounds of the first | `TypeOK`, `RttIsOwn`, `CallsEnd` |

Why the bounds are enough for the interesting cases:
* ring: with its header a message of 2 bytes fills one unit of the alignment and
  one of 3 bytes takes two, the second mostly padding, so messages start and wrap
  at either offset, the ring gets exactly full, and the counters wrap while both
  ends are active. One of 5 bytes is over `kMaxMessageSize` and is refused;
* SCTP: with four messages a batch is taken while others arrive and a third
  thread looks in;
* LLCM: four sends and three PONGs overflow a ring of two several times;
* client: two threads accept from one listening socket, two ops complete in
  either order, and the three versions are below the minimum, without and with
  AcceptAck. The action constraint `Apart` explores behaviours with two accepted
  connections and behaviours with operations, not both in one: a socket and its
  operations share no table entry with another socket;
* importer: the late acks of one registration meet the next, of another process.
  The liveness run (`EarlySpec`) restricts the environment: no signal, no new
  client once a buffer was registered, the association with DXS lost only while a
  registration waits for its ack. A request still waits behind the other client's
  request and behind the clean-up of what that client has registered;
* transfers: the third of three messages uses the first flow again while its
  first message may be in flight, late or failed; either side or both may be
  refused;
* plugin: two threads meet at every lock, for the same GPU or for two that need
  the same client, and the failure happens at each place where one can. Three
  pages have ranges that contain, overlap and adjoin each other, and the second
  registration makes the array of slots grow, or fail to. Memory and calls
  change no variable in common, except when the process exits, so the action
  constraint `Separately` leaves out their interleavings: calls are explored
  while no memory is registered, and memory once both threads are connected;
* prober: two setups overlap on the pong side, and the setup of one connection
  overlaps the teardown of another.

The type invariants of `SpscQueue`, `SctpHandler`, `LlcmHandler`, `MrCache` and
`Plugin` are proved and not repeated in the runs; those of the other modules are
checked, and some of them proved as well.

Deadlock is not checked where the system may come to rest: after a shutdown, or
when a bound on the number of calls is reached.

### Fairness
Threads that can run do, handlers of messages are called, and a wait with a
timeout ends. Beyond that:
* `SpscQueue`: the receiver keeps polling (strong fairness, since the bytes it
  looks for become visible and, with restores, must be found again);
* `LlcmHandler`: the application keeps calling `RxPoll` (`Test` and
  `SocketReady` do) and gets `mutex_` now and then; DXS reads its ring;
* `DxsClient`: DXS answers while the link is up;
* `GpuMemImporter`: `epoll_wait` reports each client that has something to
  handle (strong fairness per client). Nothing is assumed of DXS;
* `Plugin`: each thread inside a call takes its next step. Weak fairness is enough:
  a lock is held across a step only while something is made, which succeeds once
  and fails at most `MaxFailures` times, so from some point on every lock is free.
  In the code a waiting thread relies on `std::mutex` and `absl::Mutex` for that;
* `Prober`: deadlines pass. Nothing is assumed of DXS or of delivery of RPCs.

## Theorems

All are of the form `Spec => []P` (or a refinement), for every value of the
constants allowed by the named assumptions of the modules.

* `SpscQueueProofs`: `TypeCorrect`, `CountersNeverBreak`, `UnreadBytesSafe`,
  `HeaderInOnePiece`, `RestartAccepted`, `NothingIncomplete`, `ReceivedInOrder`. Assumed: the header fits the alignment,
  the alignment divides the size, the size divides the counters' modulus and is
  less than it. `NoOverwrite` is not inductive: the sender works from a copy of
  the receiver's counter that may be old, and stores may land late. The
  invariant `IInv` adds that all counters and their copies are aligned and in
  order (`AlignedOK`, `CountersInOrder`), that the two spans of a batch are
  exactly the addresses of the bytes after the counter, within the free or the
  filled part (`SendBatchOK`, `ReceiveBatchOK`), and that every store under way,
  those of an abandoned send included, lands in the free part (`WritesOK`). Most
  of the proof is arithmetic modulo the size and modulo the counters.
  `MessageComplete` and `InOrder` are about what is in the ring and need a second
  invariant on top of `IInv`: the unread bytes are the messages committed and not
  yet handled, one after the other, each with its header and its body, and the
  receiver's copy of the producer counter lies at the end of one of them
  (`Content`); and what a send has stored so far is in the ring, or will be when
  the stores under way have landed (`Written`). `NoOverwrite` keeps the first
  while stores land, and the barrier of a commit turns the second into the first.
  `ReceivedInOrder` is the refinement of `MessageChannel`: a commit is `Accept`, a
  call of the handler is `Deliver`, every other step a stutter.
* `SctpHandlerProofs`: `TypeCorrect`, `AtMostOneCall`, `NothingStranded`,
  `ReceiveInOrder`. The invariant adds to `BufferHasOwner` that at most one
  thread is inside the receive loop and that exactly the threads with a message
  left to deliver have a batch. `ReceiveInOrder` is the refinement of
  `MessageChannel`, with batch, `receive_buffer_` and stream as the channel.
* `LlcmHandlerProofs`: `TypeCorrect`, which is inductive, `SentInOrder`, the
  refinement of `MessageChannel` with ring and overflow as the channel, and
  `PingsAnswered`. `EachPingAnsweredOnce` is about the concatenation of the
  ring, the overflow, the PONG being sent and the PINGs unread, of which every
  step moves a message from one part to the next; the lemmas on `Run` say what
  that does to an unbroken run of numbers.
* `NcclCommProofs`: `TypeCorrect`, `TransfersInOrder`. `TransferInOrder` needs
  the two sides to agree on the flow of each request though neither sees the
  other's index. `RoundRobin` says that each side takes the flows in turn and
  `Coherent` that equal positions have equal flows, stated between a request of
  the side that is ahead and the index of the side behind; equal ranks on a flow
  are then equal positions.
* `PluginProofs`, the memory: `RegistrationsUsable`, `RegistrationsAccounted`, of
  the specification of `Plugin`, for any memory size, number of handles and holders
  (finitely many, since they are counted). `MrUsable` needs to know why a handle
  is registered. The invariant `MrInv` says that slots have different handles
  (`Distinct`), that the slot of a held handle exists and covers the range asked
  for (`HeldCovered`), that its count is the number of its holders (`Counted`) and
  that RxDM has exactly the slots' ranges (`Registered`). The lemmas on
  inserting into and removing from the sequence of slots carry most of it; that
  the slots are sorted is not needed for either property. `MemoryInv` is `MrInv`,
  with no more slots than the array has room for (`Fits`), until `realloc` fails,
  and `MrUsable` from then on, when nothing is registered or deregistered any more.
* `PluginProofs`, calls and clients: `ClientsUnique`, `PointersStayCurrent`, for any number of
  threads, GPUs, NICs and failures. The invariant `PluginInv` ties each program
  counter to the locks its thread holds (`ShimInv`, `RouterInv`), what a call
  has been given so far to what is published (`JobInv`), the clients alive to
  those the router knows and the ones its holder is making (`LiveInv`), and each
  connection to all of these (`CommInv`).

* `DxsClientProofs`: `ClientTyped`, `RequestsFindTheirSocket`,
  `CompletionsAreReal`, `NoConnectionLost`, `FailureReachesAll`, for any number of
  threads (finitely many, since those inside Accept are counted), sockets, ops
  and pings and any set of server versions. None of the
  properties says why a message may be where it is. The invariant `IInv`
  (`DxsClientInv`) follows each object from the call that makes it, over the
  command under way, to DXS and back. A data socket is opened at one place at a
  time (`OpenInv`); with AcceptAck whoever uses it has been told that it is open
  (`SockInv`), and without it and without LLCM the command that opens it is ahead
  of those that use it in the one queue (`OrderInv`). `Listen` is called, sent
  and acknowledged once (`ListenOnce`), nothing is accepted or announced ahead of
  that (`PendingInv`), and from the call on each connection is at one place
  (`CountInv`, of which `ConnectionsConserved` is the case of a ready socket); one
  of these places is a thread in Accept that has removed the connection and not
  yet entered its socket.
  Acks under way are about ops DXS has completed (`RealAcks`), only commands of
  the data path travel over LLCM (`FastInv`), and there is no call before Init
  has returned (`PhaseInv`). What counting needs of sequences and finite sets is
  a hypothesis of the lemmas, `CountFacts`, discharged at the end from the library.

Only model-checked: all liveness, which is out of the prover's reach, and
everything about `Prober`, `BufferManager` and `GpuMemImporter`.

## What the checks found

* `FailureIsFinal` (`sctp-handler.cc:162`): a receiver that was told "reading has
  failed and will not resume" can still be handed the messages of a batch that
  another thread had already taken.
* `HandleIsOwn` (`dxs-client.cc:1014`): `BufferManager` is documented as thread
  safe; two concurrent `RegBuffer` calls can both return the handle of the later
  ack. RxDM calls it from one thread per NIC and is not affected.

Met while modelling, with no run of their own:
* `Agent::CleanUp` of the prober (`agent.cc:371`) reports the results after the
  ping connections, and the results in them, are gone, although `agent.h:91`
  says it reports the final results.
* A pong connection whose ping side gave up stays listed for good and counts
  against the limit; the removal by IP takes the oldest one. A detached setup
  thread may list a connection after `CleanUp` (`nic-manager.cc:356`).
* With `--shutdown_when_all_clients_exited`, RxDM counts a client from its first
  request on and may stop under one that has only connected
  (`fastrak_gpu_mem_importer.cc:270`). A stop requested before
  `gShouldStop.store(false)` is lost (`fastrak_gpumem_manager.cc:360`).
* After a timeout of DeregBuffer, CleanUp unmaps a buffer DXS may still hold;
  `MappedWhileRegistered` is therefore stated for answers in time.
* RxDM closes the connection on the first request that fails, which deregisters
  all buffers of that process, while the plugin's cache keeps their handles;
  `MrUsable` is stated for as long as RxDM keeps the connection.
* `fastrak_plugin.cc:53` calls the shims of the GPUs "never-destroyed clients";
  `ResetNcclShim` (line 331) deletes them when the library is unloaded. A thread
  still inside an entry point would be left with a dangling pointer, and nothing
  waits for it.
* `RegMrDmaBuf` (`nccl_shim.cc:846`) assigns the result of `realloc` to
  `cache->slots` before it looks at it, so a failure loses the array; the call
  returns an error and the next use of the cache goes through a null pointer.
* The failure of the control channel overwrites results of ops that had
  completed and were not tested yet (`dxs-client.cc:666`).

## Not modelled

* Control messages, iovecs and addresses: encodings and small pure functions
  without state; the modules have messages as tuples and records.
* Discovery of devices, interfaces and parameters, configuration of GPU queues,
  CUDA helpers, the dmabuf bridge, scripts: sequential I/O.
* Statistics and profiler: no decision of the data path depends on them.
* SCTP timers: a heap from a library, used by one thread under the handler's
  lock. That a timer may abort the association is in `SctpHandler`.
* `DxsClient`: the destructor, which is fatal while objects are outstanding, and
  scatter-gather receives, which use the same state as linearized ones.
* `MrCache`: registration of host memory, which returns a dummy handle, and the
  cache disabled (`kFastrakCacheMr`), when each call goes to RxDM on its own.
* `GpuMemImporter`: how the kernel splits the bytes of one length or text on the
  Unix socket, and messages that carry only a descriptor. A `sendmsg` to a client
  that is gone is taken to return an error: nothing in the repository sets the
  disposition of SIGPIPE, which the model assumes does not end the daemon.
* `Prober`: several NICs per agent (independent lists), two controller calls
  served at once, GPU buffers, the results file.
* Not proved: `TypeOK` and `RttIsOwn` of `Prober`. Both need an invariant that ties
  the lists of both agents to the setups and requests still under way; the run
  checks them for two agents. Nor `TypeOK`, `TrackedIsUsable` and
  `MappedWhileRegistered` of `GpuMemImporter`, whose run has two processes.
