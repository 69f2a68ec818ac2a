------------------------------- MODULE Plugin -------------------------------
(***************************************************************************)
(* How the plugin of one process comes up (tcpdirect_plugin/               *)
(* fastrak_offload: init.cc, fastrak_plugin.cc, NcclShim::Create,          *)
(* NicClientRouter) and what its calls then share.  Any number of NCCL     *)
(* threads, each with a GPU current, call Init and the other entry points: *)
(*                                                                         *)
(*   - the process-wide part runs once (absl::call_once);                  *)
(*   - the shim of a GPU is made by the first call that needs it, under    *)
(*     the lock of the GPU, and read without a lock by all the others;     *)
(*   - the two clients of a NIC are made by the first shim or connection   *)
(*     that needs them, under the router's mutex.                          *)
(*                                                                         *)
(* A shim or a client is named by the thread that made it: that is enough  *)
(* to tell two of them apart, as a thread makes one at a time.  The memory *)
(* of a connection is registered in the cache of its NIC (MrCache); the    *)
(* cache here is the one of CacheNic.                                      *)
(***************************************************************************)
EXTENDS MrCache

CONSTANTS Threads,     \* threads of NCCL
          Gpus, Nics,
          Closest,     \* getClosestNetdev: the NIC of a GPU
          CacheNic,    \* the NIC whose cache is modelled
          InitTimeout, \* kFastrakRxDMInitTimeout, in polls
          kFastrakAllowNicSubset,  \* a GPU without a NIC is let through
          MaxFailures  \* bound: clients and shims that cannot be made

ASSUME PluginAssumption ==
  /\ Closest \in [Gpus -> Nics] /\ CacheNic \in Nics
  /\ InitTimeout \in Nat /\ MaxFailures \in Nat /\ kFastrakAllowNicSubset \in BOOLEAN
  /\ None \notin Threads

VARIABLES once,      \* absl::once_flag, and how far InitOnce is
          polls,     \* calls of rxdm_running still to make
          initState, \* init_state
          gpuLock,   \* per_gpu_init_locks: the owner
          shim,      \* per_gpu_clients
          mu,        \* NicClientRouter::mu_: the owner
          clients,   \* ip_addr_to_client_
          live,      \* the clients that exist: kind, NIC, maker
          pc,
          job,       \* the call of a thread: entry point, GPU, NIC, shim, DXS client
          comm,      \* the connection a thread has opened
          process,   \* "up", "aborted" or "exited"
          failures

coreVars == <<once, polls, initState>>
shimVars == <<gpuLock, shim>>
routerVars == <<mu, clients, live>>
threadVars == <<pc, job, comm>>
vars == <<coreVars, shimVars, routerVars, threadVars, process, failures, mrVars>>

NoJob == [call |-> "none", gpu |-> None, nic |-> None, shim |-> None, dxs |-> None]

Init ==
  /\ once = "fresh" /\ polls = InitTimeout /\ initState = "ok"
  /\ gpuLock = [g \in Gpus |-> None] /\ shim = [g \in Gpus |-> None]
  /\ mu = None /\ clients = [n \in Nics |-> None] /\ live = {}
  /\ pc = [t \in Threads |-> "idle"] /\ job = [t \in Threads |-> NoJob]
  /\ comm = [t \in Threads |-> None]
  /\ process = "up" /\ failures = 0
  /\ MrInit

Goto(t, l) == pc' = [pc EXCEPT ![t] = l]
Return(t) == Goto(t, "idle") /\ job' = [job EXCEPT ![t] = NoJob]

\* The call ends in an error.  Init does not return it: LOG(FATAL).
ReturnError(t) ==
  IF job[t].call = "init"
    THEN process' = "aborted" /\ UNCHANGED <<pc, job>>
    ELSE Return(t) /\ UNCHANGED process

-----------------------------------------------------------------------------
(* PluginCoreInit *)

CallInit(t, g) ==
  /\ pc[t] = "idle"
  /\ job' = [job EXCEPT ![t] = [NoJob EXCEPT !.call = "init", !.gpu = g, !.nic = Closest[g]]]
  /\ Goto(t, "once")
  /\ UNCHANGED <<coreVars, shimVars, routerVars, comm, process, failures, mrVars>>

\* The first thread runs InitOnce; the others wait until it is done.
CallOnce(t) ==
  /\ pc[t] = "once"
  /\ \/ once = "fresh" /\ once' = "running"
        /\ Goto(t, IF InitTimeout = 0 THEN "netifs" ELSE "poll")
        /\ UNCHANGED <<job, process>>
     \/ once = "done" /\ initState = "ok"
        /\ Goto(t, "lock") /\ UNCHANGED <<once, job, process>>
     \/ once = "done" /\ initState # "ok"
        /\ ReturnError(t) /\ UNCHANGED once
  /\ UNCHANGED <<polls, initState, shimVars, routerVars, comm, failures, mrVars>>

\* WaitForRxDM: rxdm_running, again after each sleep of a second.
WaitForRxDM(t) ==
  /\ pc[t] = "poll"
  /\ \/ Goto(t, "netifs") /\ polls' = 0 /\ UNCHANGED <<once, initState>>
     \/ polls > 0 /\ polls' = polls - 1 /\ UNCHANGED <<pc, once, initState>>
     \/ polls = 0 /\ initState' = "deadline" /\ once' = "done"
        /\ Goto(t, "once") /\ UNCHANGED polls
  /\ UNCHANGED <<shimVars, routerVars, job, comm, process, failures, mrVars>>

\* initializeNetIfs, and the end of InitOnce.
InitializeNetIfs(t) ==
  /\ pc[t] = "netifs"
  /\ initState' \in {"ok", "internal"} /\ once' = "done"
  /\ Goto(t, "once")
  /\ UNCHANGED <<polls, shimVars, routerVars, job, comm, process, failures, mrVars>>

-----------------------------------------------------------------------------
(* init_shim and NcclShim::Create *)

InitShimUnchecked(t) ==                                      \* mutant
  LET g == job[t].gpu IN
  /\ pc[t] = "lock" /\ gpuLock[g] = None
  /\ gpuLock' = [gpuLock EXCEPT ![g] = t]
  /\ Goto(t, "client")
  /\ UNCHANGED <<coreVars, shim, routerVars, job, comm, process, failures, mrVars>>

\* The lock of the GPU; another thread may have made the shim meanwhile.  The
\* checks of Create before it asks for the clients may fail.  One of them looks
\* for the closest NIC: a GPU that has none may still get a shim, without clients.
InitShim(t) ==
  LET g == job[t].gpu IN
  /\ pc[t] = "lock" /\ gpuLock[g] = None
  /\ \/ shim[g] # None /\ Goto(t, "shim")
        /\ UNCHANGED <<gpuLock, failures>>
     \/ shim[g] = None /\ gpuLock' = [gpuLock EXCEPT ![g] = t]
        /\ Goto(t, "client") /\ UNCHANGED failures
     \/ shim[g] = None /\ gpuLock' = [gpuLock EXCEPT ![g] = t]
        /\ failures < MaxFailures /\ failures' = failures + 1
        /\ \/ Goto(t, "fail")
           \/ kFastrakAllowNicSubset /\ Goto(t, "publish")
  /\ UNCHANGED <<coreVars, shim, routerVars, job, comm, process, mrVars>>

ShimFailsLocked(t) ==                                        \* mutant
  /\ pc[t] = "fail"
  /\ ReturnError(t)
  /\ UNCHANGED <<coreVars, shimVars, routerVars, comm, failures, mrVars>>

\* An error on the way out of init_shim, or of Connect, which holds no lock.
ShimFails(t) ==
  /\ pc[t] = "fail"
  /\ gpuLock' = [g \in Gpus |-> IF gpuLock[g] = t THEN None ELSE gpuLock[g]]
  /\ ReturnError(t)
  /\ UNCHANGED <<coreVars, shim, routerVars, comm, failures, mrVars>>

\* The new shim is stored with release order and the lock given back.
PublishShim(t) ==
  LET g == job[t].gpu IN
  /\ pc[t] = "publish"
  /\ shim' = [shim EXCEPT ![g] = t] /\ gpuLock' = [gpuLock EXCEPT ![g] = None]
  /\ job' = [job EXCEPT ![t].dxs = None] /\ Goto(t, "shim")
  /\ UNCHANGED <<coreVars, routerVars, comm, process, failures, mrVars>>

\* init_shim has returned: Init is done, GetShim loads the slot again.
ShimInitialized(t) ==
  /\ pc[t] = "shim"
  /\ IF job[t].call = "init"
       THEN Return(t)
       ELSE /\ job' = [job EXCEPT ![t].shim = shim[job[t].gpu]]
            /\ Goto(t, "client")
  /\ UNCHANGED <<coreVars, shimVars, routerVars, comm, process, failures, mrVars>>

-----------------------------------------------------------------------------
(* NicClientRouter.  Create asks for the two clients of the closest NIC,   *)
(* Connect for those of the NIC it is to use: GetDxsClient first, then     *)
(* GetBufferManagerClient, each under mu_.                                 *)

Creating(t) == \E g \in Gpus : gpuLock[g] = t
NicOf(t) == IF Creating(t) THEN Closest[job[t].gpu] ELSE job[t].nic

\* The router answers with the clients c.  With the second answer Create has a
\* shim and Connect a connection.
Answer(t, c) ==
  \/ /\ job[t].dxs = None
     /\ job' = [job EXCEPT ![t].dxs = c]
     /\ Goto(t, "client") /\ UNCHANGED comm
  \/ /\ job[t].dxs # None /\ Creating(t)
     /\ Goto(t, "publish") /\ UNCHANGED <<job, comm>>
  \/ /\ job[t].dxs # None /\ ~Creating(t)
     /\ comm' = [comm EXCEPT ![t] = [gpu |-> job[t].gpu, nic |-> job[t].nic,
                                     shim |-> job[t].shim, dxs |-> job[t].dxs, bm |-> c]]
     /\ Return(t)

GetClientUnlocked(t) ==                                      \* mutant
  /\ pc[t] = "client"
  /\ \/ clients[NicOf(t)] # None
        /\ Answer(t, clients[NicOf(t)]) /\ UNCHANGED mu
     \/ clients[NicOf(t)] = None
        /\ mu' = t /\ Goto(t, "makeBm") /\ UNCHANGED <<job, comm>>
  /\ UNCHANGED <<coreVars, shimVars, clients, live, process, failures, mrVars>>

\* GetOrInitClient: mu_ stays held while a missing client is made.
GetClient(t) ==
  /\ pc[t] = "client" /\ mu = None
  /\ \/ clients[NicOf(t)] # None
        /\ Answer(t, clients[NicOf(t)]) /\ UNCHANGED mu
     \/ clients[NicOf(t)] = None
        /\ mu' = t /\ Goto(t, "makeBm") /\ UNCHANGED <<job, comm>>
  /\ UNCHANGED <<coreVars, shimVars, clients, live, process, failures, mrVars>>

Bm(t) == <<"bm", NicOf(t), t>>
Dxs(t) == <<"dxs", NicOf(t), t>>

\* BufferManagerClient::Create.
MakeBufferManagerClient(t) ==
  /\ pc[t] = "makeBm"
  /\ \/ live' = live \union {Bm(t)} /\ Goto(t, "makeDxs")
        /\ UNCHANGED <<mu, failures>>
     \/ failures < MaxFailures /\ failures' = failures + 1
        /\ mu' = None /\ Goto(t, "fail") /\ UNCHANGED live
  /\ UNCHANGED <<coreVars, shimVars, clients, job, comm, process, mrVars>>

\* DxsClient::Create; if it fails the buffer manager client goes as well.
MakeDxsClient(t) ==
  /\ pc[t] = "makeDxs" /\ mu' = None
  /\ \/ live' = live \union {Dxs(t)}
        /\ clients' = [clients EXCEPT ![NicOf(t)] = t]
        /\ Answer(t, t) /\ UNCHANGED failures
     \/ failures < MaxFailures /\ failures' = failures + 1
        /\ live' = live \ {Bm(t)}
        /\ Goto(t, "fail") /\ UNCHANGED <<clients, job, comm>>
  /\ UNCHANGED <<coreVars, shimVars, process, mrVars>>

-----------------------------------------------------------------------------
(* The other entry points *)

\* GetShim of a call that connects over NIC n.  Init comes first, perhaps on
\* another thread and for another GPU.
CallConnect(t, g, n) ==
  /\ pc[t] = "idle" /\ comm[t] = None /\ once = "done"
  /\ job' = [job EXCEPT ![t] = [NoJob EXCEPT !.call = "connect", !.gpu = g, !.nic = n,
                                             !.shim = shim[g]]]
  /\ Goto(t, IF shim[g] = None THEN "lock" ELSE "client")
  /\ UNCHANGED <<coreVars, shimVars, routerVars, comm, process, failures, mrVars>>

Close(t) ==
  /\ pc[t] = "idle" /\ comm[t] # None
  /\ comm' = [comm EXCEPT ![t] = None]
  /\ UNCHANGED <<coreVars, shimVars, routerVars, pc, job, process, failures, mrVars>>

\* RegMr and DeregMr on a connection of the NIC.  The process does not survive
\* the use of a cache that has lost its array.
UseMemory(t) ==
  /\ pc[t] = "idle" /\ comm[t] # None /\ comm[t].nic = CacheNic
  /\ \/ MrNext /\ UNCHANGED process
     \/ lost /\ process' = "aborted" /\ UNCHANGED mrVars
  /\ UNCHANGED <<coreVars, shimVars, routerVars, threadVars, failures>>

\* The destructor of the library, when the process exits: ResetNcclShim,
\* ResetNetIfs, Shutdown of the router's DXS clients.  NCCL has no call running;
\* its connections and memory handles end with the process.  RxDM sees the
\* connections close and takes the buffers back.
Cleanup ==
  /\ \A t \in Threads : pc[t] = "idle"
  /\ process' = "exited"
  /\ shim' = [g \in Gpus |-> None] /\ comm' = [t \in Threads |-> None]
  /\ slots' = <<>> /\ capacity' = 0 /\ lost' = FALSE
  /\ held' = [m \in Holders |-> None] /\ registered' = {} /\ rxdmUp' = FALSE
  /\ UNCHANGED <<coreVars, gpuLock, routerVars, pc, job, failures, nextHandle>>

-----------------------------------------------------------------------------
Progress(t) ==
  /\ process = "up"
  /\ \/ CallOnce(t) \/ WaitForRxDM(t) \/ InitializeNetIfs(t)
     \/ InitShim(t) \/ ShimFails(t) \/ PublishShim(t) \/ ShimInitialized(t)
     \/ GetClient(t) \/ MakeBufferManagerClient(t) \/ MakeDxsClient(t)

Next ==
  \/ \E t \in Threads : Progress(t)
  \/ /\ process = "up"
     /\ \E t \in Threads :
          \/ \E g \in Gpus : CallInit(t, g)
          \/ \E g \in Gpus, n \in Nics : CallConnect(t, g, n)
          \/ Close(t) \/ UseMemory(t)
  \/ process = "up" /\ Cleanup
  \/ process # "up" /\ UNCHANGED vars

Spec == Init /\ [][Next]_vars

\* The threads run, and whoever holds a lock gives it back.
FairSpec == Spec /\ \A t \in Threads : WF_vars(Progress(t))

-----------------------------------------------------------------------------
(* Properties *)

\* Two GPUs, or two threads of one, that come up at the same time share the
\* clients of a NIC: there are never two DXS clients, nor two connections to
\* RxDM, for one NIC, and outside GetOrInitClient there is none the router does
\* not know, however often making them has failed.
OneClientPerNic ==
  /\ \A x, y \in live : x[1] = y[1] /\ x[2] = y[2] => x = y
  /\ mu = None => live = {<<k, n, clients[n]>> : k \in {"bm", "dxs"},
                                               n \in {m \in Nics : clients[m] # None}}

\* The pointers a connection caches are the ones everyone else uses: its shim is
\* the GPU's published one, and its clients are the live clients of its NIC.
\* init_shim never replaces a shim that another thread has already been given.
PointersCurrent ==
  /\ \A t \in Threads : job[t].shim # None => job[t].shim = shim[job[t].gpu]
  /\ \A t \in Threads : comm[t] # None =>
       /\ comm[t].shim = shim[comm[t].gpu]
       /\ <<"dxs", comm[t].nic, comm[t].dxs>> \in live
       /\ <<"bm", comm[t].nic, comm[t].bm>> \in live

\* Every call returns or takes the process down, whatever could not be made and
\* whoever had to wait for whom.
EntryPointsReturn ==
  \A t \in Threads : pc[t] # "idle" ~> (pc[t] = "idle" \/ process = "aborted")
=============================================================================
