---------------------------- MODULE PluginProofs ----------------------------
(***************************************************************************)
(* Proofs about Plugin, for any threads, GPUs and NICs and any number of   *)
(* failures.                                                               *)
(*                                                                         *)
(* The argument follows the two locks.  Whoever holds the lock of a GPU    *)
(* found no shim there and nobody publishes one meanwhile (ShimInv), so a  *)
(* shim is stored once and what was read without the lock stays true       *)
(* (JobInv, CommInv).  Whoever makes the clients of a NIC holds mu_ and    *)
(* found none (RouterInv), so clients are stored once, and the clients     *)
(* alive are those stored and the one being made (LiveInv).                *)
(*                                                                         *)
(* The memory the threads register through their connections (MrCache) has *)
(* an invariant of its own, in the second half.                            *)
(***************************************************************************)
EXTENDS Plugin, Integers, TLAPS

Labels == {"idle", "once", "poll", "netifs", "lock", "shim", "client", "makeBm", "makeDxs", "publish", "fail"}
Jobs == [call : {"none", "init", "connect"}, gpu : Gpus \union {None}, nic : Nics \union {None},
         shim : Threads \union {None}, dxs : Threads \union {None}]
Comms == [gpu : Gpus, nic : Nics, shim : Threads, dxs : Threads, bm : Threads]

PluginTypeOK ==
  /\ gpuLock \in [Gpus -> Threads \union {None}] /\ shim \in [Gpus -> Threads \union {None}]
  /\ clients \in [Nics -> Threads \union {None}]
  /\ pc \in [Threads -> Labels] /\ job \in [Threads -> Jobs] /\ comm \in [Threads -> Comms \union {None}]

\* In a call to the router or in the making of a client.
Working == {"client", "makeBm", "makeDxs"}
Making == {"makeBm", "makeDxs"}

\* The NIC of such a call, told from the call alone: Create has no shim yet.
CallNic(t) == IF job[t].shim = None THEN Closest[job[t].gpu] ELSE job[t].nic

\* The owner of a GPU's lock is in init_shim for the GPU, which has no shim.
ShimInv ==
  \A g \in Gpus, t \in Threads : gpuLock[g] = t =>
    job[t].gpu = g /\ pc[t] \in Working \union {"publish", "fail"} /\ shim[g] = None

\* What a call knows: it has the lock when it should, and its shim is published.
JobOK(t) ==
  /\ pc[t] # "idle" => job[t].gpu \in Gpus /\ job[t].nic \in Nics
  /\ pc[t] = "idle" => job[t].shim = None
  /\ pc[t] \in {"once", "poll", "netifs", "lock", "shim"} => job[t].dxs = None
  /\ pc[t] = "publish" => gpuLock[job[t].gpu] = t
  /\ pc[t] = "shim" => shim[job[t].gpu] # None
  /\ pc[t] \in Working /\ job[t].shim = None => gpuLock[job[t].gpu] = t
  /\ job[t].shim # None => job[t].shim = shim[job[t].gpu]
JobInv == \A t \in Threads : JobOK(t)

\* Who makes clients has mu_ and found none; a DXS client that was given out is
\* the stored one.
RouterInv ==
  \A t \in Threads :
    /\ pc[t] \in Making => mu = t /\ clients[CallNic(t)] = None
    /\ pc[t] \in Working /\ job[t].dxs # None => clients[CallNic(t)] = job[t].dxs

Stored == {<<k, n, clients[n]>> : k \in {"bm", "dxs"}, n \in {m \in Nics : clients[m] # None}}
BeingMade == {<<"bm", CallNic(t), t>> : t \in {u \in Threads : pc[u] = "makeDxs"}}
LiveInv == live = Stored \union BeingMade

CommInv ==
  \A t \in Threads : comm[t] # None =>
    /\ comm[t].shim = shim[comm[t].gpu]
    /\ comm[t].dxs = clients[comm[t].nic] /\ comm[t].bm = clients[comm[t].nic]

PluginInv == PluginTypeOK /\ ShimInv /\ JobInv /\ RouterInv /\ LiveInv /\ CommInv

-----------------------------------------------------------------------------
(* Facts about one state *)

(* A call to the router is about the NIC its own fields name: it has the lock
   of its GPU exactly when it has no shim yet. *)
LEMMA NicOfCall ==
  ASSUME PluginInv, NEW t \in Threads, pc[t] \in Working
  PROVE  /\ NicOf(t) = CallNic(t) /\ CallNic(t) \in Nics
         /\ Creating(t) <=> job[t].shim = None
<1>1. job[t].gpu \in Gpus /\ job[t].nic \in Nics
  BY Zenon DEF PluginInv, JobInv, JobOK, Working
<1>2. Creating(t) => job[t].shim = None
  <2> SUFFICES ASSUME NEW g \in Gpus, gpuLock[g] = t PROVE job[t].shim = None
    BY Zenon DEF Creating
  <2>1. job[t].gpu = g /\ shim[g] = None  BY Zenon DEF PluginInv, ShimInv
  <2> QED  BY <2>1, Zenon DEF PluginInv, JobInv, JobOK
<1>3. ASSUME job[t].shim = None PROVE Creating(t)
  <2>1. gpuLock[job[t].gpu] = t  BY <1>3, Zenon DEF PluginInv, JobInv, JobOK
  <2> QED  BY <1>1, <2>1, Zenon DEF Creating
<1>4. CallNic(t) \in Nics  BY <1>1, PluginAssumption, Zenon DEF CallNic
<1> QED  BY <1>2, <1>3, <1>4, Zenon DEF NicOf, CallNic

(* The clients alive change only with the stored ones and the one being made. *)
LEMMA SameLive ==
  ASSUME LiveInv, UNCHANGED <<clients, live>>,
         \A u \in Threads : /\ pc'[u] = "makeDxs" <=> pc[u] = "makeDxs"
                            /\ pc[u] = "makeDxs" => job'[u] = job[u]
  PROVE  LiveInv'
<1>1. Stored' = Stored  BY DEF Stored
<1>2. \A u \in {v \in Threads : pc[v] = "makeDxs"} : CallNic(u)' = CallNic(u)
  BY Zenon DEF CallNic
<1>3. {v \in Threads : pc[v] = "makeDxs"}' = {v \in Threads : pc[v] = "makeDxs"}
  BY Zenon
<1>4. BeingMade' = BeingMade  BY <1>2, <1>3, Zenon DEF BeingMade
<1> QED  BY <1>1, <1>4, Zenon DEF LiveInv

LEMMA PluginInitially == Init => PluginInv
<1> SUFFICES ASSUME Init PROVE PluginInv  BY Zenon
<1>1. NoJob \in Jobs /\ NoJob.shim = None /\ NoJob.dxs = None  BY Zenon DEF NoJob, Jobs
<1>2. PluginTypeOK  BY <1>1, Zenon DEF Init, PluginTypeOK, Labels
<1>3. ShimInv  BY PluginAssumption, Zenon DEF Init, ShimInv
<1>4. JobInv  BY <1>1, Zenon DEF Init, JobInv, JobOK, Working
<1>5. RouterInv  BY Zenon DEF Init, RouterInv, Working, Making
<1>6. LiveInv  BY DEF Init, LiveInv, Stored, BeingMade
<1>7. CommInv  BY Zenon DEF Init, CommInv
<1> QED  BY <1>2, <1>3, <1>4, <1>5, <1>6, <1>7, Zenon DEF PluginInv

LEMMA PluginStutters ==
  ASSUME PluginInv, UNCHANGED <<shimVars, routerVars, threadVars>>
  PROVE  PluginInv'
<1> USE DEF shimVars, routerVars, threadVars
<1>1. PluginTypeOK'  BY Zenon DEF PluginInv, PluginTypeOK
<1>2. ShimInv'  BY Zenon DEF PluginInv, ShimInv
<1>3. JobInv'  BY Zenon DEF PluginInv, JobInv, JobOK
<1>4. RouterInv'  BY Zenon DEF PluginInv, RouterInv, CallNic
<1>5. LiveInv'  BY DEF PluginInv, LiveInv, Stored, BeingMade, CallNic
<1>6. CommInv'  BY Zenon DEF PluginInv, CommInv
<1> QED  BY <1>1, <1>2, <1>3, <1>4, <1>5, <1>6, Zenon DEF PluginInv

-----------------------------------------------------------------------------
(* Steps of one thread *)

(* A step that takes and gives back no lock and makes nothing: the thread goes
   on with call j at l. *)
LEMMA LocalStep ==
  ASSUME PluginInv, NEW t \in Threads, NEW j \in Jobs,
         NEW l \in {"idle", "once", "poll", "netifs", "lock", "shim", "client"},
         pc[t] \notin Working \union {"publish", "fail"},
         pc' = [pc EXCEPT ![t] = l], job' = [job EXCEPT ![t] = j],
         UNCHANGED <<shimVars, routerVars, comm>>,
         l # "idle" => j.gpu \in Gpus /\ j.nic \in Nics,
         l = "idle" => j.shim = None,
         l # "idle" => j.dxs = None,
         l = "shim" => shim[j.gpu] # None,
         l = "client" => j.shim # None,
         j.shim # None => j.shim = shim[j.gpu]
  PROVE  PluginInv'
<1>1. /\ pc'[t] = l /\ job'[t] = j
      /\ \A u \in Threads : u # t => pc'[u] = pc[u] /\ job'[u] = job[u]
  BY Zenon DEF PluginInv, PluginTypeOK
<1>2. gpuLock' = gpuLock /\ shim' = shim /\ mu' = mu /\ clients' = clients /\ live' = live /\ comm' = comm
  BY Zenon DEF shimVars, routerVars
<1>3. PluginTypeOK'  BY <1>2, Zenon DEF PluginInv, PluginTypeOK, Labels
<1>4. ShimInv'  BY <1>1, <1>2 DEF PluginInv, ShimInv
<1>5. JobInv'
  <2> SUFFICES ASSUME NEW u \in Threads PROVE JobOK(u)'
    BY Zenon DEF JobInv
  <2>1. CASE u = t  BY <1>1, <1>2, <2>1, Zenon DEF JobOK, Working
  <2>2. CASE u # t  BY <1>1, <1>2, <2>2 DEF PluginInv, JobInv, JobOK
  <2> QED  BY <2>1, <2>2, Zenon
<1>6. RouterInv'  BY <1>1, <1>2 DEF PluginInv, RouterInv, Working, Making, CallNic
<1>7. LiveInv'  BY <1>1, <1>2, SameLive, Zenon DEF PluginInv, Working
<1>8. CommInv'  BY <1>2 DEF PluginInv, CommInv
<1> QED  BY <1>3, <1>4, <1>5, <1>6, <1>7, <1>8, Zenon DEF PluginInv

(* init_shim takes the lock of a GPU that has no shim. *)
LEMMA LockTaken ==
  ASSUME PluginInv, NEW t \in Threads, NEW l \in {"client", "publish", "fail"}, pc[t] = "lock",
         gpuLock[job[t].gpu] = None, shim[job[t].gpu] = None,
         gpuLock' = [gpuLock EXCEPT ![job[t].gpu] = t], pc' = [pc EXCEPT ![t] = l],
         UNCHANGED <<shim, routerVars, job, comm>>
  PROVE  PluginInv'
<1> DEFINE g == job[t].gpu
<1>1. /\ pc'[t] = l /\ \A u \in Threads : u # t => pc'[u] = pc[u]
  BY Zenon DEF PluginInv, PluginTypeOK
<1>2. shim' = shim /\ job' = job /\ mu' = mu /\ clients' = clients /\ live' = live /\ comm' = comm
  BY Zenon DEF routerVars
<1>3. g \in Gpus /\ job[t].nic \in Nics /\ job[t].dxs = None /\ job[t].shim = None
  BY Zenon DEF PluginInv, JobInv, JobOK
<1>4. \A h \in Gpus : gpuLock'[h] = IF h = g THEN t ELSE gpuLock[h]
  BY Zenon DEF PluginInv, PluginTypeOK
<1>5. PluginTypeOK'  BY <1>2, <1>3, Zenon DEF PluginInv, PluginTypeOK, Labels
<1>6. ShimInv'  BY <1>1, <1>2, <1>4 DEF PluginInv, ShimInv, Working
<1>7. JobInv'
  <2> SUFFICES ASSUME NEW u \in Threads PROVE JobOK(u)'
    BY Zenon DEF JobInv
  <2>1. CASE u = t  BY <1>1, <1>2, <1>3, <1>4, <2>1, Zenon DEF JobOK, Working
  <2>2. CASE u # t
    <3>1. JobOK(u) /\ pc'[u] = pc[u]  BY <1>1, <2>2, Zenon DEF PluginInv, JobInv
    <3>2. ASSUME gpuLock[job[u].gpu] = u, job[u].gpu \in Gpus PROVE gpuLock'[job[u].gpu] = u
      BY <1>4, <3>2, PluginAssumption, Zenon
    <3> QED  BY <1>2, <3>1, <3>2, Zenon DEF JobOK, Working
  <2> QED  BY <2>1, <2>2, Zenon
<1>8. RouterInv'  BY <1>1, <1>2, <1>3 DEF PluginInv, RouterInv, Working, Making, CallNic
<1>9. LiveInv'  BY <1>1, <1>2, SameLive, Zenon DEF PluginInv
<1>10. CommInv'  BY <1>2, Zenon DEF PluginInv, CommInv
<1> QED  BY <1>5, <1>6, <1>7, <1>8, <1>9, <1>10, Zenon DEF PluginInv

LEMMA InitShimPreserves ==
  ASSUME PluginInv, NEW t \in Threads, InitShim(t)
  PROVE  PluginInv'
<1>1. /\ pc[t] = "lock" /\ gpuLock[job[t].gpu] = None
      /\ UNCHANGED <<shim, routerVars, job, comm>>
  BY Zenon DEF InitShim
<1>2. CASE shim[job[t].gpu] # None /\ Goto(t, "shim") /\ gpuLock' = gpuLock
  <2>1. /\ job[t] \in Jobs /\ job[t].gpu \in Gpus /\ job[t].nic \in Nics /\ job[t].dxs = None
        /\ job[t].shim # None => job[t].shim = shim[job[t].gpu]
    BY <1>1, Zenon DEF PluginInv, PluginTypeOK, JobInv, JobOK
  <2>2. job' = [job EXCEPT ![t] = job[t]]  BY <1>1, Zenon DEF PluginInv, PluginTypeOK
  <2>3. UNCHANGED <<shimVars, routerVars, comm>>  BY <1>1, <1>2, Zenon DEF shimVars
  <2>4. pc' = [pc EXCEPT ![t] = "shim"]  BY <1>2, Zenon DEF Goto
  <2> QED  BY <1>1, <1>2, <2>1, <2>2, <2>3, <2>4, LocalStep, Zenon DEF Working
<1>3. ASSUME NEW l \in {"client", "publish", "fail"}, Goto(t, l), shim[job[t].gpu] = None,
             gpuLock' = [gpuLock EXCEPT ![job[t].gpu] = t]
      PROVE  PluginInv'
  BY <1>1, <1>3, LockTaken, Zenon DEF Goto
<1> QED  BY <1>2, <1>3, Zenon DEF InitShim

(* init_shim stores the new shim and gives the lock back. *)
LEMMA PublishShimPreserves ==
  ASSUME PluginInv, NEW t \in Threads, PublishShim(t)
  PROVE  PluginInv'
<1> DEFINE g == job[t].gpu
           j == [job[t] EXCEPT !.dxs = None]
<1>1. /\ pc[t] = "publish" /\ pc' = [pc EXCEPT ![t] = "shim"]
      /\ shim' = [shim EXCEPT ![g] = t] /\ gpuLock' = [gpuLock EXCEPT ![g] = None]
      /\ job' = [job EXCEPT ![t] = j]
      /\ mu' = mu /\ clients' = clients /\ live' = live /\ comm' = comm
  BY Zenon DEF PublishShim, Goto, routerVars
<1>2. /\ g \in Gpus /\ gpuLock[g] = t /\ shim[g] = None
      /\ job[t].nic \in Nics /\ job[t].shim = None /\ job[t] \in Jobs
  BY <1>1 DEF PluginInv, PluginTypeOK, JobInv, JobOK, ShimInv
<1>3. j \in Jobs /\ j.gpu = g /\ j.nic = job[t].nic /\ j.shim = None /\ j.dxs = None
  BY <1>2, Zenon DEF Jobs
<1> HIDE DEF j
<1>4. /\ pc'[t] = "shim" /\ job'[t] = j
      /\ \A u \in Threads : u # t => pc'[u] = pc[u] /\ job'[u] = job[u]
  BY <1>1, Zenon DEF PluginInv, PluginTypeOK
<1>5. \A h \in Gpus : /\ gpuLock'[h] = IF h = g THEN None ELSE gpuLock[h]
                      /\ shim'[h] = IF h = g THEN t ELSE shim[h]
  BY <1>1, <1>2, Zenon DEF PluginInv, PluginTypeOK
<1>6. PluginTypeOK'  BY <1>1, <1>2, <1>3, Zenon DEF PluginInv, PluginTypeOK, Labels
<1>7. ShimInv'
  <2> SUFFICES ASSUME NEW h \in Gpus, NEW u \in Threads, gpuLock'[h] = u
               PROVE  job'[u].gpu = h /\ pc'[u] \in Working \union {"publish", "fail"} /\ shim'[h] = None
    BY Zenon DEF ShimInv
  <2>1. h # g /\ gpuLock[h] = u  BY <1>5, PluginAssumption, Zenon
  <2>2. job[u].gpu = h /\ pc[u] \in Working \union {"publish", "fail"} /\ shim[h] = None
    BY <2>1, Zenon DEF PluginInv, ShimInv
  <2> QED  BY <1>4, <1>5, <2>1, <2>2, Zenon
<1>8. JobInv'
  <2> SUFFICES ASSUME NEW u \in Threads PROVE JobOK(u)'
    BY Zenon DEF JobInv
  <2>1. CASE u = t
    BY <1>2, <1>3, <1>4, <1>5, <2>1, PluginAssumption DEF JobOK, Working
  <2>2. CASE u # t
    <3>1. JobOK(u) /\ pc'[u] = pc[u] /\ job'[u] = job[u]
      BY <1>4, <2>2, Zenon DEF PluginInv, JobInv
    <3>2. ASSUME job[u].gpu \in Gpus
          PROVE  /\ gpuLock[job[u].gpu] = u => gpuLock'[job[u].gpu] = u
                 /\ shim[job[u].gpu] # None => shim'[job[u].gpu] = shim[job[u].gpu]
      BY <1>2, <1>5, <2>2, <3>2, Zenon
    <3>3. job[u].shim # None => job[u].gpu \in Gpus  BY <3>1, Zenon DEF JobOK
    <3> QED  BY <3>1, <3>2, <3>3, Zenon DEF JobOK, Working
  <2> QED  BY <2>1, <2>2, Zenon
<1>9. RouterInv'  BY <1>1, <1>4 DEF PluginInv, RouterInv, Working, Making, CallNic
<1>10. LiveInv'  BY <1>1, <1>4, SameLive, Zenon DEF PluginInv
<1>11. CommInv'
  <2> SUFFICES ASSUME NEW u \in Threads, comm[u] # None
               PROVE  comm[u].shim = shim'[comm[u].gpu]
    BY <1>1, Zenon DEF PluginInv, CommInv
  <2>1. /\ comm[u].shim = shim[comm[u].gpu] /\ comm[u].gpu \in Gpus /\ comm[u].shim \in Threads
    BY Zenon DEF PluginInv, CommInv, PluginTypeOK, Comms
  <2> QED  BY <1>2, <1>5, <2>1, PluginAssumption
<1> QED  BY <1>6, <1>7, <1>8, <1>9, <1>10, <1>11, Zenon DEF PluginInv

(* A call that failed gives its lock back and returns, or takes the process down. *)
LEMMA ShimFailsPreserves ==
  ASSUME PluginInv, NEW t \in Threads, ShimFails(t)
  PROVE  PluginInv'
<1>1. /\ pc[t] = "fail" /\ shim' = shim /\ mu' = mu /\ clients' = clients /\ live' = live /\ comm' = comm
      /\ gpuLock' = [g \in Gpus |-> IF gpuLock[g] = t THEN None ELSE gpuLock[g]]
  BY Zenon DEF ShimFails, routerVars
<1>2. \/ pc' = pc /\ job' = job
      \/ pc' = [pc EXCEPT ![t] = "idle"] /\ job' = [job EXCEPT ![t] = NoJob]
  BY Zenon DEF ShimFails, ReturnError, Return, Goto
<1>3. NoJob \in Jobs /\ NoJob.shim = None /\ NoJob.dxs = None  BY Zenon DEF NoJob, Jobs
<1>4. /\ \/ pc'[t] = "fail" /\ job'[t] = job[t]
         \/ pc'[t] = "idle" /\ job'[t] = NoJob
      /\ \A u \in Threads : u # t => pc'[u] = pc[u] /\ job'[u] = job[u]
  BY <1>1, <1>2, Zenon DEF PluginInv, PluginTypeOK
<1>5. PluginTypeOK'  BY <1>1, <1>2, <1>3, Zenon DEF PluginInv, PluginTypeOK, Labels
<1>6. ShimInv'
  <2> SUFFICES ASSUME NEW h \in Gpus, NEW u \in Threads, gpuLock'[h] = u
               PROVE  job'[u].gpu = h /\ pc'[u] \in Working \union {"publish", "fail"} /\ shim'[h] = None
    BY Zenon DEF ShimInv
  <2>1. u # t /\ gpuLock[h] = u  BY <1>1, PluginAssumption, Zenon
  <2> QED  BY <1>1, <1>4, <2>1 DEF PluginInv, ShimInv
<1>7. JobInv'
  <2> SUFFICES ASSUME NEW u \in Threads PROVE JobOK(u)'
    BY Zenon DEF JobInv
  <2>1. CASE u = t
    <3>1. JobOK(t)  BY Zenon DEF PluginInv, JobInv
    <3> QED  BY <1>1, <1>3, <1>4, <2>1, <3>1, Zenon DEF JobOK, Working
  <2>2. CASE u # t
    <3>1. JobOK(u) /\ pc'[u] = pc[u] /\ job'[u] = job[u]
      BY <1>4, <2>2, Zenon DEF PluginInv, JobInv
    <3>2. ASSUME job[u].gpu \in Gpus, gpuLock[job[u].gpu] = u PROVE gpuLock'[job[u].gpu] = u
      BY <1>1, <2>2, <3>2, Zenon
    <3> QED  BY <1>1, <3>1, <3>2, Zenon DEF JobOK, Working
  <2> QED  BY <2>1, <2>2, Zenon
<1>8. RouterInv'  BY <1>1, <1>4 DEF PluginInv, RouterInv, Working, Making, CallNic
<1>9. LiveInv'
  <2>1. \A u \in Threads : /\ pc'[u] = "makeDxs" <=> pc[u] = "makeDxs"
                           /\ pc[u] = "makeDxs" => job'[u] = job[u]
    BY <1>1, <1>4, Zenon
  <2> QED  BY <1>1, <2>1, SameLive, Zenon DEF PluginInv
<1>10. CommInv'  BY <1>1, Zenon DEF PluginInv, CommInv
<1> QED  BY <1>5, <1>6, <1>7, <1>8, <1>9, <1>10, Zenon DEF PluginInv

-----------------------------------------------------------------------------
(* Steps in the router: neither a lock of a GPU nor a shim changes *)

(* A call that stays in the router or in init_shim keeps what it knows. *)
LEMMA RouterStep ==
  ASSUME PluginInv, NEW t \in Threads, NEW j \in Jobs,
         NEW l \in Working \union {"publish", "fail"},
         pc[t] \in Working, pc' = [pc EXCEPT ![t] = l], job' = [job EXCEPT ![t] = j],
         j.gpu = job[t].gpu, j.nic = job[t].nic, j.shim = job[t].shim,
         l = "publish" => job[t].shim = None, UNCHANGED <<gpuLock, shim>>
  PROVE  /\ pc'[t] = l /\ job'[t] = j
         /\ \A u \in Threads : u # t => pc'[u] = pc[u] /\ job'[u] = job[u]
         /\ \A u \in Threads : CallNic(u)' = CallNic(u)
         /\ ShimInv' /\ JobInv'
         /\ pc' \in [Threads -> Labels] /\ job' \in [Threads -> Jobs]
<1>1. /\ pc'[t] = l /\ job'[t] = j
      /\ \A u \in Threads : u # t => pc'[u] = pc[u] /\ job'[u] = job[u]
  BY Zenon DEF PluginInv, PluginTypeOK
<1>2. \A u \in Threads : CallNic(u)' = CallNic(u)  BY <1>1 DEF CallNic
<1>3. ShimInv'
  <2> SUFFICES ASSUME NEW h \in Gpus, NEW u \in Threads, gpuLock[h] = u
               PROVE  job'[u].gpu = h /\ pc'[u] \in Working \union {"publish", "fail"} /\ shim[h] = None
    BY Zenon DEF ShimInv
  <2>1. job[u].gpu = h /\ pc[u] \in Working \union {"publish", "fail"} /\ shim[h] = None
    BY Zenon DEF PluginInv, ShimInv
  <2> QED  BY <1>1, <2>1, Zenon
<1>4. JobInv'
  <2> SUFFICES ASSUME NEW u \in Threads PROVE JobOK(u)'
    BY Zenon DEF JobInv
  <2>1. JobOK(u)  BY Zenon DEF PluginInv, JobInv
  <2>2. CASE u = t  BY <1>1, <2>1, <2>2 DEF JobOK, Working
  <2>3. CASE u # t  BY <1>1, <2>1, <2>3, Zenon DEF JobOK
  <2> QED  BY <2>2, <2>3, Zenon
<1>5. pc' \in [Threads -> Labels] /\ job' \in [Threads -> Jobs]
  BY Zenon DEF PluginInv, PluginTypeOK, Labels, Working
<1> QED  BY <1>1, <1>2, <1>3, <1>4, <1>5, Zenon

(* The router has the clients already. *)
LEMMA AnswerPreserves ==
  ASSUME PluginInv, NEW t \in Threads, pc[t] = "client", clients[NicOf(t)] # None,
         Answer(t, clients[NicOf(t)]), UNCHANGED <<shimVars, routerVars>>
  PROVE  PluginInv'
<1> DEFINE c == clients[CallNic(t)]
<1>1. /\ gpuLock' = gpuLock /\ shim' = shim /\ mu' = mu /\ clients' = clients /\ live' = live
      /\ pc[t] \in Working
  BY Zenon DEF shimVars, routerVars, Working
<1>2. /\ NicOf(t) = CallNic(t) /\ CallNic(t) \in Nics
      /\ Creating(t) <=> job[t].shim = None
  BY <1>1, NicOfCall, Zenon
<1>3. c \in Threads /\ Answer(t, c)  BY <1>2, Zenon DEF PluginInv, PluginTypeOK
<1> HIDE DEF c
<1>4. job[t] \in Jobs /\ JobOK(t)  BY Zenon DEF PluginInv, PluginTypeOK, JobInv
<1>5. CASE job[t].dxs = None /\ job' = [job EXCEPT ![t].dxs = c] /\ Goto(t, "client") /\ comm' = comm
  <2> DEFINE j == [job[t] EXCEPT !.dxs = c]
  <2>1. /\ j \in Jobs /\ j.gpu = job[t].gpu /\ j.nic = job[t].nic /\ j.shim = job[t].shim /\ j.dxs = c
    BY <1>3, <1>4, Zenon DEF Jobs
  <2>2. job' = [job EXCEPT ![t] = j] /\ pc' = [pc EXCEPT ![t] = "client"]  BY <1>5, Zenon DEF Goto
  <2> HIDE DEF j
  <2>3. /\ pc'[t] = "client" /\ job'[t] = j
        /\ \A u \in Threads : u # t => pc'[u] = pc[u] /\ job'[u] = job[u]
        /\ \A u \in Threads : CallNic(u)' = CallNic(u)
        /\ ShimInv' /\ JobInv'
        /\ pc' \in [Threads -> Labels] /\ job' \in [Threads -> Jobs]
    BY <1>1, <2>1, <2>2, RouterStep, Zenon DEF Working
  <2>4. RouterInv'
    BY <1>1, <2>1, <2>3 DEF PluginInv, RouterInv, Making, c
  <2>5. LiveInv'  BY <1>1, <2>3, SameLive, Zenon DEF PluginInv
  <2> QED  BY <1>1, <1>5, <2>3, <2>4, <2>5, Zenon DEF PluginInv, PluginTypeOK, CommInv
<1>6. CASE job[t].dxs # None /\ Creating(t) /\ Goto(t, "publish") /\ UNCHANGED <<job, comm>>
  <2>1. job' = [job EXCEPT ![t] = job[t]] /\ pc' = [pc EXCEPT ![t] = "publish"]
    BY <1>6, Zenon DEF Goto, PluginInv, PluginTypeOK
  <2>2. /\ pc'[t] = "publish" /\ job'[t] = job[t]
        /\ \A u \in Threads : u # t => pc'[u] = pc[u] /\ job'[u] = job[u]
        /\ \A u \in Threads : CallNic(u)' = CallNic(u)
        /\ ShimInv' /\ JobInv'
        /\ pc' \in [Threads -> Labels] /\ job' \in [Threads -> Jobs]
    BY <1>1, <1>2, <1>4, <1>6, <2>1, RouterStep, Zenon
  <2>3. RouterInv'  BY <1>1, <2>2, Zenon DEF PluginInv, RouterInv, Making, Working
  <2>4. LiveInv'  BY <1>1, <2>2, SameLive, Zenon DEF PluginInv
  <2> QED  BY <1>1, <1>6, <2>2, <2>3, <2>4, Zenon DEF PluginInv, PluginTypeOK, CommInv
<1>7. ASSUME job[t].dxs # None, ~Creating(t), Return(t),
             comm' = [comm EXCEPT ![t] = [gpu |-> job[t].gpu, nic |-> job[t].nic,
                                          shim |-> job[t].shim, dxs |-> job[t].dxs, bm |-> c]]
      PROVE  PluginInv'
  <2> DEFINE x == [gpu |-> job[t].gpu, nic |-> job[t].nic,
                   shim |-> job[t].shim, dxs |-> job[t].dxs, bm |-> c]
  <2>1. /\ job[t].shim # None /\ job[t].shim = shim[job[t].gpu] /\ job[t].dxs = c
        /\ CallNic(t) = job[t].nic /\ job[t].gpu \in Gpus /\ job[t].nic \in Nics
    BY <1>1, <1>2, <1>4, <1>7, Zenon DEF PluginInv, RouterInv, JobOK, CallNic, c
  <2>2. job[t].shim \in Threads /\ job[t].dxs \in Threads  BY <1>4, <1>7, <2>1, Zenon DEF Jobs
  <2>3. /\ x \in Comms /\ x.gpu = job[t].gpu /\ x.nic = job[t].nic /\ x.shim = job[t].shim
        /\ x.dxs = job[t].dxs /\ x.bm = c
    BY <1>3, <2>1, <2>2, Zenon DEF Comms
  <2>4. comm' = [comm EXCEPT ![t] = x]  BY <1>7, Zenon
  <2> HIDE DEF x
  <2>5. NoJob \in Jobs /\ NoJob.shim = None /\ NoJob.dxs = None  BY Zenon DEF NoJob, Jobs
  <2>6. /\ pc'[t] = "idle" /\ job'[t] = NoJob
        /\ pc' \in [Threads -> Labels] /\ job' \in [Threads -> Jobs]
        /\ \A u \in Threads : u # t => pc'[u] = pc[u] /\ job'[u] = job[u]
    BY <1>7, <2>5, Zenon DEF Return, Goto, PluginInv, PluginTypeOK, Labels
  <2>7. comm'[t] = x /\ \A u \in Threads : u # t => comm'[u] = comm[u]
    BY <2>4, Zenon DEF PluginInv, PluginTypeOK
  <2>8. PluginTypeOK'  BY <1>1, <2>3, <2>4, <2>6, Zenon DEF PluginInv, PluginTypeOK
  <2>9. ShimInv'
    <3>1. \A g \in Gpus : gpuLock[g] # t  BY <1>7, Zenon DEF Creating
    <3> QED  BY <1>1, <2>6, <3>1 DEF PluginInv, ShimInv
  <2>10. JobInv'
    <3> SUFFICES ASSUME NEW u \in Threads PROVE JobOK(u)'
      BY Zenon DEF JobInv
    <3>1. CASE u = t  BY <2>5, <2>6, <3>1, Zenon DEF JobOK, Working
    <3>2. CASE u # t  BY <1>1, <2>6, <3>2, ZenonT(60) DEF JobOK, PluginInv, JobInv
    <3> QED  BY <3>1, <3>2, Zenon
  <2>11. RouterInv'
    <3> SUFFICES ASSUME NEW u \in Threads
                 PROVE  /\ pc'[u] \in Making => mu = u /\ clients[CallNic(u)'] = None
                        /\ pc'[u] \in Working /\ job'[u].dxs # None => clients[CallNic(u)'] = job'[u].dxs
      BY <1>1, Zenon DEF RouterInv
    <3>1. CASE u = t  BY <2>6, <3>1, Zenon DEF Making, Working
    <3>2. CASE u # t
      <4>1. pc'[u] = pc[u] /\ job'[u] = job[u]  BY <2>6, <3>2, Zenon
      <4>2. CallNic(u)' = CallNic(u)  BY <4>1, Zenon DEF CallNic
      <4> QED  BY <4>1, <4>2, Zenon DEF PluginInv, RouterInv
    <3> QED  BY <3>1, <3>2, Zenon
  <2>12. LiveInv'  BY <1>1, <2>6, SameLive, Zenon DEF PluginInv
  <2>13. CommInv'
    <3> SUFFICES ASSUME NEW u \in Threads, comm'[u] # None
                 PROVE  /\ comm'[u].shim = shim[comm'[u].gpu]
                        /\ comm'[u].dxs = clients[comm'[u].nic] /\ comm'[u].bm = clients[comm'[u].nic]
      BY <1>1, Zenon DEF CommInv
    <3>1. CASE u = t  BY <2>1, <2>3, <2>7, <3>1, Zenon DEF c
    <3>2. CASE u # t  BY <2>7, <3>2 DEF PluginInv, CommInv
    <3> QED  BY <3>1, <3>2, Zenon
  <2> QED  BY <2>8, <2>9, <2>10, <2>11, <2>12, <2>13, Zenon DEF PluginInv
<1> QED  BY <1>3, <1>5, <1>6, <1>7, Zenon DEF Answer

(* In the making of a client: the lock stays with the call, nothing was given out yet. *)
LEMMA MakingFacts ==
  ASSUME PluginInv, NEW t \in Threads, pc[t] \in Making
  PROVE  /\ NicOf(t) = CallNic(t) /\ CallNic(t) \in Nics /\ clients[CallNic(t)] = None
         /\ mu = t /\ job[t].dxs = None /\ job[t] \in Jobs /\ pc[t] \in Working
         /\ \A u \in Threads : u # t => pc[u] \notin Making
<1>1. pc[t] \in Working  BY Zenon DEF Making, Working
<1>2. NicOf(t) = CallNic(t) /\ CallNic(t) \in Nics  BY <1>1, NicOfCall, Zenon
<1>3. mu = t /\ clients[CallNic(t)] = None /\ \A u \in Threads : u # t => pc[u] \notin Making
  BY Zenon DEF PluginInv, RouterInv
<1>4. job[t].dxs = None  BY <1>1, <1>3, Zenon DEF PluginInv, RouterInv
<1> QED  BY <1>1, <1>2, <1>3, <1>4, Zenon DEF PluginInv, PluginTypeOK

(* A step in the router that changes only where the thread is. *)
LEMMA RouterGoto ==
  ASSUME PluginInv, NEW t \in Threads, NEW l \in Working \union {"fail"},
         pc[t] \in Working, Goto(t, l), UNCHANGED <<shimVars, job>>
  PROVE  /\ pc'[t] = l /\ job' = job
         /\ \A u \in Threads : u # t => pc'[u] = pc[u]
         /\ \A u \in Threads : CallNic(u)' = CallNic(u)
         /\ ShimInv' /\ JobInv'
         /\ gpuLock' = gpuLock /\ shim' = shim
         /\ pc' \in [Threads -> Labels] /\ job' \in [Threads -> Jobs]
<1>1. job' = [job EXCEPT ![t] = job[t]] /\ pc' = [pc EXCEPT ![t] = l] /\ job[t] \in Jobs
  BY Zenon DEF Goto, PluginInv, PluginTypeOK
<1>2. gpuLock' = gpuLock /\ shim' = shim /\ l # "publish"  BY Zenon DEF shimVars, Working
<1>3. l \in Working \union {"publish", "fail"}  BY Zenon
<1> QED  BY <1>1, <1>2, <1>3, RouterStep, Zenon

LEMMA GetClientPreserves ==
  ASSUME PluginInv, NEW t \in Threads, GetClient(t)
  PROVE  PluginInv'
<1>1. /\ pc[t] = "client" /\ mu = None /\ UNCHANGED <<shimVars, clients, live>> /\ pc[t] \in Working
  BY Zenon DEF GetClient, Working
<1>2. CASE clients[NicOf(t)] # None /\ Answer(t, clients[NicOf(t)]) /\ mu' = mu
  BY <1>1, <1>2, AnswerPreserves, Zenon DEF routerVars
<1>3. CASE clients[NicOf(t)] = None /\ mu' = t /\ Goto(t, "makeBm") /\ UNCHANGED <<job, comm>>
  <2>1. /\ pc'[t] = "makeBm" /\ job' = job
        /\ \A u \in Threads : u # t => pc'[u] = pc[u]
        /\ \A u \in Threads : CallNic(u)' = CallNic(u)
        /\ ShimInv' /\ JobInv'
        /\ gpuLock' = gpuLock /\ shim' = shim
        /\ pc' \in [Threads -> Labels] /\ job' \in [Threads -> Jobs]
    BY <1>1, <1>3, RouterGoto, Zenon DEF Working
  <2>2. clients[CallNic(t)] = None  BY <1>1, <1>3, NicOfCall, Zenon
  <2>3. \A u \in Threads : pc[u] \notin Making
    BY <1>1, PluginAssumption, Zenon DEF PluginInv, RouterInv
  <2>4. RouterInv'
    BY <1>1, <1>3, <2>1, <2>2, <2>3 DEF PluginInv, RouterInv, Making, Working
  <2>5. LiveInv'  BY <1>1, <2>1, SameLive, Zenon DEF PluginInv
  <2> QED  BY <1>1, <1>3, <2>1, <2>4, <2>5, Zenon DEF PluginInv, PluginTypeOK, CommInv
<1> QED  BY <1>2, <1>3, Zenon DEF GetClient

LEMMA MakeBufferManagerClientPreserves ==
  ASSUME PluginInv, NEW t \in Threads, MakeBufferManagerClient(t)
  PROVE  PluginInv'
<1>1. /\ pc[t] = "makeBm" /\ pc[t] \in Making /\ UNCHANGED <<shimVars, clients, job, comm>>
  BY Zenon DEF MakeBufferManagerClient, Making
<1>2. /\ NicOf(t) = CallNic(t) /\ clients[CallNic(t)] = None /\ mu = t /\ job[t].dxs = None
      /\ pc[t] \in Working /\ \A u \in Threads : u # t => pc[u] \notin Making
  BY <1>1, MakingFacts, Zenon
<1>3. ASSUME NEW l \in {"makeDxs", "fail"}, Goto(t, l)
      PROVE  /\ pc'[t] = l /\ job' = job
             /\ \A u \in Threads : u # t => pc'[u] = pc[u]
             /\ \A u \in Threads : CallNic(u)' = CallNic(u)
             /\ PluginTypeOK' /\ ShimInv' /\ JobInv' /\ CommInv'
  <2>1. l \in Working \union {"fail"}  BY Zenon DEF Working
  <2>2. /\ pc'[t] = l /\ job' = job
        /\ \A u \in Threads : u # t => pc'[u] = pc[u]
        /\ \A u \in Threads : CallNic(u)' = CallNic(u)
        /\ ShimInv' /\ JobInv'
        /\ gpuLock' = gpuLock /\ shim' = shim
        /\ pc' \in [Threads -> Labels] /\ job' \in [Threads -> Jobs]
    BY <1>1, <1>2, <1>3, <2>1, RouterGoto, Zenon
  <2> QED  BY <1>1, <2>2, Zenon DEF PluginInv, PluginTypeOK, CommInv
<1>4. CASE live' = live \union {Bm(t)} /\ Goto(t, "makeDxs") /\ mu' = mu
  <2>1. RouterInv'
    BY <1>1, <1>2, <1>3, <1>4, Zenon DEF PluginInv, RouterInv, Making, Working
  <2>2. BeingMade = {} /\ BeingMade' = {<<"bm", CallNic(t), t>>}
    BY <1>1, <1>2, <1>3, <1>4, Zenon DEF BeingMade, Making
  <2>3. Stored' = Stored  BY <1>1 DEF Stored
  <2>4. LiveInv'  BY <1>2, <1>4, <2>2, <2>3, Zenon DEF PluginInv, LiveInv, Bm
  <2> QED  BY <1>3, <1>4, <2>1, <2>4, Zenon DEF PluginInv
<1>5. CASE mu' = None /\ Goto(t, "fail") /\ live' = live
  <2>1. RouterInv'
    BY <1>1, <1>2, <1>3, <1>5, Zenon DEF PluginInv, RouterInv, Making, Working
  <2>2. LiveInv'  BY <1>1, <1>3, <1>5, SameLive, Zenon DEF PluginInv
  <2> QED  BY <1>3, <1>5, <2>1, <2>2, Zenon DEF PluginInv
<1> QED  BY <1>4, <1>5, Zenon DEF MakeBufferManagerClient

(* The one being made is the one of t. *)
LEMMA OnlyOneMade ==
  ASSUME PluginInv, NEW t \in Threads, pc[t] = "makeDxs"
  PROVE  /\ BeingMade = {<<"bm", CallNic(t), t>>}
         /\ \A u \in Threads : u # t => pc[u] # "makeDxs"
         /\ \A k \in {"bm", "dxs"} : \A u : <<k, CallNic(t), u>> \notin Stored
<1>1. /\ clients[CallNic(t)] = None /\ \A u \in Threads : u # t => pc[u] \notin Making
  BY MakingFacts, Zenon DEF Making
<1>2. \A u \in Threads : u # t => pc[u] # "makeDxs"  BY <1>1, Zenon DEF Making
<1>3. BeingMade = {<<"bm", CallNic(t), t>>}  BY <1>2, Zenon DEF BeingMade
<1>4. \A k \in {"bm", "dxs"} : \A u : <<k, CallNic(t), u>> \notin Stored  BY <1>1 DEF Stored
<1> QED  BY <1>2, <1>3, <1>4, Zenon

LEMMA DxsClientMade ==
  ASSUME PluginInv, NEW t \in Threads, pc[t] = "makeDxs", Answer(t, t),
         live' = live \union {Dxs(t)}, clients' = [clients EXCEPT ![NicOf(t)] = t],
         mu' = None, UNCHANGED <<gpuLock, shim>>
  PROVE  PluginInv'
<1> DEFINE n == CallNic(t)
           j == [job[t] EXCEPT !.dxs = t]
<1>1. /\ NicOf(t) = n /\ n \in Nics /\ clients[n] = None /\ mu = t /\ job[t].dxs = None
      /\ job[t] \in Jobs /\ pc[t] \in Working /\ \A u \in Threads : u # t => pc[u] \notin Making
  BY MakingFacts, Zenon DEF Making
<1>2. /\ j \in Jobs /\ j.gpu = job[t].gpu /\ j.nic = job[t].nic /\ j.shim = job[t].shim /\ j.dxs = t
  BY <1>1, Zenon DEF Jobs
<1>3. job' = [job EXCEPT ![t] = j] /\ pc' = [pc EXCEPT ![t] = "client"] /\ comm' = comm
  BY <1>1, Zenon DEF Answer, Goto
<1> HIDE DEF j, n
<1>4. /\ pc'[t] = "client" /\ job'[t] = j
      /\ \A u \in Threads : u # t => pc'[u] = pc[u] /\ job'[u] = job[u]
      /\ \A u \in Threads : CallNic(u)' = CallNic(u)
      /\ ShimInv' /\ JobInv'
      /\ pc' \in [Threads -> Labels] /\ job' \in [Threads -> Jobs]
  BY <1>1, <1>2, <1>3, RouterStep, Zenon DEF Working
<1>5. /\ clients' \in [Nics -> Threads \union {None}] /\ clients'[n] = t
      /\ \A m \in Nics : m # n => clients'[m] = clients[m]
  BY <1>1, Zenon DEF PluginInv, PluginTypeOK
<1>6. PluginTypeOK'  BY <1>3, <1>4, <1>5, Zenon DEF PluginInv, PluginTypeOK
<1>7. RouterInv'
  <2> SUFFICES ASSUME NEW u \in Threads
               PROVE  /\ pc'[u] \notin Making
                      /\ pc'[u] \in Working /\ job'[u].dxs # None => clients'[CallNic(u)] = job'[u].dxs
    BY <1>4, Zenon DEF RouterInv
  <2>1. CASE u = t  BY <1>2, <1>4, <1>5, <2>1, Zenon DEF Making, n
  <2>2. CASE u # t
    <3>1. pc'[u] = pc[u] /\ job'[u] = job[u] /\ pc[u] \notin Making  BY <1>1, <1>4, <2>2, Zenon
    <3>2. ASSUME pc[u] \in Working, job[u].dxs # None
          PROVE  clients'[CallNic(u)] = job[u].dxs
      <4>1. clients[CallNic(u)] = job[u].dxs /\ CallNic(u) \in Nics
        BY <3>2, NicOfCall, Zenon DEF PluginInv, RouterInv
      <4> QED  BY <1>1, <1>5, <3>2, <4>1, Zenon
    <3> QED  BY <3>1, <3>2, Zenon
  <2> QED  BY <2>1, <2>2, Zenon
<1>8. LiveInv'
  <2>1. \A u \in Threads : pc'[u] # "makeDxs"  BY <1>1, <1>4, Zenon DEF Making
  <2>2. BeingMade' = {}  BY <2>1, Zenon DEF BeingMade
  <2>3. {m \in Nics : clients'[m] # None} = {m \in Nics : clients[m] # None} \union {n}
    BY <1>1, <1>5, PluginAssumption, Zenon
  <2>4. Stored' = Stored \union {<<"bm", n, t>>, <<"dxs", n, t>>}
    BY <1>1, <1>5, <2>3 DEF Stored
  <2>5. live = Stored \union {<<"bm", n, t>>}
    BY OnlyOneMade, Zenon DEF PluginInv, LiveInv, n
  <2>6. live' = live \union {<<"dxs", n, t>>}  BY <1>1, Zenon DEF Dxs
  <2> QED  BY <2>2, <2>4, <2>5, <2>6, Zenon DEF LiveInv
<1>9. CommInv'
  <2> SUFFICES ASSUME NEW u \in Threads, comm[u] # None
               PROVE  clients'[comm[u].nic] = clients[comm[u].nic]
    BY <1>3, Zenon DEF PluginInv, CommInv
  <2>1. comm[u].nic \in Nics /\ comm[u].dxs \in Threads /\ comm[u].dxs = clients[comm[u].nic]
    BY Zenon DEF PluginInv, PluginTypeOK, CommInv, Comms
  <2> QED  BY <1>1, <1>5, <2>1, PluginAssumption
<1> QED  BY <1>4, <1>6, <1>7, <1>8, <1>9, Zenon DEF PluginInv

LEMMA DxsClientFails ==
  ASSUME PluginInv, NEW t \in Threads, pc[t] = "makeDxs", Goto(t, "fail"),
         live' = live \ {Bm(t)}, mu' = None, UNCHANGED <<shimVars, clients, job, comm>>
  PROVE  PluginInv'
<1>1. /\ NicOf(t) = CallNic(t) /\ pc[t] \in Working /\ \A u \in Threads : u # t => pc[u] \notin Making
  BY MakingFacts, Zenon DEF Making
<1>2. /\ pc'[t] = "fail" /\ job' = job
      /\ \A u \in Threads : u # t => pc'[u] = pc[u]
      /\ \A u \in Threads : CallNic(u)' = CallNic(u)
      /\ ShimInv' /\ JobInv'
      /\ gpuLock' = gpuLock /\ shim' = shim
      /\ pc' \in [Threads -> Labels] /\ job' \in [Threads -> Jobs]
  BY <1>1, RouterGoto, Zenon
<1>3. RouterInv'  BY <1>1, <1>2, Zenon DEF PluginInv, RouterInv, Making, Working
<1>4. LiveInv'
  <2>1. \A u \in Threads : pc'[u] # "makeDxs"  BY <1>1, <1>2, Zenon DEF Making
  <2>2. BeingMade' = {}  BY <2>1, Zenon DEF BeingMade
  <2>3. Stored' = Stored  BY DEF Stored
  <2>4. live = Stored \union {<<"bm", CallNic(t), t>>}
    BY OnlyOneMade, Zenon DEF PluginInv, LiveInv
  <2>5. <<"bm", CallNic(t), t>> \notin Stored  BY OnlyOneMade, Zenon
  <2>6. live' = live \ {<<"bm", CallNic(t), t>>}  BY <1>1, Zenon DEF Bm
  <2> QED  BY <2>2, <2>3, <2>4, <2>5, <2>6, Zenon DEF LiveInv
<1> QED  BY <1>2, <1>3, <1>4, Zenon DEF PluginInv, PluginTypeOK, CommInv

LEMMA MakeDxsClientPreserves ==
  ASSUME PluginInv, NEW t \in Threads, MakeDxsClient(t)
  PROVE  PluginInv'
<1>1. pc[t] = "makeDxs" /\ UNCHANGED shimVars /\ mu' = None  BY Zenon DEF MakeDxsClient
<1>2. CASE /\ live' = live \union {Dxs(t)} /\ clients' = [clients EXCEPT ![NicOf(t)] = t]
           /\ Answer(t, t)
  BY <1>1, <1>2, DxsClientMade, Zenon DEF shimVars
<1>3. CASE live' = live \ {Bm(t)} /\ Goto(t, "fail") /\ UNCHANGED <<clients, job, comm>>
  BY <1>1, <1>3, DxsClientFails, Zenon
<1> QED  BY <1>2, <1>3, Zenon DEF MakeDxsClient

-----------------------------------------------------------------------------
(* The other steps *)

LEMMA CallInitPreserves ==
  ASSUME PluginInv, NEW t \in Threads, NEW g \in Gpus, CallInit(t, g)
  PROVE  PluginInv'
<1> DEFINE j == [NoJob EXCEPT !.call = "init", !.gpu = g, !.nic = Closest[g]]
<1>1. /\ pc[t] = "idle" /\ pc' = [pc EXCEPT ![t] = "once"] /\ job' = [job EXCEPT ![t] = j]
      /\ UNCHANGED <<shimVars, routerVars, comm>>
  BY Zenon DEF CallInit, Goto
<1>2. /\ j \in Jobs /\ j.gpu \in Gpus /\ j.nic \in Nics /\ j.shim = None /\ j.dxs = None
  BY PluginAssumption, Zenon DEF NoJob, Jobs
<1> HIDE DEF j
<1> QED  BY <1>1, <1>2, LocalStep, Zenon DEF Working

LEMMA CallConnectPreserves ==
  ASSUME PluginInv, NEW t \in Threads, NEW g \in Gpus, NEW n \in Nics, CallConnect(t, g, n)
  PROVE  PluginInv'
<1> DEFINE j == [NoJob EXCEPT !.call = "connect", !.gpu = g, !.nic = n, !.shim = shim[g]]
           l == IF shim[g] = None THEN "lock" ELSE "client"
<1>1. /\ pc[t] = "idle" /\ pc' = [pc EXCEPT ![t] = l] /\ job' = [job EXCEPT ![t] = j]
      /\ UNCHANGED <<shimVars, routerVars, comm>>
  BY Zenon DEF CallConnect, Goto
<1>2. shim[g] \in Threads \union {None}  BY Zenon DEF PluginInv, PluginTypeOK
<1>3. /\ j \in Jobs /\ j.gpu = g /\ j.nic = n /\ j.shim = shim[g] /\ j.dxs = None
  BY <1>2, Zenon DEF NoJob, Jobs
<1>4. l \in {"lock", "client"} /\ (l = "client" => shim[g] # None)  BY Zenon
<1> HIDE DEF j, l
<1> QED  BY <1>1, <1>3, <1>4, LocalStep, Zenon DEF Working

LEMMA ShimInitializedPreserves ==
  ASSUME PluginInv, NEW t \in Threads, ShimInitialized(t)
  PROVE  PluginInv'
<1>1. pc[t] = "shim" /\ UNCHANGED <<shimVars, routerVars, comm>>  BY Zenon DEF ShimInitialized
<1>2. /\ job[t] \in Jobs /\ job[t].gpu \in Gpus /\ job[t].nic \in Nics /\ job[t].dxs = None
      /\ shim[job[t].gpu] # None /\ shim[job[t].gpu] \in Threads
  BY <1>1, Zenon DEF PluginInv, PluginTypeOK, JobInv, JobOK
<1>3. CASE Return(t)
  <2>1. NoJob \in Jobs /\ NoJob.shim = None  BY Zenon DEF NoJob, Jobs
  <2> QED  BY <1>1, <1>3, <2>1, LocalStep, Zenon DEF Return, Goto, Working
<1>4. CASE job' = [job EXCEPT ![t].shim = shim[job[t].gpu]] /\ Goto(t, "client")
  <2> DEFINE j == [job[t] EXCEPT !.shim = shim[job[t].gpu]]
  <2>1. /\ j \in Jobs /\ j.gpu = job[t].gpu /\ j.nic = job[t].nic /\ j.dxs = None
        /\ j.shim = shim[job[t].gpu]
    BY <1>2, Zenon DEF Jobs
  <2>2. job' = [job EXCEPT ![t] = j] /\ pc' = [pc EXCEPT ![t] = "client"]  BY <1>4, Zenon DEF Goto
  <2> HIDE DEF j
  <2> QED  BY <1>1, <1>2, <2>1, <2>2, LocalStep, Zenon DEF Working
<1> QED  BY <1>3, <1>4, Zenon DEF ShimInitialized

(* Within PluginCoreInit. *)
LEMMA CorePreserves ==
  ASSUME PluginInv, NEW t \in Threads, CallOnce(t) \/ WaitForRxDM(t) \/ InitializeNetIfs(t)
  PROVE  PluginInv'
<1>1. /\ pc[t] \in {"once", "poll", "netifs"} /\ UNCHANGED <<shimVars, routerVars, comm>>
  <2>1. CASE CallOnce(t)  BY <2>1, Zenon DEF CallOnce
  <2>2. CASE WaitForRxDM(t)  BY <2>2, Zenon DEF WaitForRxDM
  <2>3. CASE InitializeNetIfs(t)  BY <2>3, Zenon DEF InitializeNetIfs
  <2> QED  BY <2>1, <2>2, <2>3, Zenon
<1>2. /\ job[t] \in Jobs /\ job[t].gpu \in Gpus /\ job[t].nic \in Nics /\ job[t].dxs = None
      /\ job[t].shim # None => job[t].shim = shim[job[t].gpu]
  BY <1>1, Zenon DEF PluginInv, PluginTypeOK, JobInv, JobOK
<1>3. ASSUME NEW l \in {"once", "poll", "netifs", "lock"}, Goto(t, l), job' = job
      PROVE  PluginInv'
  <2>1. job' = [job EXCEPT ![t] = job[t]] /\ pc' = [pc EXCEPT ![t] = l]
    BY <1>3, Zenon DEF Goto, PluginInv, PluginTypeOK
  <2> QED  BY <1>1, <1>2, <2>1, LocalStep, Zenon DEF Working
<1>4. CASE Return(t)
  <2>1. NoJob \in Jobs /\ NoJob.shim = None  BY Zenon DEF NoJob, Jobs
  <2> QED  BY <1>1, <1>4, <2>1, LocalStep, Zenon DEF Return, Goto, Working
<1>5. CASE UNCHANGED <<pc, job>>
  BY <1>1, <1>5, PluginStutters, Zenon DEF threadVars
<1>6. CASE CallOnce(t)
  BY <1>3, <1>4, <1>5, <1>6, Zenon DEF CallOnce, ReturnError
<1>7. CASE WaitForRxDM(t)
  BY <1>3, <1>5, <1>7, Zenon DEF WaitForRxDM
<1>8. CASE InitializeNetIfs(t)
  BY <1>3, <1>8, Zenon DEF InitializeNetIfs
<1> QED  BY <1>6, <1>7, <1>8, Zenon

(* Connections are closed: the others stay as they are. *)
LEMMA ClosePreserves ==
  ASSUME PluginInv, NEW t \in Threads, Close(t)
  PROVE  PluginInv'
<1>1. /\ comm' = [comm EXCEPT ![t] = None] /\ UNCHANGED <<shimVars, routerVars, pc, job>>
      /\ gpuLock' = gpuLock /\ shim' = shim /\ mu' = mu /\ clients' = clients /\ live' = live
  BY Zenon DEF Close, shimVars, routerVars
<1>2. PluginTypeOK'  BY <1>1, Zenon DEF PluginInv, PluginTypeOK
<1>3. ShimInv' /\ JobInv' /\ RouterInv'
  BY <1>1, Zenon DEF PluginInv, ShimInv, JobInv, JobOK, RouterInv, CallNic
<1>4. LiveInv'  BY <1>1, SameLive, Zenon DEF PluginInv
<1>5. CommInv'  BY <1>1, Zenon DEF PluginInv, PluginTypeOK, CommInv
<1> QED  BY <1>2, <1>3, <1>4, <1>5, Zenon DEF PluginInv

(* The library goes while no call is running: no lock is held. *)
LEMMA CleanupPreserves ==
  ASSUME PluginInv, Cleanup
  PROVE  PluginInv'
<1>1. /\ \A t \in Threads : pc[t] = "idle"
      /\ shim' = [g \in Gpus |-> None] /\ comm' = [t \in Threads |-> None]
      /\ gpuLock' = gpuLock /\ mu' = mu /\ clients' = clients /\ live' = live /\ pc' = pc /\ job' = job
  BY Zenon DEF Cleanup, routerVars
<1>2. PluginTypeOK'  BY <1>1, Zenon DEF PluginInv, PluginTypeOK
<1>3. ShimInv'  BY <1>1, Zenon DEF PluginInv, ShimInv, Working
<1>4. JobInv'  BY <1>1, Zenon DEF PluginInv, JobInv, JobOK, Working
<1>5. RouterInv'  BY <1>1, Zenon DEF RouterInv, Working, Making
<1>6. LiveInv'  BY <1>1, SameLive, Zenon DEF PluginInv
<1>7. CommInv'  BY <1>1, Zenon DEF CommInv
<1> QED  BY <1>2, <1>3, <1>4, <1>5, <1>6, <1>7, Zenon DEF PluginInv

LEMMA PluginSteps == PluginInv /\ [Next]_vars => PluginInv'
<1> SUFFICES ASSUME PluginInv, [Next]_vars PROVE PluginInv'  BY Zenon
<1>1. ASSUME NEW t \in Threads, Progress(t) PROVE PluginInv'
  <2>1. CASE CallOnce(t) \/ WaitForRxDM(t) \/ InitializeNetIfs(t)  BY <2>1, CorePreserves, Zenon
  <2>2. CASE InitShim(t)  BY <2>2, InitShimPreserves, Zenon
  <2>3. CASE ShimFails(t)  BY <2>3, ShimFailsPreserves
  <2>4. CASE PublishShim(t)  BY <2>4, PublishShimPreserves, Zenon
  <2>5. CASE ShimInitialized(t)  BY <2>5, ShimInitializedPreserves, Zenon
  <2>6. CASE GetClient(t)  BY <2>6, GetClientPreserves, Zenon
  <2>7. CASE MakeBufferManagerClient(t)  BY <2>7, MakeBufferManagerClientPreserves, Zenon
  <2>8. CASE MakeDxsClient(t)  BY <2>8, MakeDxsClientPreserves, Zenon
  <2> QED  BY <1>1, <2>1, <2>2, <2>3, <2>4, <2>5, <2>6, <2>7, <2>8, Zenon DEF Progress
<1>2. ASSUME NEW t \in Threads, NEW g \in Gpus, CallInit(t, g) PROVE PluginInv'
  BY <1>2, CallInitPreserves, Zenon
<1>3. ASSUME NEW t \in Threads, NEW g \in Gpus, NEW n \in Nics, CallConnect(t, g, n) PROVE PluginInv'
  BY <1>3, CallConnectPreserves, Zenon
<1>4. ASSUME NEW t \in Threads, Close(t) PROVE PluginInv'  BY <1>4, ClosePreserves, Zenon
<1>5. ASSUME NEW t \in Threads, UseMemory(t) PROVE PluginInv'
  BY <1>5, PluginStutters, Zenon DEF UseMemory
<1>6. CASE Cleanup  BY <1>6, CleanupPreserves, Zenon
<1>7. CASE UNCHANGED vars  BY <1>7, PluginStutters, Zenon DEF vars
<1> QED  BY <1>1, <1>2, <1>3, <1>4, <1>5, <1>6, <1>7, Zenon DEF Next

-----------------------------------------------------------------------------
(* What the invariants say *)

LEMMA OneClientFromInv == PluginInv => OneClientPerNic
<1> SUFFICES ASSUME PluginInv PROVE OneClientPerNic  BY Zenon
<1>1. ASSUME NEW x \in Stored PROVE x[2] \in Nics /\ clients[x[2]] # None /\ x = <<x[1], x[2], clients[x[2]]>>
  BY DEF Stored
<1>2. ASSUME NEW x \in BeingMade
      PROVE  x[2] \in Nics /\ clients[x[2]] = None /\ x = <<"bm", x[2], mu>> /\ mu \in Threads
  <2>1. PICK t \in Threads : pc[t] = "makeDxs" /\ x = <<"bm", CallNic(t), t>>  BY Zenon DEF BeingMade
  <2>2. CallNic(t) \in Nics /\ clients[CallNic(t)] = None /\ mu = t
    BY <2>1, MakingFacts, Zenon DEF Making
  <2> QED  BY <2>1, <2>2, Zenon
<1>3. live = Stored \union BeingMade  BY Zenon DEF PluginInv, LiveInv
<1>4. ASSUME NEW x \in live, NEW y \in live, x[1] = y[1], x[2] = y[2] PROVE x = y
  BY <1>1, <1>2, <1>3, <1>4, Zenon
<1>5. mu = None => live = Stored  BY <1>2, <1>3, PluginAssumption, Zenon
<1> QED  BY <1>4, <1>5 DEF OneClientPerNic, Stored

LEMMA PointersFromInv == PluginInv => PointersCurrent
<1> SUFFICES ASSUME PluginInv PROVE PointersCurrent  BY Zenon
<1>1. \A t \in Threads : job[t].shim # None => job[t].shim = shim[job[t].gpu]
  BY Zenon DEF PluginInv, JobInv, JobOK
<1>2. ASSUME NEW t \in Threads, comm[t] # None
      PROVE  /\ comm[t].shim = shim[comm[t].gpu]
             /\ <<"dxs", comm[t].nic, comm[t].dxs>> \in live
             /\ <<"bm", comm[t].nic, comm[t].bm>> \in live
  <2>1. /\ comm[t].shim = shim[comm[t].gpu] /\ comm[t].nic \in Nics
        /\ comm[t].dxs = clients[comm[t].nic] /\ comm[t].bm = clients[comm[t].nic]
        /\ comm[t].dxs \in Threads
    BY <1>2, Zenon DEF PluginInv, PluginTypeOK, CommInv, Comms
  <2>2. clients[comm[t].nic] # None  BY <2>1, PluginAssumption, Zenon
  <2> QED  BY <2>1, <2>2 DEF PluginInv, LiveInv, Stored
<1> QED  BY <1>1, <1>2, Zenon DEF PointersCurrent

(* NicClientRouter::GetOrInitClient: however many threads ask for the clients
   of a NIC and however often making them fails, no NIC has two of a kind and
   none is left behind. *)
THEOREM ClientsUnique == Spec => []OneClientPerNic
<1> QED  BY PluginInitially, PluginSteps, OneClientFromInv, PTL DEF Spec

(* init_shim and NcclShim::Connect: the shim and the clients a connection has
   cached are the ones the plugin still uses. *)
THEOREM PointersStayCurrent == Spec => []PointersCurrent
<1> QED  BY PluginInitially, PluginSteps, PointersFromInv, PTL DEF Spec

-----------------------------------------------------------------------------
(***************************************************************************)
(* The memory                                                              *)
(*                                                                         *)
(* MrUsable and MrAccounted are about the state of MrCache, for any memory, *)
(* any number of holders and any number of registrations.  Neither is      *)
(* inductive.  What makes DeregMr safe is that a slot is found by its      *)
(* handle, so handles have to be distinct (Distinct), and that what a      *)
(* holder was given is covered by the slot it shares (HeldCovered), not    *)
(* just by what RxDM has registered; the count of a slot (Counted) then    *)
(* says that a slot that goes has no holder left.                          *)
(***************************************************************************)
Slots == [start : Nat, pages : Nat, handle : Nat, refs : Nat]

MrTypeOK ==
  /\ slots \in Seq(Slots) /\ held \in [Holders -> Handles \union {None}]
  /\ registered \subseteq Handles /\ rxdmUp \in BOOLEAN /\ nextHandle \in Nat

\* No two slots have the same handle, and the next one is unused.
Distinct ==
  /\ \A i \in 1 .. Len(slots) : slots[i].handle < nextHandle
  /\ \A i, j \in 1 .. Len(slots) : slots[i].handle = slots[j].handle => i = j

\* Every holder has a slot that covers its memory.
HeldCovered ==
  \A m \in Holders : held[m] # None =>
    \E i \in 1 .. Len(slots) : slots[i].handle = held[m].handle /\ Covers(slots[i], held[m])

\* A slot counts its holders.
Counted ==
  \A i \in 1 .. Len(slots) : slots[i].refs = Cardinality(HoldersOf(held, slots[i].handle))

\* RxDM has registered what the slots say.
Registered ==
  rxdmUp => registered = {Handle(slots[i], slots[i].handle) : i \in 1 .. Len(slots)}

MrInv == MrTypeOK /\ Distinct /\ HeldCovered /\ Counted /\ Registered

\* The slots fit the array.
Fits == capacity \in Nat /\ Len(slots) <= capacity

\* Once realloc has failed there is no cache left to account for anything, and
\* nothing registers or deregisters before the process ends.
MemoryInv ==
  /\ lost \in BOOLEAN
  /\ ~lost => MrInv /\ Fits
  /\ lost => MrUsable /\ nextHandle \in Nat

-----------------------------------------------------------------------------
(* Finite sets and numbers.  What the lemmas need of them is a hypothesis, *)
(* SetFacts, that SetFactsHold takes from the library at the end: the      *)
(* proofs are checked much faster without its theorems in their context.   *)
SubsetFact == \A S : \A T \in SUBSET S : IsFiniteSet(S) => IsFiniteSet(T)
SizeFact == \A S : IsFiniteSet(S) => Cardinality(S) \in Nat /\ (Cardinality(S) = 0 <=> S = {})
ChangeFact ==
  \A S, x : IsFiniteSet(S) =>
    /\ Cardinality(S \union {x}) = IF x \in S THEN Cardinality(S) ELSE Cardinality(S) + 1
    /\ Cardinality(S \ {x}) = IF x \in S THEN Cardinality(S) - 1 ELSE Cardinality(S)
LeastFact == \A T : T \subseteq Nat /\ T # {} => \E x \in T : \A y \in T : x <= y

SetFacts == IsFiniteSet({}) /\ SubsetFact /\ SizeFact /\ ChangeFact /\ LeastFact

LEMMA FiniteSubset ==
  ASSUME SetFacts, NEW S, IsFiniteSet(S), NEW T \in SUBSET S
  PROVE  IsFiniteSet(T)
<1> QED  BY Zenon DEF SetFacts, SubsetFact

LEMMA CardinalityType ==
  ASSUME SetFacts, NEW S, IsFiniteSet(S)
  PROVE  Cardinality(S) \in Nat /\ (Cardinality(S) = 0 <=> S = {})
<1> QED  BY Zenon DEF SetFacts, SizeFact

LEMMA EmptySet == ASSUME SetFacts PROVE Cardinality({}) = 0
<1> QED  BY Zenon DEF SetFacts, SizeFact

LEMMA OneMoreOrLess ==
  ASSUME SetFacts, NEW S, NEW x, IsFiniteSet(S)
  PROVE  /\ Cardinality(S \union {x}) = IF x \in S THEN Cardinality(S) ELSE Cardinality(S) + 1
         /\ Cardinality(S \ {x}) = IF x \in S THEN Cardinality(S) - 1 ELSE Cardinality(S)
<1> QED  BY Zenon DEF SetFacts, ChangeFact

(* A nonempty set of numbers has a least element. *)
LEMMA Least ==
  ASSUME SetFacts, NEW T, T \subseteq Nat, T # {}
  PROVE  \E x \in T : \A y \in T : x <= y
<1> QED  BY Zenon DEF SetFacts, LeastFact

-----------------------------------------------------------------------------
(* Sequences *)

LEMMA SubSeqProperties ==
  ASSUME NEW S, NEW s \in Seq(S), NEW m \in 1 .. Len(s) + 1, NEW n \in m - 1 .. Len(s)
  PROVE  /\ SubSeq(s, m, n) \in Seq(S) /\ Len(SubSeq(s, m, n)) = n - m + 1
         /\ \A i \in 1 .. n - m + 1 : SubSeq(s, m, n)[i] = s[m + i - 1]
<1> QED  OBVIOUS

LEMMA ConcatProperties ==
  ASSUME NEW S, NEW s \in Seq(S), NEW t \in Seq(S)
  PROVE  /\ s \o t \in Seq(S) /\ Len(s \o t) = Len(s) + Len(t)
         /\ \A i \in 1 .. Len(s) + Len(t) : (s \o t)[i] = IF i <= Len(s) THEN s[i] ELSE t[i - Len(s)]
<1> QED  OBVIOUS

LEMMA ExceptSeq ==
  ASSUME NEW S, NEW s \in Seq(S), NEW i \in 1 .. Len(s), NEW e \in S
  PROVE  /\ [s EXCEPT ![i] = e] \in Seq(S) /\ Len([s EXCEPT ![i] = e]) = Len(s)
         /\ \A j \in 1 .. Len(s) : [s EXCEPT ![i] = e][j] = IF j = i THEN e ELSE s[j]
<1> QED  OBVIOUS

LEMMA Elements ==
  ASSUME NEW S, NEW s \in Seq(S)
  PROVE  Len(s) \in Nat /\ \A i \in 1 .. Len(s) : s[i] \in S
<1> QED  OBVIOUS

(* What InsertSlot does: the elements before k stay, those behind it move. *)
InsertedAt(t, s, k, e, S) ==
  /\ t \in Seq(S) /\ Len(t) = Len(s) + 1
  /\ \A j \in 1 .. Len(s) + 1 : t[j] = IF j < k THEN s[j] ELSE IF j = k THEN e ELSE s[j - 1]

LEMMA Inserted ==
  ASSUME NEW S, NEW s \in Seq(S), NEW k \in 1 .. Len(s) + 1, NEW e \in S
  PROVE  InsertedAt(InsertSlot(s, k, e), s, k, e, S)
<1> DEFINE a == SubSeq(s, 1, k - 1)
           b == SubSeq(s, k, Len(s))
           u == <<e>>
           c == a \o u
<1>0. Len(s) \in Nat /\ \A i \in 1 .. Len(s) : s[i] \in S  BY Elements, Zenon
<1>1. a \in Seq(S) /\ Len(a) = k - 1 /\ \A i \in 1 .. k - 1 : a[i] = s[i]
  BY <1>0, SubSeqProperties
<1>2. b \in Seq(S) /\ Len(b) = Len(s) - k + 1 /\ \A i \in 1 .. Len(s) - k + 1 : b[i] = s[k + i - 1]
  BY <1>0, SubSeqProperties
<1>3. u \in Seq(S) /\ Len(u) = 1 /\ u[1] = e  OBVIOUS
<1>4. InsertSlot(s, k, e) = c \o b  BY Zenon DEF InsertSlot
<1> HIDE DEF a, b, u
<1>5. /\ c \in Seq(S) /\ Len(c) = Len(a) + Len(u)
      /\ \A i \in 1 .. Len(a) + Len(u) : c[i] = IF i <= Len(a) THEN a[i] ELSE u[i - Len(a)]
  BY <1>1, <1>3, ConcatProperties, Zenon
<1> HIDE DEF c
<1>6. Len(c) = k /\ \A i \in 1 .. k : c[i] = IF i < k THEN s[i] ELSE e
  BY <1>0, <1>1, <1>3, <1>5
<1>7. /\ c \o b \in Seq(S) /\ Len(c \o b) = Len(c) + Len(b)
      /\ \A i \in 1 .. Len(c) + Len(b) : (c \o b)[i] = IF i <= Len(c) THEN c[i] ELSE b[i - Len(c)]
  <2>1. b \in Seq(S) /\ c \in Seq(S)  BY <1>2, <1>5, Zenon
  <2> QED  BY <2>1, ConcatProperties, Zenon
<1>8. Len(c \o b) = Len(s) + 1  BY <1>0, <1>2, <1>6, <1>7
<1>9. ASSUME NEW j \in 1 .. Len(s) + 1
      PROVE  (c \o b)[j] = IF j < k THEN s[j] ELSE IF j = k THEN e ELSE s[j - 1]
  <2>0. k \in Int /\ j \in Int /\ (j < k \/ j = k \/ j > k)  BY <1>0
  <2>1. CASE j < k
    <3>1. (c \o b)[j] = c[j] /\ c[j] = s[j]  BY <1>0, <1>2, <1>6, <1>7, <2>1
    <3> QED  BY <2>1, <3>1, Zenon
  <2>2. CASE j = k
    <3>1. (c \o b)[k] = c[k] /\ c[k] = e /\ ~(k < k)  BY <1>0, <1>2, <1>6, <1>7, <2>2
    <3> QED  BY <2>2, <3>1, Zenon
  <2>3. CASE j > k
    <3>1. (c \o b)[j] = b[j - k] /\ j - k \in 1 .. Len(s) - k + 1  BY <1>0, <1>2, <1>6, <1>7, <2>3
    <3>2. b[j - k] = s[k + (j - k) - 1]  BY <1>2, <3>1, Zenon
    <3>3. k + (j - k) - 1 = j - 1 /\ ~(j < k) /\ j # k  BY <2>0, <2>3
    <3> QED  BY <3>1, <3>2, <3>3, Zenon
  <2> QED  BY <2>0, <2>1, <2>2, <2>3, Zenon
<1> QED  BY <1>4, <1>7, <1>8, <1>9, Zenon DEF InsertedAt

(* What RemoveSlot does: the elements behind i move up. *)
LEMMA Removed ==
  ASSUME NEW S, NEW s \in Seq(S), NEW i \in 1 .. Len(s)
  PROVE  /\ RemoveSlot(s, i) \in Seq(S)
         /\ Len(RemoveSlot(s, i)) = Len(s) - 1
         /\ \A j \in 1 .. Len(s) - 1 : RemoveSlot(s, i)[j] = IF j < i THEN s[j] ELSE s[j + 1]
<1> DEFINE a == SubSeq(s, 1, i - 1)
           b == SubSeq(s, i + 1, Len(s))
<1>0. Len(s) \in Nat /\ \A j \in 1 .. Len(s) : s[j] \in S  BY Elements, Zenon
<1>1. a \in Seq(S) /\ Len(a) = i - 1 /\ \A j \in 1 .. i - 1 : a[j] = s[j]
  BY <1>0, SubSeqProperties
<1>2. b \in Seq(S) /\ Len(b) = Len(s) - i /\ \A j \in 1 .. Len(s) - i : b[j] = s[i + j]
  BY <1>0, SubSeqProperties
<1>3. RemoveSlot(s, i) = a \o b  BY Zenon DEF RemoveSlot
<1> HIDE DEF a, b
<1>4. /\ a \o b \in Seq(S) /\ Len(a \o b) = Len(a) + Len(b)
      /\ \A j \in 1 .. Len(a) + Len(b) : (a \o b)[j] = IF j <= Len(a) THEN a[j] ELSE b[j - Len(a)]
  BY <1>1, <1>2, ConcatProperties, Zenon
<1> QED  BY <1>0, <1>1, <1>2, <1>3, <1>4, SMTT(20)

(* Where the scan stops: at a slot, or behind the last. *)
LEMMA Scan ==
  ASSUME SetFacts, MrTypeOK, NEW r \in Ranges
  PROVE  /\ ScanStop(r) \in 1 .. Len(slots) + 1
         /\ Hit(r) => ScanStop(r) \in 1 .. Len(slots) /\ Covers(slots[ScanStop(r)], r)
<1> DEFINE Stops(k) == k = Len(slots) + 1 \/ r.start < slots[k].start \/ Covers(slots[k], r)
           T == {k \in 1 .. Len(slots) + 1 : Stops(k)}
<1>1. Len(slots) \in Nat  BY Elements, Zenon DEF MrTypeOK
<1>2. Len(slots) + 1 \in T /\ T \subseteq Nat  BY <1>1
<1>3. PICK x \in T : \A y \in T : x <= y  BY <1>2, Least, Zenon
<1>4. /\ x \in 1 .. Len(slots) + 1 /\ Stops(x)
      /\ \A j \in 1 .. x - 1 : ~(r.start < slots[j].start \/ Covers(slots[j], r))
  BY <1>1, <1>3
<1>5. /\ ScanStop(r) \in 1 .. Len(slots) + 1 /\ Stops(ScanStop(r))
  BY <1>4, Zenon DEF ScanStop
<1>6. ASSUME Hit(r)
      PROVE  ScanStop(r) \in 1 .. Len(slots) /\ Covers(slots[ScanStop(r)], r)
  <2>1. ScanStop(r) <= Len(slots) /\ r.start >= slots[ScanStop(r)].start
    BY <1>6, Zenon DEF Hit
  <2>2. ScanStop(r) \in 1 .. Len(slots)  BY <1>1, <1>5, <2>1
  <2>3. slots[ScanStop(r)] \in Slots  BY <2>2, Elements, Zenon DEF MrTypeOK
  <2>4. ~(r.start < slots[ScanStop(r)].start)  BY <2>1, <2>3, MrAssumption, SMTT(60) DEF Slots, Ranges
  <2> QED  BY <1>1, <1>5, <2>1, <2>2, <2>4
<1> QED  BY <1>5, <1>6, Zenon

-----------------------------------------------------------------------------
(* The invariant *)

LEMMA MrInitially == MrInit => MrInv
<1> SUFFICES ASSUME MrInit PROVE MrInv  BY Zenon
<1>1. slots = <<>> /\ Len(slots) = 0 /\ slots \in Seq(Slots)  BY DEF MrInit
<1>2. \A m \in Holders : held[m] = None  BY Zenon DEF MrInit
<1>3. MrTypeOK  BY <1>1, Zenon DEF MrInit, MrTypeOK
<1> QED  BY <1>1, <1>2, <1>3 DEF MrInit, MrInv, Distinct, HeldCovered, Counted, Registered

LEMMA MrStutters == MrInv /\ UNCHANGED mrVars => MrInv'
<1> QED
  BY DEF mrVars, MrInv, MrTypeOK, Distinct, HeldCovered, Counted, Registered, HoldersOf

(* The holders of a handle are a finite set, and count as one. *)
LEMMA HoldersFinite ==
  ASSUME SetFacts, MrTypeOK, NEW h
  PROVE  IsFiniteSet(HoldersOf(held, h)) /\ Cardinality(HoldersOf(held, h)) \in Nat
<1>1. IsFiniteSet(HoldersOf(held, h))  BY MrAssumption, FiniteSubset, Zenon DEF HoldersOf
<1> QED  BY <1>1, CardinalityType, Zenon

(* A holder m that was free takes a handle h: its count goes up. *)
LEMMA Taken ==
  ASSUME SetFacts, MrTypeOK, NEW m \in Holders, held[m] = None, NEW x \in Handles,
         held' = [held EXCEPT ![m] = x]
  PROVE  \A h \in Nat : Cardinality(HoldersOf(held', h)) =
                IF h = x.handle THEN Cardinality(HoldersOf(held, h)) + 1 ELSE Cardinality(HoldersOf(held, h))
<1> TAKE h \in Nat
<1>1. x # None  BY MrAssumption, Zenon
<1>2. m \notin HoldersOf(held, h)  BY Zenon DEF HoldersOf
<1>3. HoldersOf(held', h) = IF h = x.handle THEN HoldersOf(held, h) \union {m} ELSE HoldersOf(held, h)
  BY <1>1, Zenon DEF HoldersOf, MrTypeOK
<1> QED  BY <1>2, <1>3, HoldersFinite, OneMoreOrLess, ZenonT(60)

(* A holder m gives its handle back: the count goes down. *)
LEMMA GivenBack ==
  ASSUME SetFacts, MrTypeOK, NEW m \in Holders, held[m] # None, held' = [held EXCEPT ![m] = None]
  PROVE  \A h \in Nat : /\ HoldersOf(held', h) = HoldersOf(held, h) \ {m}
                /\ Cardinality(HoldersOf(held', h)) = IF h = held[m].handle
                                                  THEN Cardinality(HoldersOf(held, h)) - 1
                                                  ELSE Cardinality(HoldersOf(held, h))
<1> TAKE h \in Nat
<1>1. m \in HoldersOf(held, h) <=> h = held[m].handle  BY Zenon DEF HoldersOf
<1>2. HoldersOf(held', h) = HoldersOf(held, h) \ {m}  BY Zenon DEF HoldersOf, MrTypeOK
<1>3. IsFiniteSet(HoldersOf(held, h))  BY HoldersFinite, Zenon
<1>4. Cardinality(HoldersOf(held, h) \ {m}) =
        IF m \in HoldersOf(held, h) THEN Cardinality(HoldersOf(held, h)) - 1
        ELSE Cardinality(HoldersOf(held, h))
  BY <1>3, OneMoreOrLess, Zenon
<1> QED  BY <1>1, <1>2, <1>4, Zenon

(* What a slot holds. *)
LEMMA SlotFacts ==
  ASSUME MrInv, NEW i \in 1 .. Len(slots)
  PROVE  /\ slots[i] \in Slots /\ slots[i].handle \in Nat /\ slots[i].refs \in Nat
         /\ nextHandle \in Nat /\ slots[i].handle # nextHandle /\ slots[i].handle < nextHandle
<1>1. slots[i] \in Slots  BY Elements, Zenon DEF MrInv, MrTypeOK
<1>2. slots[i].handle \in Nat /\ slots[i].refs \in Nat  BY <1>1, Zenon DEF Slots
<1>3. slots[i].handle < nextHandle /\ nextHandle \in Nat  BY Zenon DEF MrInv, MrTypeOK, Distinct
<1> QED  BY <1>1, <1>2, <1>3

-----------------------------------------------------------------------------
(* One lemma per action *)

LEMMA HitPreserves ==
  ASSUME SetFacts, MrInv, NEW m \in Holders, NEW r \in Ranges, RegMrHits(m, r)
  PROVE  MrInv'
<1> DEFINE k == ScanStop(r)
           x == Handle(r, slots[k].handle)
<1>1. k \in 1 .. Len(slots) /\ Covers(slots[k], r)  BY Scan, Zenon DEF MrInv, RegMrHits
<1>2. /\ held[m] = None /\ held' = [held EXCEPT ![m] = x]
      /\ slots' = [slots EXCEPT ![k].refs = @ + 1]
      /\ UNCHANGED <<registered, rxdmUp, nextHandle>>
  BY Zenon DEF RegMrHits, Hold
<1> HIDE DEF k
<1>3. \A i \in 1 .. Len(slots) : slots[i] \in Slots  BY Elements, Zenon DEF MrInv, MrTypeOK
<1>4. x \in Handles /\ x.handle = slots[k].handle /\ x.start = r.start /\ x.pages = r.pages
  BY <1>1, <1>3, MrAssumption DEF Handle, Handles, Ranges, Slots
<1> HIDE DEF x
<1> DEFINE e == [slots[k] EXCEPT !.refs = @ + 1]
<1>a. /\ e \in Slots /\ e.handle = slots[k].handle /\ e.start = slots[k].start
      /\ e.pages = slots[k].pages /\ e.refs = slots[k].refs + 1
  BY <1>1, <1>3 DEF Slots
<1>b. slots' = [slots EXCEPT ![k] = e]  BY <1>2, Zenon
<1> HIDE DEF e
<1>5. /\ slots' \in Seq(Slots) /\ Len(slots') = Len(slots)
      /\ \A i \in 1 .. Len(slots) : slots'[i] = IF i = k THEN e ELSE slots[i]
  BY <1>1, <1>a, <1>b, ExceptSeq DEF MrInv, MrTypeOK
<1>6. \A i \in 1 .. Len(slots) :
        /\ slots'[i].handle = slots[i].handle /\ slots'[i].start = slots[i].start
        /\ slots'[i].pages = slots[i].pages
        /\ slots'[i].refs = IF i = k THEN slots[i].refs + 1 ELSE slots[i].refs
  BY <1>5, <1>a, Zenon
<1>7. MrTypeOK'  BY <1>2, <1>4, <1>5, Zenon DEF MrInv, MrTypeOK
<1>8. Distinct'  BY <1>2, <1>5, <1>6 DEF MrInv, Distinct
<1>9. HeldCovered'
  <2> SUFFICES ASSUME NEW n \in Holders, held'[n] # None
               PROVE  \E i \in 1 .. Len(slots') :
                        slots'[i].handle = held'[n].handle /\ Covers(slots'[i], held'[n])
    BY Zenon DEF HeldCovered
  <2>1. CASE n = m
    <3>1. held'[n] = x  BY <1>2, <2>1, Zenon DEF MrInv, MrTypeOK
    <3> QED  BY <1>1, <1>4, <1>5, <1>6, <3>1, Zenon DEF Covers
  <2>2. CASE n # m
    <3>1. held'[n] = held[n]  BY <1>2, <2>2, Zenon DEF MrInv, MrTypeOK
    <3>2. PICK i \in 1 .. Len(slots) : slots[i].handle = held[n].handle /\ Covers(slots[i], held[n])
      BY <3>1, Zenon DEF MrInv, HeldCovered
    <3> QED  BY <1>5, <1>6, <3>1, <3>2, Zenon DEF Covers
  <2> QED  BY <2>1, <2>2, Zenon
<1>10. Counted'
  <2> SUFFICES ASSUME NEW i \in 1 .. Len(slots)
               PROVE  slots'[i].refs = Cardinality(HoldersOf(held', slots[i].handle))
    BY <1>5, <1>6, Zenon DEF Counted
  <2>1. Cardinality(HoldersOf(held', slots[i].handle)) =
          IF slots[i].handle = x.handle THEN Cardinality(HoldersOf(held, slots[i].handle)) + 1
                                        ELSE Cardinality(HoldersOf(held, slots[i].handle))
    <3>1. slots[i].handle \in Nat  BY SlotFacts, Zenon
    <3>2. MrTypeOK  BY Zenon DEF MrInv
    <3> QED  BY <1>2, <1>4, <3>1, <3>2, Taken, Zenon
  <2>2. slots[i].handle = x.handle <=> i = k  BY <1>1, <1>4, Zenon DEF MrInv, Distinct
  <2> QED  BY <1>6, <2>1, <2>2, Zenon DEF MrInv, Counted
<1>11. Registered'
  <2>1. \A i \in 1 .. Len(slots) : Handle(slots'[i], slots'[i].handle) = Handle(slots[i], slots[i].handle)
    BY <1>6, Zenon DEF Handle
  <2> QED  BY <1>2, <1>5, <2>1 DEF MrInv, Registered
<1> QED  BY <1>7, <1>8, <1>9, <1>10, <1>11, Zenon DEF MrInv

LEMMA MissPreserves ==
  ASSUME SetFacts, MrInv, NEW m \in Holders, NEW r \in Ranges, RegMrMisses(m, r)
  PROVE  MrInv'
<1> DEFINE k == ScanStop(r)
           x == Handle(r, nextHandle)
           s == [start |-> r.start, pages |-> r.pages, handle |-> nextHandle, refs |-> 1]
<1>1. k \in 1 .. Len(slots) + 1  BY Scan, Zenon DEF MrInv
<1>2. /\ held[m] = None /\ held' = [held EXCEPT ![m] = x]
      /\ slots' = InsertSlot(slots, k, s)
      /\ registered' = registered \union {x}
      /\ nextHandle' = nextHandle + 1 /\ rxdmUp' = rxdmUp /\ rxdmUp
  BY Zenon DEF RegMrMisses, Hold
<1> HIDE DEF k
<1>3. slots \in Seq(Slots) /\ Len(slots) \in Nat /\ \A i \in 1 .. Len(slots) : slots[i] \in Slots
  BY Elements, Zenon DEF MrInv, MrTypeOK
<1>4. x \in Handles /\ x.handle = nextHandle /\ x.start = r.start /\ x.pages = r.pages
  BY MrAssumption DEF Handle, Handles, Ranges, MrInv, MrTypeOK
<1>5. /\ s \in Slots /\ s.handle = nextHandle /\ s.refs = 1 /\ Covers(s, x)
      /\ Handle(s, s.handle) = x
  BY <1>4, MrAssumption DEF Slots, Ranges, MrInv, MrTypeOK, Covers, Handle
<1> HIDE DEF x, s
<1>6. /\ slots' \in Seq(Slots) /\ Len(slots') = Len(slots) + 1
      /\ \A j \in 1 .. Len(slots) + 1 :
           slots'[j] = IF j < k THEN slots[j] ELSE IF j = k THEN s ELSE slots[j - 1]
  <2>1. slots \in Seq(Slots) /\ s \in Slots  BY <1>3, <1>5, Zenon
  <2>2. InsertedAt(slots', slots, k, s, Slots)  BY <1>1, <1>2, <2>1, Inserted, Zenon
  <2> QED  BY <2>2, Zenon DEF InsertedAt
\* Each slot of the new cache is the new one or an old one, and none is lost.
<1>7. \A j \in 1 .. Len(slots') : j # k =>
        \E i \in 1 .. Len(slots) : slots'[j] = slots[i] /\ i = IF j < k THEN j ELSE j - 1
  BY <1>1, <1>3, <1>6, SMTT(20)
<1>8. \A i \in 1 .. Len(slots) : \E j \in 1 .. Len(slots') : slots'[j] = slots[i]
  <2> TAKE i \in 1 .. Len(slots)
  <2> DEFINE j == IF i < k THEN i ELSE i + 1
  <2>1. j \in 1 .. Len(slots') /\ slots'[j] = slots[i]  BY <1>1, <1>3, <1>6
  <2> QED  BY <2>1, Zenon
<1>9. k \in 1 .. Len(slots') /\ slots'[k] = s  BY <1>1, <1>3, <1>6
<1>10. MrTypeOK'  BY <1>2, <1>4, <1>6 DEF MrInv, MrTypeOK
<1>11. Distinct'
  <2>1. \A j \in 1 .. Len(slots') : slots'[j].handle < nextHandle'
    <3> SUFFICES ASSUME NEW j \in 1 .. Len(slots') PROVE slots'[j].handle < nextHandle + 1
      BY <1>2, Zenon
    <3>1. CASE j = k  BY <1>5, <1>9, <3>1 DEF MrInv, MrTypeOK
    <3>2. CASE j # k
      <4>1. PICK i \in 1 .. Len(slots) : slots'[j] = slots[i]  BY <1>7, <3>2, Zenon
      <4>2. slots[i].handle \in Nat /\ slots[i].handle < nextHandle /\ nextHandle \in Nat
        BY SlotFacts, Zenon
      <4> QED  BY <4>1, <4>2
    <3> QED  BY <3>1, <3>2, Zenon
  <2>2. ASSUME NEW i \in 1 .. Len(slots'), NEW j \in 1 .. Len(slots'),
               slots'[i].handle = slots'[j].handle
        PROVE  i = j
    <3>1. i = k <=> j = k
      <4>1. \A l \in 1 .. Len(slots') : l # k => slots'[l].handle # nextHandle
        BY <1>7, SlotFacts, Zenon
      <4> QED  BY <1>5, <1>9, <2>2, <4>1, Zenon
    <3>2. CASE i # k /\ j # k
      <4>1. PICK p \in 1 .. Len(slots) : slots'[i] = slots[p] /\ p = IF i < k THEN i ELSE i - 1
        BY <1>7, <3>2, Zenon
      <4>2. PICK q \in 1 .. Len(slots) : slots'[j] = slots[q] /\ q = IF j < k THEN j ELSE j - 1
        BY <1>7, <3>2, Zenon
      <4>3. p = q  BY <2>2, <4>1, <4>2, Zenon DEF MrInv, Distinct
      <4>4. k \in Int /\ i \in Int /\ j \in Int  BY <1>1, <1>3, <1>6
      <4> QED  BY <3>2, <4>1, <4>2, <4>3, <4>4
    <3> QED  BY <3>1, <3>2, Zenon
  <2> QED  BY <2>1, <2>2, Zenon DEF Distinct
<1>12. HeldCovered'
  <2> SUFFICES ASSUME NEW n \in Holders, held'[n] # None
               PROVE  \E i \in 1 .. Len(slots') :
                        slots'[i].handle = held'[n].handle /\ Covers(slots'[i], held'[n])
    BY Zenon DEF HeldCovered
  <2>1. CASE n = m
    <3>1. held'[n] = x  BY <1>2, <2>1, Zenon DEF MrInv, MrTypeOK
    <3> QED  BY <1>4, <1>5, <1>9, <3>1, Zenon
  <2>2. CASE n # m
    <3>1. held'[n] = held[n]  BY <1>2, <2>2, Zenon DEF MrInv, MrTypeOK
    <3>2. PICK i \in 1 .. Len(slots) : slots[i].handle = held[n].handle /\ Covers(slots[i], held[n])
      BY <3>1, Zenon DEF MrInv, HeldCovered
    <3> QED  BY <1>8, <3>1, <3>2, Zenon
  <2> QED  BY <2>1, <2>2, Zenon
<1>13. Counted'
  <2>1. HoldersOf(held, nextHandle) = {}
    <3>1. \A n \in Holders : held[n] # None => held[n].handle # nextHandle
      BY SlotFacts, Zenon DEF MrInv, HeldCovered
    <3> QED  BY <3>1, Zenon DEF HoldersOf
  <2>2. \A h \in Nat : Cardinality(HoldersOf(held', h)) = IF h = nextHandle THEN Cardinality(HoldersOf(held, h)) + 1
                                                             ELSE Cardinality(HoldersOf(held, h))
    BY <1>2, <1>4, Taken, Zenon DEF MrInv
  <2>3. slots'[k].refs = Cardinality(HoldersOf(held', slots'[k].handle))
    <3>1. Cardinality(HoldersOf(held, nextHandle)) = 0  BY <2>1, EmptySet, Zenon
    <3>2. nextHandle \in Nat  BY Zenon DEF MrInv, MrTypeOK
    <3>3. Cardinality(HoldersOf(held', nextHandle)) = 1  BY <2>2, <3>1, <3>2
    <3> QED  BY <1>5, <1>9, <3>3, Zenon
  <2>4. ASSUME NEW j \in 1 .. Len(slots'), j # k
        PROVE  slots'[j].refs = Cardinality(HoldersOf(held', slots'[j].handle))
    <3>1. PICK i \in 1 .. Len(slots) : slots'[j] = slots[i]  BY <1>7, <2>4, Zenon
    <3>2. slots[i].handle # nextHandle /\ slots[i].handle \in Nat  BY SlotFacts, Zenon
    <3>3. Cardinality(HoldersOf(held', slots[i].handle)) = Cardinality(HoldersOf(held, slots[i].handle))
      BY <2>2, <3>2, Zenon
    <3>4. slots[i].refs = Cardinality(HoldersOf(held, slots[i].handle))  BY Zenon DEF MrInv, Counted
    <3> QED  BY <3>1, <3>3, <3>4
  <2>5. \A j \in 1 .. Len(slots') : slots'[j].refs = Cardinality(HoldersOf(held', slots'[j].handle))
    BY <2>3, <2>4, Zenon
  <2> QED  BY <2>5, Zenon DEF Counted
<1>14. Registered'
  <2>1. registered = {Handle(slots[i], slots[i].handle) : i \in 1 .. Len(slots)}
    BY <1>2, Zenon DEF MrInv, Registered
  <2>2. {Handle(slots'[i], slots'[i].handle) : i \in 1 .. Len(slots')} = registered \union {x}
    BY <1>5, <1>7, <1>8, <1>9, <2>1
  <2> QED  BY <1>2, <2>2, Zenon DEF Registered
<1> QED  BY <1>10, <1>11, <1>12, <1>13, <1>14, Zenon DEF MrInv

LEMMA FailPreserves ==
  ASSUME MrInv, NEW r \in Ranges, RegMrFails(r)
  PROVE  MrInv'
<1> QED
  BY ZenonT(40) DEF RegMrFails, MrInv, MrTypeOK, Distinct, HeldCovered, Counted, Registered, HoldersOf

(* A reference that is not the last. *)
LEMMA DropPreserves ==
  ASSUME SetFacts, MrInv, NEW m \in Holders, held[m] # None, held' = [held EXCEPT ![m] = None],
         NEW k \in 1 .. Len(slots), slots[k].handle = held[m].handle,
         NEW e \in Slots, e.handle = slots[k].handle, e.start = slots[k].start,
         e.pages = slots[k].pages, e.refs = slots[k].refs - 1,
         slots' = [slots EXCEPT ![k] = e], UNCHANGED <<registered, rxdmUp, nextHandle>>
  PROVE  MrInv'
<1>3. /\ slots' \in Seq(Slots) /\ Len(slots') = Len(slots)
      /\ \A i \in 1 .. Len(slots) : slots'[i] = IF i = k THEN e ELSE slots[i]
  BY ExceptSeq DEF MrInv, MrTypeOK
<1>4. \A i \in 1 .. Len(slots) :
        /\ slots'[i].handle = slots[i].handle /\ slots'[i].start = slots[i].start
        /\ slots'[i].pages = slots[i].pages
        /\ slots'[i].refs = IF i = k THEN slots[i].refs - 1 ELSE slots[i].refs
  BY <1>3
<1>5. MrTypeOK'  BY <1>3, Zenon DEF MrInv, MrTypeOK
<1>6. Distinct'  BY <1>3, <1>4 DEF MrInv, Distinct
<1>7. HeldCovered'
  <2> SUFFICES ASSUME NEW n \in Holders, held'[n] # None
               PROVE  \E i \in 1 .. Len(slots') :
                        slots'[i].handle = held'[n].handle /\ Covers(slots'[i], held'[n])
    BY Zenon DEF HeldCovered
  <2>1. held'[n] = held[n]  BY Zenon DEF MrInv, MrTypeOK
  <2>2. PICK i \in 1 .. Len(slots) : slots[i].handle = held[n].handle /\ Covers(slots[i], held[n])
    BY <2>1, Zenon DEF MrInv, HeldCovered
  <2> QED  BY <1>3, <1>4, <2>1, <2>2, Zenon DEF Covers
<1>8. Counted'
  <2> SUFFICES ASSUME NEW i \in 1 .. Len(slots)
               PROVE  slots'[i].refs = Cardinality(HoldersOf(held', slots[i].handle))
    BY <1>3, <1>4, Zenon DEF Counted
  <2>1. slots[i].handle \in Nat /\ MrTypeOK  BY SlotFacts, Zenon DEF MrInv
  <2>2. Cardinality(HoldersOf(held', slots[i].handle)) =
          IF slots[i].handle = held[m].handle THEN Cardinality(HoldersOf(held, slots[i].handle)) - 1
                                              ELSE Cardinality(HoldersOf(held, slots[i].handle))
    BY <2>1, GivenBack, Zenon
  <2>3. slots[i].handle = held[m].handle <=> i = k  BY Zenon DEF MrInv, Distinct
  <2> QED  BY <1>4, <2>2, <2>3, Zenon DEF MrInv, Counted
<1>9. Registered'
  <2>1. \A i \in 1 .. Len(slots) : Handle(slots'[i], slots'[i].handle) = Handle(slots[i], slots[i].handle)
    BY <1>4, Zenon DEF Handle
  <2> QED  BY <1>3, <2>1 DEF MrInv, Registered
<1> QED  BY <1>5, <1>6, <1>7, <1>8, <1>9, Zenon DEF MrInv

(* The last reference: nobody else holds the handle, so the slot may go. *)
LEMMA RemovePreserves ==
  ASSUME SetFacts, MrInv, NEW m \in Holders, held[m] # None, held' = [held EXCEPT ![m] = None],
         NEW k \in 1 .. Len(slots), slots[k].handle = held[m].handle, slots[k].refs <= 1,
         slots' = RemoveSlot(slots, k), NEW ok \in BOOLEAN, DeregBuf(held[m].handle, ok),
         nextHandle' = nextHandle
  PROVE  MrInv'
<1>1. slots \in Seq(Slots) /\ Len(slots) \in Nat  BY Elements, Zenon DEF MrInv, MrTypeOK
<1>2. /\ slots' \in Seq(Slots) /\ Len(slots') = Len(slots) - 1
      /\ \A j \in 1 .. Len(slots) - 1 : slots'[j] = IF j < k THEN slots[j] ELSE slots[j + 1]
  BY <1>1, Removed, Zenon
\* Each slot left is an old one other than k, and all of those are left.
<1>3. \A j \in 1 .. Len(slots') :
        \E i \in 1 .. Len(slots) : i # k /\ slots'[j] = slots[i] /\ i = IF j < k THEN j ELSE j + 1
  BY <1>1, <1>2
<1>4. \A i \in 1 .. Len(slots) : i # k => \E j \in 1 .. Len(slots') : slots'[j] = slots[i]
  <2> TAKE i \in 1 .. Len(slots)
  <2> HAVE i # k
  <2> DEFINE j == IF i < k THEN i ELSE i - 1
  <2>1. j \in 1 .. Len(slots') /\ slots'[j] = slots[i]  BY <1>1, <1>2
  <2> QED  BY <2>1, Zenon
<1>5. /\ slots[k].handle \in Nat /\ slots[k].refs \in Nat /\ MrTypeOK
      /\ slots[k].refs = Cardinality(HoldersOf(held, slots[k].handle))
  BY SlotFacts, Zenon DEF MrInv, Counted
<1>6. HoldersOf(held', slots[k].handle) = {}
  <2>1. /\ HoldersOf(held', slots[k].handle) = HoldersOf(held, slots[k].handle) \ {m}
        /\ Cardinality(HoldersOf(held', slots[k].handle)) = slots[k].refs - 1
    <3>1. /\ HoldersOf(held', slots[k].handle) = HoldersOf(held, slots[k].handle) \ {m}
          /\ Cardinality(HoldersOf(held', slots[k].handle)) =
               IF slots[k].handle = held[m].handle
                 THEN Cardinality(HoldersOf(held, slots[k].handle)) - 1
                 ELSE Cardinality(HoldersOf(held, slots[k].handle))
      BY <1>5, GivenBack, Zenon
    <3> QED  BY <1>5, <3>1, Zenon
  <2>2. IsFiniteSet(HoldersOf(held, slots[k].handle))  BY <1>5, HoldersFinite, Zenon
  <2>3. IsFiniteSet(HoldersOf(held', slots[k].handle))  BY <2>1, <2>2, FiniteSubset, Zenon
  <2>4. Cardinality(HoldersOf(held', slots[k].handle)) \in Nat  BY <2>3, CardinalityType, Zenon
  <2>5. Cardinality(HoldersOf(held', slots[k].handle)) = 0  BY <1>5, <2>1, <2>4
  <2> QED  BY <2>3, <2>5, CardinalityType, Zenon
<1>7. \A i \in 1 .. Len(slots) : slots[i].handle = slots[k].handle <=> i = k
  BY Zenon DEF MrInv, Distinct
<1>8. MrTypeOK'
  <2>1. registered' \subseteq Handles /\ rxdmUp' \in BOOLEAN
    BY <1>5, Zenon DEF DeregBuf, MrTypeOK
  <2> QED  BY <1>2, <1>5, <2>1, Zenon DEF MrTypeOK
<1>9. Distinct'
  <2>1. \A j \in 1 .. Len(slots') : slots'[j].handle < nextHandle'
    BY <1>3, SlotFacts, Zenon
  <2>2. ASSUME NEW i \in 1 .. Len(slots'), NEW j \in 1 .. Len(slots'),
               slots'[i].handle = slots'[j].handle
        PROVE  i = j
    <3>1. PICK p \in 1 .. Len(slots) : slots'[i] = slots[p] /\ p = IF i < k THEN i ELSE i + 1
      BY <1>3, Zenon
    <3>2. PICK q \in 1 .. Len(slots) : slots'[j] = slots[q] /\ q = IF j < k THEN j ELSE j + 1
      BY <1>3, Zenon
    <3>3. p = q  BY <2>2, <3>1, <3>2 DEF MrInv, Distinct
    <3>4. i \in Int /\ j \in Int /\ k \in Int  BY <1>1, <1>2
    <3> QED  BY <3>1, <3>2, <3>3, <3>4
  <2> QED  BY <2>1, <2>2, Zenon DEF Distinct
<1>10. HeldCovered'
  <2> SUFFICES ASSUME NEW n \in Holders, held'[n] # None
               PROVE  \E i \in 1 .. Len(slots') :
                        slots'[i].handle = held'[n].handle /\ Covers(slots'[i], held'[n])
    BY Zenon DEF HeldCovered
  <2>1. held'[n] = held[n]  BY <1>5, Zenon DEF MrTypeOK
  <2>2. PICK i \in 1 .. Len(slots) : slots[i].handle = held[n].handle /\ Covers(slots[i], held[n])
    BY <2>1, Zenon DEF MrInv, HeldCovered
  <2>3. i # k  BY <1>6, <2>1, <2>2, Zenon DEF HoldersOf
  <2> QED  BY <1>4, <2>1, <2>2, <2>3
<1>11. Counted'
  <2> SUFFICES ASSUME NEW j \in 1 .. Len(slots')
               PROVE  slots'[j].refs = Cardinality(HoldersOf(held', slots'[j].handle))
    BY Zenon DEF Counted
  <2>1. PICK i \in 1 .. Len(slots) : i # k /\ slots'[j] = slots[i]  BY <1>3, Zenon
  <2>2. slots[i].handle \in Nat /\ slots[i].handle # held[m].handle  BY <1>7, <2>1, SlotFacts, Zenon
  <2>3. Cardinality(HoldersOf(held', slots[i].handle)) = Cardinality(HoldersOf(held, slots[i].handle))
    BY <1>5, <2>2, GivenBack, Zenon
  <2> QED  BY <2>1, <2>3, Zenon DEF MrInv, Counted
<1>12. Registered'
  <2> SUFFICES ASSUME rxdmUp'
               PROVE  registered' = {Handle(slots'[i], slots'[i].handle) : i \in 1 .. Len(slots')}
    BY Zenon DEF Registered
  <2>1. /\ registered' = {x \in registered : x.handle # slots[k].handle}
        /\ registered = {Handle(slots[i], slots[i].handle) : i \in 1 .. Len(slots)}
    BY Zenon DEF DeregBuf, MrInv, Registered
  <2>2. \A i \in 1 .. Len(slots) : Handle(slots[i], slots[i].handle).handle = slots[i].handle
    BY Zenon DEF Handle
  <2>3. registered' = {Handle(slots[i], slots[i].handle) : i \in (1 .. Len(slots)) \ {k}}
    BY <1>7, <2>1, <2>2
  <2>4. \A j \in 1 .. Len(slots') : Handle(slots'[j], slots'[j].handle) \in registered'
    <3> TAKE j \in 1 .. Len(slots')
    <3>1. PICK i \in 1 .. Len(slots) : i # k /\ slots'[j] = slots[i]  BY <1>3, Zenon
    <3> QED  BY <2>3, <3>1, Zenon
  <2>5. ASSUME NEW x \in registered'
        PROVE  \E j \in 1 .. Len(slots') : x = Handle(slots'[j], slots'[j].handle)
    <3>1. PICK i \in (1 .. Len(slots)) \ {k} : x = Handle(slots[i], slots[i].handle)  BY <2>3, Zenon
    <3>2. PICK j \in 1 .. Len(slots') : slots'[j] = slots[i]  BY <1>4, Zenon
    <3> QED  BY <3>1, <3>2, Zenon
  <2> QED  BY <2>4, <2>5, Zenon
<1> QED  BY <1>8, <1>9, <1>10, <1>11, <1>12, Zenon DEF MrInv

LEMMA DeregPreserves ==
  ASSUME SetFacts, MrInv, NEW m \in Holders, NEW ok \in BOOLEAN, DeregMr(m, ok)
  PROVE  MrInv'
<1>1. PICK k \in 1 .. Len(slots) :
        /\ slots[k].handle = held[m].handle
        /\ \/ /\ slots[k].refs > 1
              /\ slots' = [slots EXCEPT ![k].refs = @ - 1]
              /\ UNCHANGED <<registered, rxdmUp>>
           \/ /\ slots[k].refs <= 1
              /\ slots' = RemoveSlot(slots, k) /\ DeregBuf(held[m].handle, ok)
  BY Zenon DEF DeregMr
<1>2. /\ held[m] # None /\ held' = [held EXCEPT ![m] = None] /\ nextHandle' = nextHandle
  BY Zenon DEF DeregMr
<1>3. CASE slots[k].refs > 1 /\ slots' = [slots EXCEPT ![k].refs = @ - 1] /\ UNCHANGED <<registered, rxdmUp>>
  <2> DEFINE e == [slots[k] EXCEPT !.refs = @ - 1]
  <2>1. /\ e \in Slots /\ e.handle = slots[k].handle /\ e.start = slots[k].start
        /\ e.pages = slots[k].pages /\ e.refs = slots[k].refs - 1
    BY <1>3, SlotFacts, SMTT(20) DEF Slots
  <2>2. slots' = [slots EXCEPT ![k] = e]  BY <1>3, Zenon
  <2> HIDE DEF e
  <2> QED  BY <1>1, <1>2, <1>3, <2>1, <2>2, DropPreserves, Zenon
<1>4. CASE slots[k].refs <= 1 /\ slots' = RemoveSlot(slots, k) /\ DeregBuf(held[m].handle, ok)
  BY <1>1, <1>2, <1>4, RemovePreserves, Zenon
<1> QED  BY <1>1, <1>3, <1>4, Zenon

-----------------------------------------------------------------------------
(* What the invariant says *)

LEMMA UsableFromInv == MrInv => MrUsable
<1> SUFFICES ASSUME MrInv, rxdmUp, NEW m \in Holders, held[m] # None
             PROVE  \E x \in registered :
                      /\ x.handle = held[m].handle /\ x.start <= held[m].start
                      /\ held[m].start + held[m].pages <= x.start + x.pages
  BY Zenon DEF MrUsable
<1>1. PICK i \in 1 .. Len(slots) : slots[i].handle = held[m].handle /\ Covers(slots[i], held[m])
  BY Zenon DEF MrInv, HeldCovered
<1>2. held[m] \in Handles  BY Zenon DEF MrInv, MrTypeOK
<1>3. slots[i] \in Slots  BY SlotFacts, Zenon
<1>4. /\ slots[i].start <= held[m].start
      /\ held[m].start + held[m].pages <= slots[i].start + slots[i].pages
  BY <1>1, <1>2, <1>3, SMTT(20) DEF Covers, Handles, Slots
<1>5. Handle(slots[i], slots[i].handle) \in registered  BY Zenon DEF MrInv, Registered
<1>6. /\ Handle(slots[i], slots[i].handle).handle = slots[i].handle
      /\ Handle(slots[i], slots[i].handle).start = slots[i].start
      /\ Handle(slots[i], slots[i].handle).pages = slots[i].pages
  BY Zenon DEF Handle
<1> QED  BY <1>1, <1>4, <1>5, <1>6

LEMMA AccountedFromInv == MrInv /\ Fits => MrAccounted
<1> SUFFICES ASSUME MrInv, Fits PROVE MrAccounted  BY Zenon
<1>1. ASSUME rxdmUp
      PROVE  {x.handle : x \in registered} = {slots[i].handle : i \in 1 .. Len(slots)}
  <2>1. registered = {Handle(slots[i], slots[i].handle) : i \in 1 .. Len(slots)}
    BY <1>1, Zenon DEF MrInv, Registered
  <2>2. \A i \in 1 .. Len(slots) : Handle(slots[i], slots[i].handle).handle = slots[i].handle
    BY Zenon DEF Handle
  <2> QED  BY <2>1, <2>2
<1> QED  BY <1>1, Zenon DEF MrAccounted, MrInv, Counted, HeldCovered, Fits

-----------------------------------------------------------------------------
(* The array *)

LEMMA GrownFits ==
  ASSUME MrInv, Fits
  PROVE  Grown \in Nat /\ Len(slots) + 1 <= Grown
<1>1. Len(slots) \in Nat  BY Elements, Zenon DEF MrInv, MrTypeOK
<1> QED  BY <1>1, MrAssumption DEF Grown, Fits

(* A call that does not lose the array keeps the slots inside it. *)
LEMMA FitsPreserved ==
  ASSUME SetFacts, MrInv, Fits
  PROVE  /\ \A m \in Holders, r \in Ranges : RegMrHits(m, r) \/ RegMrMisses(m, r) => Fits'
         /\ \A r \in Ranges : RegMrFails(r) => Fits'
         /\ \A m \in Holders, ok \in BOOLEAN : DeregMr(m, ok) => Fits'
<1>0. slots \in Seq(Slots) /\ Len(slots) \in Nat  BY Elements, Zenon DEF MrInv, MrTypeOK
<1>1. ASSUME NEW m \in Holders, NEW r \in Ranges, RegMrHits(m, r) PROVE Fits'
  <2> DEFINE k == ScanStop(r)
             e == [slots[k] EXCEPT !.refs = @ + 1]
  <2>1. k \in 1 .. Len(slots)  BY <1>1, Scan, Zenon DEF RegMrHits, MrInv
  <2>2. slots' = [slots EXCEPT ![k] = e] /\ capacity' = capacity  BY <1>1, Zenon DEF RegMrHits
  <2>3. e \in Slots  BY <2>1, SlotFacts DEF Slots
  <2> HIDE DEF e, k
  <2>4. Len(slots') = Len(slots)  BY <1>0, <2>1, <2>2, <2>3, ExceptSeq, SMTT(20)
  <2> QED  BY <2>2, <2>4, Zenon DEF Fits
<1>2. ASSUME NEW m \in Holders, NEW r \in Ranges, RegMrMisses(m, r) PROVE Fits'
  <2> DEFINE k == ScanStop(r)
             e == [start |-> r.start, pages |-> r.pages, handle |-> nextHandle, refs |-> 1]
  <2>1. k \in 1 .. Len(slots) + 1  BY Scan, Zenon DEF MrInv
  <2>2. slots' = InsertSlot(slots, k, e) /\ capacity' = Grown  BY <1>2, Zenon DEF RegMrMisses
  <2>3. e \in Slots  BY MrAssumption DEF Slots, Ranges, MrInv, MrTypeOK
  <2> HIDE DEF e, k
  <2>4. Len(slots') = Len(slots) + 1
    <3>1. InsertedAt(slots', slots, k, e, Slots)  BY <1>0, <2>1, <2>2, <2>3, Inserted, Zenon
    <3> QED  BY <3>1, Zenon DEF InsertedAt
  <2> QED  BY <2>2, <2>4, GrownFits, Zenon DEF Fits
<1>3. ASSUME NEW r \in Ranges, RegMrFails(r) PROVE Fits'
  <2>1. slots' = slots /\ capacity' = Grown  BY <1>3, Zenon DEF RegMrFails
  <2>2. Grown \in Nat /\ Len(slots) + 1 <= Grown  BY GrownFits, Zenon
  <2>3. Len(slots) <= Grown  BY <1>0, <2>2
  <2> QED  BY <2>1, <2>2, <2>3, Zenon DEF Fits
<1>4. ASSUME NEW m \in Holders, NEW ok \in BOOLEAN, DeregMr(m, ok) PROVE Fits'
  <2>1. PICK k \in 1 .. Len(slots) :
          \/ slots' = [slots EXCEPT ![k].refs = @ - 1] /\ slots[k].refs > 1 /\ capacity' = capacity
          \/ slots' = RemoveSlot(slots, k) /\ capacity' = IF Len(slots) = 1 THEN 0 ELSE capacity
    BY <1>4, Zenon DEF DeregMr
  <2>2. CASE slots' = [slots EXCEPT ![k].refs = @ - 1] /\ slots[k].refs > 1 /\ capacity' = capacity
    <3> DEFINE e == [slots[k] EXCEPT !.refs = @ - 1]
    <3>1. e \in Slots  BY <2>2, SlotFacts, SMTT(20) DEF Slots
    <3>2. slots' = [slots EXCEPT ![k] = e]  BY <2>2, Zenon
    <3> HIDE DEF e
    <3>3. Len(slots') = Len(slots)  BY <1>0, <3>1, <3>2, ExceptSeq, SMTT(20)
    <3> QED  BY <2>2, <3>3, Zenon DEF Fits
  <2>3. CASE slots' = RemoveSlot(slots, k) /\ capacity' = IF Len(slots) = 1 THEN 0 ELSE capacity
    <3>1. Len(slots') = Len(slots) - 1  BY <1>0, <2>3, Removed, Zenon
    <3> QED  BY <1>0, <2>3, <3>1 DEF Fits
  <2> QED  BY <2>1, <2>2, <2>3, Zenon
<1> QED  BY <1>1, <1>2, <1>3, <1>4, Zenon

-----------------------------------------------------------------------------
(* All steps *)

LEMMA MrSteps ==
  ASSUME SetFacts, MemoryInv, MrNext
  PROVE  MemoryInv'
<1>1. ~lost /\ MrInv /\ Fits
  <2>1. ~lost  BY Zenon DEF MrNext, RegMrHits, RegMrMisses, RegMrFails, GrowFails, DeregMr
  <2> QED  BY <2>1, Zenon DEF MemoryInv
<1>2. ASSUME MrInv', Fits', lost' = lost PROVE MemoryInv'
  BY <1>1, <1>2, Zenon DEF MemoryInv
<1>3. ASSUME NEW r \in Ranges, NEW m \in Holders, RegMrHits(m, r) PROVE MemoryInv'
  <2>1. MrInv' /\ Fits'  BY <1>1, <1>3, HitPreserves, FitsPreserved, Zenon
  <2>2. lost' = lost  BY <1>3, Zenon DEF RegMrHits
  <2> QED  BY <1>2, <2>1, <2>2, Zenon
<1>4. ASSUME NEW r \in Ranges, NEW m \in Holders, RegMrMisses(m, r) PROVE MemoryInv'
  <2>1. MrInv' /\ Fits'  BY <1>1, <1>4, MissPreserves, FitsPreserved, Zenon
  <2>2. lost' = lost  BY <1>4, Zenon DEF RegMrMisses
  <2> QED  BY <1>2, <2>1, <2>2, Zenon
<1>5. ASSUME NEW r \in Ranges, RegMrFails(r) PROVE MemoryInv'
  <2>1. MrInv' /\ Fits'  BY <1>1, <1>5, FailPreserves, FitsPreserved, Zenon
  <2>2. lost' = lost  BY <1>5, Zenon DEF RegMrFails
  <2> QED  BY <1>2, <2>1, <2>2, Zenon
<1>6. ASSUME NEW r \in Ranges, GrowFails(r) PROVE MemoryInv'
  <2>1. lost' = TRUE /\ held' = held /\ registered' = registered /\ rxdmUp' = rxdmUp /\ nextHandle' = nextHandle
    BY <1>6, Zenon DEF GrowFails
  <2>2. MrUsable  BY <1>1, UsableFromInv, Zenon
  <2>3. MrUsable'  BY <2>1, <2>2, Zenon DEF MrUsable
  <2>4. nextHandle \in Nat  BY <1>1, Zenon DEF MrInv, MrTypeOK
  <2> QED  BY <2>1, <2>3, <2>4, Zenon DEF MemoryInv
<1>7. ASSUME NEW m \in Holders, NEW ok \in BOOLEAN, DeregMr(m, ok) PROVE MemoryInv'
  <2>1. MrInv' /\ Fits'  BY <1>1, <1>7, DeregPreserves, FitsPreserved, Zenon
  <2>2. lost' = lost  BY <1>7, Zenon DEF DeregMr
  <2> QED  BY <1>2, <2>1, <2>2, Zenon
<1> QED  BY <1>3, <1>4, <1>5, <1>6, <1>7, Zenon DEF MrNext

LEMMA MemoryStutters == ASSUME MemoryInv, UNCHANGED mrVars PROVE MemoryInv'
<1>1. CASE ~lost
  <2>1. MrInv'  BY <1>1, MrStutters, Zenon DEF MemoryInv
  <2> QED  BY <1>1, <2>1, Zenon DEF MemoryInv, mrVars, Fits
<1>2. CASE lost  BY <1>2, Zenon DEF MemoryInv, mrVars, MrUsable
<1> QED  BY <1>1, <1>2, Zenon DEF MemoryInv

(* The memory of the process: only UseMemory and the exit touch it. *)
LEMMA MemorySteps ==
  ASSUME SetFacts
  PROVE  MemoryInv /\ [Next]_vars => MemoryInv'
<1> SUFFICES ASSUME MemoryInv, [Next]_vars PROVE MemoryInv'  BY Zenon
<1>1. CASE UNCHANGED mrVars  BY <1>1, MemoryStutters, Zenon
<1>2. CASE MrNext  BY <1>2, MrSteps, Zenon
<1>3. CASE Cleanup
  <2>1. /\ slots' = <<>> /\ held' = [m \in Holders |-> None] /\ registered' = {} /\ rxdmUp' = FALSE
        /\ nextHandle' = nextHandle /\ capacity' = 0 /\ lost' = FALSE
    BY <1>3, Zenon DEF Cleanup
  <2>2. Len(slots') = 0 /\ slots' \in Seq(Slots)  BY <2>1
  <2>3. MrTypeOK'
    <3>1. nextHandle \in Nat  BY Zenon DEF MemoryInv, MrInv, MrTypeOK
    <3> QED  BY <2>1, <2>2, <3>1, Zenon DEF MrTypeOK
  <2>4. \A m \in Holders : held'[m] = None  BY <2>1, Zenon
  <2>5. Distinct' /\ Counted'  BY <2>2, SMTT(30) DEF Distinct, Counted
  <2>6. HeldCovered'  BY <2>4, Zenon DEF HeldCovered
  <2>7. Registered'  BY <2>1, Zenon DEF Registered
  <2>8. Fits'  BY <2>1, <2>2 DEF Fits
  <2> QED  BY <2>1, <2>3, <2>5, <2>6, <2>7, <2>8, Zenon DEF MemoryInv, MrInv
<1>4. ASSUME NEW t \in Threads, Progress(t) PROVE UNCHANGED mrVars
  BY <1>4, Zenon DEF Progress, CallOnce, WaitForRxDM, InitializeNetIfs, InitShim, ShimFails, PublishShim,
              ShimInitialized, GetClient, MakeBufferManagerClient, MakeDxsClient
<1>5. ASSUME NEW t \in Threads, NEW g \in Gpus, CallInit(t, g) PROVE UNCHANGED mrVars
  BY <1>5, Zenon DEF CallInit
<1>6. ASSUME NEW t \in Threads, NEW g \in Gpus, NEW n \in Nics, CallConnect(t, g, n)
      PROVE  UNCHANGED mrVars
  BY <1>6, Zenon DEF CallConnect
<1>7. ASSUME NEW t \in Threads, Close(t) PROVE UNCHANGED mrVars  BY <1>7, Zenon DEF Close
<1>8. ASSUME NEW t \in Threads, UseMemory(t) PROVE MrNext \/ UNCHANGED mrVars  BY <1>8, Zenon DEF UseMemory
<1>9. CASE UNCHANGED vars  BY <1>1, <1>9, Zenon DEF vars
<1> QED  BY <1>1, <1>2, <1>3, <1>4, <1>5, <1>6, <1>7, <1>8, <1>9 DEF Next

-----------------------------------------------------------------------------
(* What SetFacts says, from the theorems of the library. *)
Sets == INSTANCE FiniteSetTheorems
Orders == INSTANCE WellFoundedInduction

LEMMA SameSets == \A S : /\ IsFiniteSet(S) <=> Sets!IsFiniteSet(S)
                         /\ Cardinality(S) = Sets!Cardinality(S)
<1>1. \A S : IsFiniteSet(S) <=> Sets!IsFiniteSet(S)  BY SMTT(60) DEF IsFiniteSet, Sets!IsFiniteSet
<1>2. \A S : Cardinality(S) = Sets!Cardinality(S)  BY SMTT(60) DEF Cardinality, Sets!Cardinality
<1> QED  BY <1>1, <1>2, ZenonT(40)

LEMMA SetFactsHold == SetFacts
<1>1. IsFiniteSet({})  BY SameSets, Sets!FS_EmptySet, SMTT(60)
<1>2. SubsetFact  BY SameSets, Sets!FS_Subset, SMTT(60) DEF SubsetFact
<1>3. SizeFact
  <2> SUFFICES ASSUME NEW S, IsFiniteSet(S)
               PROVE  Cardinality(S) \in Nat /\ (Cardinality(S) = 0 <=> S = {})
    BY DEF SizeFact
  <2>1. Sets!IsFiniteSet(S) /\ Cardinality(S) = Sets!Cardinality(S)  BY SameSets, ZenonT(40)
  <2> QED  BY <2>1, Sets!FS_CardinalityType, Sets!FS_EmptySet, SMTT(60)
<1>4. ChangeFact
  <2> SUFFICES ASSUME NEW S, NEW x, IsFiniteSet(S)
               PROVE  /\ Cardinality(S \union {x}) = IF x \in S THEN Cardinality(S) ELSE Cardinality(S) + 1
                      /\ Cardinality(S \ {x}) = IF x \in S THEN Cardinality(S) - 1 ELSE Cardinality(S)
    BY DEF ChangeFact
  <2>1. /\ Sets!IsFiniteSet(S) /\ Cardinality(S) = Sets!Cardinality(S)
        /\ Cardinality(S \union {x}) = Sets!Cardinality(S \union {x})
        /\ Cardinality(S \ {x}) = Sets!Cardinality(S \ {x})
    BY SameSets, ZenonT(40)
  <2> QED  BY <2>1, Sets!FS_AddElement, Sets!FS_RemoveElement, SMTT(60)
<1>5. LeastFact
  <2> SUFFICES ASSUME NEW T, T \subseteq Nat, T # {}  PROVE \E x \in T : \A y \in T : x <= y
    BY ZenonT(40) DEF LeastFact
  <2>1. Orders!IsWellFoundedOn(Orders!OpToRel(<, Nat), Nat)  BY Orders!NatLessThanWellFounded, ZenonT(40)
  <2>2. PICK x \in T : \A y \in T : ~(<<y, x>> \in Orders!OpToRel(<, Nat))
    BY <2>1, Orders!WFMin, ZenonT(40)
  <2>3. \A y \in T : ~(y < x)  BY <2>2, ZenonT(40) DEF Orders!OpToRel
  <2> QED  BY <2>3
<1> QED  BY <1>1, <1>2, <1>3, <1>4, <1>5, ZenonT(40) DEF SetFacts

LEMMA MemoryInvariant == Spec => []MemoryInv
<1>1. Init => MemoryInv
  <2> SUFFICES ASSUME Init PROVE MemoryInv  BY ZenonT(40)
  <2>1. MrInit  BY ZenonT(40) DEF Init
  <2>2. MrInv  BY <2>1, MrInitially, ZenonT(40)
  <2>3. Fits  BY <2>1 DEF MrInit, Fits
  <2>4. lost = FALSE  BY <2>1, ZenonT(40) DEF MrInit
  <2> QED  BY <2>2, <2>3, <2>4, ZenonT(40) DEF MemoryInv
<1>2. MemoryInv /\ [Next]_vars => MemoryInv'  BY SetFactsHold, MemorySteps, SMTT(60)
<1> QED  BY <1>1, <1>2, PTL DEF Spec

(* NcclShim::RegMrDmaBuf and DeregMr: until a request to RxDM fails, every
   handle NCCL holds is registered and covers the memory NCCL asked for. *)
THEOREM RegistrationsUsable == Spec => []MrUsable
<1>1. MemoryInv => MrUsable  BY UsableFromInv, ZenonT(40) DEF MemoryInv
<1> QED  BY <1>1, MemoryInvariant, PTL

(* NcclShim::RegMrDmaBuf and DeregMr: as long as the cache has its array, a slot
   counts exactly the handles NCCL holds on it, RxDM has exactly the slots'
   buffers registered, and the slots fit the array. *)
THEOREM RegistrationsAccounted == Spec => []MrAccounted
<1>1. MemoryInv => MrAccounted
  <2>1. lost => MrAccounted  BY ZenonT(40) DEF MrAccounted
  <2> QED  BY <2>1, AccountedFromInv, ZenonT(40) DEF MemoryInv
<1> QED  BY <1>1, MemoryInvariant, PTL
=============================================================================
