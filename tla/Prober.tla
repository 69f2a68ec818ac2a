------------------------------- MODULE Prober ------------------------------
(***************************************************************************)
(* tcpxo_prober: two agents, each with one GPU NIC, that probe each other. *)
(* A controller tells an agent to start or stop its pings; the agent then  *)
(* sets up and tears down connections by RPCs to the other agent, which    *)
(* may be doing the same in the other direction, or shutting down.  A ping *)
(* thread and a pong thread of each agent use the connections meanwhile.   *)
(*                                                                         *)
(* mu_ping_connections_ is held across a whole setup or teardown, RPCs and *)
(* waits for DXS included, and mu_pong_connections_ across the setup of    *)
(* the pong side and the teardown of the pongs.  PingLocked and PongLocked *)
(* say when; every other use of the two lists is one step.                 *)
(*                                                                         *)
(* A connection is two DXS flows: up from the ping to the pong side, down  *)
(* the other way.  DXS and gRPC are external.                              *)
(***************************************************************************)
EXTENDS Naturals, SequencesExt

CONSTANTS Agents,                   \* two agents
          Pingers,                  \* the agents the controller tells to ping
          max_connections_per_nic,  \* 0 disables the limit
          MaxConns,                 \* bound: connections tried
          MaxProbes                 \* bound: the probe rounds of each connection

ASSUME ProberAssumption ==
  /\ \E n, m \in Agents : n # m /\ Agents = {n, m}
  /\ Pingers \subseteq Agents
  /\ {max_connections_per_nic, MaxConns} \subseteq Nat
  /\ MaxProbes \in [1 .. MaxConns -> Nat]

VARIABLES phase,    \* [Agents -> the agent's main thread]
          job,      \* [Agents -> the controller's RPC, or CleanUp, and how far it is]
          setup,    \* [Conns -> the setup of the connection]
          pings, pongs,  \* [Agents -> ping_connections_, pong_connections_]
          tears,    \* [Agents -> the TearDownConnection requests it has to handle]
          probe     \* [Conns -> the PingConnection (with the last result it has
                    \*   not reported), the PongConnection and the flows]

vars == <<phase, job, setup, pings, pongs, tears, probe>>

Conns == 1 .. MaxConns
Sides == {"ping", "pong"}
Peer(n) == CHOOSE m \in Agents : m # n
Idle == [op |-> "none", at |-> "idle", side |-> "ping", conn |-> 0, left |-> 0]

None == <<>>
NewProbe == [ping |-> "wait", round |-> 0, wire |-> <<>>, pong |-> "startRecv", back |-> <<>>,
             broken |-> FALSE, result |-> None]

Init ==
  /\ phase = [n \in Agents |-> "serving"] /\ job = [n \in Agents |-> Idle]
  /\ setup = [c \in Conns |-> [by |-> "none", call |-> "none", pong |-> "none",
                               up |-> FALSE, down |-> FALSE]]
  /\ pings = [n \in Agents |-> <<>>] /\ pongs = [n \in Agents |-> <<>>]
  /\ tears = [n \in Agents |-> [s \in Sides |-> [live |-> FALSE, stale |-> 0]]]
  /\ probe = [c \in Conns |-> NewProbe]

\* A side of a connection that is no longer listed is destroyed; a ping goes
\* with the result it has not reported, and the flows go with the second side.
Destroys ==
  probe' = [c \in Conns |->
    LET pinged == \E n \in Agents : Contains(pings'[n], c)
        ponged == \E n \in Agents : Contains(pongs'[n], c)
        p == IF pinged \/ ponged THEN probe[c] ELSE NewProbe
        q == IF pinged THEN p ELSE [p EXCEPT !.ping = "wait", !.round = 0, !.result = None]
    IN IF ponged THEN q ELSE [q EXCEPT !.pong = "startRecv"]]

Go(n, at) == job' = [job EXCEPT ![n].at = at]
Full(list) == max_connections_per_nic > 0 /\ Len(list) >= max_connections_per_nic

\* The agents at the two ends of connection c.
Pinger(c) == setup[c].by
Ponger(c) == Peer(setup[c].by)

\* The job is in the middle of the setup of c.
SettingUp(n, c) == job[n].conn = c /\ job[n].at \in {"awaitSetUp", "connect", "accept"}
Tearing(n, side) == job[n].side = side /\ job[n].at \in {"notify", "await"}

PingLocked(n) == Tearing(n, "ping") \/ \E c \in Conns : SettingUp(n, c)
PongLocked(n) ==
  \/ Tearing(n, "pong")
  \/ \E c \in Conns : setup[c].pong \in {"accept", "connect"} /\ Ponger(c) = n

-----------------------------------------------------------------------------
(* The controller's RPCs, StartPings and StopPings.                        *)

\* Both report the results and tear the pings down; StartPings then sets new
\* ones up.
ServeController(n, op) ==
  /\ phase[n] = "serving" /\ job[n] = Idle
  /\ job' = [job EXCEPT ![n] = [Idle EXCEPT !.op = op, !.at = "report"]]
  /\ UNCHANGED <<phase, setup, pings, pongs, tears, probe>>

\* GetAndClearResults of every ping connection goes to the file.
WriteResults(n) ==
  /\ ~PingLocked(n)
  /\ probe' = [c \in Conns |-> IF Contains(pings[n], c) THEN [probe[c] EXCEPT !.result = None]
                                                        ELSE probe[c]]
  /\ UNCHANGED <<phase, setup, pings, pongs, tears>>

ReportResults(n) ==
  /\ job[n].at = "report" /\ WriteResults(n)
  /\ Go(n, IF job[n].op = "cleanup" THEN "cancel" ELSE "tearDown")

\* TearDownAllPingConnections, TearDownAllPongConnections: the other agent is
\* told of each connection of the list in turn ...
TearDownAll(n) ==
  /\ job[n].at = "tearDown"
  /\ job[n].side = "pong" => ~PongLocked(n)
  /\ job' = [job EXCEPT ![n].at = "notify",
                        ![n].left = Len(IF job[n].side = "ping" THEN pings[n] ELSE pongs[n])]
  /\ UNCHANGED <<phase, setup, pings, pongs, tears, probe>>

OtherSide(side) == IF side = "ping" THEN "pong" ELSE "ping"

\* An agent that is shutting down takes no RPC.
TearDownClient(n) ==
  /\ job[n].at = "notify" /\ job[n].left > 0
  /\ IF phase[Peer(n)] = "serving"
       THEN /\ tears' = [tears EXCEPT ![Peer(n)][OtherSide(job[n].side)].live = TRUE]
            /\ Go(n, "await")
       ELSE tears' = tears /\ job' = [job EXCEPT ![n].left = @ - 1]
  /\ UNCHANGED <<phase, setup, pings, pongs, probe>>

\* The deadline of the RPC, or a failure: the request may still be handled later.
TearDownTimesOut(n) ==
  /\ job[n].at = "await"
  /\ job' = [job EXCEPT ![n].at = "notify", ![n].left = @ - 1]
  /\ \E k \in {0, 1} :
       tears' = [tears EXCEPT ![Peer(n)][OtherSide(job[n].side)] =
                                [live |-> FALSE, stale |-> @.stale + k]]
  /\ UNCHANGED <<phase, setup, pings, pongs, probe>>

\* ... and the list is cleared.
TornDown(n) ==
  /\ job[n].at = "notify" /\ job[n].left = 0
  /\ IF job[n].side = "ping" THEN pings' = [pings EXCEPT ![n] = <<>>] /\ pongs' = pongs
                             ELSE pongs' = [pongs EXCEPT ![n] = <<>>] /\ pings' = pings
  /\ job' = [job EXCEPT ![n] =
       CASE job[n].op = "start" -> [@ EXCEPT !.at = "setUp"]
         [] job[n].op = "stop" -> Idle
         [] job[n].op = "cleanup" /\ job[n].side = "ping" -> [@ EXCEPT !.side = "pong", !.at = "tearDown"]
         [] OTHER -> [@ EXCEPT !.at = "report"]]
  /\ Destroys
  /\ UNCHANGED <<phase, setup, tears>>

\* TearDownConnection, RemoveConnection: the first connection with the caller's
\* IP goes, with the results it has not reported.
RemoveConnection(n, side) ==
  /\ tears[n][side].live \/ tears[n][side].stale > 0
  /\ IF side = "ping"
       THEN /\ ~PingLocked(n) /\ pongs' = pongs
            /\ pings' = IF pings[n] = <<>> THEN pings ELSE [pings EXCEPT ![n] = Tail(@)]
       ELSE /\ ~PongLocked(n) /\ pings' = pings
            /\ pongs' = IF pongs[n] = <<>> THEN pongs ELSE [pongs EXCEPT ![n] = Tail(@)]
  /\ \/ /\ tears[n][side].live
        /\ tears' = [tears EXCEPT ![n][side].live = FALSE]
        /\ job' = [job EXCEPT ![Peer(n)].at = "notify", ![Peer(n)].left = @ - 1]
     \/ /\ tears[n][side].stale > 0
        /\ tears' = [tears EXCEPT ![n][side].stale = @ - 1] /\ job' = job
  /\ Destroys
  /\ UNCHANGED <<phase, setup>>

-----------------------------------------------------------------------------
(* SetUpConnections: one CreatePingConnection for each target.             *)

\* There is no other target.
SetUpEnds(n) ==
  /\ job[n].at = "setUp" /\ job' = [job EXCEPT ![n] = Idle]
  /\ UNCHANGED <<phase, setup, pings, pongs, tears, probe>>

\* CreatePingConnection up to SetUpClient: Listen may fail or time out, which
\* is the same as a target less.
CreatePingConnection(n) ==
  /\ job[n].at = "setUp" /\ ~Full(pings[n]) /\ phase[Peer(n)] = "serving"
  /\ \E c \in Conns :
       /\ setup[c].by = "none" /\ \A d \in 1 .. c - 1 : setup[d].by # "none"
       /\ setup' = [setup EXCEPT ![c].by = n, ![c].call = "sent"]
       /\ job' = [job EXCEPT ![n].at = "awaitSetUp", ![n].conn = c]
  /\ UNCHANGED <<phase, pings, pongs, tears, probe>>

\* CreatingPongConnection, the handler of the RPC: listen, and leave the rest to
\* a detached thread.
SetUpPongConnection(c) ==
  /\ setup[c].call = "sent"
  /\ \/ setup' = [setup EXCEPT ![c].call = "replied", ![c].pong = "spawned"]
     \/ setup' = [setup EXCEPT ![c].call = "refused"]
  /\ UNCHANGED <<phase, job, pings, pongs, tears, probe>>

SetUpReplied(n) ==
  /\ job[n].at = "awaitSetUp" /\ setup[job[n].conn].call = "replied"
  /\ Go(n, "connect")
  /\ UNCHANGED <<phase, setup, pings, pongs, tears, probe>>

ConnectReady(n) ==
  /\ job[n].at = "connect" /\ setup[job[n].conn].up
  /\ Go(n, "accept")
  /\ UNCHANGED <<phase, setup, pings, pongs, tears, probe>>

AcceptReady(n) ==
  /\ job[n].at = "accept" /\ setup[job[n].conn].down
  /\ pings' = [pings EXCEPT ![n] = Append(@, job[n].conn)]
  /\ job' = [job EXCEPT ![n].at = "setUp", ![n].conn = 0]
  /\ UNCHANGED <<phase, setup, pongs, tears, probe>>

SetUpFailsOnRefusal(n) ==                                    \* mutant
  /\ job[n].at = "awaitSetUp" /\ setup[job[n].conn].call = "refused"
  /\ job' = [job EXCEPT ![n].at = "setUp", ![n].conn = 0]
  /\ UNCHANGED <<phase, setup, pings, pongs, tears, probe>>

\* The RPC or a socket fails, or the deadline has passed.
SetUpFails(n) ==
  /\ job[n].at \in {"awaitSetUp", "connect", "accept"}
  /\ job' = [job EXCEPT ![n].at = "setUp", ![n].conn = 0]
  /\ UNCHANGED <<phase, setup, pings, pongs, tears, probe>>

PongSetupChecksEarly(c) ==                                   \* mutant
  /\ setup[c].pong = "spawned" /\ phase[Ponger(c)] # "stopped"
  /\ setup' = [setup EXCEPT ![c].pong = IF Full(pongs[Ponger(c)]) THEN "ended" ELSE "accept"]
  /\ UNCHANGED <<phase, job, pings, pongs, tears, probe>>

\* CompletePongConnectionSetup, on the detached thread, takes the lock ...
CompletePongConnectionSetup(c) ==
  /\ setup[c].pong = "spawned" /\ phase[Ponger(c)] # "stopped" /\ ~PongLocked(Ponger(c))
  /\ setup' = [setup EXCEPT ![c].pong = IF Full(pongs[Ponger(c)]) THEN "ended" ELSE "accept"]
  /\ UNCHANGED <<phase, job, pings, pongs, tears, probe>>

\* ... accepts the up flow, connects the down flow, and lists the connection.
PongAccepts(c) ==
  /\ setup[c].pong = "accept" /\ setup[c].up /\ phase[Ponger(c)] # "stopped"
  /\ setup' = [setup EXCEPT ![c].pong = "connect"]
  /\ UNCHANGED <<phase, job, pings, pongs, tears, probe>>

PongConnects(c) ==
  /\ setup[c].pong = "connect" /\ setup[c].down /\ phase[Ponger(c)] # "stopped"
  /\ setup' = [setup EXCEPT ![c].pong = "ended"]
  /\ pongs' = [pongs EXCEPT ![Ponger(c)] = Append(@, c)]
  /\ UNCHANGED <<phase, job, pings, tears, probe>>

PongSetupFails(c) ==
  /\ setup[c].pong \in {"accept", "connect"} /\ phase[Ponger(c)] # "stopped"
  /\ setup' = [setup EXCEPT ![c].pong = "ended"]
  /\ UNCHANGED <<phase, job, pings, pongs, tears, probe>>

\* DXS brings a flow to a side that is listening.
DxsArrives(c) ==
  /\ setup[c].by # "none"
  /\ \/ /\ ~setup[c].up /\ setup[c].pong \in {"spawned", "accept"}
        /\ job[Pinger(c)].conn = c /\ job[Pinger(c)].at = "connect"
        /\ setup' = [setup EXCEPT ![c].up = TRUE]
     \/ /\ ~setup[c].down /\ setup[c].pong = "connect" /\ SettingUp(Pinger(c), c)
        /\ setup' = [setup EXCEPT ![c].down = TRUE]
  /\ UNCHANGED <<phase, job, pings, pongs, tears, probe>>

-----------------------------------------------------------------------------
(* The ping thread and the pong thread.                                    *)

Pinging(c) ==
  /\ setup[c].by # "none" /\ Contains(pings[Pinger(c)], c)
  /\ ~PingLocked(Pinger(c)) /\ phase[Pinger(c)] # "stopped"
Ponging(c) ==
  /\ setup[c].by # "none" /\ Contains(pongs[Ponger(c)], c)
  /\ ~PongLocked(Ponger(c)) /\ phase[Ponger(c)] # "stopped"

Probes(c, p) ==
  probe' = [probe EXCEPT ![c] = p] /\ UNCHANGED <<phase, job, setup, pings, pongs, tears>>

StartsRoundAnyway(c) ==                                      \* mutant
  /\ Pinging(c) /\ probe[c].round < MaxProbes[c]
  /\ Probes(c, [probe[c] EXCEPT !.ping = "start"])

\* PrepareNewPingRound: a round that has not ended goes on.
PrepareNewPingRound(c) ==
  /\ Pinging(c) /\ probe[c].ping = "wait" /\ probe[c].round < MaxProbes[c]
  /\ Probes(c, [probe[c] EXCEPT !.ping = "start"])

\* SendPingAndRecordResult: the send is started, then tested; when it is
\* complete the receive is started, then tested; each step may be left to a
\* later call.
SendPing(c) ==
  /\ Pinging(c) /\ probe[c].ping = "start" /\ ~probe[c].broken
  /\ Probes(c, [probe[c] EXCEPT !.ping = "sendWait", !.round = @ + 1,
                                !.wire = Append(@, probe[c].round + 1)])

PingSent(c) ==
  /\ Pinging(c) /\ probe[c].ping = "sendWait" /\ ~probe[c].broken
  /\ Probes(c, [probe[c] EXCEPT !.ping = "recvWait"])

Failed == <<0, 0>>

\* AddResult, or a failed result when the payload is not the expected one.
RecordResult(c) ==
  /\ Pinging(c) /\ probe[c].ping = "recvWait" /\ probe[c].back # <<>> /\ ~probe[c].broken
  /\ \E r \in {<<probe[c].round, Head(probe[c].back)>>, Failed} :
       Probes(c, [probe[c] EXCEPT !.ping = "wait", !.back = Tail(@), !.result = r])

\* AddFailedResult: an operation failed; the next round will try again.
AddFailedResult(c) ==
  /\ Pinging(c) /\ probe[c].ping # "wait" /\ probe[c].broken
  /\ Probes(c, [probe[c] EXCEPT !.ping = "wait", !.result = Failed,
                                !.round = IF probe[c].ping = "start" THEN @ + 1 ELSE @])

\* DoPongOp: start to receive; receive and send; see that it was sent.  After
\* any failure it starts to receive again.
DoPongOp(c) ==
  /\ Ponging(c)
  /\ \/ /\ probe[c].pong = "startRecv" /\ ~probe[c].broken
        /\ Probes(c, [probe[c] EXCEPT !.pong = "recvWait"])
     \/ /\ probe[c].pong = "recvWait" /\ probe[c].wire # <<>> /\ ~probe[c].broken
        /\ Probes(c, [probe[c] EXCEPT !.pong = "sendWait", !.wire = Tail(@),
                                      !.back = Append(@, Head(probe[c].wire))])
     \/ /\ probe[c].pong = "sendWait" /\ ~probe[c].broken
        /\ Probes(c, [probe[c] EXCEPT !.pong = "startRecv"])
     \/ /\ probe[c].pong # "startRecv" /\ probe[c].broken
        /\ Probes(c, [probe[c] EXCEPT !.pong = "startRecv"])

\* A flow fails: the network, or the other side closed it.
DxsBreaks(c) ==
  /\ Pinging(c) \/ Ponging(c)
  /\ ~probe[c].broken
  /\ Probes(c, [probe[c] EXCEPT !.broken = TRUE])

\* The ping thread reports from time to time.
ReportsPeriodically(n) ==
  /\ phase[n] # "stopped"
  /\ WriteResults(n) /\ UNCHANGED job

-----------------------------------------------------------------------------
(* main: a signal shuts the gRPC server down, which waits for the handlers *)
(* that are running, but not for the detached threads; then CleanUp.       *)

ShutDown(n) ==
  /\ phase[n] = "serving"
  /\ phase' = [phase EXCEPT ![n] = "draining"]
  /\ UNCHANGED <<job, setup, pings, pongs, tears, probe>>

CleanUp(n) ==
  /\ phase[n] = "draining" /\ job[n] = Idle
  /\ \A s \in Sides : tears[n][s] = [live |-> FALSE, stale |-> 0]
  /\ \A c \in Conns : setup[c].call = "sent" => Ponger(c) # n
  /\ phase' = [phase EXCEPT ![n] = "cleanup"]
  /\ job' = [job EXCEPT ![n] = [Idle EXCEPT !.op = "cleanup", !.at = "tearDown"]]
  /\ UNCHANGED <<setup, pings, pongs, tears, probe>>

\* cancel_threads_flag_, the two threads are joined and the process exits.
Stop(n) ==
  /\ job[n].at = "cancel"
  /\ phase' = [phase EXCEPT ![n] = "stopped"] /\ job' = [job EXCEPT ![n] = Idle]
  /\ UNCHANGED <<setup, pings, pongs, tears, probe>>

-----------------------------------------------------------------------------
JobStep(n) ==
  \/ ReportResults(n) \/ TearDownAll(n) \/ TearDownClient(n) \/ TearDownTimesOut(n) \/ TornDown(n)
  \/ SetUpEnds(n) \/ CreatePingConnection(n) \/ SetUpReplied(n) \/ ConnectReady(n)
  \/ AcceptReady(n) \/ SetUpFails(n) \/ CleanUp(n) \/ Stop(n)

PongSetup(c) ==
  \/ CompletePongConnectionSetup(c) \/ PongAccepts(c) \/ PongConnects(c) \/ PongSetupFails(c)

ProbeStep(c) ==
  \/ PrepareNewPingRound(c) \/ SendPing(c) \/ PingSent(c) \/ RecordResult(c)
  \/ AddFailedResult(c) \/ DoPongOp(c) \/ DxsBreaks(c)

Next ==
  \/ \E n \in Agents :
       \/ n \in Pingers /\ \E op \in {"start", "stop"} : ServeController(n, op)
       \/ JobStep(n) \/ ReportsPeriodically(n) \/ ShutDown(n)
       \/ \E s \in Sides : RemoveConnection(n, s)
  \/ \E c \in Conns : SetUpPongConnection(c) \/ PongSetup(c) \/ DxsArrives(c) \/ ProbeStep(c)

Spec == Init /\ [][Next]_vars

\* Threads run, handlers are called, and deadlines pass.
FairSpec ==
  /\ Spec
  /\ \A n \in Agents : WF_vars(JobStep(n)) /\ \A s \in Sides : WF_vars(RemoveConnection(n, s))
  /\ \A c \in Conns : WF_vars(SetUpPongConnection(c)) /\ WF_vars(PongSetup(c))

-----------------------------------------------------------------------------
\* Type correctness: no connection is listed twice, a request that is waited for
\* is one its caller waits for, and max_connections_per_nic holds although the
\* setups of several connections, each waiting for the other agent, overlap.
TypeOK ==
  /\ phase \in [Agents -> {"serving", "draining", "cleanup", "stopped"}]
  /\ job \in [Agents -> [op : {"none", "start", "stop", "cleanup"}, side : Sides,
                         at : {"idle", "report", "tearDown", "notify", "await", "setUp", "awaitSetUp",
                               "connect", "accept", "cancel"},
                         conn : 0 .. MaxConns, left : 0 .. MaxConns]]
  /\ setup \in [Conns -> [by : Agents \union {"none"}, up : BOOLEAN, down : BOOLEAN,
                          call : {"none", "sent", "replied", "refused"},
                          pong : {"none", "spawned", "accept", "connect", "ended"}]]
  /\ \A n \in Agents : \A s \in Sides :
       tears[n][s].live => job[Peer(n)].at = "await" /\ job[Peer(n)].side = OtherSide(s)
  /\ \A n \in Agents : pings[n] \in Seq(Conns) /\ pongs[n] \in Seq(Conns)
                       /\ IsInjective(pings[n] \o pongs[n])
                       /\ max_connections_per_nic > 0 =>
                            {Len(pings[n]), Len(pongs[n])} \subseteq 0 .. max_connections_per_nic

\* The round-trip time recorded for a probe round is that of the pong to the
\* ping of this very round.
RttIsOwn == \A c \in Conns : probe[c].result # None => probe[c].result[1] = probe[c].result[2]

\* StartPings, StopPings and CleanUp end, although an agent holds the mutexes of
\* its lists while it waits for the other one, which may wait for it.
CallsEnd == \A n \in Agents : job[n] # Idle ~> job[n] = Idle
=============================================================================
