------------------------------ MODULE NcclComm -----------------------------
(***************************************************************************)
(* The NCCL net plugin (tcpdirect_plugin/fastrak_offload/nccl_shim.cc and  *)
(* fastrak_plugin.cc): one connection between two ranks, the sender that   *)
(* calls Connect, Isend and Test and the receiver that calls Listen,       *)
(* Accept, Irecv and Test.  The connection is NumFlows DXS flows,          *)
(* established one by one and used in turn: the two sides stay together    *)
(* only because each of them counts its own requests.  (The cache of       *)
(* registered memory is in MrCache.)                                       *)
(*                                                                         *)
(* DXS is external: it connects or fails a flow, and on each flow gives    *)
(* the n-th Recv the data of the n-th Send.  NCCL is external: it calls    *)
(* Connect, Accept and Test until they are done or fail.                   *)
(***************************************************************************)
EXTENDS Naturals, FiniteSets, Sequences

CONSTANTS NumFlows,    \* kFastrakNumFlows
          MaxMessages, \* bound: messages of a side
          MaxRefusals  \* bound: Isend and Irecv calls that DXS refuses

ASSUME NcclAssumption ==
  NumFlows \in Nat \ {0} /\ MaxMessages \in Nat /\ MaxRefusals \in Nat

Sides == {"send", "recv"}
Flows == 0 .. NumFlows - 1

VARIABLES stage,    \* [Sides -> stage.state of the handle or of the listen comm]
          outcome,  \* [Sides -> what Connect or Accept last gave NCCL]
          socks,    \* [Sides -> dxs_socks: the status of each flow]
          arrived,  \* the flows whose connection has reached the listen socket
          base,     \* [Sides -> curr_flow_group_base]
          reqs,     \* [Sides -> the requests, in the order NCCL made them]
          refusals  \* Isend and Irecv calls that failed

connVars == <<stage, outcome, socks, arrived>>
xferVars == <<base, reqs, refusals>>
vars == <<connVars, xferVars>>

Init ==
  /\ stage = [s \in Sides |-> "none"] /\ outcome = [s \in Sides |-> "none"]
  /\ socks = [s \in Sides |-> [i \in Flows |-> "none"]] /\ arrived = {}
  /\ base = [s \in Sides |-> 0] /\ reqs = [s \in Sides |-> <<>>]
  /\ refusals = 0

-----------------------------------------------------------------------------
(* Connect and Accept.  A call that returns "not yet" changes nothing.     *)

Fails(s) == outcome' = [outcome EXCEPT ![s] = "error"]

\* Listen opens a listen socket per flow and waits for each; the handle it makes
\* reaches the sender by NCCL's bootstrap.  It may time out or fail at any flow.
Listen ==
  /\ stage["recv"] = "none" /\ outcome["recv"] = "none"
  /\ \/ stage' = [s \in Sides |-> "kStart"] /\ outcome' = outcome
     \/ stage' = stage /\ Fails("recv")
  /\ UNCHANGED <<xferVars, socks, arrived>>

\* Opens every flow, or fails after n of them, which stay open.
BeginDxsConnect(n) ==
  socks' = [socks EXCEPT !["send"] = [i \in Flows |-> IF i < n THEN "pending" ELSE "none"]]

\* Connect in kStart.
ConnectStart ==
  /\ stage["send"] = "kStart" /\ outcome["send"] = "none"
  /\ \E n \in 0 .. NumFlows :
       /\ BeginDxsConnect(n)
       /\ IF n = NumFlows
            THEN stage' = [stage EXCEPT !["send"] = "kConnecting"] /\ outcome' = outcome
            ELSE stage' = stage /\ Fails("send")
  /\ UNCHANGED <<xferVars, arrived>>

\* The first flow that is not ready decides what a poll returns.
Laggard(s) ==
  IF \A i \in Flows : socks[s][i] = "ready" THEN NumFlows
  ELSE CHOOSE i \in Flows : socks[s][i] # "ready" /\ \A j \in 0 .. i - 1 : socks[s][j] = "ready"

\* All flows are ready: NCCL gets the comm.  A flow failed, or the timer of the
\* comm ran out on one that is not ready: NCCL gets an error.
PollEnds(s, polling) ==
  /\ stage[s] = polling /\ outcome[s] = "none"
  /\ \/ /\ Laggard(s) = NumFlows
        /\ stage' = [stage EXCEPT ![s] = "kDone"]
        /\ outcome' = [outcome EXCEPT ![s] = "comm"]
     \/ /\ Laggard(s) # NumFlows /\ Fails(s) /\ stage' = stage
  /\ UNCHANGED <<xferVars, socks, arrived>>

ConnectPolls == PollEnds("send", "kConnecting")

\* Accept in kStart: the buffer manager client may not be available.
AcceptStart ==
  /\ stage["recv"] = "kStart" /\ outcome["recv"] = "none"
  /\ \/ stage' = [stage EXCEPT !["recv"] = "kAccepting"] /\ outcome' = outcome
     \/ stage' = stage /\ Fails("recv")
  /\ UNCHANGED <<xferVars, socks, arrived>>

\* Accept goes through the flows in order and takes the connection of the first
\* one it has not got, if it is there.
AcceptTakes ==
  /\ stage["recv"] = "kAccepting" /\ outcome["recv"] = "none"
  /\ LET i == Laggard("recv") IN
     /\ i \in arrived /\ socks["recv"][i] = "none"
     /\ socks' = [socks EXCEPT !["recv"][i] = "pending"]
  /\ UNCHANGED <<xferVars, stage, outcome, arrived>>

AcceptPolls == PollEnds("recv", "kAccepting")

DxsArrives(i) ==
  /\ socks["send"][i] = "pending" /\ i \notin arrived
  /\ arrived' = arrived \union {i}
  /\ UNCHANGED <<xferVars, stage, outcome, socks>>

DxsSocket(s, i) ==
  /\ socks[s][i] = "pending"
  /\ \/ i \in arrived /\ socks' = [socks EXCEPT ![s][i] = "ready"]
     \/ socks' = [socks EXCEPT ![s][i] = "error"]
  /\ UNCHANGED <<xferVars, stage, outcome, arrived>>

-----------------------------------------------------------------------------
(* Requests.                                                               *)

\* A new request.  error is what the plugin's Test remembers of an earlier Test.
NewRequest(s) == [flow |-> base[s], status |-> "pending", error |-> FALSE, got |-> 0]

GetRequestNoWrap(s) ==                                       \* mutant
  /\ outcome[s] = "comm" /\ Len(reqs[s]) < MaxMessages
  /\ reqs' = [reqs EXCEPT ![s] = Append(@, NewRequest(s))]
  /\ base' = [base EXCEPT ![s] = @ + 1]
  /\ UNCHANGED <<refusals, connVars>>

GetRequestAdvancesFirst(s) ==                                \* mutant
  /\ outcome[s] = "comm"
  /\ base' = [base EXCEPT ![s] = (@ + 1) % NumFlows]
  /\ \/ /\ Len(reqs[s]) < MaxMessages
        /\ reqs' = [reqs EXCEPT ![s] = Append(@, NewRequest(s))]
        /\ refusals' = refusals
     \/ refusals < MaxRefusals /\ refusals' = refusals + 1 /\ reqs' = reqs
  /\ UNCHANGED connVars

\* GetRequest: Send or RecvLinearized on the current flow; the turn passes to
\* the next flow only when it succeeds.
GetRequest(s) ==
  /\ outcome[s] = "comm"
  /\ \/ /\ Len(reqs[s]) < MaxMessages
        /\ reqs' = [reqs EXCEPT ![s] = Append(@, NewRequest(s))]
        /\ base' = [base EXCEPT ![s] = (@ + 1) % NumFlows]
        /\ refusals' = refusals
     \/ /\ refusals < MaxRefusals
        /\ refusals' = refusals + 1
        /\ UNCHANGED <<reqs, base>>
  /\ UNCHANGED connVars

Isend == GetRequest("send")
Irecv == GetRequest("recv")

Is(s, k, statuses) == k \in 1 .. Len(reqs[s]) /\ reqs[s][k].status \in statuses

\* Test: the op is complete, and the request is done; or the op has failed, or
\* the data transfer timeout has run out.  NCCL gets an error then, and the same
\* error from every later Test, although DXS may still complete the op.
Test(s, k) ==
  /\ \/ Is(s, k, {"complete"}) /\ ~reqs[s][k].error
        /\ reqs' = [reqs EXCEPT ![s][k].status = "done"]
     \/ Is(s, k, {"pending", "error"}) /\ ~reqs[s][k].error
        /\ reqs' = [reqs EXCEPT ![s][k].error = TRUE]
  /\ UNCHANGED <<connVars, base, refusals>>

\* DXS pairs the requests of a flow in the order they were made.
SameFlow(s, k) == {j \in 1 .. Len(reqs[s]) : reqs[s][j].flow = reqs[s][k].flow}
Rank(s, k) == Cardinality({j \in SameFlow(s, k) : j <= k})
Peer(s) == IF s = "send" THEN "recv" ELSE "send"

DxsCompletes(s, k) ==
  /\ Is(s, k, {"pending"})
  /\ \A j \in SameFlow(s, k) : j < k => ~Is(s, j, {"pending"})
  /\ \E m \in 1 .. Len(reqs[Peer(s)]) :
       /\ reqs[Peer(s)][m].flow = reqs[s][k].flow /\ Rank(Peer(s), m) = Rank(s, k)
       /\ reqs' = [reqs EXCEPT ![s][k].status = "complete", ![s][k].got = m]
  /\ UNCHANGED <<connVars, base, refusals>>

\* DXS reports an error, or the control channel is lost: that also overwrites the
\* result of an op that NCCL has not tested yet.
DxsOpFails(s, k) ==
  /\ Is(s, k, {"pending", "complete"})
  /\ reqs' = [reqs EXCEPT ![s][k].status = "error"]
  /\ UNCHANGED <<connVars, base, refusals>>

-----------------------------------------------------------------------------
Next ==
  \/ Listen \/ ConnectStart \/ ConnectPolls \/ AcceptStart \/ AcceptTakes \/ AcceptPolls
  \/ \E i \in Flows : DxsArrives(i) \/ \E s \in Sides : DxsSocket(s, i)
  \/ Isend \/ Irecv
  \/ \E s \in Sides, k \in 1 .. MaxMessages :
       Test(s, k) \/ DxsCompletes(s, k) \/ DxsOpFails(s, k)

Spec == Init /\ [][Next]_vars

-----------------------------------------------------------------------------
\* Type correctness; in particular curr_flow_group_base is always a flow, the
\* index GetRequest uses without a check.
TypeOK ==
  /\ stage \in [Sides -> {"none", "kStart", "kConnecting", "kAccepting", "kDone"}]
  /\ outcome \in [Sides -> {"none", "comm", "error"}]
  /\ socks \in [Sides -> [Flows -> {"none", "pending", "ready", "error"}]]
  /\ arrived \subseteq Flows
  /\ base \in [Sides -> Flows]
  /\ reqs \in [Sides -> Seq([flow : Flows, got : Nat, error : BOOLEAN,
                             status : {"pending", "complete", "error", "done"}])]
  /\ refusals \in 0 .. MaxRefusals

\* The n-th Irecv gets the data of the n-th Isend: the two curr_flow_group_base
\* stay coherent across calls that DXS refused on one side only, requests that
\* failed or timed out, and flows that run ahead of one another.
TransferInOrder ==
  \A s \in Sides : \A k \in 1 .. Len(reqs[s]) : reqs[s][k].got \in {0, k}
=============================================================================
