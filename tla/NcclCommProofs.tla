--------------------------- MODULE NcclCommProofs ---------------------------
(***************************************************************************)
(* Proofs about NcclComm, for any number of flows, messages and refusals.  *)
(*                                                                         *)
(* TransferInOrder is not inductive: it needs the two sides to agree on    *)
(* the flow of every request.  No side sees the other's counter, so the    *)
(* agreement is stated between a request of the side that is ahead and the *)
(* counter of the side that is behind (Coherent).  DXS then pairs the n-th *)
(* ops of a flow, and equal ranks on a flow mean equal positions.          *)
(***************************************************************************)
EXTENDS NcclComm, SequenceTheorems, FiniteSetTheorems, TLAPS

\* The flow after f in the round robin.
After(f) == (f + 1) % NumFlows

\* Each side goes through the flows in turn.
RoundRobin ==
  \A s \in Sides :
    /\ \A k \in 1 .. Len(reqs[s]) :
         k + 1 <= Len(reqs[s]) => reqs[s][k + 1].flow = After(reqs[s][k].flow)
    /\ Len(reqs[s]) > 0 => base[s] = After(reqs[s][Len(reqs[s])].flow)

\* The two sides agree: request k uses the same flow on both, and the side that
\* is behind will use for its next request the flow the other one used.
Coherent ==
  \A s, t \in Sides :
    /\ \A k \in 1 .. Len(reqs[s]) :
         k <= Len(reqs[t]) => reqs[s][k].flow = reqs[t][k].flow
    /\ Len(reqs[s]) = Len(reqs[t]) => base[s] = base[t]
    /\ Len(reqs[s]) < Len(reqs[t]) => base[s] = reqs[t][Len(reqs[s]) + 1].flow

IInv == TypeOK /\ RoundRobin /\ Coherent /\ TransferInOrder

-----------------------------------------------------------------------------
Requests == [flow : Flows, got : Nat, error : BOOLEAN,
             status : {"pending", "complete", "error", "done"}]

LEMMA Turn == \A f \in Flows : After(f) \in Flows
<1> QED  BY NcclAssumption DEF Flows, After

LEMMA Initially == Init => IInv
<1> SUFFICES ASSUME Init PROVE IInv  BY Zenon
<1> USE NcclAssumption DEF Init
<1>1. \A s \in Sides : reqs[s] = <<>> /\ Len(reqs[s]) = 0 /\ base[s] = 0
  BY EmptySeq, Zenon
<1>2. TypeOK  BY <1>1, EmptySeq DEF TypeOK, Flows
<1>3. RoundRobin  BY <1>1 DEF RoundRobin
<1>4. Coherent  BY <1>1 DEF Coherent
<1>5. TransferInOrder  BY <1>1 DEF TransferInOrder
<1> QED  BY <1>2, <1>3, <1>4, <1>5, Zenon DEF IInv

(* Establishing the connection does not touch the requests. *)
LEMMA ConnectionStep ==
  ASSUME IInv,
         \/ Listen \/ ConnectStart \/ ConnectPolls
         \/ AcceptStart \/ AcceptTakes \/ AcceptPolls
         \/ \E i \in Flows : DxsArrives(i) \/ \E s \in Sides : DxsSocket(s, i)
  PROVE  IInv'
<1> USE NcclAssumption DEF IInv, TypeOK
<1>1. UNCHANGED xferVars
  BY Zenon DEF Listen, ConnectStart, ConnectPolls, AcceptStart, AcceptTakes, AcceptPolls,
         PollEnds, DxsArrives, DxsSocket
<1>2. TypeOK'
  <2> USE <1>1 DEF xferVars
  <2>1. CASE Listen  BY <2>1, Zenon DEF Listen, Fails, Sides
  <2>2. CASE ConnectStart  BY <2>2 DEF ConnectStart, BeginDxsConnect, Fails, Sides
  <2>3. CASE ConnectPolls  BY <2>3 DEF ConnectPolls, PollEnds, Fails, Sides
  <2>4. CASE AcceptStart  BY <2>4 DEF AcceptStart, Fails, Sides
  <2>5. CASE AcceptTakes
    <3>1. arrived \subseteq Flows /\ Laggard("recv") \in arrived  BY <2>5, Zenon DEF AcceptTakes
    <3> QED  BY <2>5, <3>1, Zenon DEF AcceptTakes, Sides
  <2>6. CASE AcceptPolls  BY <2>6 DEF AcceptPolls, PollEnds, Fails, Sides
  <2>7. CASE \E i \in Flows : DxsArrives(i) \/ \E s \in Sides : DxsSocket(s, i)
    <3>1. PICK i \in Flows : DxsArrives(i) \/ \E s \in Sides : DxsSocket(s, i)  BY <2>7, Zenon
    <3>2. CASE DxsArrives(i)  BY Zenon, <3>2 DEF DxsArrives
    <3>3. CASE \E s \in Sides : DxsSocket(s, i)
      <4>1. PICK s \in Sides : DxsSocket(s, i)  BY <3>3, Zenon
      <4>2. PICK v \in {"ready", "error"} : socks' = [socks EXCEPT ![s][i] = v]
        BY <4>1 DEF DxsSocket
      <4>3. socks' \in [Sides -> [Flows -> {"none", "pending", "ready", "error"}]]  BY <4>2, SMTT(30)
      <4> QED  BY Zenon, <1>1, <4>1, <4>3 DEF DxsSocket, xferVars
    <3> QED  BY Zenon, <3>1, <3>2, <3>3
  <2> QED  BY Zenon, <2>1, <2>2, <2>3, <2>4, <2>5, <2>6, <2>7
<1>3. RoundRobin' /\ Coherent' /\ TransferInOrder'
  BY <1>1 DEF xferVars, RoundRobin, Coherent, TransferInOrder
<1> QED  BY Zenon, <1>2, <1>3

(* A new request takes the flow of base and passes the turn on. *)
LEMMA RequestStep ==
  ASSUME IInv, NEW s \in Sides, GetRequest(s), base' # base \/ reqs' # reqs
  PROVE  IInv'
<1> DEFINE new == [flow |-> base[s], status |-> "pending", error |-> FALSE, got |-> 0]
           n == Len(reqs[s])
<1>1. /\ reqs' = [reqs EXCEPT ![s] = Append(reqs[s], new)]
      /\ base' = [base EXCEPT ![s] = After(base[s])]
      /\ refusals' = refusals /\ UNCHANGED connVars
  BY Zenon DEF GetRequest, NewRequest, After, IInv, TypeOK
<1>2. /\ base \in [Sides -> Flows] /\ reqs \in [Sides -> Seq(Requests)]
      /\ reqs[s] \in Seq(Requests) /\ n \in Nat /\ new \in Requests
  BY Zenon, LenProperties DEF IInv, TypeOK, Requests
<1>3. /\ Append(reqs[s], new) \in Seq(Requests)
      /\ Len(Append(reqs[s], new)) = n + 1
      /\ \A k \in 1 .. n : Append(reqs[s], new)[k] = reqs[s][k]
      /\ Append(reqs[s], new)[n + 1] = new
  BY <1>2, AppendProperties
<1>4. /\ reqs' \in [Sides -> Seq(Requests)] /\ base' \in [Sides -> Flows]
      /\ \A t \in Sides \ {s} : reqs'[t] = reqs[t] /\ base'[t] = base[t]
      /\ base'[s] = After(base[s])
  BY <1>1, <1>2, <1>3, Turn, Zenon
<1>5. /\ Len(reqs'[s]) = n + 1
      /\ \A k \in 1 .. n : reqs'[s][k] = reqs[s][k]
      /\ reqs'[s][n + 1].flow = base[s] /\ reqs'[s][n + 1].got = 0
  BY <1>1, <1>2, <1>3, SMTT(30)
<1>6. \A t \in Sides : Len(reqs[t]) \in Nat  BY <1>2, LenProperties, Zenon
<1> HIDE DEF new
<1>7. TypeOK'  BY Zenon, <1>1, <1>4 DEF IInv, TypeOK, connVars, Requests
<1>8. RoundRobin'
  <2> SUFFICES ASSUME NEW t \in Sides
               PROVE  /\ \A k \in 1 .. Len(reqs'[t]) :
                           k + 1 <= Len(reqs'[t]) => reqs'[t][k + 1].flow = After(reqs'[t][k].flow)
                      /\ Len(reqs'[t]) > 0 => base'[t] = After(reqs'[t][Len(reqs'[t])].flow)
    BY Zenon DEF RoundRobin, After
  <2>1. CASE t = s
    <3> SUFFICES ASSUME NEW k \in 1 .. n
                 PROVE  reqs'[s][k + 1].flow = After(reqs'[s][k].flow)
      BY <1>2, <1>4, <1>5, <2>1, SMTT(30)
    <3>1. CASE k + 1 <= n
      <4>1. reqs[s][k + 1].flow = After(reqs[s][k].flow)  BY <1>2, <3>1, SMTT(30) DEF IInv, RoundRobin
      <4>2. reqs'[s][k + 1] = reqs[s][k + 1] /\ reqs'[s][k] = reqs[s][k]  BY <1>2, <1>5, <3>1, SMTT(30)
      <4> QED  BY <4>1, <4>2, SMTT(30)
    <3>2. CASE k = n
      <4>1. base[s] = After(reqs[s][n].flow)  BY <1>2, <3>2, SMTT(30) DEF IInv, RoundRobin
      <4>2. reqs'[s][n] = reqs[s][n]  BY <1>2, <1>5, <3>2, SMTT(30)
      <4>3. reqs'[s][k + 1].flow = base[s]  BY <1>2, <1>5, <3>2, SMTT(30)
      <4> QED  BY <3>2, <4>1, <4>2, <4>3, SMTT(30)
    <3> QED  BY <1>2, <3>1, <3>2, SMTT(30)
  <2>2. CASE t # s  BY <1>4, <2>2, SMTT(30) DEF IInv, RoundRobin
  <2> QED  BY <2>1, <2>2
<1>9. Coherent'
  <2>1. ASSUME NEW t \in Sides, t # s
        PROVE  /\ \A k \in 1 .. n + 1 : k <= Len(reqs[t]) => reqs'[s][k].flow = reqs[t][k].flow
               /\ n + 1 = Len(reqs[t]) => base'[s] = base[t]
               /\ n + 1 < Len(reqs[t]) => base'[s] = reqs[t][n + 1 + 1].flow
               /\ Len(reqs[t]) < n + 1 => base[t] = reqs'[s][Len(reqs[t]) + 1].flow
    <3>1. ASSUME NEW k \in 1 .. n + 1, k <= Len(reqs[t])
          PROVE  reqs'[s][k].flow = reqs[t][k].flow
      <4>1. CASE k <= n  BY <1>2, <1>5, <1>6, <2>1, <3>1, <4>1, SMTT(30) DEF IInv, Coherent
      <4>2. CASE k = n + 1  BY <1>2, <1>5, <1>6, <2>1, <3>1, <4>2, SMTT(30) DEF IInv, Coherent
      <4> QED  BY <1>2, <4>1, <4>2, SMTT(30)
    <3>2. ASSUME n + 1 <= Len(reqs[t])
          PROVE  base[s] = reqs[t][n + 1].flow
      BY <1>2, <1>6, <2>1, <3>2, SMTT(30) DEF IInv, Coherent
    <3>3. ASSUME n + 1 = Len(reqs[t])
          PROVE  base'[s] = base[t]
      <4>1. base'[s] = After(reqs[t][n + 1].flow)  BY <1>2, <1>4, <1>6, <3>2, <3>3, SMTT(30)
      <4>2. base[t] = After(reqs[t][Len(reqs[t])].flow)
        BY <1>2, <1>6, <3>3, SMTT(30) DEF IInv, RoundRobin
      <4> QED  BY <3>3, <4>1, <4>2, SMTT(30)
    <3>4. ASSUME n + 1 < Len(reqs[t])
          PROVE  base'[s] = reqs[t][n + 1 + 1].flow
      <4>1. base'[s] = After(reqs[t][n + 1].flow)  BY <1>2, <1>4, <1>6, <3>2, <3>4, SMTT(30)
      <4>2. n + 1 \in 1 .. Len(reqs[t]) /\ (n + 1) + 1 <= Len(reqs[t])  BY <1>2, <1>6, <3>4, SMTT(30)
      <4>3. reqs[t][(n + 1) + 1].flow = After(reqs[t][n + 1].flow)
        BY <4>2, SMTT(30) DEF IInv, RoundRobin
      <4> QED  BY <4>1, <4>3, SMTT(30)
    <3>5. ASSUME Len(reqs[t]) < n + 1
          PROVE  base[t] = reqs'[s][Len(reqs[t]) + 1].flow
      <4>1. CASE Len(reqs[t]) = n
        <5>1. base[t] = base[s]  BY <2>1, <4>1, SMTT(30) DEF IInv, Coherent
        <5>2. reqs'[s][Len(reqs[t]) + 1].flow = base[s]  BY <1>2, <1>5, <4>1, SMTT(30)
        <5> QED  BY <5>1, <5>2, SMTT(30)
      <4>2. CASE Len(reqs[t]) < n
        <5>1. base[t] = reqs[s][Len(reqs[t]) + 1].flow  BY <2>1, <4>2, SMTT(30) DEF IInv, Coherent
        <5>2. reqs'[s][Len(reqs[t]) + 1] = reqs[s][Len(reqs[t]) + 1]  BY <1>2, <1>5, <1>6, <4>2, SMTT(30)
        <5> QED  BY <5>1, <5>2, SMTT(30)
      <4> QED  BY <1>2, <1>6, <3>5, <4>1, <4>2, SMTT(30)
    <3> QED  BY <3>1, <3>3, <3>4, <3>5, SMTT(30)
  <2>2. ASSUME NEW t \in Sides, NEW u \in Sides, t # s, u # s
        PROVE  t = u
    BY <2>2, SMTT(30) DEF Sides
  <2> SUFFICES ASSUME NEW t \in Sides, NEW u \in Sides
               PROVE  /\ \A k \in 1 .. Len(reqs'[t]) :
                           k <= Len(reqs'[u]) => reqs'[t][k].flow = reqs'[u][k].flow
                      /\ Len(reqs'[t]) = Len(reqs'[u]) => base'[t] = base'[u]
                      /\ Len(reqs'[t]) < Len(reqs'[u]) => base'[t] = reqs'[u][Len(reqs'[t]) + 1].flow
    BY DEF Coherent
  <2>3. CASE t = u  BY <1>4, <1>5, <1>6, <2>3, SMTT(30)
  <2>4. CASE t = s /\ u # s  BY <1>2, <1>4, <1>5, <1>6, <2>1, <2>4, SMTT(30)
  <2>5. CASE t # s /\ u = s
    <3>1. \A k \in 1 .. Len(reqs[t]) : k <= n + 1 => k \in 1 .. n + 1  BY <1>2, <1>6
    <3> QED  BY <1>2, <1>4, <1>5, <1>6, <2>1, <2>5, <3>1, SMTT(30)
  <2> QED  BY <2>2, <2>3, <2>4, <2>5, SMTT(30)
<1>10. TransferInOrder'
  <2> SUFFICES ASSUME NEW t \in Sides, NEW k \in 1 .. Len(reqs'[t])
               PROVE  reqs'[t][k].got \in {0, k}
    BY DEF TransferInOrder
  <2>1. CASE t # s  BY Zenon, <1>4, <2>1 DEF IInv, TransferInOrder
  <2>2. CASE t = s /\ k <= n  BY <1>2, <1>5, <2>2, SMTT(30) DEF IInv, TransferInOrder
  <2>3. CASE t = s /\ k = n + 1  BY <1>5, <2>3, SMTT(30)
  <2> QED  BY <1>2, <1>5, <2>1, <2>2, <2>3, SMTT(30)
<1> QED  BY <1>7, <1>8, <1>9, <1>10, Zenon DEF IInv

(* On a flow, equal ranks mean equal positions.  The requests of the flow up *)
(* to a smaller position are a proper subset of those up to a larger one.    *)
LEMMA RankPosition ==
  ASSUME TypeOK, Coherent, NEW s \in Sides, NEW t \in Sides,
         NEW k \in 1 .. Len(reqs[s]), NEW m \in 1 .. Len(reqs[t]),
         reqs[t][m].flow = reqs[s][k].flow, m < k
  PROVE  Rank(t, m) < Rank(s, k)
<1> DEFINE A == {j \in SameFlow(t, m) : j <= m}
           B == {j \in SameFlow(s, k) : j <= k}
<1>1. Len(reqs[s]) \in Nat /\ Len(reqs[t]) \in Nat  BY LenProperties, SMTT(30) DEF TypeOK
<1>2. IsFiniteSet(B)
  <2>1. B \subseteq 1 .. Len(reqs[s])  BY DEF SameFlow
  <2>2. IsFiniteSet(1 .. Len(reqs[s]))  BY <1>1, FS_Interval, SMTT(30)
  <2> QED  BY <2>1, <2>2, FS_Subset, SMTT(30)
<1>3. A \subseteq B
  <2> SUFFICES ASSUME NEW j \in A PROVE j \in B  OBVIOUS
  <2>1. j \in 1 .. Len(reqs[t]) /\ j <= m /\ reqs[t][j].flow = reqs[t][m].flow  BY DEF SameFlow
  <2>2. j \in 1 .. Len(reqs[s]) /\ j <= k  BY <1>1, <2>1, SMTT(30)
  <2>3. reqs[s][j].flow = reqs[t][j].flow  BY <2>1, <2>2, <1>1, SMTT(30) DEF Coherent
  <2> QED  BY <2>1, <2>2, <2>3 DEF SameFlow
<1>4. k \in B /\ k \notin A  BY <1>1 DEF SameFlow
<1>5. Cardinality(A) < Cardinality(B)  BY <1>2, <1>3, <1>4, FS_Subset, FS_CardinalityType, SMTT(30)
<1> QED  BY <1>5, SMTT(30) DEF Rank

(* What happens to a request leaves its flow alone, and gives it the data of *)
(* the request at the same position.                                         *)
LEMMA StatusStep ==
  ASSUME IInv, NEW s \in Sides, NEW k \in 1 .. MaxMessages,
         Test(s, k) \/ DxsCompletes(s, k) \/ DxsOpFails(s, k)
  PROVE  IInv'
<1>1. k \in 1 .. Len(reqs[s])  BY DEF Test, DxsCompletes, DxsOpFails, Is
<1>2. reqs \in [Sides -> Seq(Requests)] /\ reqs[s] \in Seq(Requests) /\ reqs[s][k] \in Requests
  BY Zenon, <1>1, ElementOfSeq DEF IInv, TypeOK, Requests
<1>3. \E r \in Requests : /\ r.flow = reqs[s][k].flow /\ r.got \in {0, k}
                          /\ reqs' = [reqs EXCEPT ![s][k] = r]
  <2>0. reqs[s][k].got \in {0, k}  BY <1>1 DEF IInv, TransferInOrder
  <2>1. CASE Test(s, k)
    <3>1. \/ reqs' = [reqs EXCEPT ![s][k].status = "done"]
          \/ reqs' = [reqs EXCEPT ![s][k].error = TRUE]
      BY Zenon, <2>1 DEF Test
    <3>2. CASE reqs' = [reqs EXCEPT ![s][k].status = "done"]
      BY Zenon, <1>1, <1>2, <2>0, <3>2 DEF Requests
    <3>3. CASE reqs' = [reqs EXCEPT ![s][k].error = TRUE]
      BY Zenon, <1>1, <1>2, <2>0, <3>3 DEF Requests
    <3> QED  BY Zenon, <3>1, <3>2, <3>3
  <2>2. CASE DxsOpFails(s, k)
    <3>1. reqs' = [reqs EXCEPT ![s][k].status = "error"]  BY <2>2 DEF DxsOpFails
    <3> QED  BY Zenon, <1>1, <1>2, <2>0, <3>1 DEF Requests
  <2>3. CASE DxsCompletes(s, k)
    <3> DEFINE t == Peer(s)
    <3>1. t \in Sides  BY DEF Peer, Sides
    <3>2. PICK m \in 1 .. Len(reqs[t]) :
            /\ reqs[t][m].flow = reqs[s][k].flow /\ Rank(t, m) = Rank(s, k)
            /\ reqs' = [reqs EXCEPT ![s][k].status = "complete", ![s][k].got = m]
      BY Zenon, <2>3 DEF DxsCompletes
    <3>3. Rank(t, m) \in Nat
      <4>1. {j \in SameFlow(t, m) : j <= m} \subseteq 1 .. Len(reqs[t])  BY DEF SameFlow
      <4>2. Len(reqs[t]) \in Nat  BY <1>2, <3>1, LenProperties, SMTT(30)
      <4>3. IsFiniteSet(1 .. Len(reqs[t]))  BY <4>2, FS_Interval, SMTT(30)
      <4>4. IsFiniteSet({j \in SameFlow(t, m) : j <= m})  BY <4>1, <4>3, FS_Subset, SMTT(30)
      <4> QED  BY <4>4, FS_CardinalityType, SMTT(30) DEF Rank
    <3> HIDE DEF t
    <3>4. ~(m < k)  BY <1>1, <3>1, <3>2, <3>3, RankPosition, SMTT(30) DEF IInv
    <3>5. ~(k < m)  BY <1>1, <3>1, <3>2, <3>3, RankPosition, SMTT(30) DEF IInv
    <3>6. m = k  BY <3>4, <3>5, SMTT(30)
    <3> DEFINE r == [reqs[s][k] EXCEPT !.status = "complete", !.got = k]
    <3>0. k \in Nat  BY <1>1, <1>2, LenProperties, SMTT(30)
    <3>7. r \in Requests /\ r.flow = reqs[s][k].flow /\ r.got = k
      <4> DEFINE q == reqs[s][k]
      <4>1. q \in Requests  BY <1>2
      <4> HIDE DEF q
      <4>2. [q EXCEPT !.status = "complete", !.got = k] \in Requests  BY Zenon, <3>0, <4>1 DEF Requests
      <4>3. /\ [q EXCEPT !.status = "complete", !.got = k].flow = q.flow
            /\ [q EXCEPT !.status = "complete", !.got = k].got = k
        BY <4>1 DEF Requests
      <4> QED  BY <4>2, <4>3, SMTT(30) DEF q
    <3>8. reqs' = [reqs EXCEPT ![s][k] = r]  BY Zenon, <1>1, <1>2, <3>2, <3>6
    <3> QED  BY Zenon, <3>7, <3>8
  <2> QED  BY <2>1, <2>2, <2>3, SMTT(30)
<1>4. PICK r \in Requests : /\ r.flow = reqs[s][k].flow /\ r.got \in {0, k}
                           /\ reqs' = [reqs EXCEPT ![s][k] = r]
  BY Zenon, <1>3
<1>5. UNCHANGED <<connVars, base, refusals>>  BY DEF Test, DxsCompletes, DxsOpFails
<1>6. [reqs[s] EXCEPT ![k] = r] \in Seq(Requests) /\ Len([reqs[s] EXCEPT ![k] = r]) = Len(reqs[s])
  BY <1>1, <1>2, ExceptSeq, SMTT(30)
<1>7. /\ reqs' \in [Sides -> Seq(Requests)]
      /\ \A t \in Sides : Len(reqs'[t]) = Len(reqs[t])
      /\ \A t \in Sides : \A j \in 1 .. Len(reqs[t]) : reqs'[t][j].flow = reqs[t][j].flow
      /\ \A t \in Sides : \A j \in 1 .. Len(reqs[t]) : reqs'[t][j].got \in {0, j}
  <2>1. reqs' = [reqs EXCEPT ![s] = [reqs[s] EXCEPT ![k] = r]]  BY <1>2, <1>4, SMTT(30)
  <2>2. reqs' \in [Sides -> Seq(Requests)] /\ \A t \in Sides : Len(reqs'[t]) = Len(reqs[t])
    BY <1>2, <1>6, <2>1, SMTT(30)
  <2>3. \A t \in Sides \ {s} : reqs'[t] = reqs[t]  BY <1>2, <2>1, SMTT(30)
  <2>4. \A j \in 1 .. Len(reqs[s]) : reqs'[s][j] = IF j = k THEN r ELSE reqs[s][j]
    BY <1>2, <2>1, LenProperties, SMTT(30)
  <2>5. \A t \in Sides : \A j \in 1 .. Len(reqs[t]) : reqs[t][j].got \in {0, j}
    BY DEF IInv, TransferInOrder
  <2> QED  BY <1>4, <2>2, <2>3, <2>4, <2>5, SMTT(30)
<1>8. TypeOK'  BY Zenon, <1>5, <1>7 DEF IInv, TypeOK, connVars, Requests
<1>9. \A t \in Sides : Len(reqs[t]) \in Nat  BY <1>2, LenProperties, SMTT(30)
<1>10. RoundRobin'
  <2> SUFFICES ASSUME NEW t \in Sides
               PROVE  /\ \A j \in 1 .. Len(reqs[t]) :
                           j + 1 <= Len(reqs[t]) => reqs'[t][j + 1].flow = After(reqs'[t][j].flow)
                      /\ Len(reqs[t]) > 0 => base[t] = After(reqs'[t][Len(reqs[t])].flow)
    BY <1>5, <1>7, SMTT(30) DEF RoundRobin, After
  <2>1. /\ \A j \in 1 .. Len(reqs[t]) :
             j + 1 <= Len(reqs[t]) => reqs[t][j + 1].flow = After(reqs[t][j].flow)
        /\ Len(reqs[t]) > 0 => base[t] = After(reqs[t][Len(reqs[t])].flow)
    BY SMTT(30) DEF IInv, RoundRobin
  <2> QED  BY <1>7, <1>9, <2>1, SMTT(30)
<1>11. Coherent'
  <2> SUFFICES ASSUME NEW t \in Sides, NEW u \in Sides
               PROVE  /\ \A j \in 1 .. Len(reqs[t]) :
                           j <= Len(reqs[u]) => reqs'[t][j].flow = reqs'[u][j].flow
                      /\ Len(reqs[t]) = Len(reqs[u]) => base[t] = base[u]
                      /\ Len(reqs[t]) < Len(reqs[u]) => base[t] = reqs'[u][Len(reqs[t]) + 1].flow
    BY <1>5, <1>7, SMTT(30) DEF Coherent
  <2>1. /\ \A j \in 1 .. Len(reqs[t]) :
             j <= Len(reqs[u]) => reqs[t][j].flow = reqs[u][j].flow
        /\ Len(reqs[t]) = Len(reqs[u]) => base[t] = base[u]
        /\ Len(reqs[t]) < Len(reqs[u]) => base[t] = reqs[u][Len(reqs[t]) + 1].flow
    BY DEF IInv, Coherent
  <2>2. ASSUME NEW j \in 1 .. Len(reqs[t]), j <= Len(reqs[u])
        PROVE  reqs'[t][j].flow = reqs'[u][j].flow
    <3>1. j \in 1 .. Len(reqs[u])  BY <1>9, <2>2
    <3>2. reqs'[t][j].flow = reqs[t][j].flow /\ reqs'[u][j].flow = reqs[u][j].flow
      BY <1>7, <3>1, SMTT(30)
    <3> QED  BY <2>1, <2>2, <3>2
  <2>3. ASSUME Len(reqs[t]) < Len(reqs[u])
        PROVE  base[t] = reqs'[u][Len(reqs[t]) + 1].flow
    <3>1. Len(reqs[t]) + 1 \in 1 .. Len(reqs[u])  BY <1>9, <2>3, SMTT(30)
    <3>2. reqs'[u][Len(reqs[t]) + 1].flow = reqs[u][Len(reqs[t]) + 1].flow  BY <1>7, <3>1, SMTT(30)
    <3> QED  BY <2>1, <2>3, <3>2, SMTT(30)
  <2> QED  BY <2>1, <2>2, <2>3, SMTT(30)
<1>12. TransferInOrder'  BY <1>7 DEF TransferInOrder
<1> QED  BY <1>8, <1>10, <1>11, <1>12, SMTT(30) DEF IInv

-----------------------------------------------------------------------------
(* A step that touches neither the requests nor the connection. *)
LEMMA Untouched ==
  ASSUME IInv, base' = base, reqs' = reqs, UNCHANGED connVars,
         refusals' \in 0 .. MaxRefusals
  PROVE  IInv'
<1>1. TypeOK'  BY Zenon DEF IInv, TypeOK, connVars
<1>2. RoundRobin'  BY DEF IInv, RoundRobin
<1>3. Coherent'  BY DEF IInv, Coherent
<1>4. TransferInOrder'  BY Zenon DEF IInv, TransferInOrder
<1> QED  BY <1>1, <1>2, <1>3, <1>4, SMTT(30) DEF IInv

LEMMA Inductive == IInv /\ [Next]_vars => IInv'
<1> SUFFICES ASSUME IInv, [Next]_vars PROVE IInv'  OBVIOUS
<1>1. CASE \/ Listen \/ ConnectStart \/ ConnectPolls
           \/ AcceptStart \/ AcceptTakes \/ AcceptPolls
           \/ \E i \in Flows : DxsArrives(i) \/ \E s \in Sides : DxsSocket(s, i)
  BY <1>1, ConnectionStep, SMTT(30)
<1>2. ASSUME NEW s \in Sides, GetRequest(s) PROVE IInv'
  <2>1. CASE base' # base \/ reqs' # reqs  BY <1>2, <2>1, RequestStep, SMTT(30)
  <2>2. CASE base' = base /\ reqs' = reqs
    <3>1. refusals' \in 0 .. MaxRefusals /\ UNCHANGED connVars
      BY <1>2, NcclAssumption, SMTT(30) DEF GetRequest, IInv, TypeOK
    <3> QED  BY <2>2, <3>1, Untouched, SMTT(30)
  <2> QED  BY <2>1, <2>2, SMTT(30)
<1>3. CASE Isend \/ Irecv  BY <1>2, <1>3, SMTT(30) DEF Isend, Irecv, Sides
<1>4. CASE \E s \in Sides, k \in 1 .. MaxMessages :
             Test(s, k) \/ DxsCompletes(s, k) \/ DxsOpFails(s, k)
  BY <1>4, StatusStep, SMTT(30)
<1>5. CASE UNCHANGED vars
  <2>1. base' = base /\ reqs' = reqs /\ UNCHANGED connVars /\ refusals' = refusals
    BY <1>5 DEF vars, xferVars
  <2>2. refusals' \in 0 .. MaxRefusals  BY <2>1 DEF IInv, TypeOK
  <2> QED  BY <2>1, <2>2, Untouched, SMTT(30)
<1> QED  BY <1>1, <1>3, <1>4, <1>5, SMTT(30) DEF Next

LEMMA Always == Spec => []IInv
<1> QED  BY Initially, Inductive, PTL DEF Spec

(* NcclShim's state is always well typed; in particular curr_flow_group_base *)
(* never leaves 0 .. kFastrakNumFlows - 1, however many flows there are.      *)
THEOREM TypeCorrect == Spec => []TypeOK
<1>1. IInv => TypeOK  BY SMTT(30) DEF IInv
<1> QED  BY <1>1, Always, PTL

(* For every number of flows, messages and refused calls, the data of the    *)
(* n-th Isend goes to the n-th Irecv: the round robin of GetRequest keeps    *)
(* the two sides' curr_flow_group_base coherent.                             *)
THEOREM TransfersInOrder == Spec => []TransferInOrder
<1>1. IInv => TransferInOrder  BY Zenon DEF IInv
<1> QED  BY <1>1, Always, PTL
=============================================================================
