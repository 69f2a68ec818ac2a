---------------------------- MODULE DxsClientInv ----------------------------
(***************************************************************************)
(* The inductive invariant of DxsClient, and that the steps of the client  *)
(* preserve it: its API calls, Init and the failure of the control         *)
(* channel.  The handlers of messages are in DxsClientProofs.              *)
(*                                                                         *)
(* The invariant follows each object from the call that makes it over the  *)
(* command under way to DXS and back.  A data socket is opened once, and   *)
(* whoever uses it comes after the command that opens it.  A listening     *)
(* socket is acknowledged once, before its connections are announced; from *)
(* then on each connection is at one place.  The counting of messages      *)
(* rests on CountFacts, which DxsClientProofs discharges.                  *)
(***************************************************************************)
EXTENDS DxsClient, Integers, TLAPS

USE Zenon

DxsType ==
  [listening : SUBSET Listens, sockets : [Socks -> {"none", "connected", "error"}],
   taken : SUBSET Ops, completed : SUBSET Ops, waiting : [Listens -> Int], connections : Nat]

(* Only the commands of the data path go over LLCM, and only with LLCM. *)
FastInv ==
  /\ \A i \in 1 .. Len(fastOut) : fastOut[i][1] \in FastCommands
  /\ \A i \in 1 .. Len(fastIn) : fastIn[i][1] \in {"OpAck", "Pong"}
  /\ ~llcm => fastOut = <<>>

(* Before Init has returned OK there is no call and no socket. *)
PhaseInv ==
  /\ phase \in {"ready", "shutdown"} => initialized
  /\ phase \in {"init", "error"} =>
       /\ \A t \in Threads : call[t] = Idle
       /\ nextSock = 1 /\ fastOut = <<>>
       /\ \A i \in 1 .. Len(slowOut) : slowOut[i][1] \in {"Init", "InitLlcm"}

(* An acknowledgement on its way is about an operation DXS has completed. *)
RealAcks ==
  \A chan \in {slowIn, fastIn} : \A i \in 1 .. Len(chan) :
    chan[i][1] = "OpAck" /\ chan[i][3] = "complete" => chan[i][2] \in dxs.completed

Opens(m, h) == m[1] \in {"Connect", "Accept"} /\ m[2] = h
Uses(m, h) == m[1] \in {"Send", "Recv"} /\ m[2] = h

(* A data socket is opened once: by a call, then by a command under way,   *)
(* then in DXS, whose acknowledgement says what became of it.              *)
OpenInv ==
  \A h \in Socks :
    /\ h >= nextSock => socks[h].status = "none" /\ dxs.sockets[h] = "none"
    /\ \A t \in Threads : Opens(call[t], h) =>
         /\ h < nextSock /\ dxs.sockets[h] = "none"
         /\ \A u \in Threads : Opens(call[u], h) => u = t
         /\ \A i \in 1 .. Len(slowOut) : ~Opens(slowOut[i], h)
    /\ \A i \in 1 .. Len(slowOut) : Opens(slowOut[i], h) =>
         /\ h < nextSock /\ dxs.sockets[h] = "none"
         /\ \A j \in 1 .. Len(slowOut) : Opens(slowOut[j], h) => j = i
    /\ \A i \in 1 .. Len(slowIn) : slowIn[i][1] \in {"ConnectAck", "AcceptAck"} /\ slowIn[i][2] = h =>
         slowIn[i][3] = dxs.sockets[h]

(* With AcceptAck, whoever uses a socket has been told that it is open. *)
SockInv ==
  \A h \in Socks : serverVersion >= kAcceptAckVersion =>
    /\ socks[h].status = "connected" => dxs.sockets[h] = "connected"
    /\ \A t \in Threads : Uses(call[t], h) => dxs.sockets[h] = "connected"
    /\ \A i \in 1 .. Len(slowOut) : Uses(slowOut[i], h) => dxs.sockets[h] = "connected"
    /\ \A i \in 1 .. Len(fastOut) : Uses(fastOut[i], h) => dxs.sockets[h] = "connected"

(* Without it and without LLCM, the command that opens a socket is ahead   *)
(* of those that use it.                                                   *)
KnownBefore(h, n) == dxs.sockets[h] # "none" \/ \E j \in 1 .. n : Opens(slowOut[j], h)

OrderInv ==
  \A h \in Socks : ~llcm =>
    /\ link = "up" /\ socks[h].status = "connected" =>
         KnownBefore(h, Len(slowOut)) \/ \E t \in Threads : Opens(call[t], h)
    /\ link = "up" => \A t \in Threads : Uses(call[t], h) => KnownBefore(h, Len(slowOut))
    /\ \A i \in 1 .. Len(slowOut) : Uses(slowOut[i], h) => KnownBefore(h, i - 1)

Acks(m, l) == m[1] = "ListenAck" /\ m[2] = l
Accepts(m, l) == m[1] \in {"Popped", "Accept"} /\ m[3] = l

(* A listening socket is used only once its number is given away. *)
ListenBound ==
  \A l \in Listens : l >= nextListen =>
    /\ listens[l].status = "none" /\ listens[l].connections = 0
    /\ l \notin dxs.listening /\ dxs.waiting[l] = 0
    /\ \A t \in Threads : call[t] # <<"Listen", l>> /\ ~Accepts(call[t], l)
    /\ \A i \in 1 .. Len(slowOut) : slowOut[i] # <<"Listen", l>> /\ ~Accepts(slowOut[i], l)
    /\ \A i \in 1 .. Len(slowIn) : ~Acks(slowIn[i], l) /\ slowIn[i] # <<"Incoming", l>>

(* Listen is called, sent and acknowledged once. *)
Unanswered(l) == link = "up" => listens[l].status \in {"none", "pending"}

ListenOnce ==
  \A l \in Listens :
    /\ \A t \in Threads : call[t] = <<"Listen", l>> =>
         /\ Unanswered(l)
         /\ \A u \in Threads : call[u] = <<"Listen", l>> => u = t
         /\ \A i \in 1 .. Len(slowOut) : slowOut[i] # <<"Listen", l>>
         /\ \A i \in 1 .. Len(slowIn) : ~Acks(slowIn[i], l)
    /\ \A i \in 1 .. Len(slowOut) : slowOut[i] = <<"Listen", l>> =>
         /\ Unanswered(l)
         /\ \A j \in 1 .. Len(slowOut) : slowOut[j] = <<"Listen", l>> => j = i
         /\ \A j \in 1 .. Len(slowIn) : ~Acks(slowIn[j], l)
    /\ \A i \in 1 .. Len(slowIn) : Acks(slowIn[i], l) =>
         /\ Unanswered(l)
         /\ \A j \in 1 .. Len(slowIn) : Acks(slowIn[j], l) => j = i

(* Until it is ready nothing is accepted from it, and no connection is     *)
(* announced ahead of the acknowledgement.                                 *)
ReadyBefore(l, n) == \E j \in 1 .. n : slowIn[j] = <<"ListenAck", l, "ready">>

PendingInv ==
  \A l \in Listens : link = "up" /\ listens[l].status = "pending" =>
    /\ listens[l].connections = 0
    /\ \A t \in Threads : ~Accepts(call[t], l)
    /\ \A i \in 1 .. Len(slowOut) : ~Accepts(slowOut[i], l)
    /\ \A i \in 1 .. Len(slowIn) : slowIn[i] = <<"Incoming", l>> => ReadyBefore(l, i - 1)
    /\ l \in dxs.listening => ReadyBefore(l, Len(slowIn))

(* Connections are conserved from the call of Listen on. *)
Count(s, S) == Cardinality({i \in 1 .. Len(s) : s[i] \in S})
IncomingTo(l) == {<<"Incoming", l>>}
AcceptsOf(l) == {m \in Commands : Accepts(m, l)}
Accepting(l) == {t \in Threads : Accepts(call[t], l)}

CountInv ==
  \A l \in Listens : link = "up" /\ listens[l].status \in {"pending", "ready"} =>
     dxs.waiting[l] = listens[l].connections + Count(slowIn, IncomingTo(l))
                         + Cardinality(Accepting(l)) + Count(slowOut, AcceptsOf(l))

Typed == TypeOK /\ dxs \in DxsType
SocketsInv == OpenInv /\ SockInv /\ OrderInv
ListensInv == ListenBound /\ ListenOnce /\ PendingInv /\ CountInv

IInv == /\ Typed /\ FastInv /\ PhaseInv
        /\ RealAcks /\ ResultsAreReal /\ NothingPendingAfterFailure
        /\ SocketsInv /\ ListensInv

-----------------------------------------------------------------------------
(* Messages *)

(* What is in a command. *)
LEMMA CommandKinds ==
  ASSUME NEW m \in Commands
  PROVE  /\ m[1] \in {"Init", "InitLlcm", "Listen", "CloseListen", "Connect", "Close", "Accept",
                      "Send", "Recv", "Ping"}
         /\ m[1] \in {"Listen", "CloseListen"} => m = <<m[1], m[2]>> /\ m[2] \in Listens
         /\ m[1] \in {"Connect", "Close"} => m = <<m[1], m[2]>> /\ m[2] \in Socks
         /\ m[1] = "Accept" => m = <<m[1], m[2], m[3]>> /\ m[2] \in Socks /\ m[3] \in Listens
         /\ m[1] \in {"Send", "Recv"} => m = <<m[1], m[2], m[3]>> /\ m[2] \in Socks /\ m[3] \in Ops
         /\ m[1] = "Ping" => m = <<m[1], m[2]>> /\ m[2] \in Pings
<1> QED  BY SMTT(30) DEF Commands

LEMMA CommandsMade ==
  /\ \A l \in Listens : <<"Listen", l>> \in Commands /\ <<"CloseListen", l>> \in Commands
  /\ \A h \in Socks : <<"Connect", h>> \in Commands /\ <<"Close", h>> \in Commands
  /\ \A h \in Socks, l \in Listens : <<"Accept", h, l>> \in Commands
  /\ \A h \in Socks, o \in Ops : <<"Send", h, o>> \in Commands /\ <<"Recv", h, o>> \in Commands
  /\ \A k \in Pings : <<"Ping", k>> \in Commands
  /\ <<"Init">> \in Commands /\ <<"InitLlcm">> \in Commands
<1> QED  BY SMTT(30) DEF Commands

(* What is in an answer. *)
LEMMA ReplyKinds ==
  ASSUME NEW m \in Replies
  PROVE  /\ m[1] \in {"InitAck", "InitLlcmAck", "ListenAck", "Incoming", "ConnectAck", "AcceptAck",
                      "OpAck", "Pong"}
         /\ m[1] = "InitAck" => m[2] \in ServerVersions /\ m[3] \in BOOLEAN
         /\ m[1] = "InitLlcmAck" => m[2] \in BOOLEAN
         /\ m[1] = "ListenAck" => m = <<m[1], m[2], m[3]>> /\ m[2] \in Listens /\ m[3] \in {"ready", "error"}
         /\ m[1] = "Incoming" => m = <<m[1], m[2]>> /\ m[2] \in Listens
         /\ m[1] \in {"ConnectAck", "AcceptAck"} => m[2] \in Socks /\ m[3] \in {"connected", "error"}
         /\ m[1] = "OpAck" => m[2] \in Ops /\ m[3] \in {"complete", "error"}
         /\ m[1] = "Pong" => m[2] \in Pings
<1> QED  BY SMTT(30) DEF Replies, InitAcks

LEMMA AnswerKinds ==
  ASSUME NEW m \in Commands, NEW a \in Answers(m)
  PROVE  /\ m[1] = "Init" => a[1] = "InitAck" /\ a \in Replies
         /\ m[1] = "InitLlcm" => a[1] = "InitLlcmAck" /\ a \in Replies
         /\ m[1] = "Listen" => a = <<"ListenAck", m[2], a[3]>> /\ a[3] \in {"ready", "error"} /\ a \in Replies
         /\ m[1] = "Connect" => a = <<"ConnectAck", m[2], a[3]>> /\ a[3] \in {"connected", "error"} /\ a \in Replies
         /\ m[1] = "Accept" => a = <<"AcceptAck", m[2], a[3]>> /\ a[3] \in {"connected", "error"} /\ a \in Replies
         /\ m[1] = "Ping" => a = <<"Pong", m[2]>> /\ a \in Replies
         /\ ~Silent(m) => a \in Replies
<1>1. ASSUME m[1] = "Init" PROVE a[1] = "InitAck" /\ a \in Replies
  <2>1. Answers(m) = InitAcks  BY <1>1 DEF Answers
  <2> QED  BY <2>1, SMTT(30) DEF InitAcks, Replies
<1>2. ASSUME m[1] = "InitLlcm" PROVE a[1] = "InitLlcmAck" /\ a \in Replies
  <2>1. Answers(m) = {<<"InitLlcmAck", ok>> : ok \in BOOLEAN}  BY <1>2 DEF Answers
  <2> QED  BY <2>1, SMTT(30) DEF Replies
<1>3. ASSUME m[1] = "Listen"
      PROVE  a = <<"ListenAck", m[2], a[3]>> /\ a[3] \in {"ready", "error"} /\ a \in Replies
  <2>1. Answers(m) = {<<"ListenAck", m[2], s>> : s \in {"ready", "error"}}  BY <1>3 DEF Answers
  <2>2. m[2] \in Listens  BY <1>3, CommandKinds, SMTT(30)
  <2> QED  BY <2>1, <2>2, SMTT(30) DEF Replies
<1>4. ASSUME m[1] = "Connect"
      PROVE  a = <<"ConnectAck", m[2], a[3]>> /\ a[3] \in {"connected", "error"} /\ a \in Replies
  <2>1. Answers(m) = {<<"ConnectAck", m[2], s>> : s \in {"connected", "error"}}  BY <1>4 DEF Answers
  <2>2. m[2] \in Socks  BY <1>4, CommandKinds, SMTT(30)
  <2> QED  BY <2>1, <2>2, SMTT(30) DEF Replies
<1>5. ASSUME m[1] = "Accept"
      PROVE  a = <<"AcceptAck", m[2], a[3]>> /\ a[3] \in {"connected", "error"} /\ a \in Replies
  <2>1. Answers(m) = {<<"AcceptAck", m[2], s>> : s \in {"connected", "error"}}  BY <1>5 DEF Answers
  <2>2. m[2] \in Socks  BY <1>5, CommandKinds, SMTT(30)
  <2> QED  BY <2>1, <2>2, SMTT(30) DEF Replies
<1>6. ASSUME m[1] = "Ping" PROVE a = <<"Pong", m[2]>> /\ a \in Replies
  <2>1. Answers(m) = {<<"Pong", m[2]>>}  BY <1>6 DEF Answers
  <2>2. m[2] \in Pings  BY <1>6, CommandKinds, SMTT(30)
  <2> QED  BY <2>1, <2>2, SMTT(30) DEF Replies
<1>7. ~Silent(m) => m[1] \in {"Init", "InitLlcm", "Listen", "Connect", "Accept", "Ping"}
  BY CommandKinds, SMTT(30) DEF Silent
<1> QED  BY <1>1, <1>2, <1>3, <1>4, <1>5, <1>6, <1>7, SMTT(30)

LEMMA RepliesMade ==
  /\ \A o \in Ops : <<"OpAck", o, "complete">> \in Replies /\ <<"OpAck", o, "error">> \in Replies
  /\ \A l \in Listens : <<"Incoming", l>> \in Replies
<1> QED  BY SMTT(30) DEF Replies

(* What DXS keeps of a command. *)
LEMMA Served ==
  ASSUME dxs \in DxsType, NEW m \in Commands, NEW a \in Answers(m), dxs' = Serve(m, a)
  PROVE  /\ dxs' \in DxsType
         /\ dxs'.sockets = IF m[1] \in {"Connect", "Accept"} THEN [dxs.sockets EXCEPT ![m[2]] = a[3]]
                           ELSE dxs.sockets
         /\ dxs'.waiting = IF m[1] = "Accept" THEN [dxs.waiting EXCEPT ![m[3]] = @ - 1] ELSE dxs.waiting
         /\ dxs'.listening = IF m[1] = "Listen" /\ a[3] = "ready" THEN dxs.listening \cup {m[2]}
                             ELSE IF m[1] = "CloseListen" THEN dxs.listening \ {m[2]} ELSE dxs.listening
         /\ dxs'.completed = dxs.completed
<1>1. CASE m[1] = "Listen" /\ a[3] = "ready"
  <2>1. dxs' = [dxs EXCEPT !.listening = @ \cup {m[2]}]  BY <1>1 DEF Serve
  <2>2. dxs.listening \cup {m[2]} \in SUBSET Listens  BY <1>1, CommandKinds, SMTT(30) DEF DxsType
  <2>3. /\ dxs'.listening = dxs.listening \cup {m[2]}
        /\ dxs'.sockets = dxs.sockets /\ dxs'.waiting = dxs.waiting /\ dxs'.completed = dxs.completed
    BY <2>1 DEF DxsType
  <2>4. dxs' \in DxsType  BY <2>1, <2>2 DEF DxsType
  <2> QED  BY <1>1, <2>3, <2>4, SMTT(30)
<1>2. CASE m[1] = "CloseListen"
  <2>1. dxs' = [dxs EXCEPT !.listening = @ \ {m[2]}]  BY <1>2 DEF Serve
  <2>3. /\ dxs'.listening = dxs.listening \ {m[2]}
        /\ dxs'.sockets = dxs.sockets /\ dxs'.waiting = dxs.waiting /\ dxs'.completed = dxs.completed
    BY <2>1 DEF DxsType
  <2>4. dxs' \in DxsType  BY <2>1 DEF DxsType
  <2> QED  BY <1>2, <2>3, <2>4, SMTT(30)
<1>3. CASE m[1] = "Connect"
  <2>1. dxs' = [dxs EXCEPT !.sockets[m[2]] = a[3]]  BY <1>3 DEF Serve
  <2>5. m[2] \in Socks /\ a[3] \in {"connected", "error"}  BY <1>3, CommandKinds, AnswerKinds, SMTT(30)
  <2>2. [dxs.sockets EXCEPT ![m[2]] = a[3]] \in [Socks -> {"none", "connected", "error"}]
    BY <2>5, SMTT(30) DEF DxsType
  <2>3. /\ dxs'.sockets = [dxs.sockets EXCEPT ![m[2]] = a[3]]
        /\ dxs'.listening = dxs.listening /\ dxs'.waiting = dxs.waiting /\ dxs'.completed = dxs.completed
    BY <2>1 DEF DxsType
  <2>4. dxs' \in DxsType  BY <2>1, <2>2 DEF DxsType
  <2> QED  BY <1>3, <2>3, <2>4, SMTT(30)
<1>4. CASE m[1] = "Accept"
  <2>1. dxs' = [dxs EXCEPT !.sockets[m[2]] = a[3], !.waiting[m[3]] = @ - 1]  BY <1>4 DEF Serve
  <2>5. m[2] \in Socks /\ m[3] \in Listens /\ a[3] \in {"connected", "error"}
    BY <1>4, CommandKinds, AnswerKinds, SMTT(30)
  <2>2. [dxs.sockets EXCEPT ![m[2]] = a[3]] \in [Socks -> {"none", "connected", "error"}]
    BY <2>5, SMTT(30) DEF DxsType
  <2>6. [dxs.waiting EXCEPT ![m[3]] = @ - 1] \in [Listens -> Int]  BY <2>5, SMTT(30) DEF DxsType
  <2>3. /\ dxs'.sockets = [dxs.sockets EXCEPT ![m[2]] = a[3]] /\ dxs'.waiting = [dxs.waiting EXCEPT ![m[3]] = @ - 1]
        /\ dxs'.listening = dxs.listening /\ dxs'.completed = dxs.completed
    BY <2>1 DEF DxsType
  <2>4. dxs' \in DxsType  BY <2>1, <2>2, <2>6 DEF DxsType
  <2> QED  BY <1>4, <2>3, <2>4, SMTT(30)
<1>5. CASE m[1] \in {"Send", "Recv"}
  <2>1. dxs' = [dxs EXCEPT !.taken = @ \cup {m[3]}]  BY <1>5 DEF Serve
  <2>2. dxs.taken \cup {m[3]} \in SUBSET Ops  BY <1>5, CommandKinds, SMTT(30) DEF DxsType
  <2>3. /\ dxs'.listening = dxs.listening /\ dxs'.sockets = dxs.sockets /\ dxs'.waiting = dxs.waiting /\ dxs'.completed = dxs.completed
    BY <2>1 DEF DxsType
  <2>4. dxs' \in DxsType  BY <2>1, <2>2 DEF DxsType
  <2> QED  BY <1>5, <2>3, <2>4, SMTT(30)
<1>6. CASE m[1] \notin {"Listen", "CloseListen", "Connect", "Accept", "Send", "Recv"}
           \/ (m[1] = "Listen" /\ a[3] # "ready")
  <2>1. dxs' = dxs  BY <1>6 DEF Serve
  <2> QED  BY <1>6, <2>1, SMTT(30)
<1> QED  BY <1>1, <1>2, <1>3, <1>4, <1>5, <1>6
-----------------------------------------------------------------------------
(* Sequences *)

LEMMA Appended ==
  ASSUME NEW S, NEW s \in Seq(S), NEW m \in S
  PROVE  /\ Append(s, m) \in Seq(S) /\ Len(s) \in Nat /\ Len(Append(s, m)) = Len(s) + 1
         /\ Append(s, m)[Len(s) + 1] = m /\ \A i \in 1 .. Len(s) : Append(s, m)[i] = s[i]
<1> QED  BY SMTT(30)

LEMMA Dropped ==
  ASSUME NEW S, NEW s \in Seq(S), s # <<>>
  PROVE  /\ Tail(s) \in Seq(S) /\ Len(s) \in Nat /\ Len(s) > 0 /\ Len(Tail(s)) = Len(s) - 1
         /\ Head(s) = s[1] /\ Head(s) \in S
         /\ \A i \in 1 .. Len(s) - 1 : Tail(s)[i] = s[i + 1]
<1> QED  BY SMTT(30)

LEMMA Cut ==
  ASSUME NEW S, NEW s \in Seq(S), NEW n \in 0 .. Len(s)
  PROVE  /\ SubSeq(s, 1, n) \in Seq(S) /\ Len(s) \in Nat /\ Len(SubSeq(s, 1, n)) = n
         /\ \A i \in 1 .. n : SubSeq(s, 1, n)[i] = s[i]
<1> QED  BY SMTT(30)

LEMMA Elements ==
  ASSUME NEW S, NEW s \in Seq(S)
  PROVE  Len(s) \in Nat /\ \A i \in 1 .. Len(s) : s[i] \in S
<1> QED  BY SMTT(30)

(* A channel with one more message, or without its first one. *)
Longer(r, s, m, S) ==
  /\ r \in Seq(S) /\ Len(s) \in Nat /\ Len(r) = Len(s) + 1 /\ Len(r) \in 1 .. Len(r) /\ r[Len(r)] = m
  /\ \A i \in 1 .. Len(s) : i \in 1 .. Len(r) /\ r[i] = s[i]
  /\ \A i \in 1 .. Len(r) : (i \in 1 .. Len(s) /\ r[i] = s[i]) \/ (i = Len(r) /\ r[i] = m)

Shorter(r, s, S) ==
  /\ r \in Seq(S) /\ Len(s) \in Nat /\ Len(r) \in Nat /\ Len(s) = Len(r) + 1
  /\ 1 \in 1 .. Len(s) /\ Head(s) = s[1] /\ Head(s) \in S
  /\ \A i \in 1 .. Len(r) : i \in Nat /\ i + 1 \in 1 .. Len(s) /\ r[i] = s[i + 1]
  /\ \A i \in 1 .. Len(s) : i = 1 \/ (i - 1 \in 1 .. Len(r) /\ r[i - 1] = s[i])

LEMMA AppendedAt ==
  ASSUME NEW S, NEW s \in Seq(S), NEW m \in S
  PROVE  Longer(Append(s, m), s, m, S)
<1> QED  BY Appended, SMTT(30) DEF Longer

LEMMA DroppedAt ==
  ASSUME NEW S, NEW s \in Seq(S), s # <<>>
  PROVE  Shorter(Tail(s), s, S)
<1>1. /\ Tail(s) \in Seq(S) /\ Len(s) \in Nat /\ Len(s) > 0 /\ Len(Tail(s)) = Len(s) - 1
      /\ Head(s) = s[1] /\ Head(s) \in S
      /\ \A i \in 1 .. Len(s) - 1 : Tail(s)[i] = s[i + 1]
  BY Dropped, SMTT(30)
<1>2. ASSUME NEW i \in 1 .. Len(Tail(s))
      PROVE  i \in Nat /\ i + 1 \in 1 .. Len(s) /\ Tail(s)[i] = s[i + 1]
  BY <1>1, SMTT(30)
<1>3. ASSUME NEW i \in 1 .. Len(s), i # 1
      PROVE  i - 1 \in 1 .. Len(Tail(s)) /\ Tail(s)[i - 1] = s[i]
  <2>1. i - 1 \in 1 .. Len(s) - 1 /\ (i - 1) + 1 = i  BY <1>1, <1>3, SMTT(30)
  <2>2. Tail(s)[i - 1] = s[(i - 1) + 1]  BY <1>1, <2>1
  <2> QED  BY <1>1, <2>1, <2>2
<1>4. Len(Tail(s)) \in Nat /\ Len(s) = Len(Tail(s)) + 1 /\ 1 \in 1 .. Len(s)  BY <1>1, SMTT(30)
<1> QED  BY <1>1, <1>2, <1>3, <1>4 DEF Shorter

(* The messages of s are among those of r, or of other kinds than K. *)
From(s, r, K) ==
  \A i \in 1 .. Len(s) : s[i][1] \notin K \/ \E j \in 1 .. Len(r) : s[i] = r[j]

LEMMA FromSame ==
  ASSUME NEW r, NEW K
  PROVE  From(r, r, K)
<1> QED  BY DEF From

LEMMA FromAppend ==
  ASSUME NEW S, NEW r \in Seq(S), NEW K, NEW m \in S, m[1] \notin K
  PROVE  From(Append(r, m), r, K)
<1> QED  BY Appended, SMTT(30) DEF From

LEMMA FromTail ==
  ASSUME NEW S, NEW r \in Seq(S), NEW K, r # <<>>
  PROVE  From(Tail(r), r, K)
<1> QED  BY Dropped, SMTT(30) DEF From

LEMMA FromCut ==
  ASSUME NEW S, NEW r \in Seq(S), NEW K, NEW n \in 0 .. Len(r)
  PROVE  From(SubSeq(r, 1, n), r, K)
<1> QED  BY Cut, SMTT(30) DEF From

-----------------------------------------------------------------------------
(* Entries of the tables *)

ListenType == [status : {"none", "pending", "ready", "error"}, connections : Nat]
SockType == [dir : {"none", "send", "recv"}, status : {"none", "pending", "connected", "error"}]

LEMMA NoEntries ==
  /\ NoListen \in ListenType /\ NoListen.status = "none" /\ NoListen.connections = 0
  /\ NoSock \in SockType /\ NoSock.status = "none"
<1> QED  BY SMTT(30) DEF NoListen, NoSock, ListenType, SockType

LEMMA ListenSet ==
  ASSUME NEW x \in ListenType, NEW v \in {"none", "pending", "ready", "error"}
  PROVE  /\ [x EXCEPT !.status = v] \in ListenType /\ [x EXCEPT !.status = v].status = v
         /\ [x EXCEPT !.status = v].connections = x.connections
<1> QED  BY DEF ListenType

LEMMA ListenCount ==
  ASSUME NEW x \in ListenType, NEW n \in Nat
  PROVE  /\ [x EXCEPT !.connections = n] \in ListenType /\ [x EXCEPT !.connections = n].connections = n
         /\ [x EXCEPT !.connections = n].status = x.status
<1> QED  BY DEF ListenType

LEMMA SockSet ==
  ASSUME NEW x \in SockType, NEW v \in {"none", "pending", "connected", "error"}
  PROVE  [x EXCEPT !.status = v] \in SockType /\ [x EXCEPT !.status = v].status = v
<1> QED  BY DEF SockType

-----------------------------------------------------------------------------
(* What leaves the parts of the invariant alone *)

(* No result is made up. *)
KeepsResults ==
  /\ \A o \in Ops : ops'[o] = "complete" => ops[o] = "complete"
  /\ dxs'.completed = dxs.completed
  /\ From(slowIn', slowIn, {"OpAck"}) /\ From(fastIn', fastIn, {"OpAck"})

LEMMA ResultsKept ==
  ASSUME RealAcks, ResultsAreReal, KeepsResults
  PROVE  RealAcks' /\ ResultsAreReal'
<1>1. ResultsAreReal'  BY DEF ResultsAreReal, KeepsResults
<1>2. ASSUME NEW i \in 1 .. Len(slowIn'), slowIn'[i][1] = "OpAck", slowIn'[i][3] = "complete"
      PROVE  slowIn'[i][2] \in dxs'.completed
  <2>1. PICK j \in 1 .. Len(slowIn) : slowIn'[i] = slowIn[j]  BY <1>2 DEF KeepsResults, From
  <2> QED  BY <1>2, <2>1 DEF RealAcks, KeepsResults
<1>3. ASSUME NEW i \in 1 .. Len(fastIn'), fastIn'[i][1] = "OpAck", fastIn'[i][3] = "complete"
      PROVE  fastIn'[i][2] \in dxs'.completed
  <2>1. PICK j \in 1 .. Len(fastIn) : fastIn'[i] = fastIn[j]  BY <1>3 DEF KeepsResults, From
  <2> QED  BY <1>3, <2>1 DEF RealAcks, KeepsResults
<1> QED  BY <1>1, <1>2, <1>3 DEF RealAcks

(* Nothing new is pending once the failure was reported. *)
ObjectKinds == {"Listen", "Connect", "Popped", "Accept", "Send", "Recv"}

KeepsPending ==
  /\ llcm' = llcm /\ (link' = "failed" => link = "failed")
  /\ \A l \in Listens : listens'[l].status = "pending" => listens[l].status = "pending"
  /\ \A h \in Socks : socks'[h].status = "pending" => socks[h].status = "pending"
  /\ \A o \in Ops : ops'[o] = "pending" => ops[o] = "pending"
  /\ \A t \in Threads : call'[t] = call[t] \/ call[t][1] \notin ObjectKinds

LEMMA PendingKept ==
  ASSUME NothingPendingAfterFailure, KeepsPending
  PROVE  NothingPendingAfterFailure'
<1> SUFFICES ASSUME link' = "failed"
             PROVE  /\ \A l \in Listens : listens'[l].status = "pending" =>
                         \E t \in Threads : call'[t] = <<"Listen", l>>
                    /\ \A h \in Socks : socks'[h].status = "pending" =>
                         \E t \in Threads : call'[t][1] \in {"Connect", "Accept"} /\ call'[t][2] = h
                    /\ ~llcm' => \A o \in Ops : ops'[o] = "pending" =>
                         \E t \in Threads : call'[t][1] \in {"Send", "Recv"} /\ call'[t][3] = o
  BY DEF NothingPendingAfterFailure
<1>1. ASSUME NEW l \in Listens, listens'[l].status = "pending"
      PROVE  \E t \in Threads : call'[t] = <<"Listen", l>>
  <2>1. PICK t \in Threads : call[t] = <<"Listen", l>>
    BY <1>1 DEF NothingPendingAfterFailure, KeepsPending
  <2>2. call[t][1] = "Listen"  BY <2>1, SMTT(30)
  <2> QED  BY <2>1, <2>2 DEF KeepsPending, ObjectKinds
<1>2. ASSUME NEW h \in Socks, socks'[h].status = "pending"
      PROVE  \E t \in Threads : call'[t][1] \in {"Connect", "Accept"} /\ call'[t][2] = h
  <2>1. PICK t \in Threads : call[t][1] \in {"Connect", "Accept"} /\ call[t][2] = h
    BY <1>2 DEF NothingPendingAfterFailure, KeepsPending
  <2>2. call[t][1] \in ObjectKinds  BY <2>1, SMTT(30) DEF ObjectKinds
  <2> QED  BY <2>1, <2>2 DEF KeepsPending
<1>3. ASSUME ~llcm', NEW o \in Ops, ops'[o] = "pending"
      PROVE  \E t \in Threads : call'[t][1] \in {"Send", "Recv"} /\ call'[t][3] = o
  <2>1. PICK t \in Threads : call[t][1] \in {"Send", "Recv"} /\ call[t][3] = o
    BY <1>3 DEF NothingPendingAfterFailure, KeepsPending
  <2>2. call[t][1] \in ObjectKinds  BY <2>1, SMTT(30) DEF ObjectKinds
  <2> QED  BY <2>1, <2>2 DEF KeepsPending
<1> QED  BY <1>1, <1>2, <1>3

(* No data socket is opened, used or acknowledged. *)
OpenKinds == {"Connect", "Accept"}
UseKinds == {"Send", "Recv"}
AckKinds == {"ConnectAck", "AcceptAck"}

SentFast ==
  \A i \in 1 .. Len(fastOut') :
    (\E j \in 1 .. Len(fastOut) : fastOut'[i] = fastOut[j]) \/ \E t \in Threads : fastOut'[i] = call[t]

KeepsSockets ==
  /\ llcm' = llcm /\ serverVersion' = serverVersion /\ nextSock' = nextSock
  /\ dxs'.sockets = dxs.sockets /\ (link' = "up" => link = "up")
  /\ \A h \in Socks : socks'[h].status # socks[h].status =>
       socks[h].status # "none" /\ socks'[h].status # "connected"
  /\ \A t \in Threads : call'[t] # call[t] =>
       /\ call'[t][1] \notin OpenKinds \cup UseKinds
       /\ call[t][1] \notin OpenKinds \/ link' # "up"
  /\ slowOut' = slowOut \/ (slowOut' = <<>> /\ link' # "up")
  /\ From(fastOut', fastOut, UseKinds) \/ SentFast
  /\ From(slowIn', slowIn, AckKinds)

LEMMA SocketsKept ==
  ASSUME SocketsInv, KeepsSockets
  PROVE  SocketsInv'
<1>1. \A t \in Threads : \A h : Opens(call'[t], h) => Opens(call[t], h)
  BY DEF KeepsSockets, Opens, OpenKinds
<1>2. \A t \in Threads : \A h : Uses(call'[t], h) => Uses(call[t], h)
  BY DEF KeepsSockets, Uses, UseKinds
<1>3. \A t \in Threads : \A h : link' = "up" /\ Opens(call[t], h) => Opens(call'[t], h)
  BY DEF KeepsSockets, Opens, OpenKinds
<1>4. slowOut' = slowOut \/ (Len(slowOut') = 0 /\ link' # "up")
  BY SMTT(30) DEF KeepsSockets
<1>5. 1 .. 0 = {}  BY SMTT(30)
<1>6. OpenInv'
  <2>1. nextSock' = nextSock /\ dxs'.sockets = dxs.sockets  BY DEF KeepsSockets
  <2>2. ASSUME NEW h \in Socks, h >= nextSock  PROVE  socks'[h].status = "none" /\ dxs.sockets[h] = "none"
    BY <2>2 DEF SocketsInv, OpenInv, KeepsSockets
  <2>3. ASSUME NEW h \in Socks, NEW t \in Threads, Opens(call'[t], h)
        PROVE  /\ h < nextSock /\ dxs.sockets[h] = "none"
               /\ \A u \in Threads : Opens(call'[u], h) => u = t
               /\ \A i \in 1 .. Len(slowOut') : ~Opens(slowOut'[i], h)
    BY <1>1, <1>4, <1>5, <2>3 DEF SocketsInv, OpenInv
  <2>4. ASSUME NEW h \in Socks, NEW i \in 1 .. Len(slowOut'), Opens(slowOut'[i], h)
        PROVE  /\ h < nextSock /\ dxs.sockets[h] = "none"
               /\ \A j \in 1 .. Len(slowOut') : Opens(slowOut'[j], h) => j = i
    BY <1>4, <1>5, <2>4 DEF SocketsInv, OpenInv
  <2>5. ASSUME NEW h \in Socks, NEW i \in 1 .. Len(slowIn'), slowIn'[i][1] \in {"ConnectAck", "AcceptAck"},
               slowIn'[i][2] = h
        PROVE  slowIn'[i][3] = dxs.sockets[h]
    <3>1. PICK j \in 1 .. Len(slowIn) : slowIn'[i] = slowIn[j]  BY <2>5 DEF KeepsSockets, From, AckKinds
    <3>2. slowIn[j][1] \in {"ConnectAck", "AcceptAck"} /\ slowIn[j][2] = h  BY <2>5, <3>1
    <3>3. slowIn[j][3] = dxs.sockets[h]  BY <3>2 DEF SocketsInv, OpenInv
    <3> QED  BY <3>1, <3>3
  <2>6. ASSUME NEW h \in Socks
        PROVE  /\ h >= nextSock' => socks'[h].status = "none" /\ dxs'.sockets[h] = "none"
               /\ \A t \in Threads : Opens(call'[t], h) =>
                    /\ h < nextSock' /\ dxs'.sockets[h] = "none"
                    /\ \A u \in Threads : Opens(call'[u], h) => u = t
                    /\ \A i \in 1 .. Len(slowOut') : ~Opens(slowOut'[i], h)
    BY <2>1, <2>2, <2>3
  <2>7. ASSUME NEW h \in Socks
        PROVE  /\ \A i \in 1 .. Len(slowOut') : Opens(slowOut'[i], h) =>
                    /\ h < nextSock' /\ dxs'.sockets[h] = "none"
                    /\ \A j \in 1 .. Len(slowOut') : Opens(slowOut'[j], h) => j = i
               /\ \A i \in 1 .. Len(slowIn') : slowIn'[i][1] \in {"ConnectAck", "AcceptAck"} /\ slowIn'[i][2] = h =>
                    slowIn'[i][3] = dxs'.sockets[h]
    BY <2>1, <2>4, <2>5
  <2> QED  BY <2>6, <2>7 DEF OpenInv
<1>7. SockInv'
  <2> SUFFICES ASSUME NEW h \in Socks, serverVersion >= kAcceptAckVersion
      PROVE  /\ socks'[h].status = "connected" => dxs.sockets[h] = "connected"
             /\ \A t \in Threads : Uses(call'[t], h) => dxs.sockets[h] = "connected"
             /\ \A i \in 1 .. Len(slowOut') : Uses(slowOut'[i], h) => dxs.sockets[h] = "connected"
             /\ \A i \in 1 .. Len(fastOut') : Uses(fastOut'[i], h) => dxs.sockets[h] = "connected"
    BY DEF SockInv, KeepsSockets
  <2>1. socks'[h].status = "connected" => dxs.sockets[h] = "connected"
    BY DEF SocketsInv, SockInv, KeepsSockets
  <2>2. \A t \in Threads : Uses(call'[t], h) => dxs.sockets[h] = "connected"
    BY <1>2 DEF SocketsInv, SockInv
  <2>3. \A i \in 1 .. Len(slowOut') : Uses(slowOut'[i], h) => dxs.sockets[h] = "connected"
    BY <1>4, <1>5 DEF SocketsInv, SockInv
  <2>4. ASSUME NEW i \in 1 .. Len(fastOut'), Uses(fastOut'[i], h)  PROVE dxs.sockets[h] = "connected"
    <3>1. (\E j \in 1 .. Len(fastOut) : fastOut'[i] = fastOut[j]) \/ \E t \in Threads : fastOut'[i] = call[t]
      BY <2>4 DEF KeepsSockets, From, SentFast, UseKinds, Uses
    <3>2. ASSUME NEW j \in 1 .. Len(fastOut), fastOut'[i] = fastOut[j]  PROVE dxs.sockets[h] = "connected"
      BY <2>4, <3>2 DEF SocketsInv, SockInv
    <3>3. ASSUME NEW t \in Threads, fastOut'[i] = call[t]  PROVE dxs.sockets[h] = "connected"
      BY <2>4, <3>3 DEF SocketsInv, SockInv
    <3> QED  BY <3>1, <3>2, <3>3
  <2> QED  BY <2>1, <2>2, <2>3, <2>4
<1>8. OrderInv'
  <2>1. CASE slowOut' = slowOut
    <3> SUFFICES ASSUME NEW h \in Socks, ~llcm
        PROVE  /\ link' = "up" /\ socks'[h].status = "connected" =>
                    KnownBefore(h, Len(slowOut)) \/ \E t \in Threads : Opens(call'[t], h)
               /\ link' = "up" => \A t \in Threads : Uses(call'[t], h) => KnownBefore(h, Len(slowOut))
               /\ \A i \in 1 .. Len(slowOut) : Uses(slowOut[i], h) => KnownBefore(h, i - 1)
      BY <2>1 DEF OrderInv, KeepsSockets, KnownBefore
    <3>1. link' = "up" /\ socks'[h].status = "connected" =>
            KnownBefore(h, Len(slowOut)) \/ \E t \in Threads : Opens(call'[t], h)
      BY <1>3 DEF SocketsInv, OrderInv, KeepsSockets
    <3>2. link' = "up" => \A t \in Threads : Uses(call'[t], h) => KnownBefore(h, Len(slowOut))
      BY <1>2 DEF SocketsInv, OrderInv, KeepsSockets
    <3>3. \A i \in 1 .. Len(slowOut) : Uses(slowOut[i], h) => KnownBefore(h, i - 1)
      BY DEF SocketsInv, OrderInv
    <3> QED  BY <3>1, <3>2, <3>3
  <2>2. CASE Len(slowOut') = 0 /\ link' # "up"  BY <1>5, <2>2 DEF OrderInv
  <2> QED  BY <1>4, <2>1, <2>2
<1> QED  BY <1>6, <1>7, <1>8 DEF SocketsInv

(* No listening socket is opened, announced or accepted from; a call of    *)
(* Accept that has its connection may go on.                               *)
ListenKinds == {"Listen", "Popped", "Accept"}
Registers(t) == call[t][1] = "Popped" /\ call'[t][1] = "Accept" /\ call'[t][3] = call[t][3]
Prefix(s, r) == \A i \in 1 .. Len(s) : i \in 1 .. Len(r) /\ s[i] = r[i]

KeepsListens ==
  /\ nextListen' = nextListen /\ dxs'.listening = dxs.listening /\ dxs'.waiting = dxs.waiting
  /\ \A l \in Listens : listens'[l] # listens[l] =>
       /\ listens[l].status # "none" \/ listens'[l] = NoListen
       /\ listens'[l].status = "none" \/ link' # "up"
  /\ \A t \in Threads : call'[t] # call[t] /\ ~Registers(t) =>
       /\ call'[t][1] \notin ListenKinds
       /\ call[t][1] \notin ListenKinds \/ link' # "up"
  /\ Prefix(slowOut', slowOut) /\ Prefix(slowIn', slowIn)
  /\ link' = "up" => link = "up" /\ slowOut' = slowOut /\ slowIn' = slowIn

LEMMA ListensKept ==
  ASSUME ListensInv, KeepsListens
  PROVE  ListensInv'
<1>1. \A l : <<"Listen", l>>[1] = "Listen"  BY SMTT(30)
<1>2. \A t \in Threads : \A l : call'[t] = <<"Listen", l>> => call[t] = <<"Listen", l>>
  BY <1>1 DEF KeepsListens, ListenKinds, Registers
<1>3. \A t \in Threads : \A l : Accepts(call'[t], l) => Accepts(call[t], l)
  BY DEF KeepsListens, ListenKinds, Accepts, Registers
<1>4. \A t \in Threads : \A l : link' = "up" /\ Accepts(call[t], l) => Accepts(call'[t], l)
  BY DEF KeepsListens, ListenKinds, Accepts, Registers
<1>5. ListenBound'
  <2>1. nextListen' = nextListen /\ dxs'.listening = dxs.listening /\ dxs'.waiting = dxs.waiting
    BY DEF KeepsListens
  <2>2. ASSUME NEW l \in Listens, l >= nextListen
        PROVE  listens'[l].status = "none" /\ listens'[l].connections = 0 /\ l \notin dxs.listening /\ dxs.waiting[l] = 0
    BY <2>2, NoEntries DEF ListensInv, ListenBound, KeepsListens
  <2>3. ASSUME NEW l \in Listens, l >= nextListen, NEW t \in Threads
        PROVE  call'[t] # <<"Listen", l>> /\ ~Accepts(call'[t], l)
    BY <1>2, <1>3, <2>3 DEF ListensInv, ListenBound
  <2>4. ASSUME NEW l \in Listens, l >= nextListen, NEW i \in 1 .. Len(slowOut')
        PROVE  slowOut'[i] # <<"Listen", l>> /\ ~Accepts(slowOut'[i], l)
    <3>1. i \in 1 .. Len(slowOut) /\ slowOut'[i] = slowOut[i]  BY DEF KeepsListens, Prefix
    <3> QED  BY <2>4, <3>1 DEF ListensInv, ListenBound
  <2>5. ASSUME NEW l \in Listens, l >= nextListen, NEW i \in 1 .. Len(slowIn')
        PROVE  ~Acks(slowIn'[i], l) /\ slowIn'[i] # <<"Incoming", l>>
    <3>1. i \in 1 .. Len(slowIn) /\ slowIn'[i] = slowIn[i]  BY DEF KeepsListens, Prefix
    <3> QED  BY <2>5, <3>1 DEF ListensInv, ListenBound
  <2> QED  BY <2>1, <2>2, <2>3, <2>4, <2>5 DEF ListenBound
<1>6. ListenOnce'
  <2>1. ASSUME NEW l, Unanswered(l), l \in Listens  PROVE Unanswered(l)'
    BY <2>1 DEF Unanswered, KeepsListens
  <2>2. ASSUME NEW l \in Listens, NEW t \in Threads, call'[t] = <<"Listen", l>>
        PROVE  /\ Unanswered(l)'
               /\ \A u \in Threads : call'[u] = <<"Listen", l>> => u = t
               /\ \A i \in 1 .. Len(slowOut') : slowOut'[i] # <<"Listen", l>>
               /\ \A i \in 1 .. Len(slowIn') : ~Acks(slowIn'[i], l)
    <3>1. call[t] = <<"Listen", l>>  BY <1>2, <2>2
    <3>2. /\ Unanswered(l) /\ \A u \in Threads : call[u] = <<"Listen", l>> => u = t
          /\ \A i \in 1 .. Len(slowOut) : slowOut[i] # <<"Listen", l>>
          /\ \A i \in 1 .. Len(slowIn) : ~Acks(slowIn[i], l)
      BY <3>1 DEF ListensInv, ListenOnce
    <3>3. \A i \in 1 .. Len(slowOut') : slowOut'[i] # <<"Listen", l>>
      BY <3>2 DEF KeepsListens, Prefix
    <3>4. \A i \in 1 .. Len(slowIn') : ~Acks(slowIn'[i], l)
      BY <3>2 DEF KeepsListens, Prefix
    <3> QED  BY <1>2, <2>1, <3>2, <3>3, <3>4
  <2>3. ASSUME NEW l \in Listens, NEW i \in 1 .. Len(slowOut'), slowOut'[i] = <<"Listen", l>>
        PROVE  /\ Unanswered(l)'
               /\ \A j \in 1 .. Len(slowOut') : slowOut'[j] = <<"Listen", l>> => j = i
               /\ \A j \in 1 .. Len(slowIn') : ~Acks(slowIn'[j], l)
    BY ZenonT(40), <2>1, <2>3 DEF ListensInv, ListenOnce, KeepsListens, Prefix
  <2>4. ASSUME NEW l \in Listens, NEW i \in 1 .. Len(slowIn'), Acks(slowIn'[i], l)
        PROVE  /\ Unanswered(l)'
               /\ \A j \in 1 .. Len(slowIn') : Acks(slowIn'[j], l) => j = i
    BY <2>1, <2>4 DEF ListensInv, ListenOnce, KeepsListens, Prefix
  <2> QED  BY <2>2, <2>3, <2>4 DEF ListenOnce
<1>7. ASSUME NEW l \in Listens, link' = "up", listens'[l].status \in {"pending", "ready"}
      PROVE  /\ link = "up" /\ listens'[l] = listens[l] /\ slowIn' = slowIn /\ slowOut' = slowOut
             /\ dxs'.waiting = dxs.waiting /\ dxs'.listening = dxs.listening
  BY <1>7 DEF KeepsListens
<1>8. PendingInv'
  <2> SUFFICES ASSUME NEW l \in Listens, link' = "up", listens'[l].status = "pending"
      PROVE  /\ listens'[l].connections = 0
             /\ \A t \in Threads : ~Accepts(call'[t], l)
             /\ \A i \in 1 .. Len(slowOut') : ~Accepts(slowOut'[i], l)
             /\ \A i \in 1 .. Len(slowIn') : slowIn'[i] = <<"Incoming", l>> => ReadyBefore(l, i - 1)'
             /\ l \in dxs'.listening => ReadyBefore(l, Len(slowIn))'
    BY DEF PendingInv
  <2>1. /\ link = "up" /\ listens'[l] = listens[l] /\ slowIn' = slowIn /\ slowOut' = slowOut
        /\ dxs'.listening = dxs.listening
    BY <1>7
  <2>2. \A n : ReadyBefore(l, n)' <=> ReadyBefore(l, n)  BY <2>1 DEF ReadyBefore
  <2>3. /\ listens[l].connections = 0
        /\ \A t \in Threads : ~Accepts(call[t], l)
        /\ \A i \in 1 .. Len(slowOut) : ~Accepts(slowOut[i], l)
        /\ \A i \in 1 .. Len(slowIn) : slowIn[i] = <<"Incoming", l>> => ReadyBefore(l, i - 1)
        /\ l \in dxs.listening => ReadyBefore(l, Len(slowIn))
    BY <2>1 DEF ListensInv, PendingInv
  <2> QED  BY <1>3, <2>1, <2>2, <2>3
<1>9. CountInv'
  <2> SUFFICES ASSUME NEW l \in Listens, link' = "up", listens'[l].status \in {"pending", "ready"}
      PROVE  dxs'.waiting[l] = listens'[l].connections + Count(slowIn', IncomingTo(l))
                               + Cardinality(Accepting(l)') + Count(slowOut', AcceptsOf(l))
    BY DEF CountInv
  <2>1. /\ link = "up" /\ listens'[l] = listens[l] /\ slowIn' = slowIn /\ slowOut' = slowOut
        /\ dxs'.waiting = dxs.waiting
    BY <1>7
  <2>2. Accepting(l)' = Accepting(l)  BY <1>3, <1>4 DEF Accepting
  <2>3. dxs.waiting[l] = listens[l].connections + Count(slowIn, IncomingTo(l))
                         + Cardinality(Accepting(l)) + Count(slowOut, AcceptsOf(l))
    BY <2>1 DEF ListensInv, CountInv
  <2> QED  BY <2>1, <2>2, <2>3
<1> QED  BY <1>5, <1>6, <1>8, <1>9 DEF ListensInv

-----------------------------------------------------------------------------
(* The steps of the client *)

CallType == Commands \cup {Idle} \cup {Popped(l) : l \in Listens} \cup {<<"Await", k>> : k \in Pings}

(* A thread enters a call, goes on with it or leaves it. *)
LEMMA OneCall ==
  ASSUME Typed, NEW t \in Threads, NEW m \in CallType, call' = [call EXCEPT ![t] = m]
  PROVE  /\ call' \in [Threads -> CallType] /\ call'[t] = m
         /\ \A u \in Threads : u # t => call'[u] = call[u]
         /\ \A u \in Threads : call'[u] # call[u] => u = t
<1>1. call \in [Threads -> CallType]  BY DEF Typed, TypeOK, CallType
<1> QED  BY <1>1

LEMMA CallKinds ==
  /\ Idle \in CallType /\ Commands \subseteq CallType /\ \A k \in Pings : <<"Await", k>> \in CallType
  /\ Idle[1] = "idle" /\ \A k : <<"Await", k>>[1] = "Await"
  /\ \A l \in Listens : Popped(l) \in CallType
  /\ \A l : Popped(l)[1] = "Popped" /\ Popped(l)[3] = l
<1> QED  BY SMTT(30) DEF CallType, Idle, Popped

(* A call runs only once Init has returned OK. *)
LEMMA PhaseKept ==
  ASSUME PhaseInv, phase \in {"ready", "shutdown"}, phase' = phase, initialized' = initialized
  PROVE  PhaseInv'
<1> QED  BY SMTT(30) DEF PhaseInv

LEMMA CallPhase ==
  ASSUME IInv, NEW t \in Threads, call[t] # Idle
  PROVE  phase \in {"ready", "shutdown"}
<1>1. phase \in {"init", "ready", "error", "shutdown"}  BY DEF IInv, Typed, TypeOK
<1>2. phase \notin {"init", "error"}  BY DEF IInv, PhaseInv
<1> QED  BY <1>1, <1>2, SMTT(30)

LEMMA AllKept ==
  ASSUME IInv, Typed', FastInv', PhaseInv', KeepsResults, KeepsPending, KeepsSockets, KeepsListens
  PROVE  IInv'
<1> QED  BY ResultsKept, PendingKept, SocketsKept, ListensKept DEF IInv

LEMMA PrefixSame ==
  ASSUME NEW s
  PROVE  Prefix(s, s)
<1> QED  BY DEF Prefix

LEMMA KindSets ==
  ASSUME NEW k, k \notin ObjectKinds
  PROVE  k \notin OpenKinds /\ k \notin UseKinds /\ k \notin OpenKinds \cup UseKinds /\ k \notin ListenKinds
<1> QED  BY DEF ObjectKinds, OpenKinds, UseKinds, ListenKinds

LEMMA Bounds ==
  MaxListens \in Nat /\ MaxSocks \in Nat /\ MaxOps \in Nat /\ MaxPings \in Nat
<1> QED  BY BoundsAssumption, SMTT(30)

LEMMA Numbers ==
  ASSUME Typed
  PROVE  /\ nextListen \in 1 .. MaxListens + 1 /\ nextSock \in 1 .. MaxSocks + 1
         /\ nextOp \in 1 .. MaxOps + 1 /\ pingSeq \in 0 .. MaxPings
<1> QED  BY DEF Typed, TypeOK

(* A call that neither is nor was about an object of the tables. *)
QuietCalls ==
  \A u \in Threads : call'[u] # call[u] => call'[u][1] \notin ObjectKinds /\ call[u][1] \notin ObjectKinds

(* Counting the messages of a channel and the threads in a call. *)
One(b) == IF b THEN 1 ELSE 0

SeqFact(S) ==
  \A s \in Seq(S) : \A K :
    /\ Count(s, K) \in Nat /\ \A m \in S : Count(Append(s, m), K) = Count(s, K) + One(m \in K)
    /\ s # <<>> => Count(Tail(s), K) = Count(s, K) - One(Head(s) \in K)
    /\ (\A i \in 1 .. Len(s) : s[i] \notin K) => Count(s, K) = 0

ThreadsFact ==
  Cardinality({}) = 0 /\ \A S \in SUBSET Threads : \A t \in Threads :
    /\ Cardinality(S) \in Nat
    /\ Cardinality(S \cup {t}) = Cardinality(S) + One(t \notin S)
    /\ Cardinality(S \ {t}) = Cardinality(S) - One(t \in S)

CountFacts == SeqFact(Commands) /\ SeqFact(Replies) /\ ThreadsFact

-----------------------------------------------------------------------------
(* The steps of the client, other than the receipt of a message. *)
CallStep(t) ==
  \/ Listen(t) \/ Connect(t) \/ Ping(t)
  \/ \E l \in Listens : Accept(t, l) \/ DestroyListen(t, l)
  \/ \E h \in Socks : Request(t, h) \/ DestroySocket(t, h)
  \/ CallReturns(t)

LocalStep ==
  \/ InitReturns \/ Shutdown \/ ChannelLost \/ OnControlChannelFailure
  \/ \E o \in Ops : DestroyOp(o)

(* A step of a call, of Init, of Shutdown or of the failure of the control *)
(* channel preserves the invariant.                                        *)
LEMMA ClientOK ==
  ASSUME CountFacts, IInv, LocalStep \/ \E t \in Threads : CallStep(t)
  PROVE  IInv'
<1>InitReturnsOK.
    ASSUME IInv, InitReturns
    PROVE  IInv'
  <2> USE <1>InitReturnsOK
  <2>1. /\ llcm' = llcm /\ failed' = failed /\ initialized' = initialized /\ serverVersion' = serverVersion
        /\ llcmInfo' = llcmInfo /\ listens' = listens /\ socks' = socks /\ ops' = ops /\ pings' = pings
        /\ pingResults' = pingResults /\ nextListen' = nextListen /\ nextSock' = nextSock /\ nextOp' = nextOp
        /\ pingSeq' = pingSeq /\ call' = call /\ link' = link /\ slowOut' = slowOut /\ slowIn' = slowIn
        /\ fastOut' = fastOut /\ fastIn' = fastIn /\ dxs' = dxs
    BY DEF InitReturns, tables, pinging, numbers, channels
  <2>2. phase = "init" /\ (phase' = "error" \/ (initialized /\ phase' = "ready"))  BY DEF InitReturns
  <2>3. Typed'  BY <2>1, <2>2 DEF IInv, Typed, TypeOK
  <2>4. FastInv'  BY <2>1 DEF IInv, FastInv
  <2>5. PhaseInv'  BY <2>1, <2>2, SMTT(30) DEF IInv, PhaseInv
  <2>6. KeepsResults  BY <2>1, FromSame DEF KeepsResults
  <2>7. KeepsPending  BY <2>1 DEF KeepsPending
  <2>8. KeepsSockets  BY <2>1, FromSame DEF KeepsSockets
  <2>9. KeepsListens  BY <2>1, PrefixSame DEF KeepsListens
  <2> QED  BY <2>3, <2>4, <2>5, <2>6, <2>7, <2>8, <2>9, AllKept

<1>ShutdownOK.
    ASSUME IInv, Shutdown
    PROVE  IInv'
  <2> USE <1>ShutdownOK
  <2>1. /\ llcm' = llcm /\ failed' = failed /\ initialized' = initialized /\ serverVersion' = serverVersion
        /\ llcmInfo' = llcmInfo /\ listens' = listens /\ socks' = socks /\ ops' = ops /\ pings' = pings
        /\ pingResults' = pingResults /\ nextListen' = nextListen /\ nextSock' = nextSock /\ nextOp' = nextOp
        /\ pingSeq' = pingSeq /\ call' = call /\ slowOut' = slowOut /\ slowIn' = slowIn
        /\ fastOut' = fastOut /\ fastIn' = fastIn /\ dxs' = dxs
    BY DEF Shutdown, tables, pinging, numbers, channels
  <2>2. phase = "ready" /\ phase' = "shutdown" /\ link' = IF link = "up" THEN "shutdown" ELSE link
    BY DEF Shutdown
  <2>3. link' \in {"lost", "failed", "shutdown"} /\ (link' = "failed" => link = "failed") /\ link' # "up"
    BY <2>2, SMTT(30) DEF IInv, Typed, TypeOK
  <2>4. Typed'  BY <2>1, <2>2, <2>3 DEF IInv, Typed, TypeOK
  <2>5. FastInv'  BY <2>1 DEF IInv, FastInv
  <2>6. PhaseInv'  BY <2>1, <2>2, SMTT(30) DEF IInv, PhaseInv
  <2>7. KeepsResults  BY <2>1, FromSame DEF KeepsResults
  <2>8. KeepsPending  BY <2>1, <2>3 DEF KeepsPending
  <2>9. KeepsSockets  BY <2>1, <2>3, FromSame DEF KeepsSockets
  <2>10. KeepsListens  BY <2>1, <2>3, PrefixSame DEF KeepsListens
  <2> QED  BY <2>4, <2>5, <2>6, <2>7, <2>8, <2>9, <2>10, AllKept

(* What an API call leaves alone before it sends. *)
<1>ApiFrame.
    ASSUME Frame
    PROVE  /\ llcm' = llcm /\ phase' = phase /\ initialized' = initialized /\ serverVersion' = serverVersion
           /\ llcmInfo' = llcmInfo /\ failed' = failed /\ link' = link
           /\ slowOut' = slowOut /\ slowIn' = slowIn /\ fastOut' = fastOut /\ fastIn' = fastIn /\ dxs' = dxs
  <2> USE <1>ApiFrame
  <2> QED  BY DEF Frame, init, channels

<1>ApiKept.
    ASSUME IInv, Frame, phase \in {"ready", "shutdown"},
           \A o \in Ops : ops'[o] = "complete" => ops[o] = "complete"
    PROVE  FastInv' /\ PhaseInv' /\ KeepsResults
  <2> USE <1>ApiKept
  <2>1. FastInv'  BY <1>ApiFrame DEF IInv, FastInv
  <2>2. PhaseInv'  BY <1>ApiFrame, PhaseKept DEF IInv
  <2>3. KeepsResults  BY <1>ApiFrame, FromSame DEF KeepsResults
  <2> QED  BY <2>1, <2>2, <2>3

<1>PingOK.
    ASSUME IInv, NEW t \in Threads, Ping(t)
    PROVE  IInv'
  <2> USE <1>PingOK
  <2>1. /\ listens' = listens /\ socks' = socks /\ ops' = ops /\ pingResults' = pingResults
        /\ nextListen' = nextListen /\ nextSock' = nextSock /\ nextOp' = nextOp /\ Frame
        /\ phase = "ready" /\ call[t] = Idle
    BY DEF Ping, tables, Calls
  <2>2. pingSeq < MaxPings /\ pingSeq' = pingSeq + 1 /\ pings' = pings \cup {pingSeq'}
        /\ call' = [call EXCEPT ![t] = <<"Ping", pingSeq'>>]
    BY DEF Ping, Calls
  <2>3. pingSeq' \in Pings /\ pingSeq' \in 0 .. MaxPings
    <3>1. pingSeq \in 0 .. MaxPings  BY Numbers DEF IInv
    <3> QED  BY <2>2, <3>1, Bounds, SMTT(30) DEF Pings
  <2>4. <<"Ping", pingSeq'>> \in CallType  BY <2>3, CommandsMade, CallKinds
  <2>5. <<"Ping", pingSeq'>>[1] = "Ping"  BY SMTT(30)
  <2>6. /\ call' \in [Threads -> CallType] /\ call'[t] = <<"Ping", pingSeq'>>
        /\ \A u \in Threads : call'[u] # call[u] => u = t
    BY <2>2, <2>4, OneCall DEF IInv
  <2>7. Typed'
    BY <2>1, <2>2, <2>3, <2>6, <1>ApiFrame DEF IInv, Typed, TypeOK, CallType
  <2>8. FastInv' /\ PhaseInv' /\ KeepsResults  BY <2>1, <1>ApiKept
  <2>9. call'[t][1] \notin ObjectKinds /\ call[t][1] \notin ObjectKinds
    BY <2>1, <2>5, <2>6, CallKinds, SMTT(30) DEF ObjectKinds
  <2>10. KeepsPending  BY <2>1, <2>6, <2>9, <1>ApiFrame DEF KeepsPending
  <2>11. KeepsSockets
    BY <2>1, <2>6, <2>9, <1>ApiFrame, FromSame, KindSets DEF KeepsSockets
  <2>12. KeepsListens
    BY <2>1, <2>6, <2>9, <1>ApiFrame, PrefixSame, KindSets DEF KeepsListens
  <2> QED  BY <2>7, <2>8, <2>10, <2>11, <2>12, AllKept

<1>DestroyOpOK.
    ASSUME IInv, NEW o \in Ops, DestroyOp(o)
    PROVE  IInv'
  <2> USE <1>DestroyOpOK
  <2>1. /\ listens' = listens /\ socks' = socks /\ ops' = [ops EXCEPT ![o] = "none"] /\ pings' = pings
        /\ pingResults' = pingResults /\ call' = call /\ pingSeq' = pingSeq
        /\ nextListen' = nextListen /\ nextSock' = nextSock /\ nextOp' = nextOp /\ Frame /\ phase = "ready"
    BY DEF DestroyOp, pinging, numbers
  <2>2. ops \in [Ops -> {"none", "pending", "complete", "error"}]  BY DEF IInv, Typed, TypeOK
  <2>3. /\ ops' \in [Ops -> {"none", "pending", "complete", "error"}]
        /\ \A q \in Ops : ops'[q] = ops[q] \/ ops'[q] = "none"
    BY <2>1, <2>2
  <2>4. Typed'  BY <2>1, <2>3, <1>ApiFrame DEF IInv, Typed, TypeOK
  <2>5. FastInv' /\ PhaseInv' /\ KeepsResults  BY <2>1, <2>3, <1>ApiKept
  <2>6. KeepsPending  BY <2>1, <2>3, <1>ApiFrame DEF KeepsPending
  <2>7. KeepsSockets  BY <2>1, <1>ApiFrame, FromSame DEF KeepsSockets
  <2>8. KeepsListens  BY <2>1, <1>ApiFrame, PrefixSame DEF KeepsListens
  <2> QED  BY <2>4, <2>5, <2>6, <2>7, <2>8, AllKept

<1>QuietCall.
    ASSUME Typed, NEW t \in Threads, NEW m \in CallType, m[1] \notin ObjectKinds, call[t][1] \notin ObjectKinds,
           call' = call \/ call' = [call EXCEPT ![t] = m]
    PROVE  call' \in [Threads -> CallType] /\ QuietCalls
  <2> USE <1>QuietCall
  <2>1. CASE call' = call  BY <2>1 DEF Typed, TypeOK, CallType, QuietCalls
  <2>2. CASE call' = [call EXCEPT ![t] = m]  BY <2>2, OneCall DEF QuietCalls
  <2> QED  BY <2>1, <2>2

<1>DestroySocketOK.
    ASSUME IInv, NEW t \in Threads, NEW h \in Socks, DestroySocket(t, h)
    PROVE  IInv'
  <2> USE <1>DestroySocketOK
  <2>1. /\ listens' = listens /\ ops' = ops /\ pings' = pings /\ pingResults' = pingResults
        /\ nextListen' = nextListen /\ nextSock' = nextSock /\ nextOp' = nextOp /\ pingSeq' = pingSeq /\ Frame
        /\ socks[h].status # "none" /\ socks' = [socks EXCEPT ![h] = NoSock]
    BY DEF DestroySocket, pinging, numbers
  <2>2. phase = "ready" /\ call[t] = Idle /\ (call' = call \/ call' = [call EXCEPT ![t] = <<"Close", h>>])
    BY DEF DestroySocket, Calls
  <2>3. <<"Close", h>> \in CallType  BY CommandsMade, CallKinds
  <2>4. <<"Close", h>>[1] \notin ObjectKinds /\ Idle[1] \notin ObjectKinds  BY SMTT(30) DEF ObjectKinds, Idle
  <2>5. call' \in [Threads -> CallType] /\ QuietCalls  BY <2>2, <2>3, <2>4, <1>QuietCall DEF IInv
  <2>6. socks \in [Socks -> SockType]  BY DEF IInv, Typed, TypeOK, SockType
  <2>7. /\ socks' \in [Socks -> SockType] /\ socks'[h].status = "none"
        /\ \A g \in Socks : g # h => socks'[g] = socks[g]
    BY <2>1, <2>6, NoEntries
  <2>8. Typed'
    BY ZenonT(40), <2>1, <2>5, <2>7, <1>ApiFrame DEF IInv, Typed, TypeOK, CallType, SockType
  <2>9. FastInv' /\ PhaseInv' /\ KeepsResults  BY <2>1, <2>2, <1>ApiKept
  <2>10. KeepsPending
    <3>1. \A g \in Socks : socks'[g].status = "pending" => socks[g].status = "pending"  BY <2>7
    <3> QED  BY <2>1, <2>5, <3>1, <1>ApiFrame DEF KeepsPending, QuietCalls
  <2>11. KeepsSockets
    <3>1. \A g \in Socks : socks'[g].status # socks[g].status => socks[g].status # "none" /\ socks'[g].status # "connected"
      BY <2>1, <2>7
    <3> QED  BY <2>1, <2>5, <3>1, <1>ApiFrame, FromSame, KindSets DEF KeepsSockets, QuietCalls
  <2>12. KeepsListens
    BY <2>1, <2>5, <1>ApiFrame, PrefixSame, KindSets DEF KeepsListens, QuietCalls
  <2> QED  BY <2>8, <2>9, <2>10, <2>11, <2>12, AllKept

<1>DestroyListenOK.
    ASSUME IInv, NEW t \in Threads, NEW l \in Listens, DestroyListen(t, l)
    PROVE  IInv'
  <2> USE <1>DestroyListenOK
  <2>1. /\ socks' = socks /\ ops' = ops /\ pings' = pings /\ pingResults' = pingResults
        /\ nextListen' = nextListen /\ nextSock' = nextSock /\ nextOp' = nextOp /\ pingSeq' = pingSeq /\ Frame
        /\ listens[l].status # "none" /\ listens' = [listens EXCEPT ![l] = NoListen]
    BY DEF DestroyListen, pinging, numbers
  <2>2. phase = "ready" /\ call[t] = Idle /\ call' = [call EXCEPT ![t] = <<"CloseListen", l>>]
    BY DEF DestroyListen, Calls
  <2>3. <<"CloseListen", l>> \in CallType  BY CommandsMade, CallKinds
  <2>4. <<"CloseListen", l>>[1] \notin ObjectKinds /\ Idle[1] \notin ObjectKinds  BY SMTT(30) DEF ObjectKinds, Idle
  <2>5. call' \in [Threads -> CallType] /\ QuietCalls  BY <2>2, <2>3, <2>4, <1>QuietCall DEF IInv
  <2>6. listens \in [Listens -> ListenType]  BY DEF IInv, Typed, TypeOK, ListenType
  <2>7. /\ listens' \in [Listens -> ListenType] /\ listens'[l] = NoListen
        /\ \A k \in Listens : k # l => listens'[k] = listens[k]
    BY <2>1, <2>6, NoEntries
  <2>8. Typed'
    BY ZenonT(40), <2>1, <2>5, <2>7, <1>ApiFrame DEF IInv, Typed, TypeOK, CallType, ListenType
  <2>9. FastInv' /\ PhaseInv' /\ KeepsResults  BY <2>1, <2>2, <1>ApiKept
  <2>10. KeepsPending
    <3>1. \A k \in Listens : listens'[k].status = "pending" => listens[k].status = "pending"
      BY <2>7, NoEntries
    <3> QED  BY <2>1, <2>5, <3>1, <1>ApiFrame DEF KeepsPending, QuietCalls
  <2>11. KeepsSockets
    BY <2>1, <2>5, <1>ApiFrame, FromSame, KindSets DEF KeepsSockets, QuietCalls
  <2>12. KeepsListens
    <3>1. \A k \in Listens : listens'[k] # listens[k] => listens'[k] = NoListen /\ listens'[k].status = "none"
      BY <2>7, NoEntries
    <3> QED  BY <2>1, <2>5, <3>1, <1>ApiFrame, PrefixSame, KindSets DEF KeepsListens, QuietCalls
  <2> QED  BY <2>8, <2>9, <2>10, <2>11, <2>12, AllKept

<1>PingReturnsOK.
    ASSUME IInv, NEW t \in Threads, PingReturns(t)
    PROVE  IInv'
  <2> USE <1>PingReturnsOK
  <2>1. /\ listens' = listens /\ socks' = socks /\ ops' = ops /\ pings' = pings
        /\ pingResults' = pingResults \ {call[t][2]} /\ pingSeq' = pingSeq
        /\ nextListen' = nextListen /\ nextSock' = nextSock /\ nextOp' = nextOp /\ Frame
        /\ call[t][1] = "Await" /\ call' = [call EXCEPT ![t] = Idle]
    BY DEF PingReturns, tables, numbers
  <2>2. Idle[1] \notin ObjectKinds /\ call[t][1] \notin ObjectKinds  BY <2>1, SMTT(30) DEF ObjectKinds, Idle
  <2>3. call' \in [Threads -> CallType] /\ QuietCalls  BY <2>1, <2>2, CallKinds, <1>QuietCall DEF IInv
  <2>4. call[t] # Idle  BY <2>1, CallKinds, SMTT(30)
  <2>5. Typed'  BY ZenonT(40), <2>1, <2>3, <1>ApiFrame DEF IInv, Typed, TypeOK, CallType
  <2>6. FastInv' /\ PhaseInv' /\ KeepsResults  BY <2>1, <2>4, CallPhase, <1>ApiKept
  <2>7. KeepsPending  BY <2>1, <2>3, <1>ApiFrame DEF KeepsPending, QuietCalls
  <2>8. KeepsSockets  BY <2>1, <2>3, <1>ApiFrame, FromSame, KindSets DEF KeepsSockets, QuietCalls
  <2>9. KeepsListens  BY <2>1, <2>3, <1>ApiFrame, PrefixSame, KindSets DEF KeepsListens, QuietCalls
  <2> QED  BY <2>5, <2>6, <2>7, <2>8, <2>9, AllKept

(* The association is gone. *)
<1>Lost.
    ASSUME IInv, LoseLink
    PROVE  /\ link' = "lost" /\ slowOut' = <<>> /\ slowOut' \in Seq(Commands) /\ slowIn' \in Seq(Replies)
           /\ Prefix(slowOut', slowOut) /\ Prefix(slowIn', slowIn) /\ \A K : From(slowIn', slowIn, K)
  <2> USE <1>Lost
  <2>1. link' = "lost" /\ slowOut' = <<>>  BY DEF LoseLink
  <2>2. slowOut' \in Seq(Commands) /\ Prefix(slowOut', slowOut)  BY <2>1, SMTT(30) DEF Prefix
  <2>3. PICK n \in 0 .. Len(slowIn) : slowIn' = SubSeq(slowIn, 1, n)  BY DEF LoseLink
  <2>4. slowIn \in Seq(Replies)  BY DEF IInv, Typed, TypeOK
  <2>5. slowIn' \in Seq(Replies) /\ \A K : From(slowIn', slowIn, K)  BY <2>3, <2>4, Cut, FromCut
  <2>6. /\ Len(slowIn) \in Nat /\ Len(slowIn') = n
        /\ \A i \in 1 .. n : slowIn'[i] = slowIn[i]
    BY <2>3, <2>4, Cut
  <2>7. Prefix(slowIn', slowIn)  BY <2>6, SMTT(30) DEF Prefix
  <2> QED  BY <2>1, <2>2, <2>5, <2>7

<1>ChannelLostOK.
    ASSUME IInv, ChannelLost
    PROVE  IInv'
  <2> USE <1>ChannelLostOK
  <2>1. /\ llcm' = llcm /\ phase' = phase /\ initialized' = initialized /\ serverVersion' = serverVersion
        /\ llcmInfo' = llcmInfo /\ failed' = failed /\ listens' = listens /\ socks' = socks /\ ops' = ops
        /\ pings' = pings /\ pingResults' = pingResults /\ nextListen' = nextListen /\ nextSock' = nextSock
        /\ nextOp' = nextOp /\ pingSeq' = pingSeq /\ call' = call /\ fastOut' = fastOut /\ fastIn' = fastIn
        /\ dxs' = dxs /\ LoseLink
    BY DEF ChannelLost, init, tables, pinging, numbers
  <2>2. /\ link' = "lost" /\ slowOut' = <<>> /\ slowOut' \in Seq(Commands) /\ slowIn' \in Seq(Replies)
        /\ Prefix(slowOut', slowOut) /\ Prefix(slowIn', slowIn) /\ \A K : From(slowIn', slowIn, K)
    BY <2>1, <1>Lost
  <2>3. Len(slowOut') = 0 /\ 1 .. 0 = {} /\ link' # "up" /\ link' # "failed"  BY <2>2, SMTT(30)
  <2>4. Typed'  BY <2>1, <2>2 DEF IInv, Typed, TypeOK
  <2>5. FastInv'  BY <2>1 DEF IInv, FastInv
  <2>6. PhaseInv'  BY <2>1, <2>3 DEF IInv, PhaseInv
  <2>7. KeepsResults  BY <2>1, <2>2, FromSame DEF KeepsResults
  <2>8. KeepsPending  BY <2>1, <2>3 DEF KeepsPending
  <2>9. KeepsSockets  BY <2>1, <2>2, <2>3, FromSame DEF KeepsSockets
  <2>10. KeepsListens  BY <2>1, <2>2, <2>3 DEF KeepsListens
  <2> QED  BY <2>4, <2>5, <2>6, <2>7, <2>8, <2>9, <2>10, AllKept

<1>FailureOK.
    ASSUME IInv, OnControlChannelFailure
    PROVE  IInv'
  <2> USE <1>FailureOK
  <2>1. /\ llcm' = llcm /\ phase' = phase /\ initialized' = initialized /\ serverVersion' = serverVersion
        /\ llcmInfo' = llcmInfo /\ failed' = TRUE /\ link' = "failed"
        /\ pings' = pings /\ pingResults' = pingResults /\ nextListen' = nextListen /\ nextSock' = nextSock
        /\ nextOp' = nextOp /\ pingSeq' = pingSeq /\ call' = call /\ slowOut' = slowOut /\ slowIn' = slowIn
        /\ fastOut' = fastOut /\ fastIn' = fastIn /\ dxs' = dxs
    BY DEF OnControlChannelFailure, init, pinging, numbers, channels
  <2>2. ops' = [o \in Ops |-> IF ops[o] = "none" THEN "none" ELSE "error"]
    BY DEF OnControlChannelFailure
  <2>3. ops' \in [Ops -> {"none", "pending", "complete", "error"}] /\ \A o \in Ops : ops'[o] \in {"none", "error"}
    BY <2>2
  <2>4. socks' \in [Socks -> SockType] /\ \A h \in Socks : socks'[h].status = IF socks[h].status = "none" THEN "none" ELSE "error"
    <3>1. socks' = [h \in Socks |-> IF socks[h].status = "none" THEN NoSock ELSE [socks[h] EXCEPT !.status = "error"]]
      BY DEF OnControlChannelFailure
    <3>2. \A h \in Socks : socks[h] \in SockType  BY DEF IInv, Typed, TypeOK, SockType
    <3>3. \A h \in Socks : [socks[h] EXCEPT !.status = "error"] \in SockType /\ [socks[h] EXCEPT !.status = "error"].status = "error"
      BY <3>2, SockSet
    <3> QED  BY <3>1, <3>3, NoEntries
  <2>5. /\ listens' \in [Listens -> ListenType]
        /\ \A l \in Listens : listens'[l].status \in {"none", "error"} /\ (listens[l].status = "none" => listens'[l] = NoListen)
    <3>1. listens' = [l \in Listens |-> IF listens[l].status = "none" THEN NoListen ELSE [listens[l] EXCEPT !.status = "error"]]
      BY DEF OnControlChannelFailure
    <3>2. \A l \in Listens : listens[l] \in ListenType  BY DEF IInv, Typed, TypeOK, ListenType
    <3>3. \A l \in Listens : [listens[l] EXCEPT !.status = "error"] \in ListenType /\ [listens[l] EXCEPT !.status = "error"].status = "error"
      BY <3>2, ListenSet
    <3> QED  BY <3>1, <3>3, NoEntries
  <2>6. Typed'  BY <2>1, <2>3, <2>4, <2>5 DEF IInv, Typed, TypeOK, SockType, ListenType
  <2>7. FastInv'  BY <2>1 DEF IInv, FastInv
  <2>8. PhaseInv'  BY <2>1 DEF IInv, PhaseInv
  <2>9. KeepsResults  BY <2>1, <2>3, FromSame DEF KeepsResults
  <2>10. NothingPendingAfterFailure'
    <3>1. \A o \in Ops : ops'[o] # "pending"  BY <2>3
    <3>2. \A h \in Socks : socks'[h].status # "pending"  BY <2>4
    <3>3. \A l \in Listens : listens'[l].status # "pending"  BY <2>5
    <3> QED  BY <3>1, <3>2, <3>3 DEF NothingPendingAfterFailure
  <2>11. KeepsSockets
    <3>1. \A h \in Socks : socks'[h].status # socks[h].status => socks[h].status # "none" /\ socks'[h].status # "connected"
      BY <2>4
    <3> QED  BY <2>1, <3>1, FromSame DEF KeepsSockets
  <2>12. KeepsListens  BY <2>1, <2>5, PrefixSame DEF KeepsListens
  <2> QED  BY <2>6, <2>7, <2>8, <2>9, <2>10, <2>11, <2>12, ResultsKept, SocketsKept, ListensKept DEF IInv

(* What a call sends is a command. *)
<1>SendingCommand.
    ASSUME IInv, NEW t \in Threads, Sending(t)
    PROVE  call[t] \in Commands /\ call[t] # Idle /\ phase \in {"ready", "shutdown"}
  <2> USE <1>SendingCommand
  <2>1. call[t] \in CallType  BY DEF IInv, Typed, TypeOK, CallType
  <2>2. call[t] # Idle  BY CallKinds, SMTT(30) DEF Sending
  <2>3. call[t] \in Commands  BY <2>1, CallKinds, SMTT(30) DEF Sending, CallType, Popped
  <2> QED  BY <2>2, <2>3, CallPhase

(* A call that fails takes its object along. *)
<1>FailedCall.
    ASSUME IInv, NEW t \in Threads, SendFails(t)
    PROVE  /\ listens' \in [Listens -> ListenType] /\ socks' \in [Socks -> SockType]
           /\ ops' \in [Ops -> {"none", "pending", "complete", "error"}]
           /\ \A l \in Listens : listens'[l] = NoListen \/ (listens'[l] = listens[l] /\ call[t] # <<"Listen", l>>)
           /\ \A h \in Socks : socks'[h] = NoSock \/ (socks'[h] = socks[h] /\ ~Opens(call[t], h))
           /\ \A o \in Ops : ops'[o] = "none" \/ (ops'[o] = ops[o] /\ ~(call[t][1] \in {"Send", "Recv"} /\ call[t][3] = o))
  <2> USE <1>FailedCall
  <2> DEFINE m == call[t]
  <2>1. listens' = IF m[1] = "Listen" THEN [listens EXCEPT ![m[2]] = NoListen] ELSE listens
    BY DEF SendFails
  <2>2. socks' = IF m[1] \in {"Connect", "Accept"} THEN [socks EXCEPT ![m[2]] = NoSock] ELSE socks
    BY DEF SendFails
  <2>3. ops' = IF m[1] \in {"Send", "Recv"} THEN [ops EXCEPT ![m[3]] = "none"] ELSE ops
    BY DEF SendFails
  <2>4. /\ listens \in [Listens -> ListenType] /\ socks \in [Socks -> SockType]
        /\ ops \in [Ops -> {"none", "pending", "complete", "error"}]
    BY DEF IInv, Typed, TypeOK, ListenType, SockType
  <2>5. \A l : m = <<"Listen", l>> => m[1] = "Listen" /\ m[2] = l  BY SMTT(30)
  <2> HIDE DEF m
  <2>6. /\ listens' \in [Listens -> ListenType]
        /\ \A l \in Listens : listens'[l] = NoListen \/ (listens'[l] = listens[l] /\ m # <<"Listen", l>>)
    BY <2>1, <2>4, <2>5, NoEntries
  <2>7. /\ socks' \in [Socks -> SockType]
        /\ \A h \in Socks : socks'[h] = NoSock \/ (socks'[h] = socks[h] /\ ~Opens(m, h))
    BY <2>2, <2>4, NoEntries DEF Opens
  <2>8. /\ ops' \in [Ops -> {"none", "pending", "complete", "error"}]
        /\ \A o \in Ops : ops'[o] = "none" \/ (ops'[o] = ops[o] /\ ~(m[1] \in {"Send", "Recv"} /\ m[3] = o))
    BY <2>3, <2>4
  <2> QED  BY <2>6, <2>7, <2>8 DEF m

<1>SendFailsOK.
    ASSUME IInv, NEW t \in Threads, SendFails(t)
    PROVE  IInv'
  <2> USE <1>SendFailsOK
  <2>1. /\ llcm' = llcm /\ phase' = phase /\ initialized' = initialized /\ serverVersion' = serverVersion
        /\ llcmInfo' = llcmInfo /\ failed' = failed /\ pings' = pings /\ pingResults' = pingResults
        /\ nextListen' = nextListen /\ nextSock' = nextSock /\ nextOp' = nextOp /\ pingSeq' = pingSeq
        /\ fastOut' = fastOut /\ fastIn' = fastIn /\ dxs' = dxs /\ Sending(t) /\ call' = [call EXCEPT ![t] = Idle]
    BY DEF SendFails, init, pinging, numbers
  <2>2. /\ link' \in {"lost", "failed", "shutdown"} /\ (link' = "failed" => link = "failed")
        /\ slowOut' \in Seq(Commands) /\ slowIn' \in Seq(Replies) /\ (slowOut' = slowOut \/ slowOut' = <<>>)
        /\ Prefix(slowOut', slowOut) /\ Prefix(slowIn', slowIn) /\ \A K : From(slowIn', slowIn, K)
    <3>1. CASE link = "up" /\ LoseLink  BY <3>1, <1>Lost
    <3>2. CASE link # "up" /\ link' = link /\ slowOut' = slowOut /\ slowIn' = slowIn
      BY <3>2, PrefixSame, FromSame DEF IInv, Typed, TypeOK
    <3> QED  BY <3>1, <3>2 DEF SendFails
  <2>3. link' # "up"  BY <2>2, SMTT(30)
  <2>4. /\ call' \in [Threads -> CallType] /\ call'[t] = Idle
        /\ \A u \in Threads : u # t => call'[u] = call[u]
    BY <2>1, OneCall, CallKinds DEF IInv
  <2>5. phase \in {"ready", "shutdown"}  BY <2>1, <1>SendingCommand
  <2>6. Typed'
    <3>1. /\ listens' \in [Listens -> ListenType] /\ socks' \in [Socks -> SockType]
          /\ ops' \in [Ops -> {"none", "pending", "complete", "error"}]
      BY <1>FailedCall
    <3>2. link' \in {"up", "lost", "failed", "shutdown"}  BY <2>2
    <3> QED  BY <2>1, <2>2, <2>4, <3>1, <3>2 DEF IInv, Typed, TypeOK, CallType, ListenType, SockType
  <2>7. FastInv' /\ PhaseInv'
    <3>1. FastInv'  BY <2>1 DEF IInv, FastInv
    <3> QED  BY <2>1, <2>5, <3>1, PhaseKept DEF IInv
  <2>8. KeepsResults
    <3>1. \A o \in Ops : ops'[o] = "complete" => ops[o] = "complete"  BY <1>FailedCall
    <3> QED  BY <2>1, <2>2, <3>1, FromSame DEF KeepsResults
  <2>9. NothingPendingAfterFailure'
    <3> SUFFICES ASSUME link' = "failed"
                 PROVE  /\ \A l \in Listens : listens'[l].status = "pending" =>
                             \E u \in Threads : call'[u] = <<"Listen", l>>
                        /\ \A h \in Socks : socks'[h].status = "pending" =>
                             \E u \in Threads : call'[u][1] \in {"Connect", "Accept"} /\ call'[u][2] = h
                        /\ ~llcm' => \A o \in Ops : ops'[o] = "pending" =>
                             \E u \in Threads : call'[u][1] \in {"Send", "Recv"} /\ call'[u][3] = o
      BY DEF NothingPendingAfterFailure
    <3>1. ASSUME NEW l \in Listens, listens'[l].status = "pending"
          PROVE  \E u \in Threads : call'[u] = <<"Listen", l>>
      <4>1. listens[l].status = "pending" /\ call[t] # <<"Listen", l>>  BY <3>1, <1>FailedCall, NoEntries
      <4>2. PICK u \in Threads : call[u] = <<"Listen", l>>
        BY <2>2, <4>1 DEF IInv, NothingPendingAfterFailure
      <4> QED  BY <2>4, <4>1, <4>2
    <3>2. ASSUME NEW h \in Socks, socks'[h].status = "pending"
          PROVE  \E u \in Threads : call'[u][1] \in {"Connect", "Accept"} /\ call'[u][2] = h
      <4>1. socks[h].status = "pending" /\ ~(call[t][1] \in {"Connect", "Accept"} /\ call[t][2] = h)
        BY <3>2, <1>FailedCall, NoEntries DEF Opens
      <4>2. PICK u \in Threads : call[u][1] \in {"Connect", "Accept"} /\ call[u][2] = h
        BY <2>2, <4>1 DEF IInv, NothingPendingAfterFailure
      <4> QED  BY <2>4, <4>1, <4>2
    <3>3. ASSUME ~llcm', NEW o \in Ops, ops'[o] = "pending"
          PROVE  \E u \in Threads : call'[u][1] \in {"Send", "Recv"} /\ call'[u][3] = o
      <4>1. ops[o] = "pending" /\ ~(call[t][1] \in {"Send", "Recv"} /\ call[t][3] = o)  BY <3>3, <1>FailedCall
      <4>2. PICK u \in Threads : call[u][1] \in {"Send", "Recv"} /\ call[u][3] = o
        BY <2>1, <2>2, <3>3, <4>1 DEF IInv, NothingPendingAfterFailure
      <4> QED  BY <2>4, <4>1, <4>2
    <3> QED  BY <3>1, <3>2, <3>3
  <2>10. Idle[1] \notin OpenKinds \cup UseKinds /\ Idle[1] \notin ListenKinds
    BY CallKinds, SMTT(30) DEF OpenKinds, UseKinds, ListenKinds
  <2>11. KeepsSockets
    <3>1. \A h \in Socks : socks'[h].status # socks[h].status => socks[h].status # "none" /\ socks'[h].status # "connected"
      BY <1>FailedCall, NoEntries
    <3>2. \A u \in Threads : call'[u] # call[u] => call'[u][1] \notin OpenKinds \cup UseKinds  BY <2>4, <2>10
    <3> QED  BY <2>1, <2>2, <2>3, <3>1, <3>2, FromSame DEF KeepsSockets
  <2>12. KeepsListens
    <3>1. \A l \in Listens : listens'[l] # listens[l] => listens'[l] = NoListen  BY <1>FailedCall
    <3>2. \A u \in Threads : call'[u] # call[u] => call'[u][1] \notin ListenKinds  BY <2>4, <2>10
    <3> QED  BY <2>1, <2>2, <2>3, <3>1, <3>2 DEF KeepsListens
  <2> QED  BY <2>6, <2>7, <2>8, <2>9, <2>11, <2>12, ResultsKept, SocketsKept, ListensKept DEF IInv

(* A call that has sent its command returns, or waits for a pong. *)
<1>SentCall.
    ASSUME IInv, NEW t \in Threads, SendSucceeds(t)
    PROVE  /\ call' \in [Threads -> CallType] /\ call'[t][1] \in {"idle", "Await"}
           /\ \A u \in Threads : u # t => call'[u] = call[u]
  <2> USE <1>SentCall
  <2> DEFINE m == IF call[t][1] = "Ping" THEN <<"Await", call[t][2]>> ELSE Idle
  <2>1. call[t] \in Commands  BY <1>SendingCommand DEF SendSucceeds
  <2>2. call[t][1] = "Ping" => call[t][2] \in Pings  BY <2>1, CommandKinds, SMTT(30)
  <2>3. m \in CallType /\ m[1] \in {"idle", "Await"}
    <3>1. CASE call[t][1] = "Ping"  BY <2>2, <3>1, CallKinds
    <3>2. CASE call[t][1] # "Ping"  BY <3>2, CallKinds
    <3> QED  BY <3>1, <3>2, SMTT(30)
  <2>4. call' = [call EXCEPT ![t] = m]
    <3>1. call \in [Threads -> CallType]  BY DEF IInv, Typed, TypeOK, CallType
    <3> QED  BY <3>1 DEF SendSucceeds
  <2> HIDE DEF m
  <2> QED  BY <2>3, <2>4, OneCall DEF IInv

<1>SendFrame.
    ASSUME NEW t \in Threads, SendSucceeds(t)
    PROVE  /\ llcm' = llcm /\ phase' = phase /\ initialized' = initialized /\ serverVersion' = serverVersion
           /\ llcmInfo' = llcmInfo /\ failed' = failed /\ listens' = listens /\ socks' = socks /\ ops' = ops
           /\ pings' = pings /\ pingResults' = pingResults /\ nextListen' = nextListen /\ nextSock' = nextSock
           /\ nextOp' = nextOp /\ pingSeq' = pingSeq /\ link' = link /\ slowIn' = slowIn /\ fastIn' = fastIn
           /\ dxs' = dxs
  <2> USE <1>SendFrame
  <2> QED  BY DEF SendSucceeds, init, tables, pinging, numbers

<1>SendFastOK.
    ASSUME IInv, NEW t \in Threads, SendSucceeds(t), Fast(call[t])
    PROVE  IInv'
  <2> USE <1>SendFastOK
  <2>1. /\ fastOut' = Append(fastOut, call[t]) /\ slowOut' = slowOut /\ llcm /\ call[t][1] \in FastCommands
        /\ Sending(t)
    BY DEF SendSucceeds, Fast
  <2>2. call[t] \in Commands /\ phase \in {"ready", "shutdown"}  BY <2>1, <1>SendingCommand
  <2>3. fastOut \in Seq(Commands)  BY DEF IInv, Typed, TypeOK
  <2>4. /\ fastOut' \in Seq(Commands)
        /\ \A i \in 1 .. Len(fastOut') : (i \in 1 .. Len(fastOut) /\ fastOut'[i] = fastOut[i]) \/ fastOut'[i] = call[t]
    <3>1. Longer(fastOut', fastOut, call[t], Commands)  BY <2>1, <2>2, <2>3, AppendedAt
    <3> QED  BY <3>1 DEF Longer
  <2>5. call[t][1] \notin OpenKinds /\ call[t][1] \notin ListenKinds  BY <2>1, SMTT(30) DEF FastCommands, OpenKinds, ListenKinds
  <2>6. call'[t][1] \notin OpenKinds \cup UseKinds /\ call'[t][1] \notin ListenKinds
    BY <1>SentCall, SMTT(30) DEF OpenKinds, UseKinds, ListenKinds
  <2>7. \A u \in Threads : call'[u] # call[u] => u = t  BY <1>SentCall
  <2>8. Typed'
    BY ZenonT(40), <2>1, <2>4, <1>SendFrame, <1>SentCall DEF IInv, Typed, TypeOK, CallType
  <2>9. FastInv'
    <3>1. \A i \in 1 .. Len(fastOut') : fastOut'[i][1] \in FastCommands  BY <2>1, <2>4 DEF IInv, FastInv
    <3> QED  BY <2>1, <3>1, <1>SendFrame DEF IInv, FastInv
  <2>10. PhaseInv'  BY <2>2, <1>SendFrame, PhaseKept DEF IInv
  <2>11. KeepsResults  BY <1>SendFrame, FromSame DEF KeepsResults
  <2>12. NothingPendingAfterFailure'
    <3>1. llcm'  BY <2>1, <1>SendFrame
    <3>2. ASSUME link = "failed", NEW l \in Listens, listens[l].status = "pending"
          PROVE  \E u \in Threads : call'[u] = <<"Listen", l>>
      <4>1. PICK u \in Threads : call[u] = <<"Listen", l>>  BY <3>2 DEF IInv, NothingPendingAfterFailure
      <4>2. call[u][1] = "Listen"  BY <4>1, SMTT(30)
      <4> QED  BY <2>5, <2>7, <4>1, <4>2 DEF ListenKinds
    <3>3. ASSUME link = "failed", NEW h \in Socks, socks[h].status = "pending"
          PROVE  \E u \in Threads : call'[u][1] \in {"Connect", "Accept"} /\ call'[u][2] = h
      <4>1. PICK u \in Threads : call[u][1] \in {"Connect", "Accept"} /\ call[u][2] = h
        BY <3>3 DEF IInv, NothingPendingAfterFailure
      <4>2. u # t  BY <2>5, <4>1 DEF OpenKinds
      <4> QED  BY <2>7, <4>1, <4>2
    <3> QED  BY <3>1, <3>2, <3>3, <1>SendFrame DEF NothingPendingAfterFailure
  <2>13. KeepsSockets
    <3>1. SentFast  BY <2>4 DEF SentFast
    <3> QED  BY <2>1, <2>5, <2>6, <2>7, <3>1, <1>SendFrame, FromSame DEF KeepsSockets
  <2>14. KeepsListens  BY <2>1, <2>5, <2>6, <2>7, <1>SendFrame, PrefixSame DEF KeepsListens
  <2> QED  BY <2>8, <2>9, <2>10, <2>11, <2>12, <2>13, <2>14, ResultsKept, SocketsKept, ListensKept DEF IInv

(* Connect, Accept, Send or Recv goes from the call to the slow channel. *)
<1>SendSlowSockets.
    ASSUME IInv, NEW t \in Threads, SendSucceeds(t), link = "up", fastOut' = fastOut,
           Longer(slowOut', slowOut, call[t], Commands)
    PROVE  SocketsInv'
  <2> USE <1>SendSlowSockets
  <2>1. /\ Len(slowOut') = Len(slowOut) + 1 /\ Len(slowOut) \in Nat
        /\ \A i \in 1 .. Len(slowOut) : i \in 1 .. Len(slowOut') /\ slowOut'[i] = slowOut[i]
        /\ \A i \in 1 .. Len(slowOut') : (i \in 1 .. Len(slowOut) /\ slowOut'[i] = slowOut[i])
                                         \/ (i = Len(slowOut') /\ slowOut'[i] = call[t])
        /\ Len(slowOut') \in 1 .. Len(slowOut') /\ slowOut'[Len(slowOut')] = call[t]
    BY DEF Longer
  <2>2. /\ llcm' = llcm /\ serverVersion' = serverVersion /\ socks' = socks /\ nextSock' = nextSock
        /\ link' = link /\ slowIn' = slowIn /\ dxs' = dxs
    BY <1>SendFrame
  <2>3. \A u \in Threads : u # t => call'[u] = call[u]  BY <1>SentCall
  <2>4. call'[t][1] \notin OpenKinds /\ call'[t][1] \notin UseKinds  BY <1>SentCall, SMTT(30) DEF OpenKinds, UseKinds
  <2>5. \A u \in Threads : \A h : Opens(call'[u], h) => u # t /\ Opens(call[u], h)
    BY <2>3, <2>4 DEF Opens, OpenKinds
  <2>6. \A u \in Threads : \A h : Uses(call'[u], h) => u # t /\ Uses(call[u], h)
    BY <2>3, <2>4 DEF Uses, UseKinds
  <2>7. OpenInv /\ SockInv /\ OrderInv  BY DEF IInv, SocketsInv
  <2>8. OpenInv'
    <3>1. ASSUME NEW h \in Socks, NEW u \in Threads, Opens(call'[u], h)
          PROVE  /\ h < nextSock /\ dxs.sockets[h] = "none"
                 /\ \A v \in Threads : Opens(call'[v], h) => v = u
                 /\ \A i \in 1 .. Len(slowOut') : ~Opens(slowOut'[i], h)
      <4>1. u # t /\ Opens(call[u], h)  BY <2>5, <3>1
      <4>2. /\ h < nextSock /\ dxs.sockets[h] = "none"
            /\ \A v \in Threads : Opens(call[v], h) => v = u
            /\ \A i \in 1 .. Len(slowOut) : ~Opens(slowOut[i], h)
        BY <2>7, <4>1 DEF OpenInv
      <4> QED  BY <2>1, <2>5, <4>1, <4>2
    <3>2. ASSUME NEW h \in Socks, NEW i \in 1 .. Len(slowOut'), Opens(slowOut'[i], h)
          PROVE  /\ h < nextSock /\ dxs.sockets[h] = "none"
                 /\ \A j \in 1 .. Len(slowOut') : Opens(slowOut'[j], h) => j = i
      <4>1. CASE i \in 1 .. Len(slowOut) /\ slowOut'[i] = slowOut[i]
        <5>1. ~Opens(call[t], h)  BY <2>7, <3>2, <4>1 DEF OpenInv
        <5>2. /\ h < nextSock /\ dxs.sockets[h] = "none"
              /\ \A j \in 1 .. Len(slowOut) : Opens(slowOut[j], h) => j = i
          BY <2>7, <3>2, <4>1 DEF OpenInv
        <5> QED  BY <2>1, <5>1, <5>2
      <4>2. CASE i = Len(slowOut') /\ slowOut'[i] = call[t]
        <5>1. /\ h < nextSock /\ dxs.sockets[h] = "none"
              /\ \A j \in 1 .. Len(slowOut) : ~Opens(slowOut[j], h)
          BY <2>7, <3>2, <4>2 DEF OpenInv
        <5> QED  BY <2>1, <4>2, <5>1
      <4> QED  BY <2>1, <4>1, <4>2
    <3>3. ASSUME NEW h \in Socks
          PROVE  /\ h >= nextSock => socks[h].status = "none" /\ dxs.sockets[h] = "none"
                 /\ \A i \in 1 .. Len(slowIn) : slowIn[i][1] \in {"ConnectAck", "AcceptAck"} /\ slowIn[i][2] = h =>
                      slowIn[i][3] = dxs.sockets[h]
      BY <2>7 DEF OpenInv
    <3> QED  BY <2>2, <3>1, <3>2, <3>3 DEF OpenInv
  <2>9. SockInv'
    <3>1. ASSUME NEW h \in Socks, serverVersion >= kAcceptAckVersion
          PROVE  /\ socks[h].status = "connected" => dxs.sockets[h] = "connected"
                 /\ \A u \in Threads : Uses(call'[u], h) => dxs.sockets[h] = "connected"
                 /\ \A i \in 1 .. Len(slowOut') : Uses(slowOut'[i], h) => dxs.sockets[h] = "connected"
                 /\ \A i \in 1 .. Len(fastOut) : Uses(fastOut[i], h) => dxs.sockets[h] = "connected"
      <4>1. /\ socks[h].status = "connected" => dxs.sockets[h] = "connected"
            /\ \A u \in Threads : Uses(call[u], h) => dxs.sockets[h] = "connected"
            /\ \A i \in 1 .. Len(slowOut) : Uses(slowOut[i], h) => dxs.sockets[h] = "connected"
            /\ \A i \in 1 .. Len(fastOut) : Uses(fastOut[i], h) => dxs.sockets[h] = "connected"
        BY <2>7, <3>1 DEF SockInv
      <4> QED  BY <2>1, <2>6, <4>1
    <3> QED  BY <2>2, <3>1 DEF SockInv
  <2>10. OrderInv'
    <3> DEFINE Known(h, n) == dxs'.sockets[h] # "none" \/ \E j \in 1 .. n : Opens(slowOut'[j], h)
    <3>1. ASSUME NEW h, KnownBefore(h, Len(slowOut))  PROVE  Known(h, Len(slowOut'))
      BY <2>1, <2>2, <3>1 DEF KnownBefore
    <3>2. ASSUME NEW h, NEW i \in 1 .. Len(slowOut), KnownBefore(h, i - 1)  PROVE  Known(h, i - 1)
      <4>1. \A j \in 1 .. i - 1 : j \in 1 .. Len(slowOut)  BY <2>1, SMTT(30)
      <4> QED  BY <2>1, <2>2, <3>2, <4>1 DEF KnownBefore
    <3>3. ASSUME NEW h, KnownBefore(h, Len(slowOut))  PROVE  Known(h, Len(slowOut') - 1)
      <4>1. Len(slowOut') - 1 = Len(slowOut)  BY <2>1, SMTT(30)
      <4> QED  BY <2>1, <2>2, <3>3, <4>1 DEF KnownBefore
    <3>4. ASSUME NEW h \in Socks, ~llcm, socks[h].status = "connected"
          PROVE  Known(h, Len(slowOut')) \/ \E u \in Threads : Opens(call'[u], h)
      <4>1. KnownBefore(h, Len(slowOut)) \/ \E u \in Threads : Opens(call[u], h)  BY <2>7, <3>4 DEF OrderInv
      <4>2. ASSUME Opens(call[t], h)  PROVE Known(h, Len(slowOut'))  BY <2>1, <4>2
      <4>3. ASSUME NEW u \in Threads, Opens(call[u], h), u # t  PROVE Opens(call'[u], h)  BY <2>3, <4>3
      <4> QED  BY <3>1, <4>1, <4>2, <4>3
    <3>5. ASSUME NEW h \in Socks, ~llcm, NEW u \in Threads, Uses(call'[u], h)  PROVE Known(h, Len(slowOut'))
      BY <2>6, <2>7, <3>1, <3>5 DEF OrderInv
    <3>6. ASSUME NEW h \in Socks, ~llcm, NEW i \in 1 .. Len(slowOut'), Uses(slowOut'[i], h)  PROVE Known(h, i - 1)
      <4>1. CASE i \in 1 .. Len(slowOut) /\ slowOut'[i] = slowOut[i]
        BY <2>7, <3>2, <3>6, <4>1 DEF OrderInv
      <4>2. CASE i = Len(slowOut') /\ slowOut'[i] = call[t]
        BY <2>7, <3>3, <3>6, <4>2 DEF OrderInv
      <4> QED  BY <2>1, <4>1, <4>2
    <3> QED  BY <2>2, <3>4, <3>5, <3>6 DEF OrderInv, KnownBefore
  <2> QED  BY <2>8, <2>9, <2>10 DEF SocketsInv

(* Listen, Accept or CloseListen goes from the call to the slow channel. *)
<1>SendSlowListens.
    ASSUME CountFacts, IInv, NEW t \in Threads, SendSucceeds(t), link = "up",
           slowOut' = Append(slowOut, call[t]), Longer(slowOut', slowOut, call[t], Commands)
    PROVE  ListensInv'
  <2> USE <1>SendSlowListens
  <2>1. /\ \A i \in 1 .. Len(slowOut') : (i \in 1 .. Len(slowOut) /\ slowOut'[i] = slowOut[i])
                                         \/ (i = Len(slowOut') /\ slowOut'[i] = call[t])
    BY DEF Longer
  <2>2. /\ listens' = listens /\ nextListen' = nextListen /\ link' = link /\ slowIn' = slowIn /\ dxs' = dxs
    BY <1>SendFrame
  <2>3. \A u \in Threads : u # t => call'[u] = call[u]  BY <1>SentCall
  <2>4. call'[t][1] # "Listen" /\ call'[t][1] \notin {"Popped", "Accept"}  BY <1>SentCall, SMTT(30)
  <2>5. \A l : <<"Listen", l>>[1] = "Listen"  BY SMTT(30)
  <2>6. \A u \in Threads : \A l : call'[u] = <<"Listen", l>> => u # t /\ call[u] = <<"Listen", l>>
    BY <2>3, <2>4, <2>5
  <2>7. \A u \in Threads : \A l : Accepts(call'[u], l) <=> u # t /\ Accepts(call[u], l)
    BY <2>3, <2>4 DEF Accepts
  <2>8. ListenBound /\ ListenOnce /\ PendingInv /\ CountInv  BY DEF IInv, ListensInv
  <2>9. ListenBound'
    <3>1. ASSUME NEW l \in Listens, l >= nextListen
          PROVE  /\ listens[l].status = "none" /\ listens[l].connections = 0
                 /\ l \notin dxs.listening /\ dxs.waiting[l] = 0
                 /\ \A u \in Threads : call'[u] # <<"Listen", l>> /\ ~Accepts(call'[u], l)
                 /\ \A i \in 1 .. Len(slowOut') : slowOut'[i] # <<"Listen", l>> /\ ~Accepts(slowOut'[i], l)
                 /\ \A i \in 1 .. Len(slowIn) : ~Acks(slowIn[i], l) /\ slowIn[i] # <<"Incoming", l>>
      <4>1. /\ listens[l].status = "none" /\ listens[l].connections = 0
            /\ l \notin dxs.listening /\ dxs.waiting[l] = 0
            /\ \A u \in Threads : call[u] # <<"Listen", l>> /\ ~Accepts(call[u], l)
            /\ \A i \in 1 .. Len(slowOut) : slowOut[i] # <<"Listen", l>> /\ ~Accepts(slowOut[i], l)
            /\ \A i \in 1 .. Len(slowIn) : ~Acks(slowIn[i], l) /\ slowIn[i] # <<"Incoming", l>>
        BY <2>8, <3>1 DEF ListenBound
      <4> QED  BY ZenonT(40), <2>1, <2>6, <2>7, <4>1
    <3> QED  BY <2>2, <3>1 DEF ListenBound
  <2>10. ListenOnce'
    <3>1. \A l : Unanswered(l)' <=> Unanswered(l)  BY <2>2 DEF Unanswered
    <3>2. ASSUME NEW l \in Listens, NEW u \in Threads, call'[u] = <<"Listen", l>>
          PROVE  /\ Unanswered(l)
                 /\ \A v \in Threads : call'[v] = <<"Listen", l>> => v = u
                 /\ \A i \in 1 .. Len(slowOut') : slowOut'[i] # <<"Listen", l>>
                 /\ \A i \in 1 .. Len(slowIn) : ~Acks(slowIn[i], l)
      <4>1. u # t /\ call[u] = <<"Listen", l>>  BY <2>6, <3>2
      <4>2. /\ Unanswered(l)
            /\ \A v \in Threads : call[v] = <<"Listen", l>> => v = u
            /\ \A i \in 1 .. Len(slowOut) : slowOut[i] # <<"Listen", l>>
            /\ \A i \in 1 .. Len(slowIn) : ~Acks(slowIn[i], l)
        BY <2>8, <4>1 DEF ListenOnce
      <4> QED  BY <2>1, <2>6, <4>1, <4>2
    <3>3. ASSUME NEW l \in Listens, NEW i \in 1 .. Len(slowOut'), slowOut'[i] = <<"Listen", l>>
          PROVE  /\ Unanswered(l)
                 /\ \A j \in 1 .. Len(slowOut') : slowOut'[j] = <<"Listen", l>> => j = i
                 /\ \A j \in 1 .. Len(slowIn) : ~Acks(slowIn[j], l)
      <4>1. CASE i \in 1 .. Len(slowOut) /\ slowOut'[i] = slowOut[i]
        <5>1. /\ Unanswered(l) /\ call[t] # <<"Listen", l>>
              /\ \A j \in 1 .. Len(slowOut) : slowOut[j] = <<"Listen", l>> => j = i
              /\ \A j \in 1 .. Len(slowIn) : ~Acks(slowIn[j], l)
          BY <2>8, <3>3, <4>1 DEF ListenOnce
        <5> QED  BY <2>1, <5>1
      <4>2. CASE i = Len(slowOut') /\ slowOut'[i] = call[t]
        <5>1. /\ Unanswered(l)
              /\ \A j \in 1 .. Len(slowOut) : slowOut[j] # <<"Listen", l>>
              /\ \A j \in 1 .. Len(slowIn) : ~Acks(slowIn[j], l)
          BY <2>8, <3>3, <4>2 DEF ListenOnce
        <5> QED  BY <2>1, <4>2, <5>1
      <4> QED  BY <2>1, <4>1, <4>2
    <3>4. ASSUME NEW l \in Listens, NEW i \in 1 .. Len(slowIn), Acks(slowIn[i], l)
          PROVE  /\ Unanswered(l)
                 /\ \A j \in 1 .. Len(slowIn) : Acks(slowIn[j], l) => j = i
      BY <2>8, <3>4 DEF ListenOnce
    <3> QED  BY <2>2, <3>1, <3>2, <3>3, <3>4 DEF ListenOnce
  <2>11. PendingInv'
    <3>1. \A l, n : ReadyBefore(l, n)' <=> ReadyBefore(l, n)  BY <2>2 DEF ReadyBefore
    <3>2. ASSUME NEW l \in Listens, listens[l].status = "pending"
          PROVE  /\ listens[l].connections = 0
                 /\ \A u \in Threads : ~Accepts(call'[u], l)
                 /\ \A i \in 1 .. Len(slowOut') : ~Accepts(slowOut'[i], l)
                 /\ \A i \in 1 .. Len(slowIn) : slowIn[i] = <<"Incoming", l>> => ReadyBefore(l, i - 1)
                 /\ l \in dxs.listening => ReadyBefore(l, Len(slowIn))
      <4>1. /\ listens[l].connections = 0
            /\ \A u \in Threads : ~Accepts(call[u], l)
            /\ \A i \in 1 .. Len(slowOut) : ~Accepts(slowOut[i], l)
            /\ \A i \in 1 .. Len(slowIn) : slowIn[i] = <<"Incoming", l>> => ReadyBefore(l, i - 1)
            /\ l \in dxs.listening => ReadyBefore(l, Len(slowIn))
        BY <2>8, <3>2 DEF PendingInv
      <4> QED  BY <2>1, <2>7, <4>1
    <3> QED  BY <2>2, <3>1, <3>2 DEF PendingInv
  <2>12. CountInv'
    <3>1. ASSUME NEW l \in Listens, listens[l].status \in {"pending", "ready"}
          PROVE  dxs.waiting[l] = listens[l].connections + Count(slowIn, IncomingTo(l))
                                  + Cardinality(Accepting(l)') + Count(slowOut', AcceptsOf(l))
      <4>1. dxs.waiting[l] = listens[l].connections + Count(slowIn, IncomingTo(l))
                             + Cardinality(Accepting(l)) + Count(slowOut, AcceptsOf(l))
        BY <2>8, <3>1 DEF CountInv
      <4>2. slowOut \in Seq(Commands) /\ slowIn \in Seq(Replies) /\ listens[l].connections \in Nat
        BY DEF IInv, Typed, TypeOK
      <4>3. call[t] \in Commands  BY <1>SendingCommand DEF SendSucceeds
      <4>4. /\ Count(slowOut', AcceptsOf(l)) = Count(slowOut, AcceptsOf(l)) + One(call[t] \in AcceptsOf(l))
            /\ Count(slowOut, AcceptsOf(l)) \in Nat
        BY <4>2, <4>3 DEF CountFacts, SeqFact
      <4>5. Count(slowIn, IncomingTo(l)) \in Nat  BY <4>2 DEF CountFacts, SeqFact
      <4>6. Accepting(l)' = Accepting(l) \ {t} /\ Accepting(l) \in SUBSET Threads  BY <2>7 DEF Accepting
      <4>7. /\ Cardinality(Accepting(l)') = Cardinality(Accepting(l)) - One(t \in Accepting(l))
            /\ Cardinality(Accepting(l)) \in Nat
        BY <4>6 DEF CountFacts, ThreadsFact
      <4>8. t \in Accepting(l) <=> call[t] \in AcceptsOf(l)  BY <4>3 DEF Accepting, AcceptsOf
      <4>9. One(t \in Accepting(l)) = One(call[t] \in AcceptsOf(l)) /\ One(call[t] \in AcceptsOf(l)) \in Nat
        BY <4>8 DEF One
      <4> QED  BY <4>1, <4>2, <4>4, <4>5, <4>7, <4>9, SMTT(30)
    <3> QED  BY <2>2, <3>1 DEF CountInv
  <2> QED  BY <2>9, <2>10, <2>11, <2>12 DEF ListensInv

<1>SendSlowOK.
    ASSUME CountFacts, IInv, NEW t \in Threads, SendSucceeds(t), ~Fast(call[t])
    PROVE  IInv'
  <2> USE <1>SendSlowOK
  <2>1. link = "up" /\ slowOut' = Append(slowOut, call[t]) /\ fastOut' = fastOut /\ Sending(t)
    BY DEF SendSucceeds
  <2>2. call[t] \in Commands /\ phase \in {"ready", "shutdown"}  BY <2>1, <1>SendingCommand
  <2>3. slowOut \in Seq(Commands)  BY DEF IInv, Typed, TypeOK
  <2>4. Longer(slowOut', slowOut, call[t], Commands)  BY <2>1, <2>2, <2>3, AppendedAt
  <2>5. slowOut' \in Seq(Commands)  BY <2>4 DEF Longer
  <2>6. Typed'  BY ZenonT(40), <2>1, <2>5, <1>SendFrame, <1>SentCall DEF IInv, Typed, TypeOK, CallType
  <2>7. FastInv'  BY <2>1, <1>SendFrame DEF IInv, FastInv
  <2>8. PhaseInv'  BY <2>2, <1>SendFrame, PhaseKept DEF IInv
  <2>9. KeepsResults  BY <1>SendFrame, FromSame DEF KeepsResults
  <2>10. link' # "failed"  BY <2>1, <1>SendFrame, SMTT(30)
  <2>11. NothingPendingAfterFailure'  BY <2>10 DEF NothingPendingAfterFailure
  <2>12. SocketsInv' /\ ListensInv'  BY <2>1, <2>4, <1>SendSlowSockets, <1>SendSlowListens
  <2> QED  BY <2>6, <2>7, <2>8, <2>9, <2>11, <2>12, ResultsKept DEF IInv

(* A call that registers an object is the one that answers for it. *)
<1>PendingStarts.
    ASSUME IInv, NEW t \in Threads, call[t] = Idle \/ call[t][1] = "Popped", link' = link, llcm' = llcm,
           \A u \in Threads : u # t => call'[u] = call[u],
           \A l \in Listens : listens'[l].status = "pending" =>
             listens[l].status = "pending" \/ call'[t] = <<"Listen", l>>,
           \A h \in Socks : socks'[h].status = "pending" =>
             socks[h].status = "pending" \/ (call'[t][1] \in {"Connect", "Accept"} /\ call'[t][2] = h),
           \A o \in Ops : ops'[o] = "pending" =>
             ops[o] = "pending" \/ (call'[t][1] \in {"Send", "Recv"} /\ call'[t][3] = o)
    PROVE  NothingPendingAfterFailure'
  <2> USE <1>PendingStarts
  <2>1. /\ \A l : call[t] # <<"Listen", l>>
        /\ call[t][1] \notin {"Connect", "Accept"} /\ call[t][1] \notin {"Send", "Recv"}
    BY SMTT(30) DEF Idle
  <2>2. ASSUME link = "failed", NEW l \in Listens, listens'[l].status = "pending"
        PROVE  \E u \in Threads : call'[u] = <<"Listen", l>>
    <3>1. CASE listens[l].status = "pending"
      <4>1. PICK u \in Threads : call[u] = <<"Listen", l>>
        BY <2>2, <3>1 DEF IInv, NothingPendingAfterFailure
      <4>2. u # t  BY <2>1, <4>1
      <4> QED  BY <4>1, <4>2
    <3>2. CASE call'[t] = <<"Listen", l>>  BY <3>2
    <3> QED  BY <2>2, <3>1, <3>2
  <2>3. ASSUME link = "failed", NEW h \in Socks, socks'[h].status = "pending"
        PROVE  \E u \in Threads : call'[u][1] \in {"Connect", "Accept"} /\ call'[u][2] = h
    <3>1. CASE socks[h].status = "pending"
      <4>1. PICK u \in Threads : call[u][1] \in {"Connect", "Accept"} /\ call[u][2] = h
        BY <2>3, <3>1 DEF IInv, NothingPendingAfterFailure
      <4>2. u # t  BY <2>1, <4>1
      <4> QED  BY <4>1, <4>2
    <3>2. CASE call'[t][1] \in {"Connect", "Accept"} /\ call'[t][2] = h  BY <3>2
    <3> QED  BY <2>3, <3>1, <3>2
  <2>4. ASSUME link = "failed", ~llcm, NEW o \in Ops, ops'[o] = "pending"
        PROVE  \E u \in Threads : call'[u][1] \in {"Send", "Recv"} /\ call'[u][3] = o
    <3>1. CASE ops[o] = "pending"
      <4>1. PICK u \in Threads : call[u][1] \in {"Send", "Recv"} /\ call[u][3] = o
        BY <2>4, <3>1 DEF IInv, NothingPendingAfterFailure
      <4>2. u # t  BY <2>1, <4>1
      <4> QED  BY <4>1, <4>2
    <3>2. CASE call'[t][1] \in {"Send", "Recv"} /\ call'[t][3] = o  BY <3>2
    <3> QED  BY <2>4, <3>1, <3>2
  <2> QED  BY <2>2, <2>3, <2>4 DEF NothingPendingAfterFailure

<1>RequestSockets.
    ASSUME IInv, NEW t \in Threads, NEW h \in Socks, NEW o, NEW c \in {"Send", "Recv"}, Frame,
           call[t] = Idle, call'[t] = <<c, h, o>>, \A u \in Threads : u # t => call'[u] = call[u],
           socks' = socks, nextSock' = nextSock, socks[h].status = "connected", ~MadeInCall(h)
    PROVE  SocketsInv'
  <2> USE <1>RequestSockets
  <2>1. call'[t][1] \notin OpenKinds /\ call[t][1] \notin OpenKinds /\ call'[t][2] = h  BY SMTT(30) DEF OpenKinds, Idle
  <2>2. \A u \in Threads : \A g : Opens(call'[u], g) <=> Opens(call[u], g)
    <3>1. \A g : ~Opens(call'[t], g) /\ ~Opens(call[t], g)  BY <2>1 DEF Opens, OpenKinds
    <3> QED  BY <3>1
  <2>3. \A u \in Threads : \A g : Uses(call'[u], g) => Uses(call[u], g) \/ g = h  BY <2>1 DEF Uses
  <2>4. ~\E u \in Threads : Opens(call[u], h)  BY DEF MadeInCall, Opens
  <2>5. OpenInv /\ SockInv /\ OrderInv  BY DEF IInv, SocketsInv
  <2>6. /\ llcm' = llcm /\ serverVersion' = serverVersion /\ link' = link /\ slowOut' = slowOut /\ slowIn' = slowIn
        /\ fastOut' = fastOut /\ dxs' = dxs
    BY <1>ApiFrame
  <2>7. OpenInv'  BY ZenonT(40), <2>2, <2>5, <2>6 DEF OpenInv
  <2>8. SockInv'
    <3>1. ASSUME serverVersion >= kAcceptAckVersion, NEW g \in Socks, NEW u \in Threads, Uses(call'[u], g)
          PROVE  dxs.sockets[g] = "connected"
      BY <2>3, <2>5, <3>1 DEF SockInv
    <3> QED  BY <2>5, <2>6, <3>1 DEF SockInv
  <2>9. OrderInv'
    <3>1. \A g, n : KnownBefore(g, n)' <=> KnownBefore(g, n)  BY <2>6 DEF KnownBefore
    <3>2. ASSUME ~llcm, link = "up", NEW g \in Socks, NEW u \in Threads, Uses(call'[u], g)
          PROVE  KnownBefore(g, Len(slowOut))
      BY <2>3, <2>4, <2>5, <3>2 DEF OrderInv
    <3>3. ASSUME ~llcm, NEW g \in Socks
          PROVE  /\ link = "up" /\ socks[g].status = "connected" =>
                      KnownBefore(g, Len(slowOut)) \/ \E u \in Threads : Opens(call'[u], g)
                 /\ \A i \in 1 .. Len(slowOut) : Uses(slowOut[i], g) => KnownBefore(g, i - 1)
      BY <2>2, <2>5, <3>3 DEF OrderInv
    <3> QED  BY <2>6, <3>1, <3>2, <3>3 DEF OrderInv
  <2> QED  BY <2>7, <2>8, <2>9 DEF SocketsInv

<1>RequestOK.
    ASSUME IInv, NEW t \in Threads, NEW h \in Socks, Request(t, h)
    PROVE  IInv'
  <2> USE <1>RequestOK
  <2> DEFINE c == IF socks[h].dir = "send" THEN "Send" ELSE "Recv"
             m == <<c, h, nextOp>>
  <2>1. /\ listens' = listens /\ socks' = socks /\ pings' = pings /\ pingResults' = pingResults
        /\ nextListen' = nextListen /\ nextSock' = nextSock /\ pingSeq' = pingSeq /\ Frame
        /\ nextOp <= MaxOps /\ nextOp' = nextOp + 1 /\ ops' = [ops EXCEPT ![nextOp] = "pending"]
        /\ ~MadeInCall(h) /\ socks[h].status = "connected"
    BY DEF Request, pinging
  <2>2. phase = "ready" /\ call[t] = Idle /\ call' = [call EXCEPT ![t] = m]  BY DEF Request, Calls
  <2>3. nextOp \in Ops /\ nextOp' \in 1 .. MaxOps + 1
    <3>1. nextOp \in 1 .. MaxOps + 1  BY Numbers DEF IInv
    <3> QED  BY <2>1, <3>1, Bounds, SMTT(30) DEF Ops
  <2>4. c \in {"Send", "Recv"}  BY SMTT(30)
  <2> HIDE DEF c
  <2>5. m \in CallType
    <3>1. c = "Send" \/ c = "Recv"  BY <2>4
    <3> QED  BY <2>3, <3>1, CommandsMade, CallKinds
  <2>6. m[1] \notin ListenKinds /\ Idle[1] \notin ListenKinds /\ m[1] \in {"Send", "Recv"} /\ m[3] = nextOp
    BY <2>4, SMTT(30) DEF ListenKinds, Idle
  <2>7. /\ call' \in [Threads -> CallType] /\ call'[t] = m
        /\ \A u \in Threads : u # t => call'[u] = call[u]
    BY <2>2, <2>5, OneCall DEF IInv
  <2>8. /\ ops' \in [Ops -> {"none", "pending", "complete", "error"}]
        /\ \A o \in Ops : o # nextOp => ops'[o] = ops[o]
        /\ ops'[nextOp] = "pending"
    <3>1. ops \in [Ops -> {"none", "pending", "complete", "error"}]  BY DEF IInv, Typed, TypeOK
    <3> QED  BY <2>1, <2>3, <3>1
  <2>9. Typed'
    BY ZenonT(40), <2>1, <2>3, <2>7, <2>8, <1>ApiFrame DEF IInv, Typed, TypeOK, CallType
  <2>10. FastInv' /\ PhaseInv' /\ KeepsResults
    <3>1. \A o \in Ops : ops'[o] = "complete" => ops[o] = "complete"  BY <2>8, SMTT(30)
    <3> QED  BY <2>1, <2>2, <3>1, <1>ApiKept
  <2>11. NothingPendingAfterFailure'
    <3>1. \A o \in Ops : ops'[o] = "pending" =>
             ops[o] = "pending" \/ (call'[t][1] \in {"Send", "Recv"} /\ call'[t][3] = o)
      BY <2>6, <2>7, <2>8
    <3> QED  BY <2>1, <2>2, <2>7, <3>1, <1>ApiFrame, <1>PendingStarts
  <2>12. SocketsInv'  BY <2>1, <2>2, <2>4, <2>7, <1>RequestSockets
  <2>13. KeepsListens
    BY <2>1, <2>2, <2>6, <2>7, <1>ApiFrame, PrefixSame DEF KeepsListens
  <2> QED  BY <2>9, <2>10, <2>11, <2>12, <2>13, ResultsKept, ListensKept DEF IInv

(* Connect and Accept give a new data socket the next number. *)
<1>OpenSockets.
    ASSUME IInv, NEW t \in Threads, NEW x, nextSock \in Socks, Frame,
           call[t] = Idle \/ call[t][1] = "Popped", Opens(call'[t], nextSock),
           \A u \in Threads : u # t => call'[u] = call[u],
           socks' = [socks EXCEPT ![nextSock] = x], nextSock' = nextSock + 1,
           x.status = "connected" => serverVersion < kAcceptAckVersion
    PROVE  SocketsInv'
  <2> USE <1>OpenSockets
  <2>1. OpenInv /\ SockInv /\ OrderInv  BY DEF IInv, SocketsInv
  <2>2. /\ llcm' = llcm /\ serverVersion' = serverVersion /\ link' = link /\ slowOut' = slowOut /\ slowIn' = slowIn
        /\ fastOut' = fastOut /\ dxs' = dxs
    BY <1>ApiFrame
  <2>3. socks'[nextSock] = x /\ \A h \in Socks : h # nextSock => socks'[h] = socks[h]
    <3>1. socks \in [Socks -> SockType]  BY DEF IInv, Typed, TypeOK, SockType
    <3> QED  BY <3>1
  <2>4. nextSock \in Nat /\ \A h \in Socks : h \in Nat  BY SMTT(30) DEF Socks
  <2>5. /\ ~(nextSock < nextSock) /\ nextSock < nextSock' /\ nextSock >= nextSock
        /\ \A h \in Socks : (h >= nextSock' => h >= nextSock /\ h # nextSock) /\ (h < nextSock => h < nextSock')
    <3>1. nextSock' = nextSock + 1  OBVIOUS
    <3> HIDE <1>OpenSockets
    <3> QED  BY <2>4, <3>1, SMTT(30)
  <2>6. \A h : ~Opens(call[t], h) /\ ~Uses(call[t], h)  BY SMTT(30) DEF Opens, Uses, Idle
  <2>7. \A h : Opens(call'[t], h) => h = nextSock  BY DEF Opens
  <2>8. \A h : ~Uses(call'[t], h)
    <3>1. call'[t][1] \in {"Connect", "Accept"}  BY DEF Opens
    <3>2. call'[t][1] \notin {"Send", "Recv"}  BY <3>1, SMTT(30)
    <3> QED  BY <3>2 DEF Uses
  <2>9. dxs.sockets[nextSock] = "none" /\ \A u \in Threads : ~Opens(call[u], nextSock)
    BY <2>1, <2>5 DEF OpenInv
  <2>10. \A i \in 1 .. Len(slowOut) : ~Opens(slowOut[i], nextSock)  BY <2>1, <2>5 DEF OpenInv
  <2>11. OpenInv'
    <3>1. ASSUME NEW h \in Socks, h >= nextSock'  PROVE  socks'[h].status = "none" /\ dxs.sockets[h] = "none"
      <4>1. h >= nextSock /\ h # nextSock  BY <2>5, <3>1
      <4> QED  BY <2>1, <2>3, <4>1 DEF OpenInv
    <3>2. ASSUME NEW h \in Socks, NEW u \in Threads, Opens(call'[u], h)
          PROVE  /\ h < nextSock' /\ dxs.sockets[h] = "none"
                 /\ \A v \in Threads : Opens(call'[v], h) => v = u
                 /\ \A i \in 1 .. Len(slowOut) : ~Opens(slowOut[i], h)
      <4>1. CASE u = t
        <5>1. h = nextSock  BY <2>7, <3>2, <4>1
        <5> QED  BY <2>5, <2>9, <2>10, <4>1, <5>1
      <4>2. CASE u # t
        <5>1. Opens(call[u], h) /\ h # nextSock  BY <2>9, <3>2, <4>2
        <5>2. /\ h < nextSock /\ dxs.sockets[h] = "none"
              /\ \A v \in Threads : Opens(call[v], h) => v = u
              /\ \A i \in 1 .. Len(slowOut) : ~Opens(slowOut[i], h)
          BY <2>1, <5>1 DEF OpenInv
        <5> QED  BY <2>5, <2>7, <5>1, <5>2
      <4> QED  BY <4>1, <4>2
    <3>3. ASSUME NEW h \in Socks, NEW i \in 1 .. Len(slowOut), Opens(slowOut[i], h)
          PROVE  /\ h < nextSock' /\ dxs.sockets[h] = "none"
                 /\ \A j \in 1 .. Len(slowOut) : Opens(slowOut[j], h) => j = i
      BY <2>1, <2>5, <3>3 DEF OpenInv
    <3>4. ASSUME NEW h \in Socks
          PROVE  \A i \in 1 .. Len(slowIn) : slowIn[i][1] \in {"ConnectAck", "AcceptAck"} /\ slowIn[i][2] = h =>
                      slowIn[i][3] = dxs.sockets[h]
      BY <2>1 DEF OpenInv
    <3> QED  BY <2>2, <3>1, <3>2, <3>3, <3>4 DEF OpenInv
  <2>12. SockInv'
    <3>1. ASSUME serverVersion >= kAcceptAckVersion, NEW h \in Socks, socks'[h].status = "connected"
          PROVE  dxs.sockets[h] = "connected"
      <4>1. ~(serverVersion < kAcceptAckVersion)
        <5>1. serverVersion \in Nat /\ kAcceptAckVersion \in Nat
          BY BoundsAssumption, SMTT(30) DEF IInv, Typed, TypeOK
        <5> QED  BY <3>1, <5>1, SMTT(30)
      <4> QED  BY <2>1, <2>3, <3>1, <4>1 DEF SockInv
    <3>2. ASSUME serverVersion >= kAcceptAckVersion, NEW h \in Socks, NEW u \in Threads, Uses(call'[u], h)
          PROVE  dxs.sockets[h] = "connected"
      BY <2>1, <2>8, <3>2 DEF SockInv
    <3> QED  BY <2>1, <2>2, <3>1, <3>2 DEF SockInv
  <2>13. OrderInv'
    <3>1. \A g, n : KnownBefore(g, n)' <=> KnownBefore(g, n)  BY <2>2 DEF KnownBefore
    <3>2. ASSUME ~llcm, link = "up", NEW h \in Socks, socks'[h].status = "connected"
          PROVE  KnownBefore(h, Len(slowOut)) \/ \E u \in Threads : Opens(call'[u], h)
      <4>1. CASE h = nextSock  BY <4>1
      <4>2. CASE h # nextSock
        <5>1. KnownBefore(h, Len(slowOut)) \/ \E u \in Threads : Opens(call[u], h)
          BY <2>1, <2>3, <3>2, <4>2 DEF OrderInv
        <5> QED  BY <2>6, <5>1
      <4> QED  BY <4>1, <4>2
    <3>3. ASSUME ~llcm, link = "up", NEW h \in Socks, NEW u \in Threads, Uses(call'[u], h)
          PROVE  KnownBefore(h, Len(slowOut))
      BY <2>1, <2>8, <3>3 DEF OrderInv
    <3>4. ASSUME ~llcm, NEW h \in Socks, NEW i \in 1 .. Len(slowOut), Uses(slowOut[i], h)
          PROVE  KnownBefore(h, i - 1)
      BY <2>1, <3>4 DEF OrderInv
    <3> QED  BY <2>2, <3>1, <3>2, <3>3, <3>4 DEF OrderInv
  <2> QED  BY <2>11, <2>12, <2>13 DEF SocketsInv

<1>SockLeftOK.
    ASSUME CountFacts, IInv, SockLeft
    PROVE  nextSock <= MaxSocks
  <2> USE <1>SockLeftOK
  <2> DEFINE P == {t \in Threads : call[t][1] = "Popped"}
             c == Cardinality(P)
  <2>1. nextSock + c <= MaxSocks  BY DEF SockLeft
  <2>2. P \in SUBSET Threads  OBVIOUS
  <2> HIDE DEF P
  <2>3. c \in Nat
    <3>1. CASE P = {}  BY <3>1, SMTT(30) DEF CountFacts, ThreadsFact
    <3>2. CASE P # {}  BY <2>2, <3>2 DEF CountFacts, ThreadsFact
    <3> QED  BY <3>1, <3>2
  <2>4. nextSock \in 1 .. MaxSocks + 1  BY Numbers DEF IInv
  <2> HIDE DEF c
  <2> QED  BY <2>1, <2>3, <2>4, Bounds, SMTT(30)

<1>ConnectOK.
    ASSUME CountFacts, IInv, NEW t \in Threads, Connect(t)
    PROVE  IInv'
  <2> USE <1>ConnectOK
  <2> DEFINE x == [dir |-> "send", status |-> "pending"]
             m == <<"Connect", nextSock>>
  <2>1. /\ listens' = listens /\ ops' = ops /\ pings' = pings /\ pingResults' = pingResults
        /\ nextListen' = nextListen /\ nextOp' = nextOp /\ pingSeq' = pingSeq /\ Frame
        /\ nextSock <= MaxSocks /\ nextSock' = nextSock + 1 /\ socks' = [socks EXCEPT ![nextSock] = x]
        /\ phase = "ready" /\ call[t] = Idle /\ call' = [call EXCEPT ![t] = m]
    BY <1>SockLeftOK DEF Connect, Calls, pinging
  <2>2. nextSock \in Socks /\ nextSock' \in 1 .. MaxSocks + 1
    <3>1. nextSock \in 1 .. MaxSocks + 1  BY Numbers DEF IInv
    <3> QED  BY <2>1, <3>1, Bounds, SMTT(30) DEF Socks
  <2>3. x \in SockType /\ x.status = "pending" /\ x.status # "connected"  BY SMTT(30) DEF SockType
  <2>4. m \in CallType  BY <2>2, CommandsMade, CallKinds
  <2>5. /\ m[1] \notin ListenKinds /\ Idle[1] \notin ListenKinds
        /\ m[1] \in {"Connect", "Accept"} /\ m[2] = nextSock
    BY SMTT(30) DEF ListenKinds, Idle
  <2> HIDE DEF x, m
  <2>6. /\ call' \in [Threads -> CallType] /\ call'[t] = m
        /\ \A u \in Threads : u # t => call'[u] = call[u]
    BY <2>1, <2>4, OneCall DEF IInv
  <2>7. socks' \in [Socks -> SockType] /\ \A h \in Socks : h # nextSock => socks'[h] = socks[h]
    <3>1. socks \in [Socks -> SockType]  BY DEF IInv, Typed, TypeOK, SockType
    <3> QED  BY <2>1, <2>2, <2>3, <3>1
  <2>8. Typed'
    BY <2>1, <2>2, <2>6, <2>7, <1>ApiFrame DEF IInv, Typed, TypeOK, CallType, SockType
  <2>9. FastInv' /\ PhaseInv' /\ KeepsResults  BY <2>1, <1>ApiKept
  <2>10. NothingPendingAfterFailure'
    <3>1. \A h \in Socks : socks'[h].status = "pending" =>
             socks[h].status = "pending" \/ (call'[t][1] \in {"Connect", "Accept"} /\ call'[t][2] = h)
      BY <2>5, <2>6, <2>7
    <3> QED  BY <2>1, <2>6, <3>1, <1>ApiFrame, <1>PendingStarts
  <2>11. SocketsInv'
    <3>1. Opens(call'[t], nextSock)  BY <2>5, <2>6 DEF Opens
    <3> QED  BY <2>1, <2>2, <2>3, <2>6, <3>1, <1>OpenSockets
  <2>12. KeepsListens
    BY <2>1, <2>5, <2>6, <1>ApiFrame, PrefixSame DEF KeepsListens
  <2> QED  BY <2>8, <2>9, <2>10, <2>11, <2>12, ResultsKept, ListensKept DEF IInv

(* An accepted connection goes from pending_connections_ to the call. *)
<1>AcceptListens.
    ASSUME CountFacts, IInv, NEW t \in Threads, NEW l \in Listens, Frame, nextListen' = nextListen,
           call[t] = Idle, call'[t] = Popped(l), \A u \in Threads : u # t => call'[u] = call[u],
           listens[l].status = "ready", listens[l].connections > 0, listens'[l].status = "ready",
           listens'[l].connections = listens[l].connections - 1, \A k \in Listens : k # l => listens'[k] = listens[k]
    PROVE  ListensInv'
  <2> USE <1>AcceptListens
  <2>1. ListenBound /\ ListenOnce /\ PendingInv /\ CountInv  BY DEF IInv, ListensInv
  <2>2. link' = link /\ slowOut' = slowOut /\ slowIn' = slowIn /\ dxs' = dxs  BY <1>ApiFrame
  <2>3. \A k \in Listens : listens'[k].status = listens[k].status  OBVIOUS
  <2>4. \A k : call'[t] # <<"Listen", k>> /\ call[t] # <<"Listen", k>> /\ ~Accepts(call[t], k)
    BY SMTT(30) DEF Idle, Accepts, Popped
  <2>5. \A k : Accepts(call'[t], k) <=> k = l
    <3>1. call'[t][1] = "Popped" /\ call'[t][3] = l  BY CallKinds, ZenonT(40)
    <3> QED  BY <3>1 DEF Accepts
  <2>6. \A u \in Threads : \A k : call'[u] = <<"Listen", k>> <=> call[u] = <<"Listen", k>>  BY <2>4
  <2>7. \A u \in Threads : \A k : k # l => (Accepts(call'[u], k) <=> Accepts(call[u], k))  BY <2>4, <2>5
  <2>8. ListenBound'
    <3>1. ASSUME NEW k \in Listens, k >= nextListen  PROVE k # l
      <4>1. listens[k].status = "none"  BY <2>1, <3>1 DEF ListenBound
      <4> QED  BY <4>1, SMTT(30)
    <3>2. ASSUME NEW k \in Listens, k >= nextListen
          PROVE  /\ listens'[k].status = "none" /\ listens'[k].connections = 0
                 /\ k \notin dxs.listening /\ dxs.waiting[k] = 0
                 /\ \A u \in Threads : call'[u] # <<"Listen", k>> /\ ~Accepts(call'[u], k)
                 /\ \A i \in 1 .. Len(slowOut) : slowOut[i] # <<"Listen", k>> /\ ~Accepts(slowOut[i], k)
                 /\ \A i \in 1 .. Len(slowIn) : ~Acks(slowIn[i], k) /\ slowIn[i] # <<"Incoming", k>>
      <4>1. /\ listens[k].status = "none" /\ listens[k].connections = 0
            /\ k \notin dxs.listening /\ dxs.waiting[k] = 0
            /\ \A u \in Threads : call[u] # <<"Listen", k>> /\ ~Accepts(call[u], k)
            /\ \A i \in 1 .. Len(slowOut) : slowOut[i] # <<"Listen", k>> /\ ~Accepts(slowOut[i], k)
            /\ \A i \in 1 .. Len(slowIn) : ~Acks(slowIn[i], k) /\ slowIn[i] # <<"Incoming", k>>
        BY <2>1, <3>2 DEF ListenBound
      <4>2. k # l  BY <3>1, <3>2
      <4> QED  BY <2>6, <2>7, <4>1, <4>2
    <3> QED  BY <2>2, <3>2 DEF ListenBound
  <2>9. ListenOnce'
    <3>1. \A k \in Listens : Unanswered(k)' <=> Unanswered(k)  BY <2>2, <2>3 DEF Unanswered
    <3>2. ASSUME NEW k \in Listens, NEW u \in Threads, call'[u] = <<"Listen", k>>
          PROVE  /\ Unanswered(k)'
                 /\ \A v \in Threads : call'[v] = <<"Listen", k>> => v = u
                 /\ \A i \in 1 .. Len(slowOut) : slowOut[i] # <<"Listen", k>>
                 /\ \A i \in 1 .. Len(slowIn) : ~Acks(slowIn[i], k)
      <4>1. call[u] = <<"Listen", k>>  BY <2>6, <3>2
      <4>2. /\ Unanswered(k)
            /\ \A v \in Threads : call[v] = <<"Listen", k>> => v = u
            /\ \A i \in 1 .. Len(slowOut) : slowOut[i] # <<"Listen", k>>
            /\ \A i \in 1 .. Len(slowIn) : ~Acks(slowIn[i], k)
        BY <2>1, <4>1 DEF ListenOnce
      <4> QED  BY ZenonT(40), <2>6, <3>1, <4>2
    <3>3. ASSUME NEW k \in Listens
          PROVE  /\ \A i \in 1 .. Len(slowOut) : slowOut[i] = <<"Listen", k>> =>
                      /\ Unanswered(k)
                      /\ \A j \in 1 .. Len(slowOut) : slowOut[j] = <<"Listen", k>> => j = i
                      /\ \A j \in 1 .. Len(slowIn) : ~Acks(slowIn[j], k)
                 /\ \A i \in 1 .. Len(slowIn) : Acks(slowIn[i], k) =>
                      /\ Unanswered(k)
                      /\ \A j \in 1 .. Len(slowIn) : Acks(slowIn[j], k) => j = i
      BY <2>1 DEF ListenOnce
    <3> QED  BY ZenonT(40), <2>2, <3>1, <3>2, <3>3 DEF ListenOnce
  <2>10. PendingInv'
    <3>1. \A k, n : ReadyBefore(k, n)' <=> ReadyBefore(k, n)  BY <2>2 DEF ReadyBefore
    <3>2. ASSUME link = "up", NEW k \in Listens, listens'[k].status = "pending"
          PROVE  /\ listens'[k].connections = 0
                 /\ \A u \in Threads : ~Accepts(call'[u], k)
                 /\ \A i \in 1 .. Len(slowOut) : ~Accepts(slowOut[i], k)
                 /\ \A i \in 1 .. Len(slowIn) : slowIn[i] = <<"Incoming", k>> => ReadyBefore(k, i - 1)
                 /\ k \in dxs.listening => ReadyBefore(k, Len(slowIn))
      <4>1. k # l  BY <3>2, SMTT(30)
      <4> QED  BY <2>1, <2>7, <3>2, <4>1 DEF PendingInv
    <3> QED  BY <2>2, <3>1, <3>2 DEF PendingInv
  <2>11. CountInv'
    <3>1. ASSUME link = "up", NEW k \in Listens, listens'[k].status \in {"pending", "ready"}
          PROVE  dxs.waiting[k] = listens'[k].connections + Count(slowIn, IncomingTo(k))
                                  + Cardinality(Accepting(k)') + Count(slowOut, AcceptsOf(k))
      <4>1. dxs.waiting[k] = listens[k].connections + Count(slowIn, IncomingTo(k))
                             + Cardinality(Accepting(k)) + Count(slowOut, AcceptsOf(k))
        BY <2>1, <2>3, <3>1 DEF CountInv
      <4>2. CASE k # l
        <5>1. Accepting(k)' = Accepting(k)  BY <2>7, <4>2 DEF Accepting
        <5> QED  BY <4>1, <4>2, <5>1
      <4>3. CASE k = l
        <5>1. Accepting(l)' = Accepting(l) \cup {t} /\ t \notin Accepting(l) /\ Accepting(l) \in SUBSET Threads
          BY <2>4, <2>5 DEF Accepting
        <5>2. /\ Cardinality(Accepting(l)') = Cardinality(Accepting(l)) + 1
              /\ Cardinality(Accepting(l)) \in Nat
          BY <5>1 DEF CountFacts, ThreadsFact, One
        <5>3. slowOut \in Seq(Commands) /\ slowIn \in Seq(Replies) /\ listens[l].connections \in Nat
          BY DEF IInv, Typed, TypeOK
        <5>4. Count(slowOut, AcceptsOf(l)) \in Nat /\ Count(slowIn, IncomingTo(l)) \in Nat
          BY <5>3 DEF CountFacts, SeqFact
        <5>5. listens'[l].connections = listens[l].connections - 1  BY SMTT(30)
        <5>6. dxs.waiting[l] = (listens[l].connections - 1) + Count(slowIn, IncomingTo(l))
                               + (Cardinality(Accepting(l)) + 1) + Count(slowOut, AcceptsOf(l))
          <6> DEFINE c == listens[l].connections
                     i == Count(slowIn, IncomingTo(l))
                     a == Cardinality(Accepting(l))
                     o == Count(slowOut, AcceptsOf(l))
          <6>1. dxs.waiting[l] = c + i + a + o  BY <4>1, <4>3
          <6>2. c \in Nat /\ i \in Nat /\ a \in Nat /\ o \in Nat  BY <5>2, <5>3, <5>4
          <6> HIDE DEF c, i, a, o
          <6>3. c + i + a + o = (c - 1) + i + (a + 1) + o  BY <6>2, SMTT(30)
          <6> QED  BY <6>1, <6>3 DEF c, i, a, o
        <5> QED  BY <4>3, <5>2, <5>5, <5>6
      <4> QED  BY <4>2, <4>3
    <3> QED  BY <2>2, <3>1 DEF CountInv
  <2> QED  BY <2>8, <2>9, <2>10, <2>11 DEF ListensInv

<1>AcceptOK.
    ASSUME CountFacts, IInv, NEW t \in Threads, NEW l \in Listens, Accept(t, l)
    PROVE  IInv'
  <2> USE <1>AcceptOK
  <2> DEFINE m == Popped(l)
             e == [listens[l] EXCEPT !.connections = listens[l].connections - 1]
  <2>1. /\ socks' = socks /\ ops' = ops /\ pings' = pings /\ pingResults' = pingResults /\ nextSock' = nextSock
        /\ nextListen' = nextListen /\ nextOp' = nextOp /\ pingSeq' = pingSeq /\ Frame
        /\ phase = "ready" /\ call[t] = Idle /\ call' = [call EXCEPT ![t] = m]
        /\ listens[l].status = "ready" /\ listens[l].connections > 0
    BY DEF Accept, Calls, pinging, numbers
  <2>2. m \in CallType  BY CallKinds
  <2>3. m[1] \notin OpenKinds \cup UseKinds /\ Idle[1] \notin OpenKinds /\ Idle[1] \notin ObjectKinds
    BY CallKinds, SMTT(30) DEF OpenKinds, UseKinds, ObjectKinds
  <2>4. /\ call' \in [Threads -> CallType] /\ call'[t] = m
        /\ \A u \in Threads : u # t => call'[u] = call[u]
    BY <2>1, <2>2, OneCall DEF IInv
  <2>5. /\ listens' \in [Listens -> ListenType] /\ listens'[l].status = "ready"
        /\ listens'[l].connections = listens[l].connections - 1
        /\ \A k \in Listens : k # l => listens'[k] = listens[k]
    <3>1. listens \in [Listens -> ListenType]  BY DEF IInv, Typed, TypeOK, ListenType
    <3>2. listens' = [listens EXCEPT ![l] = e]  BY <3>1 DEF Accept
    <3>3. listens[l].connections \in Nat  BY <3>1 DEF ListenType
    <3>4. listens[l].connections - 1 \in Nat  BY <2>1, <3>3, SMTT(30)
    <3>5. e \in ListenType /\ e.status = listens[l].status /\ e.connections = listens[l].connections - 1
      BY <3>1, <3>4, ListenCount
    <3> HIDE DEF e
    <3> QED  BY <2>1, <3>1, <3>2, <3>5
  <2> HIDE DEF e, m
  <2>6. Typed'
    BY ZenonT(40), <2>1, <2>4, <2>5, <1>ApiFrame DEF IInv, Typed, TypeOK, CallType, ListenType
  <2>7. FastInv' /\ PhaseInv' /\ KeepsResults  BY <2>1, <1>ApiKept
  <2>8. KeepsPending
    <3>1. \A k \in Listens : listens'[k].status = "pending" => listens[k].status = "pending"  BY <2>5, SMTT(30)
    <3> QED  BY <2>1, <2>3, <2>4, <3>1, <1>ApiFrame DEF KeepsPending
  <2>9. KeepsSockets  BY <2>1, <2>3, <2>4, <1>ApiFrame, FromSame DEF KeepsSockets
  <2>10. ListensInv'  BY <2>1, <2>4, <2>5, <1>AcceptListens DEF m
  <2> QED  BY <2>6, <2>7, <2>8, <2>9, <2>10, ResultsKept, PendingKept, SocketsKept DEF IInv

<1>AcceptRegistersOK.
    ASSUME IInv, NEW t \in Threads, AcceptRegisters(t)
    PROVE  IInv'
  <2> USE <1>AcceptRegistersOK
  <2> DEFINE l == call[t][3]
             m == <<"Accept", nextSock, l>>
  <2>1. /\ listens' = listens /\ ops' = ops /\ pings' = pings /\ pingResults' = pingResults
        /\ nextListen' = nextListen /\ nextOp' = nextOp /\ pingSeq' = pingSeq /\ Frame
        /\ nextSock <= MaxSocks /\ nextSock' = nextSock + 1 /\ socks' = [socks EXCEPT ![nextSock] = NewRecvSocket]
        /\ call[t][1] = "Popped" /\ call' = [call EXCEPT ![t] = m]
    BY DEF AcceptRegisters, pinging
  <2>2. nextSock \in Socks /\ nextSock' \in 1 .. MaxSocks + 1
    <3>1. nextSock \in 1 .. MaxSocks + 1  BY Numbers DEF IInv
    <3> QED  BY <2>1, <3>1, Bounds, SMTT(30) DEF Socks
  <2>3. /\ NewRecvSocket \in SockType
        /\ NewRecvSocket.status = "connected" => serverVersion < kAcceptAckVersion
    <3>1. serverVersion \in Nat /\ kAcceptAckVersion \in Nat  BY BoundsAssumption, SMTT(30) DEF IInv, Typed, TypeOK
    <3> QED  BY <3>1, SMTT(30) DEF NewRecvSocket, SockType
  <2>4. l \in Listens
    <3>1. call[t] \in CallType  BY DEF IInv, Typed, TypeOK, CallType
    <3>2. call[t] \notin Commands
      <4>1. call[t] \in Commands => call[t][1] # "Popped"  BY CommandKinds, SMTT(30)
      <4> QED  BY <2>1, <4>1
    <3>3. call[t] # Idle /\ \A k : call[t] # <<"Await", k>>  BY <2>1, CallKinds, SMTT(30)
    <3>4. PICK k \in Listens : call[t] = Popped(k)  BY <3>1, <3>2, <3>3 DEF CallType
    <3> QED  BY <3>4, CallKinds
  <2>5. m \in CallType  BY <2>2, <2>4, CommandsMade, CallKinds
  <2>6. m[1] = "Accept" /\ m[1] \in {"Connect", "Accept"} /\ m[2] = nextSock /\ m[3] = call[t][3]  BY SMTT(30)
  <2>7. call[t] # Idle  BY <2>1, CallKinds, SMTT(30)
  <2> HIDE DEF l, m
  <2>8. /\ call' \in [Threads -> CallType] /\ call'[t] = m
        /\ \A u \in Threads : u # t => call'[u] = call[u]
    BY <2>1, <2>5, OneCall DEF IInv
  <2>9. socks' \in [Socks -> SockType] /\ \A h \in Socks : h # nextSock => socks'[h] = socks[h]
    <3>1. socks \in [Socks -> SockType]  BY DEF IInv, Typed, TypeOK, SockType
    <3> QED  BY <2>1, <2>2, <2>3, <3>1
  <2>10. Typed'
    BY ZenonT(40), <2>1, <2>2, <2>8, <2>9, <1>ApiFrame DEF IInv, Typed, TypeOK, CallType, SockType
  <2>11. FastInv' /\ PhaseInv' /\ KeepsResults  BY <2>1, <2>7, CallPhase, <1>ApiKept
  <2>12. NothingPendingAfterFailure'
    <3>1. \A h \in Socks : socks'[h].status = "pending" =>
             socks[h].status = "pending" \/ (call'[t][1] \in {"Connect", "Accept"} /\ call'[t][2] = h)
      BY <2>6, <2>8, <2>9
    <3> QED  BY <2>1, <2>8, <3>1, <1>ApiFrame, <1>PendingStarts
  <2>13. SocketsInv'
    <3>1. Opens(call'[t], nextSock)  BY <2>6, <2>8 DEF Opens
    <3> QED  BY <2>1, <2>2, <2>3, <2>8, <3>1, <1>OpenSockets
  <2>14. KeepsListens
    <3>1. Registers(t)  BY <2>1, <2>6, <2>8 DEF Registers
    <3> QED  BY <2>1, <2>8, <3>1, <1>ApiFrame, PrefixSame DEF KeepsListens
  <2> QED  BY <2>10, <2>11, <2>12, <2>13, <2>14, ResultsKept, ListensKept DEF IInv

(* Listen gives a new listening socket the next number. *)
<1>OpenListens.
    ASSUME CountFacts, IInv, NEW t \in Threads, nextListen \in Listens, Frame, nextListen' = nextListen + 1,
           call[t] = Idle, call'[t] = <<"Listen", nextListen>>, \A u \in Threads : u # t => call'[u] = call[u],
           listens'[nextListen].status = "pending", listens'[nextListen].connections = listens[nextListen].connections,
           \A k \in Listens : k # nextListen => listens'[k] = listens[k]
    PROVE  ListensInv'
  <2> USE <1>OpenListens
  <2> DEFINE n == nextListen
  <2>1. ListenBound /\ ListenOnce /\ PendingInv /\ CountInv  BY DEF IInv, ListensInv
  <2>2. link' = link /\ slowOut' = slowOut /\ slowIn' = slowIn /\ dxs' = dxs  BY <1>ApiFrame
  <2>3. n >= n /\ \A k \in Listens : k >= nextListen' => k >= n /\ k # n  BY SMTT(30) DEF Listens
  <2>4. /\ listens[n].connections = 0 /\ n \notin dxs.listening /\ dxs.waiting[n] = 0
        /\ \A u \in Threads : call[u] # <<"Listen", n>> /\ ~Accepts(call[u], n)
        /\ \A i \in 1 .. Len(slowOut) : slowOut[i] # <<"Listen", n>> /\ ~Accepts(slowOut[i], n)
        /\ \A i \in 1 .. Len(slowIn) : ~Acks(slowIn[i], n) /\ slowIn[i] # <<"Incoming", n>>
    BY <2>1, <2>3 DEF ListenBound
  <2>5. \A k : call[t] # <<"Listen", k>> /\ ~Accepts(call[t], k) /\ ~Accepts(call'[t], k)
    BY SMTT(30) DEF Idle, Accepts
  <2>6. \A k : call'[t] = <<"Listen", k>> => k = n  BY SMTT(30)
  <2>7. \A u \in Threads : \A k : k # n => (call'[u] = <<"Listen", k>> <=> call[u] = <<"Listen", k>>)
    BY <2>5, <2>6
  <2>8. \A u \in Threads : \A k : Accepts(call'[u], k) <=> Accepts(call[u], k)  BY <2>5
  <2> HIDE DEF n
  <2>9. ListenBound'
    <3>1. ASSUME NEW k \in Listens, k >= nextListen'
          PROVE  /\ listens'[k].status = "none" /\ listens'[k].connections = 0
                 /\ k \notin dxs.listening /\ dxs.waiting[k] = 0
                 /\ \A u \in Threads : call'[u] # <<"Listen", k>> /\ ~Accepts(call'[u], k)
                 /\ \A i \in 1 .. Len(slowOut) : slowOut[i] # <<"Listen", k>> /\ ~Accepts(slowOut[i], k)
                 /\ \A i \in 1 .. Len(slowIn) : ~Acks(slowIn[i], k) /\ slowIn[i] # <<"Incoming", k>>
      <4>1. k >= nextListen /\ k # nextListen /\ k # n  BY <2>3, <3>1 DEF n
      <4>2. /\ listens[k].status = "none" /\ listens[k].connections = 0
            /\ k \notin dxs.listening /\ dxs.waiting[k] = 0
            /\ \A u \in Threads : call[u] # <<"Listen", k>> /\ ~Accepts(call[u], k)
            /\ \A i \in 1 .. Len(slowOut) : slowOut[i] # <<"Listen", k>> /\ ~Accepts(slowOut[i], k)
            /\ \A i \in 1 .. Len(slowIn) : ~Acks(slowIn[i], k) /\ slowIn[i] # <<"Incoming", k>>
        BY <2>1, <4>1 DEF ListenBound
      <4> QED  BY ZenonT(40), <2>7, <2>8, <4>1, <4>2
    <3> QED  BY <2>2, <3>1 DEF ListenBound
  <2>10. ListenOnce'
    <3>1. \A k \in Listens : k # n => (Unanswered(k)' <=> Unanswered(k))  BY <2>2 DEF Unanswered, n
    <3>2. \A k \in Listens : k = n => Unanswered(k)'  BY DEF Unanswered, n
    <3>3. ASSUME NEW k \in Listens, NEW u \in Threads, call'[u] = <<"Listen", k>>
          PROVE  /\ Unanswered(k)'
                 /\ \A v \in Threads : call'[v] = <<"Listen", k>> => v = u
                 /\ \A i \in 1 .. Len(slowOut) : slowOut[i] # <<"Listen", k>>
                 /\ \A i \in 1 .. Len(slowIn) : ~Acks(slowIn[i], k)
      <4>1. CASE k = n
        <5>1. \A v \in Threads : call'[v] = <<"Listen", k>> => v = t  BY <2>4, <4>1
        <5> QED  BY <2>4, <3>2, <3>3, <4>1, <5>1
      <4>2. CASE k # n
        <5>1. call[u] = <<"Listen", k>>  BY <2>7, <3>3, <4>2
        <5>2. /\ Unanswered(k)
              /\ \A v \in Threads : call[v] = <<"Listen", k>> => v = u
              /\ \A i \in 1 .. Len(slowOut) : slowOut[i] # <<"Listen", k>>
              /\ \A i \in 1 .. Len(slowIn) : ~Acks(slowIn[i], k)
          BY <2>1, <5>1 DEF ListenOnce
        <5> QED  BY ZenonT(40), <2>7, <3>1, <4>2, <5>2
      <4> QED  BY <4>1, <4>2
    <3>4. ASSUME NEW k \in Listens, NEW i \in 1 .. Len(slowOut), slowOut[i] = <<"Listen", k>>
          PROVE  /\ Unanswered(k)'
                 /\ \A j \in 1 .. Len(slowOut) : slowOut[j] = <<"Listen", k>> => j = i
                 /\ \A j \in 1 .. Len(slowIn) : ~Acks(slowIn[j], k)
      <4>1. k # n  BY <2>4, <3>4
      <4> QED  BY <2>1, <3>1, <3>4, <4>1 DEF ListenOnce
    <3>5. ASSUME NEW k \in Listens, NEW i \in 1 .. Len(slowIn), Acks(slowIn[i], k)
          PROVE  Unanswered(k)' /\ \A j \in 1 .. Len(slowIn) : Acks(slowIn[j], k) => j = i
      <4>1. k # n  BY <2>4, <3>5
      <4> QED  BY <2>1, <3>1, <3>5, <4>1 DEF ListenOnce
    <3> QED  BY ZenonT(40), <2>2, <3>3, <3>4, <3>5 DEF ListenOnce
  <2>11. PendingInv'
    <3>1. \A k, j : ReadyBefore(k, j)' <=> ReadyBefore(k, j)  BY <2>2 DEF ReadyBefore
    <3>2. ASSUME link = "up", NEW k \in Listens, listens'[k].status = "pending"
          PROVE  /\ listens'[k].connections = 0
                 /\ \A u \in Threads : ~Accepts(call'[u], k)
                 /\ \A i \in 1 .. Len(slowOut) : ~Accepts(slowOut[i], k)
                 /\ \A i \in 1 .. Len(slowIn) : slowIn[i] = <<"Incoming", k>> => ReadyBefore(k, i - 1)
                 /\ k \in dxs.listening => ReadyBefore(k, Len(slowIn))
      <4>1. CASE k = n
        <5>1. listens'[n].connections = 0  BY <2>4 DEF n
        <5> QED  BY <2>4, <2>8, <4>1, <5>1
      <4>2. CASE k # n
        <5>1. listens'[k] = listens[k]  BY <4>2 DEF n
        <5>2. /\ listens[k].connections = 0
              /\ \A u \in Threads : ~Accepts(call[u], k)
              /\ \A i \in 1 .. Len(slowOut) : ~Accepts(slowOut[i], k)
              /\ \A i \in 1 .. Len(slowIn) : slowIn[i] = <<"Incoming", k>> => ReadyBefore(k, i - 1)
              /\ k \in dxs.listening => ReadyBefore(k, Len(slowIn))
          BY <2>1, <3>2, <5>1 DEF PendingInv
        <5> QED  BY <2>8, <5>1, <5>2
      <4> QED  BY <4>1, <4>2
    <3> QED  BY <2>2, <3>1, <3>2 DEF PendingInv
  <2>12. CountInv'
    <3>1. \A k : Accepting(k)' = Accepting(k)  BY <2>8 DEF Accepting
    <3>2. ASSUME link = "up", NEW k \in Listens, listens'[k].status \in {"pending", "ready"}
          PROVE  dxs.waiting[k] = listens'[k].connections + Count(slowIn, IncomingTo(k))
                                  + Cardinality(Accepting(k)) + Count(slowOut, AcceptsOf(k))
      <4>1. CASE k = n
        <5>1. listens'[n].connections = 0  BY <2>4 DEF n
        <5>2. slowOut \in Seq(Commands) /\ slowIn \in Seq(Replies)  BY DEF IInv, Typed, TypeOK
        <5>3. \A i \in 1 .. Len(slowIn) : slowIn[i] \notin IncomingTo(n)  BY <2>4 DEF IncomingTo
        <5>4. \A i \in 1 .. Len(slowOut) : slowOut[i] \notin AcceptsOf(n)  BY <2>4 DEF AcceptsOf
        <5>5. Count(slowIn, IncomingTo(n)) = 0 /\ Count(slowOut, AcceptsOf(n)) = 0
          BY ZenonT(40), <5>2, <5>3, <5>4 DEF CountFacts, SeqFact
        <5>6. Accepting(n) = {}  BY <2>4 DEF Accepting
        <5>7. Cardinality(Accepting(n)) = 0  BY <5>6 DEF CountFacts, ThreadsFact
        <5>8. 0 = 0 + 0 + 0 + 0  BY SMTT(30)
        <5> QED  BY <2>4, <4>1, <5>1, <5>5, <5>7, <5>8
      <4>2. CASE k # n
        <5>1. listens'[k] = listens[k]  BY <4>2 DEF n
        <5> QED  BY <2>1, <3>2, <5>1 DEF CountInv
      <4> QED  BY <4>1, <4>2
    <3> QED  BY <2>2, <3>1, <3>2 DEF CountInv
  <2> QED  BY <2>9, <2>10, <2>11, <2>12 DEF ListensInv

<1>ListenOK.
    ASSUME CountFacts, IInv, NEW t \in Threads, Listen(t)
    PROVE  IInv'
  <2> USE <1>ListenOK
  <2> DEFINE m == <<"Listen", nextListen>>
             e == [listens[nextListen] EXCEPT !.status = "pending"]
  <2>1. /\ socks' = socks /\ ops' = ops /\ pings' = pings /\ pingResults' = pingResults
        /\ nextSock' = nextSock /\ nextOp' = nextOp /\ pingSeq' = pingSeq /\ Frame
        /\ nextListen <= MaxListens /\ nextListen' = nextListen + 1
        /\ phase = "ready" /\ call[t] = Idle /\ call' = [call EXCEPT ![t] = m]
    BY DEF Listen, Calls, pinging
  <2>2. nextListen \in Listens /\ nextListen' \in 1 .. MaxListens + 1
    <3>1. nextListen \in 1 .. MaxListens + 1  BY Numbers DEF IInv
    <3> QED  BY <2>1, <3>1, Bounds, SMTT(30) DEF Listens
  <2>3. m \in CallType  BY <2>2, CommandsMade, CallKinds
  <2>4. m[1] \notin OpenKinds \cup UseKinds /\ Idle[1] \notin OpenKinds  BY SMTT(30) DEF OpenKinds, UseKinds, Idle
  <2>5. /\ call' \in [Threads -> CallType] /\ call'[t] = m
        /\ \A u \in Threads : u # t => call'[u] = call[u]
    BY <2>1, <2>3, OneCall DEF IInv
  <2>6. /\ listens' \in [Listens -> ListenType] /\ listens'[nextListen].status = "pending"
        /\ listens'[nextListen].connections = listens[nextListen].connections
        /\ \A k \in Listens : k # nextListen => listens'[k] = listens[k]
    <3>1. listens \in [Listens -> ListenType]  BY DEF IInv, Typed, TypeOK, ListenType
    <3>2. listens' = [listens EXCEPT ![nextListen] = e]  BY <3>1 DEF Listen
    <3>3. e \in ListenType /\ e.status = "pending" /\ e.connections = listens[nextListen].connections
      BY <2>2, <3>1, ListenSet
    <3> HIDE DEF e
    <3> QED  BY <2>2, <3>1, <3>2, <3>3
  <2> HIDE DEF e
  <2>7. Typed'
    BY <2>1, <2>2, <2>5, <2>6, <1>ApiFrame DEF IInv, Typed, TypeOK, CallType, ListenType
  <2>8. FastInv' /\ PhaseInv' /\ KeepsResults  BY <2>1, <1>ApiKept
  <2>9. NothingPendingAfterFailure'
    <3>1. \A k \in Listens : listens'[k].status = "pending" =>
             listens[k].status = "pending" \/ call'[t] = <<"Listen", k>>
      BY <2>5, <2>6
    <3> QED  BY <2>1, <2>5, <3>1, <1>ApiFrame, <1>PendingStarts
  <2>10. KeepsSockets
    BY <2>1, <2>4, <2>5, <1>ApiFrame, FromSame DEF KeepsSockets
  <2>11. ListensInv'  BY <2>1, <2>2, <2>5, <2>6, <1>OpenListens
  <2> QED  BY <2>7, <2>8, <2>9, <2>10, <2>11, ResultsKept, SocketsKept DEF IInv

<1>CallsOK.
    ASSUME NEW t \in Threads, CallStep(t)
    PROVE  IInv'
  <2>1. CASE Listen(t)  BY <2>1, <1>ListenOK
  <2>2. CASE Connect(t)  BY <2>2, <1>ConnectOK
  <2>3. CASE Ping(t)  BY <2>3, <1>PingOK
  <2>4. CASE \E l \in Listens : Accept(t, l) \/ DestroyListen(t, l)  BY <2>4, <1>AcceptOK, <1>DestroyListenOK
  <2>5. CASE \E h \in Socks : Request(t, h) \/ DestroySocket(t, h)  BY <2>5, <1>RequestOK, <1>DestroySocketOK
  <2>6. CASE SendSucceeds(t)  BY <2>6, <1>SendFastOK, <1>SendSlowOK
  <2>7. CASE SendFails(t)  BY <2>7, <1>SendFailsOK
  <2>8. CASE PingReturns(t)  BY <2>8, <1>PingReturnsOK
  <2>9. CASE AcceptRegisters(t)  BY <2>9, <1>AcceptRegistersOK
  <2> QED  BY <1>CallsOK, <2>1, <2>2, <2>3, <2>4, <2>5, <2>6, <2>7, <2>8, <2>9 DEF CallStep, CallReturns
<1> QED
  BY <1>InitReturnsOK, <1>ShutdownOK, <1>ChannelLostOK, <1>FailureOK, <1>DestroyOpOK, <1>CallsOK DEF LocalStep
=============================================================================
