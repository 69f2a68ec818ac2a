------------------------------ MODULE DxsClient ------------------------------
(***************************************************************************)
(* DxsClient with its sockets and operations.  The client keeps a table    *)
(* entry for every live socket and operation; messages from DXS update the *)
(* entries, the failure of the control channel marks all of them, and the  *)
(* owner's destructor removes its entry.                                   *)
(*                                                                         *)
(* An API call is two steps: it registers its entry (under mu_), then it   *)
(* sends its message (without mu_), so acknowledgements and failures can   *)
(* come between.  A message from DXS is handled in one hold of mu_.        *)
(*                                                                         *)
(* Messages travel over two channels, each in order (InOrder of            *)
(* SctpHandler and of LlcmHandler) but not in order with each other: slow  *)
(* (SCTP) and, with LLCM, fast for the commands of the data path.          *)
(***************************************************************************)
EXTENDS Naturals, FiniteSets, Sequences

CONSTANTS Threads,              \* application threads
          MaxListens, MaxSocks, MaxOps, MaxPings,  \* bounds on what they create
          MaxConnections,       \* bound on the connections peers open
          ServerVersions,       \* what DXS may answer to kVersionedInit
          kMinimumWireVersion, kAcceptAckVersion,
          SendCloseOnTeardown   \* send_close_on_teardown_

ASSUME BoundsAssumption ==
  /\ {MaxListens, MaxSocks, MaxOps, MaxPings, MaxConnections} \subseteq Nat
  /\ IsFiniteSet(Threads) /\ ServerVersions \subseteq Nat
  /\ kMinimumWireVersion \in Nat \ {0} /\ kAcceptAckVersion \in Nat

Listens == 1 .. MaxListens
Socks == 1 .. MaxSocks
Ops == 1 .. MaxOps
Pings == 1 .. MaxPings

(* Entries of the tables.  "none": no entry.  port_ of a listening socket  *)
(* is 0 (pending), -1 (failed) or a port (ready).                          *)
NoListen == [status |-> "none", connections |-> 0]
NoSock == [dir |-> "none", status |-> "none"]
Idle == <<"idle">>

(* What a thread in Accept has: a connection of l, and no data socket yet. *)
Popped(l) == <<"Popped", 0, l>>

VARIABLES
  llcm,            \* enable_llcm
  phase,           \* DxsClient::Init: "init", then "ready" or "error"; "shutdown"
  failed, initialized, serverVersion, llcmInfo,
  listens,         \* outstanding_listen_sockets_
  socks,           \* outstanding_data_sockets_
  ops,             \* outstanding_send_ops_ and outstanding_linearized_recv_ops_
  pings, pingResults,                      \* outstanding_pings_, ping_results_
  nextListen, nextSock, nextOp, pingSeq,   \* the sequence numbers
  call,            \* the message each thread's API call is about to send
  link,            \* SctpHandler: "up", "lost" (not yet reported), "failed", "shutdown"
  slowOut, slowIn, fastOut, fastIn,        \* the control channels
  dxs              \* DXS, on the other side of them

init == <<phase, initialized, serverVersion, llcmInfo>>
tables == <<listens, socks, ops>>
pinging == <<pings, pingResults>>
numbers == <<nextListen, nextSock, nextOp, pingSeq>>
channels == <<slowOut, slowIn, fastOut, fastIn>>
vars == <<llcm, init, failed, tables, pinging, numbers, call, link, channels, dxs>>

Init ==
  /\ llcm \in BOOLEAN
  /\ phase = "init" /\ failed = FALSE
  /\ initialized = FALSE /\ serverVersion = 0 /\ llcmInfo = FALSE
  /\ listens = [l \in Listens |-> NoListen]
  /\ socks = [h \in Socks |-> NoSock]
  /\ ops = [o \in Ops |-> "none"]
  /\ pings = {} /\ pingResults = {}
  /\ nextListen = 1 /\ nextSock = 1 /\ nextOp = 1 /\ pingSeq = 0
  /\ call = [t \in Threads |-> Idle]
  /\ link = "up"
  /\ slowOut = IF llcm THEN <<<<"Init">>, <<"InitLlcm">>>> ELSE <<<<"Init">>>>
  /\ slowIn = <<>> /\ fastOut = <<>> /\ fastIn = <<>>
  /\ dxs = [listening |-> {}, sockets |-> [h \in Socks |-> "none"], taken |-> {}, completed |-> {},
            waiting |-> [l \in Listens |-> 0], connections |-> 0]

-----------------------------------------------------------------------------
(* DxsClient::Init waits for DXS, without a timeout.  With LLCM it then    *)
(* sets up the handler on the queues DXS named, which may fail.            *)
InitReturns ==
  /\ phase = "init"
  /\ \/ failed /\ phase' = "error"
     \/ /\ ~failed /\ initialized /\ (llcm => llcmInfo)
        /\ phase' = "ready" \/ (llcm /\ phase' = "error")
  /\ UNCHANGED <<llcm, failed, initialized, serverVersion, llcmInfo, tables, pinging,
                 numbers, call, link, channels, dxs>>

-----------------------------------------------------------------------------
(* API calls, up to the point where they send *)
Calls(t, m) == phase = "ready" /\ call[t] = Idle /\ call' = [call EXCEPT ![t] = m]

Frame == UNCHANGED <<llcm, init, failed, link, channels, dxs>>

(* An object that a call has yet to return, or is using. *)
ListenInCall(l) == \E t \in Threads : call[t] = <<"Listen", l>>
MadeInCall(h) == \E t \in Threads : call[t][1] \in {"Connect", "Accept"} /\ call[t][2] = h
UsedInCall(h) == \E t \in Threads : call[t][1] \in {"Send", "Recv"} /\ call[t][2] = h

Listen(t) ==
  /\ nextListen <= MaxListens
  /\ Calls(t, <<"Listen", nextListen>>)
  /\ listens' = [listens EXCEPT ![nextListen].status = "pending"]
  /\ nextListen' = nextListen + 1
  /\ UNCHANGED <<socks, ops, pinging, nextSock, nextOp, pingSeq>> /\ Frame

(* A number is left for one more socket, those popped served first. *)
SockLeft == nextSock + Cardinality({t \in Threads : call[t][1] = "Popped"}) <= MaxSocks

Connect(t) ==
  /\ SockLeft
  /\ Calls(t, <<"Connect", nextSock>>)
  /\ socks' = [socks EXCEPT ![nextSock] = [dir |-> "send", status |-> "pending"]]
  /\ nextSock' = nextSock + 1
  /\ UNCHANGED <<listens, ops, pinging, nextListen, nextOp, pingSeq>> /\ Frame

RecvSocketConnected == [dir |-> "recv", status |-> "connected"] \* mutant

(* RegisterRecvSocket: an old server sends no AcceptAck. *)
NewRecvSocket ==
  [dir |-> "recv",
   status |-> IF serverVersion >= kAcceptAckVersion THEN "pending" ELSE "connected"]

AcceptUnchecked(t, l) ==                                     \* mutant
  /\ SockLeft /\ ~ListenInCall(l)
  /\ listens[l].status = "ready"
  /\ Calls(t, Popped(l))
  /\ listens' = [listens EXCEPT ![l].connections = @ - 1]
  /\ UNCHANGED <<socks, ops, pinging, numbers>> /\ Frame

AcceptPeeks(t, l) ==                                         \* mutant
  /\ SockLeft /\ ~ListenInCall(l)
  /\ listens[l].status = "ready" /\ listens[l].connections > 0
  /\ Calls(t, Popped(l))
  /\ UNCHANGED <<tables, pinging, numbers>> /\ Frame

(* ListenSocket::Accept takes a pending connection under the mutex of the  *)
(* listening socket ...                                                    *)
Accept(t, l) ==
  /\ SockLeft /\ ~ListenInCall(l)
  /\ listens[l].status = "ready" /\ listens[l].connections > 0
  /\ Calls(t, Popped(l))
  /\ listens' = [listens EXCEPT ![l].connections = @ - 1]
  /\ UNCHANGED <<socks, ops, pinging, numbers>> /\ Frame

(* ... and then makes a data socket for it, under mu_. *)
AcceptRegisters(t) ==
  /\ call[t][1] = "Popped" /\ nextSock <= MaxSocks
  /\ call' = [call EXCEPT ![t] = <<"Accept", nextSock, @[3]>>]
  /\ socks' = [socks EXCEPT ![nextSock] = NewRecvSocket]
  /\ nextSock' = nextSock + 1
  /\ UNCHANGED <<listens, ops, pinging, nextListen, nextOp, pingSeq>> /\ Frame

(* SendSocket::Send and RecvSocket::RecvLinearized, which the plugin calls *)
(* once SocketReady has returned OK.                                       *)
Request(t, h) ==
  /\ nextOp <= MaxOps /\ ~MadeInCall(h)
  /\ socks[h].status = "connected"
  /\ Calls(t, <<IF socks[h].dir = "send" THEN "Send" ELSE "Recv", h, nextOp>>)
  /\ ops' = [ops EXCEPT ![nextOp] = "pending"]
  /\ nextOp' = nextOp + 1
  /\ UNCHANGED <<listens, socks, pinging, nextListen, nextSock, pingSeq>> /\ Frame

Ping(t) ==
  /\ pingSeq < MaxPings
  /\ pingSeq' = pingSeq + 1 /\ pings' = pings \cup {pingSeq'}
  /\ Calls(t, <<"Ping", pingSeq'>>)
  /\ UNCHANGED <<tables, pingResults, nextListen, nextSock, nextOp>> /\ Frame

(* The destructors: the cleanup removes the entry, the base class sends.   *)
(* The plugin destroys an operation when Test has returned its result and  *)
(* keeps the ones that failed.                                             *)
DestroyOp(o) ==
  /\ phase = "ready" /\ ops[o] = "complete"
  /\ ops' = [ops EXCEPT ![o] = "none"]
  /\ UNCHANGED <<listens, socks, pinging, numbers, call>> /\ Frame

DestroySocket(t, h) ==
  /\ socks[h].status # "none" /\ ~MadeInCall(h) /\ ~UsedInCall(h)
  /\ IF socks[h].dir = "recv" \/ SendCloseOnTeardown
       THEN Calls(t, <<"Close", h>>)
       ELSE phase = "ready" /\ call[t] = Idle /\ UNCHANGED call
  /\ socks' = [socks EXCEPT ![h] = NoSock]
  /\ UNCHANGED <<listens, ops, pinging, numbers>> /\ Frame

DestroyListen(t, l) ==
  /\ listens[l].status # "none" /\ ~ListenInCall(l)
  /\ Calls(t, <<"CloseListen", l>>)
  /\ listens' = [listens EXCEPT ![l] = NoListen]
  /\ UNCHANGED <<socks, ops, pinging, numbers>> /\ Frame

(* The only caller, NicClientRouter::Shutdown, calls nothing afterwards. *)
Shutdown ==
  /\ phase = "ready" /\ call = [t \in Threads |-> Idle]
  /\ phase' = "shutdown"
  /\ link' = IF link = "up" THEN "shutdown" ELSE link
  /\ UNCHANGED <<llcm, initialized, serverVersion, llcmInfo, failed, tables, pinging, numbers,
                 call, channels, dxs>>

-----------------------------------------------------------------------------
(* The second half of a call: message_handler().SendMessage, which sends   *)
(* the data path's commands over LLCM and the rest over SCTP.              *)
FastCommands == {"Send", "Recv", "Ping"}
Fast(m) == llcm /\ m[1] \in FastCommands

Sending(t) == call[t][1] \notin {"idle", "Popped", "Await"}

(* Ping goes on to wait for the answer. *)
SendSucceeds(t) ==
  /\ Sending(t)
  /\ IF Fast(call[t])
       THEN fastOut' = Append(fastOut, call[t]) /\ UNCHANGED slowOut
       ELSE link = "up" /\ slowOut' = Append(slowOut, call[t]) /\ UNCHANGED fastOut
  /\ call' = [call EXCEPT ![t] = IF @[1] = "Ping" THEN <<"Await", @[2]>> ELSE Idle]
  /\ UNCHANGED <<llcm, init, failed, tables, pinging, numbers, link, slowIn, fastIn, dxs>>

(* The association is gone: DXS takes no more commands from it, and the    *)
(* client gets no more than what it had already read.                      *)
LoseLink ==
  /\ link' = "lost" /\ slowOut' = <<>>
  /\ \E n \in 0 .. Len(slowIn) : slowIn' = SubSeq(slowIn, 1, n)

(* A failing send closes the association.  The call returns an error, and  *)
(* the object it was about to return is destroyed; its own Close fails.    *)
SendFails(t) ==
  /\ Sending(t) /\ ~Fast(call[t])
  /\ \/ link = "up" /\ LoseLink
     \/ link # "up" /\ UNCHANGED <<link, slowOut, slowIn>>
  /\ call' = [call EXCEPT ![t] = Idle]
  /\ LET m == call[t] IN
       /\ listens' = IF m[1] = "Listen" THEN [listens EXCEPT ![m[2]] = NoListen] ELSE listens
       /\ socks' = IF m[1] \in {"Connect", "Accept"}
                     THEN [socks EXCEPT ![m[2]] = NoSock] ELSE socks
       /\ ops' = IF m[1] \in {"Send", "Recv"} THEN [ops EXCEPT ![m[3]] = "none"] ELSE ops
  /\ UNCHANGED <<llcm, init, failed, pinging, numbers, fastOut, fastIn, dxs>>

PingAwaitsPong(t) ==                                         \* mutant
  /\ call[t][1] = "Await" /\ call[t][2] \notin pings
  /\ pingResults' = pingResults \ {call[t][2]}
  /\ call' = [call EXCEPT ![t] = Idle]
  /\ UNCHANGED <<pings, tables, numbers>> /\ Frame

(* The loop of Ping ends with a result, or with NotFound after a failure. *)
PingReturns(t) ==
  /\ call[t][1] = "Await"
  /\ failed \/ call[t][2] \notin pings
  /\ pingResults' = pingResults \ {call[t][2]}
  /\ call' = [call EXCEPT ![t] = Idle]
  /\ UNCHANGED <<pings, tables, numbers>> /\ Frame

-----------------------------------------------------------------------------
InitAckIgnoresOldServer(m) ==                                \* mutant
  /\ m[1] = "InitAck"
  /\ serverVersion' = IF m[3] THEN m[2] ELSE serverVersion
  /\ initialized' = (m[3] /\ m[2] >= kMinimumWireVersion)
  /\ failed' = (failed \/ ~m[3])
  /\ UNCHANGED <<llcmInfo, tables, pinging>>

(* ReceiveControlMessage: one handler for each message, under mu_ *)
HandleVersionedInitAck(m) ==
  /\ m[1] = "InitAck"
  /\ IF initialized
       THEN UNCHANGED <<failed, initialized, serverVersion>>
       ELSE /\ serverVersion' = IF m[3] THEN m[2] ELSE serverVersion
            /\ initialized' = (m[3] /\ m[2] >= kMinimumWireVersion)
            /\ failed' = (failed \/ ~initialized')
  /\ UNCHANGED <<llcmInfo, tables, pinging>>

HandleInitLlcmAck(m) ==
  /\ m[1] = "InitLlcmAck"
  /\ llcmInfo' = (llcmInfo \/ m[2])
  /\ failed' = (failed \/ (~llcmInfo /\ ~m[2]))
  /\ UNCHANGED <<initialized, serverVersion, tables, pinging>>

HandleListenAck(m) ==
  /\ m[1] = "ListenAck"
  /\ listens' = IF listens[m[2]].status = "none" THEN listens
                ELSE [listens EXCEPT ![m[2]].status = m[3]]
  /\ UNCHANGED <<failed, initialized, serverVersion, llcmInfo, socks, ops, pinging>>

HandleIncomingConnection(m) ==
  /\ m[1] = "Incoming"
  /\ listens' = IF listens[m[2]].status # "ready" THEN listens
                ELSE [listens EXCEPT ![m[2]].connections = @ + 1]
  /\ UNCHANGED <<failed, initialized, serverVersion, llcmInfo, socks, ops, pinging>>

(* HandleConnectAck, HandleAcceptAck *)
HandleSockAck(m) ==
  /\ m[1] \in {"ConnectAck", "AcceptAck"}
  /\ socks' = IF socks[m[2]].status = "none" THEN socks
              ELSE [socks EXCEPT ![m[2]].status = m[3]]
  /\ UNCHANGED <<failed, initialized, serverVersion, llcmInfo, listens, ops, pinging>>

OpAckIgnoresStatus(m) ==                                     \* mutant
  /\ m[1] = "OpAck"
  /\ ops' = IF ops[m[2]] = "none" THEN ops ELSE [ops EXCEPT ![m[2]] = "complete"]
  /\ UNCHANGED <<failed, initialized, serverVersion, llcmInfo, listens, socks, pinging>>

OpAckIgnoresErrors(m) ==                                     \* mutant
  /\ m[1] = "OpAck"
  /\ ops' = IF m[3] = "complete" /\ ops[m[2]] # "none" THEN [ops EXCEPT ![m[2]] = m[3]] ELSE ops
  /\ UNCHANGED <<failed, initialized, serverVersion, llcmInfo, listens, socks, pinging>>

(* HandleSendAck, HandleRecvAck *)
HandleOpAck(m) ==
  /\ m[1] = "OpAck"
  /\ ops' = IF ops[m[2]] = "none" THEN ops ELSE [ops EXCEPT ![m[2]] = m[3]]
  /\ UNCHANGED <<failed, initialized, serverVersion, llcmInfo, listens, socks, pinging>>

HandlePong(m) ==
  /\ m[1] = "Pong"
  /\ pingResults' = IF m[2] \in pings THEN pingResults \cup {m[2]} ELSE pingResults
  /\ pings' = pings \ {m[2]}
  /\ UNCHANGED <<failed, initialized, serverVersion, llcmInfo, tables>>

ReceiveControlMessage(m) ==
  /\ \/ HandleVersionedInitAck(m) \/ HandleInitLlcmAck(m)
     \/ HandleListenAck(m) \/ HandleIncomingConnection(m)
     \/ HandleSockAck(m) \/ HandleOpAck(m) \/ HandlePong(m)
  /\ UNCHANGED <<llcm, phase, numbers, call, link, slowOut, fastOut, dxs>>

(* SctpHandler and LlcmHandler deliver, each in order.  A batch read from  *)
(* the socket before the channel failed may be delivered after the report. *)
ReceiveSlow ==
  /\ slowIn # <<>>
  /\ ReceiveControlMessage(Head(slowIn))
  /\ slowIn' = Tail(slowIn) /\ UNCHANGED fastIn

ReceiveFast ==
  /\ fastIn # <<>>
  /\ ReceiveControlMessage(Head(fastIn))
  /\ fastIn' = Tail(fastIn) /\ UNCHANGED slowIn

ChannelLost ==
  /\ link = "up" /\ LoseLink
  /\ UNCHANGED <<llcm, init, failed, tables, pinging, numbers, call, fastOut, fastIn, dxs>>

FailureForgetsOps ==                                         \* mutant
  /\ link = "lost" /\ link' = "failed" /\ failed' = TRUE
  /\ socks' = [h \in Socks |-> IF socks[h].status = "none" THEN NoSock
                               ELSE [socks[h] EXCEPT !.status = "error"]]
  /\ listens' = [l \in Listens |-> IF listens[l].status = "none" THEN NoListen
                                   ELSE [listens[l] EXCEPT !.status = "error"]]
  /\ UNCHANGED <<llcm, init, ops, pinging, numbers, call, channels, dxs>>

OnControlChannelFailure ==
  /\ link = "lost" /\ link' = "failed" /\ failed' = TRUE
  /\ ops' = [o \in Ops |-> IF ops[o] = "none" THEN "none" ELSE "error"]
  /\ socks' = [h \in Socks |-> IF socks[h].status = "none" THEN NoSock
                               ELSE [socks[h] EXCEPT !.status = "error"]]
  /\ listens' = [l \in Listens |-> IF listens[l].status = "none" THEN NoListen
                                   ELSE [listens[l] EXCEPT !.status = "error"]]
  /\ UNCHANGED <<llcm, init, pinging, numbers, call, channels, dxs>>

-----------------------------------------------------------------------------
InitAcks == {<<"InitAck", v, ok>> : v \in ServerVersions, ok \in BOOLEAN}

(* DXS.  It takes the commands of each channel in order, answers on the    *)
(* channel the command came from, and completes operations in any order.   *)
Answers(m) ==
  CASE m[1] = "Init" -> InitAcks
    [] m[1] = "InitLlcm" -> {<<"InitLlcmAck", ok>> : ok \in BOOLEAN}
    [] m[1] = "Listen" -> {<<"ListenAck", m[2], s>> : s \in {"ready", "error"}}
    [] m[1] = "Connect" -> {<<"ConnectAck", m[2], s>> : s \in {"connected", "error"}}
    [] m[1] = "Accept" -> {<<"AcceptAck", m[2], s>> : s \in {"connected", "error"}}
    [] m[1] = "Ping" -> {<<"Pong", m[2]>>}
    [] OTHER -> {Idle}

(* What DXS keeps of a command it answers with a. *)
Serve(m, a) ==
  CASE m[1] = "Listen" /\ a[3] = "ready" -> [dxs EXCEPT !.listening = @ \cup {m[2]}]
    [] m[1] = "CloseListen" -> [dxs EXCEPT !.listening = @ \ {m[2]}]
    [] m[1] = "Connect" -> [dxs EXCEPT !.sockets[m[2]] = a[3]]
    [] m[1] = "Accept" -> [dxs EXCEPT !.sockets[m[2]] = a[3], !.waiting[m[3]] = @ - 1]
    [] m[1] \in {"Send", "Recv"} -> [dxs EXCEPT !.taken = @ \cup {m[3]}]
    [] OTHER -> dxs

(* Close, CloseListen, Send and Recv get no answer here; a server older    *)
(* than kAcceptAckVersion sends no AcceptAck.                              *)
Silent(m) ==
  \/ m[1] \in {"Close", "CloseListen", "Send", "Recv"}
  \/ m[1] = "Accept" /\ serverVersion < kAcceptAckVersion

AppendAnswer(chan, m, a) == IF Silent(m) THEN chan ELSE Append(chan, a)

Others == UNCHANGED <<llcm, init, failed, tables, pinging, numbers, call, link>>

DxsTakesSlow ==
  /\ slowOut # <<>> /\ slowOut' = Tail(slowOut)
  /\ \E a \in Answers(Head(slowOut)) :
       /\ dxs' = Serve(Head(slowOut), a)
       /\ slowIn' = IF link = "up" THEN AppendAnswer(slowIn, Head(slowOut), a) ELSE slowIn
  /\ UNCHANGED <<fastOut, fastIn>> /\ Others

DxsTakesFast ==
  /\ fastOut # <<>> /\ fastOut' = Tail(fastOut)
  /\ \E a \in Answers(Head(fastOut)) :
       /\ dxs' = Serve(Head(fastOut), a)
       /\ fastIn' = AppendAnswer(fastIn, Head(fastOut), a)
  /\ UNCHANGED <<slowOut, slowIn>> /\ Others

DxsCompletes(o) ==
  /\ o \in dxs.taken
  /\ \E s \in {"complete", "error"} :
       /\ dxs' = [dxs EXCEPT !.taken = @ \ {o},
                             !.completed = IF s = "complete" THEN @ \cup {o} ELSE @]
       /\ IF llcm THEN fastIn' = Append(fastIn, <<"OpAck", o, s>>) /\ UNCHANGED slowIn
          ELSE /\ slowIn' = IF link = "up" THEN Append(slowIn, <<"OpAck", o, s>>) ELSE slowIn
               /\ UNCHANGED fastIn
  /\ UNCHANGED <<slowOut, fastOut>> /\ Others

(* A peer connects to a listening socket. *)
DxsIncoming(l) ==
  /\ l \in dxs.listening /\ dxs.connections < MaxConnections /\ link = "up"
  /\ dxs' = [dxs EXCEPT !.waiting[l] = @ + 1, !.connections = @ + 1]
  /\ slowIn' = Append(slowIn, <<"Incoming", l>>)
  /\ UNCHANGED <<slowOut, fastOut, fastIn>> /\ Others

-----------------------------------------------------------------------------
DxsStep == DxsTakesSlow \/ DxsTakesFast \/ \E o \in Ops : DxsCompletes(o)

Receive == ReceiveSlow \/ ReceiveFast

CallReturns(t) == AcceptRegisters(t) \/ SendSucceeds(t) \/ SendFails(t) \/ PingReturns(t)

Next ==
  \/ InitReturns
  \/ \E t \in Threads :
       \/ Listen(t) \/ Connect(t) \/ Ping(t)
       \/ \E l \in Listens : Accept(t, l) \/ DestroyListen(t, l)
       \/ \E h \in Socks : Request(t, h) \/ DestroySocket(t, h)
       \/ CallReturns(t)
  \/ \E o \in Ops : DestroyOp(o)
  \/ Shutdown
  \/ Receive \/ ChannelLost \/ OnControlChannelFailure
  \/ DxsStep \/ \E l \in Listens : DxsIncoming(l)

Spec == Init /\ [][Next]_vars

(* A thread in a call goes on, and polls while it waits; messages are      *)
(* delivered; a lost channel is reported.  DXS serves a client it is       *)
(* connected to.                                                           *)
FairSpec ==
  /\ Spec
  /\ WF_vars(InitReturns)
  /\ \A t \in Threads : WF_vars(CallReturns(t))
  /\ WF_vars(ReceiveSlow) /\ WF_vars(ReceiveFast)
  /\ WF_vars(OnControlChannelFailure)
  /\ WF_vars(link = "up" /\ DxsTakesSlow) /\ WF_vars(link = "up" /\ DxsTakesFast)
  /\ \A o \in Ops : WF_vars(link = "up" /\ DxsCompletes(o))

-----------------------------------------------------------------------------
Commands ==
  {<<"Init">>, <<"InitLlcm">>}
    \cup {<<c, l>> : c \in {"Listen", "CloseListen"}, l \in Listens}
    \cup {<<c, h>> : c \in {"Connect", "Close"}, h \in Socks}
    \cup {<<"Accept", h, l>> : h \in Socks, l \in Listens}
    \cup {<<c, h, o>> : c \in {"Send", "Recv"}, h \in Socks, o \in Ops}
    \cup {<<"Ping", k>> : k \in Pings}

Replies ==
  InitAcks
    \cup {<<"InitLlcmAck", ok>> : ok \in BOOLEAN}
    \cup {<<"ListenAck", l, s>> : l \in Listens, s \in {"ready", "error"}}
    \cup {<<"Incoming", l>> : l \in Listens}
    \cup {<<c, h, s>> : c \in {"ConnectAck", "AcceptAck"}, h \in Socks, s \in {"connected", "error"}}
    \cup {<<"OpAck", o, s>> : o \in Ops, s \in {"complete", "error"}}
    \cup {<<"Pong", k>> : k \in Pings}

(* Every variable has the type of the field it models: each table entry a  *)
(* status its object's SocketReady or Test knows, each channel messages    *)
(* that its receiver handles.                                              *)
TypeOK ==
  /\ llcm \in BOOLEAN /\ phase \in {"init", "ready", "error", "shutdown"}
  /\ failed \in BOOLEAN /\ initialized \in BOOLEAN /\ llcmInfo \in BOOLEAN
  /\ serverVersion \in ServerVersions \cup {0}
  /\ listens \in [Listens -> [status : {"none", "pending", "ready", "error"}, connections : Nat]]
  /\ socks \in [Socks -> [dir : {"none", "send", "recv"},
                          status : {"none", "pending", "connected", "error"}]]
  /\ ops \in [Ops -> {"none", "pending", "complete", "error"}]
  /\ pings \subseteq Pings /\ pingResults \subseteq Pings
  /\ nextListen \in 1 .. MaxListens + 1 /\ nextSock \in 1 .. MaxSocks + 1
  /\ nextOp \in 1 .. MaxOps + 1 /\ pingSeq \in 0 .. MaxPings
  /\ call \in [Threads -> Commands \cup {Idle} \cup {Popped(l) : l \in Listens}
                                   \cup {<<"Await", k>> : k \in Pings}]
  /\ link \in {"up", "lost", "failed", "shutdown"}
  /\ slowOut \in Seq(Commands) /\ fastOut \in Seq(Commands)
  /\ slowIn \in Seq(Replies) /\ fastIn \in Seq(Replies)

(* DXS takes a Send or a Recv only for a data socket it has opened, and    *)
(* before kAcceptAckVersion without LLCM at least for one it knows.  The   *)
(* command may travel over LLCM while Connect or Accept goes over SCTP:    *)
(* what orders the two is the socket's status, which RegisterRecvSocket    *)
(* starts at pending for a server that acknowledges Accept.                *)
RequestsAfterOpen ==
  \A chan \in {slowOut, fastOut} :
    chan # <<>> /\ Head(chan)[1] \in {"Send", "Recv"} =>
      LET status == dxs.sockets[Head(chan)[2]] IN
        /\ serverVersion >= kAcceptAckVersion => status = "connected"
        /\ ~llcm => status # "none"

(* An operation reports completion to Test only if DXS has completed this  *)
(* very operation, whatever order acknowledgements, failure reports and    *)
(* late batches reach the table in.                                        *)
ResultsAreReal == \A o \in Ops : ops[o] = "complete" => o \in dxs.completed

(* While the channel is up, each connection waiting in DXS on a ready      *)
(* listening socket is announced to the client and accepted exactly once:  *)
(* it is in pending_connections_, or its announcement or its Accept is     *)
(* under way.                                                              *)
ConnectionsConserved ==
  \A l \in Listens : link = "up" /\ listens[l].status = "ready" =>
    LET announced == {i \in DOMAIN slowIn : slowIn[i] = <<"Incoming", l>>}
        accepting == {t \in Threads : call[t][1] \in {"Popped", "Accept"} /\ call[t][3] = l}
        accepted == {i \in DOMAIN slowOut : slowOut[i][1] = "Accept" /\ slowOut[i][3] = l}
    IN  dxs.waiting[l] = listens[l].connections + Cardinality(announced)
                         + Cardinality(accepting) + Cardinality(accepted)

(* After OnControlChannelFailure no object is left waiting for an answer   *)
(* that cannot come, except one whose call has still to fail: neither an   *)
(* entry registered before the failure nor one registered after it.        *)
(* Operations over LLCM are excepted, they are sent without SCTP.          *)
NothingPendingAfterFailure ==
  link = "failed" =>
    /\ \A l \in Listens : listens[l].status = "pending" =>
         \E t \in Threads : call[t] = <<"Listen", l>>
    /\ \A h \in Socks : socks[h].status = "pending" =>
         \E t \in Threads : call[t][1] \in {"Connect", "Accept"} /\ call[t][2] = h
    /\ ~llcm => \A o \in Ops : ops[o] = "pending" =>
         \E t \in Threads : call[t][1] \in {"Send", "Recv"} /\ call[t][3] = o

(* Every operation gets a result, from DXS or from the failure of the      *)
(* channel, unless the client is shut down first or the operation goes     *)
(* over LLCM to a DXS that SCTP has lost.                                  *)
OpsAnswered ==
  \A o \in Ops : (ops[o] = "pending") ~>
                   (ops[o] # "pending" \/ phase = "shutdown" \/ (llcm /\ failed))

(* Every API call returns, Ping included: its loop has no timeout and ends *)
(* with the pong or with the failure of the channel.                       *)
CallsReturn == \A t \in Threads : (call[t] # Idle) ~> (call[t] = Idle)

(* DxsClient::Init returns although it waits without a timeout: each       *)
(* answer DXS can give, and a loss of the channel, ends the wait.          *)
InitCompletes == (phase = "init") ~> (phase # "init")
=============================================================================
