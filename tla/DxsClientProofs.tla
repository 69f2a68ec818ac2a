-------------------------- MODULE DxsClientProofs --------------------------
(***************************************************************************)
(* That the handlers of messages and the steps of DXS preserve the         *)
(* invariant of DxsClientInv, and what follows from it.                    *)
(***************************************************************************)
EXTENDS DxsClientInv

USE Zenon

(* The messages of DXS *)

LEMMA AcceptingCount ==
  ASSUME CountFacts, NEW l
  PROVE  Cardinality(Accepting(l)) \in Nat
<1>1. Accepting(l) \in SUBSET Threads  BY DEF Accepting
<1>2. CASE Accepting(l) = {}  BY <1>2, SMTT(30) DEF CountFacts, ThreadsFact
<1>3. CASE Accepting(l) # {}  BY <1>1, <1>3 DEF CountFacts, ThreadsFact
<1> QED  BY <1>2, <1>3

(* What a handler does to the tables. *)
ListenHandled(m, l) ==
  \/ /\ listens'[l] = listens[l] /\ (Acks(m, l) => listens[l].status = "none")
     /\ m = <<"Incoming", l>> => listens[l].status # "ready"
  \/ /\ Acks(m, l) /\ listens[l].status # "none"
     /\ listens'[l].status = m[3] /\ listens'[l].connections = listens[l].connections
  \/ /\ m = <<"Incoming", l>> /\ listens[l].status = "ready"
     /\ listens'[l].status = "ready" /\ listens'[l].connections = listens[l].connections + 1

SockHandled(m, h) ==
  socks'[h] = socks[h] \/ (m[1] \in AckKinds /\ m[2] = h /\ socks[h].status # "none" /\ socks'[h].status = m[3])

OpHandled(m, o) == ops'[o] = ops[o] \/ (m[1] = "OpAck" /\ m[2] = o /\ ops'[o] = m[3])

HandledTypes ==
  /\ failed' \in BOOLEAN /\ initialized' \in BOOLEAN /\ llcmInfo' \in BOOLEAN
  /\ serverVersion' \in ServerVersions \cup {0}
  /\ listens' \in [Listens -> ListenType] /\ socks' \in [Socks -> SockType]
  /\ ops' \in [Ops -> {"none", "pending", "complete", "error"}]
  /\ pings' \subseteq Pings /\ pingResults' \subseteq Pings

Handled(m) ==
  /\ HandledTypes
  /\ m[1] # "InitAck" \/ initialized => serverVersion' = serverVersion /\ initialized' = initialized
  /\ \A l \in Listens : ListenHandled(m, l)
  /\ \A h \in Socks : SockHandled(m, h)
  /\ \A o \in Ops : OpHandled(m, o)

LEMMA ReceiveOK ==
  ASSUME CountFacts, IInv, Receive
  PROVE  IInv'
<1>ReceiveFrame.
    ASSUME NEW m, ReceiveControlMessage(m)
    PROVE  /\ llcm' = llcm /\ phase' = phase /\ nextListen' = nextListen /\ nextSock' = nextSock /\ nextOp' = nextOp
           /\ pingSeq' = pingSeq /\ call' = call /\ link' = link /\ slowOut' = slowOut /\ fastOut' = fastOut
           /\ dxs' = dxs
  <2> USE <1>ReceiveFrame
  <2> QED  BY DEF ReceiveControlMessage, numbers

<1>TableTypes.
    ASSUME Typed
    PROVE  /\ failed \in BOOLEAN /\ initialized \in BOOLEAN /\ llcmInfo \in BOOLEAN
           /\ serverVersion \in ServerVersions \cup {0}
           /\ listens \in [Listens -> ListenType] /\ socks \in [Socks -> SockType]
           /\ ops \in [Ops -> {"none", "pending", "complete", "error"}]
           /\ pings \subseteq Pings /\ pingResults \subseteq Pings
  <2> USE <1>TableTypes
  <2> QED  BY DEF Typed, TypeOK, ListenType, SockType

<1>ListensHandled.
    ASSUME Typed, NEW m \in Replies, HandleListenAck(m) \/ HandleIncomingConnection(m)
    PROVE  listens' \in [Listens -> ListenType] /\ \A l \in Listens : ListenHandled(m, l)
  <2> USE <1>ListensHandled
  <2>1. listens \in [Listens -> ListenType]  BY <1>TableTypes
  <2>2. \A l : <<"Incoming", l>>[1] = "Incoming" /\ <<"Incoming", l>>[2] = l  BY SMTT(30)
  <2>3. CASE HandleListenAck(m)
    <3> DEFINE e == [listens[m[2]] EXCEPT !.status = m[3]]
    <3>1. m[1] = "ListenAck"  BY <2>3 DEF HandleListenAck
    <3>2. m[2] \in Listens /\ m[3] \in {"none", "pending", "ready", "error"}  BY <3>1, ReplyKinds, SMTT(30)
    <3>3. \A l \in Listens : m # <<"Incoming", l>> /\ (Acks(m, l) <=> l = m[2])  BY <2>2, <3>1 DEF Acks
    <3>4. e \in ListenType /\ e.status = m[3] /\ e.connections = listens[m[2]].connections
      BY <2>1, <3>2, ListenSet
    <3>5. listens' = IF listens[m[2]].status = "none" THEN listens ELSE [listens EXCEPT ![m[2]] = e]
      BY <2>1, <2>3 DEF HandleListenAck
    <3> HIDE DEF e
    <3>6. CASE listens[m[2]].status = "none"
      BY <2>1, <3>3, <3>5, <3>6 DEF ListenHandled
    <3>7. CASE listens[m[2]].status # "none"
      <4>1. /\ listens' \in [Listens -> ListenType] /\ listens'[m[2]] = e
            /\ \A l \in Listens : l # m[2] => listens'[l] = listens[l]
        BY <2>1, <3>2, <3>4, <3>5, <3>7
      <4> QED  BY <3>3, <3>4, <3>7, <4>1 DEF ListenHandled
    <3> QED  BY <3>6, <3>7
  <2>4. CASE HandleIncomingConnection(m)
    <3> DEFINE n == listens[m[2]].connections + 1
               e == [listens[m[2]] EXCEPT !.connections = n]
    <3>1. m[1] = "Incoming"  BY <2>4 DEF HandleIncomingConnection
    <3>2. m[2] \in Listens /\ m = <<"Incoming", m[2]>>  BY <3>1, ReplyKinds, SMTT(30)
    <3>3. \A l \in Listens : ~Acks(m, l) /\ (m = <<"Incoming", l>> <=> l = m[2])
      BY <2>2, <3>1, <3>2, SMTT(30) DEF Acks
    <3>4. n \in Nat  BY <2>1, <3>2, SMTT(30) DEF ListenType
    <3>5. e \in ListenType /\ e.status = listens[m[2]].status /\ e.connections = n
      BY <2>1, <3>2, <3>4, ListenCount
    <3>6. listens' = IF listens[m[2]].status # "ready" THEN listens ELSE [listens EXCEPT ![m[2]] = e]
      BY <2>1, <2>4 DEF HandleIncomingConnection
    <3> HIDE DEF e
    <3>7. CASE listens[m[2]].status # "ready"
      BY <2>1, <3>3, <3>6, <3>7 DEF ListenHandled
    <3>8. CASE listens[m[2]].status = "ready"
      <4>1. /\ listens' \in [Listens -> ListenType] /\ listens'[m[2]] = e
            /\ \A l \in Listens : l # m[2] => listens'[l] = listens[l]
        BY <2>1, <3>2, <3>5, <3>6, <3>8
      <4> QED  BY <3>3, <3>5, <3>8, <4>1 DEF ListenHandled
    <3> QED  BY <3>7, <3>8
  <2> QED  BY <2>3, <2>4

<1>MessageHandled.
    ASSUME Typed, NEW m \in Replies, ReceiveControlMessage(m)
    PROVE  Handled(m)
  <2> USE <1>MessageHandled
  <2>1. /\ failed \in BOOLEAN /\ initialized \in BOOLEAN /\ llcmInfo \in BOOLEAN
        /\ serverVersion \in ServerVersions \cup {0}
        /\ listens \in [Listens -> ListenType] /\ socks \in [Socks -> SockType]
        /\ ops \in [Ops -> {"none", "pending", "complete", "error"}]
        /\ pings \subseteq Pings /\ pingResults \subseteq Pings
    BY <1>TableTypes
  <2>2. \A l : <<"Incoming", l>>[1] = "Incoming"  BY SMTT(30)
  <2>3. ASSUME listens' = listens, m[1] # "ListenAck", m[1] # "Incoming"
        PROVE  listens' \in [Listens -> ListenType] /\ \A l \in Listens : ListenHandled(m, l)
    BY <2>1, <2>2, <2>3 DEF ListenHandled, Acks
  <2>4. ASSUME socks' = socks  PROVE \A h \in Socks : SockHandled(m, h)  BY <2>4 DEF SockHandled
  <2>5. ASSUME ops' = ops  PROVE \A o \in Ops : OpHandled(m, o)  BY <2>5 DEF OpHandled
  <2>6. CASE HandleVersionedInitAck(m)
    <3>1. m[1] = "InitAck" /\ llcmInfo' = llcmInfo /\ listens' = listens /\ socks' = socks /\ ops' = ops
          /\ pings' = pings /\ pingResults' = pingResults
      BY <2>6 DEF HandleVersionedInitAck, tables, pinging
    <3>2. m[2] \in ServerVersions /\ m[3] \in BOOLEAN  BY <3>1, ReplyKinds, SMTT(30)
    <3>3. CASE initialized
      <4>1. failed' = failed /\ initialized' = initialized /\ serverVersion' = serverVersion
        BY <2>6, <3>3 DEF HandleVersionedInitAck
      <4> QED  BY <2>1, <2>3, <2>4, <2>5, <3>1, <4>1 DEF Handled, HandledTypes
    <3>4. CASE ~initialized
      <4>1. /\ serverVersion' = IF m[3] THEN m[2] ELSE serverVersion
            /\ initialized' = (m[3] /\ m[2] >= kMinimumWireVersion) /\ failed' = (failed \/ ~initialized')
        BY <2>6, <3>4 DEF HandleVersionedInitAck
      <4>2. serverVersion' \in ServerVersions \cup {0}  BY <2>1, <3>2, <4>1
      <4>3. initialized' \in BOOLEAN /\ failed' \in BOOLEAN  BY <4>1
      <4> QED  BY <2>1, <2>3, <2>4, <2>5, <3>1, <3>4, <4>2, <4>3 DEF Handled, HandledTypes
    <3> QED  BY <3>3, <3>4
  <2>7. CASE HandleInitLlcmAck(m)
    <3>1. /\ m[1] = "InitLlcmAck" /\ initialized' = initialized /\ serverVersion' = serverVersion
          /\ listens' = listens /\ socks' = socks /\ ops' = ops /\ pings' = pings /\ pingResults' = pingResults
          /\ llcmInfo' = (llcmInfo \/ m[2]) /\ failed' = (failed \/ (~llcmInfo /\ ~m[2]))
      BY <2>7 DEF HandleInitLlcmAck, tables, pinging
    <3>2. llcmInfo' \in BOOLEAN /\ failed' \in BOOLEAN  BY <3>1
    <3> QED  BY <2>1, <2>3, <2>4, <2>5, <3>1, <3>2 DEF Handled, HandledTypes
  <2>8. CASE HandleListenAck(m) \/ HandleIncomingConnection(m)
    <3>1. /\ m[1] # "InitAck" /\ failed' = failed /\ initialized' = initialized /\ serverVersion' = serverVersion
          /\ llcmInfo' = llcmInfo /\ socks' = socks /\ ops' = ops /\ pings' = pings /\ pingResults' = pingResults
      BY <2>8 DEF HandleListenAck, HandleIncomingConnection, pinging
    <3> QED  BY <2>1, <2>4, <2>5, <2>8, <3>1, <1>ListensHandled DEF Handled, HandledTypes
  <2>9. CASE HandleSockAck(m)
    <3> DEFINE e == [socks[m[2]] EXCEPT !.status = m[3]]
    <3>1. /\ m[1] \in AckKinds /\ failed' = failed /\ initialized' = initialized /\ serverVersion' = serverVersion
          /\ llcmInfo' = llcmInfo /\ listens' = listens /\ ops' = ops /\ pings' = pings /\ pingResults' = pingResults
      BY <2>9 DEF HandleSockAck, AckKinds, pinging
    <3>2. m[2] \in Socks /\ m[3] \in {"none", "pending", "connected", "error"} /\ m[1] # "ListenAck" /\ m[1] # "Incoming"
      BY <3>1, ReplyKinds, SMTT(30) DEF AckKinds
    <3>3. e \in SockType /\ e.status = m[3]
      <4>1. socks[m[2]] \in SockType  BY <2>1, <3>2
      <4> QED  BY <3>2, <4>1, SockSet
    <3>4. socks' = IF socks[m[2]].status = "none" THEN socks ELSE [socks EXCEPT ![m[2]] = e]
      BY <2>1, <2>9 DEF HandleSockAck
    <3> HIDE DEF e
    <3>5. socks' \in [Socks -> SockType] /\ \A h \in Socks : SockHandled(m, h)
      <4>1. CASE socks[m[2]].status = "none"  BY <2>1, <3>4, <4>1 DEF SockHandled
      <4>2. CASE socks[m[2]].status # "none"
        <5>1. /\ socks' \in [Socks -> SockType] /\ socks'[m[2]] = e
              /\ \A h \in Socks : h # m[2] => socks'[h] = socks[h]
          BY <2>1, <3>2, <3>3, <3>4, <4>2
        <5> QED  BY <3>1, <3>3, <4>2, <5>1 DEF SockHandled
      <4> QED  BY <4>1, <4>2
    <3> QED  BY <2>1, <2>3, <2>5, <3>1, <3>2, <3>5 DEF Handled, HandledTypes
  <2>10. CASE HandleOpAck(m)
    <3>1. /\ m[1] = "OpAck" /\ failed' = failed /\ initialized' = initialized /\ serverVersion' = serverVersion
          /\ llcmInfo' = llcmInfo /\ listens' = listens /\ socks' = socks /\ pings' = pings /\ pingResults' = pingResults
          /\ ops' = IF ops[m[2]] = "none" THEN ops ELSE [ops EXCEPT ![m[2]] = m[3]]
      BY <2>10 DEF HandleOpAck, pinging
    <3>2. m[2] \in Ops /\ m[3] \in {"none", "pending", "complete", "error"}  BY <3>1, ReplyKinds, SMTT(30)
    <3>3. ops' \in [Ops -> {"none", "pending", "complete", "error"}] /\ \A o \in Ops : OpHandled(m, o)
      BY <2>1, <3>1, <3>2 DEF OpHandled
    <3> QED  BY <2>1, <2>3, <2>4, <3>1, <3>3 DEF Handled, HandledTypes
  <2>11. CASE HandlePong(m)
    <3>1. /\ m[1] = "Pong" /\ failed' = failed /\ initialized' = initialized /\ serverVersion' = serverVersion
          /\ llcmInfo' = llcmInfo /\ listens' = listens /\ socks' = socks /\ ops' = ops
          /\ pings' = pings \ {m[2]}
          /\ pingResults' = IF m[2] \in pings THEN pingResults \cup {m[2]} ELSE pingResults
      BY <2>11 DEF HandlePong, tables
    <3>2. pings' \subseteq Pings /\ pingResults' \subseteq Pings  BY <2>1, <3>1
    <3> QED  BY <2>1, <2>3, <2>4, <2>5, <3>1, <3>2 DEF Handled, HandledTypes
  <2> QED
    BY <2>6, <2>7, <2>8, <2>9, <2>10, <2>11 DEF ReceiveControlMessage

(* The first message of the slow channel, as the listening sockets see it. *)
<1>ReceivedListens.
    ASSUME CountFacts, IInv, NEW m \in Replies, slowIn # <<>>, m = Head(slowIn), slowIn' = Tail(slowIn),
           Shorter(slowIn', slowIn, Replies), \A l \in Listens : ListenHandled(m, l), ReceiveControlMessage(m)
    PROVE  ListensInv'
  <2> USE <1>ReceivedListens
  <2>1. /\ Len(slowIn') \in Nat /\ Len(slowIn) = Len(slowIn') + 1 /\ 1 \in 1 .. Len(slowIn) /\ m = slowIn[1]
        /\ \A i \in 1 .. Len(slowIn') : i \in Nat /\ i + 1 \in 1 .. Len(slowIn) /\ slowIn'[i] = slowIn[i + 1]
        /\ \A i \in 1 .. Len(slowIn) : i = 1 \/ (i - 1 \in 1 .. Len(slowIn') /\ slowIn'[i - 1] = slowIn[i])
    BY DEF Shorter
  <2>2. nextListen' = nextListen /\ call' = call /\ link' = link /\ slowOut' = slowOut /\ dxs' = dxs
    BY <1>ReceiveFrame
  <2>3. ListenBound /\ ListenOnce /\ PendingInv /\ CountInv  BY DEF IInv, ListensInv
  <2>4. \A l : <<"Incoming", l>>[1] = "Incoming" /\ <<"ListenAck", l, "ready">>[1] = "ListenAck"
                /\ <<"ListenAck", l, "ready">>[2] = l
    BY SMTT(30)
  <2>5. \A i \in 1 .. Len(slowIn') : i + 1 # 1 /\ \A j \in 1 .. Len(slowIn') : i + 1 = j + 1 => i = j
    BY <2>1, SMTT(30)
  <2>6. ListenBound'
    <3>1. ASSUME NEW l \in Listens, l >= nextListen
          PROVE  /\ listens'[l].status = "none" /\ listens'[l].connections = 0
                 /\ l \notin dxs.listening /\ dxs.waiting[l] = 0
                 /\ \A t \in Threads : call[t] # <<"Listen", l>> /\ ~Accepts(call[t], l)
                 /\ \A i \in 1 .. Len(slowOut) : slowOut[i] # <<"Listen", l>> /\ ~Accepts(slowOut[i], l)
                 /\ \A i \in 1 .. Len(slowIn') : ~Acks(slowIn'[i], l) /\ slowIn'[i] # <<"Incoming", l>>
      <4>1. /\ listens[l].status = "none" /\ listens[l].connections = 0
            /\ l \notin dxs.listening /\ dxs.waiting[l] = 0
            /\ \A t \in Threads : call[t] # <<"Listen", l>> /\ ~Accepts(call[t], l)
            /\ \A i \in 1 .. Len(slowOut) : slowOut[i] # <<"Listen", l>> /\ ~Accepts(slowOut[i], l)
            /\ \A i \in 1 .. Len(slowIn) : ~Acks(slowIn[i], l) /\ slowIn[i] # <<"Incoming", l>>
        BY <2>3, <3>1 DEF ListenBound
      <4>2. listens'[l] = listens[l]  BY <2>1, <4>1 DEF ListenHandled
      <4>3. ASSUME NEW i \in 1 .. Len(slowIn')  PROVE ~Acks(slowIn'[i], l) /\ slowIn'[i] # <<"Incoming", l>>
        <5>1. i + 1 \in 1 .. Len(slowIn) /\ slowIn'[i] = slowIn[i + 1]  BY <2>1
        <5>2. ~Acks(slowIn[i + 1], l) /\ slowIn[i + 1] # <<"Incoming", l>>  BY <4>1, <5>1
        <5> QED  BY <5>1, <5>2
      <4> QED  BY <4>1, <4>2, <4>3
    <3> QED  BY <2>2, <3>1 DEF ListenBound
  <2>7. ListenOnce'
    <3>1. ASSUME NEW l \in Listens, Unanswered(l), ~Acks(m, l)  PROVE Unanswered(l)'
      <4>1. listens'[l].status = listens[l].status  BY <3>1 DEF ListenHandled
      <4> QED  BY <2>2, <3>1, <4>1 DEF Unanswered
    <3>2. ASSUME NEW l \in Listens, NEW t \in Threads, call[t] = <<"Listen", l>>
          PROVE  /\ Unanswered(l)'
                 /\ \A u \in Threads : call[u] = <<"Listen", l>> => u = t
                 /\ \A i \in 1 .. Len(slowOut) : slowOut[i] # <<"Listen", l>>
                 /\ \A i \in 1 .. Len(slowIn') : ~Acks(slowIn'[i], l)
      <4>1. /\ Unanswered(l)
            /\ \A u \in Threads : call[u] = <<"Listen", l>> => u = t
            /\ \A i \in 1 .. Len(slowOut) : slowOut[i] # <<"Listen", l>>
            /\ \A i \in 1 .. Len(slowIn) : ~Acks(slowIn[i], l)
        BY <2>3, <3>2 DEF ListenOnce
      <4>2. ~Acks(m, l) /\ \A i \in 1 .. Len(slowIn') : ~Acks(slowIn'[i], l)  BY <2>1, <4>1
      <4> QED  BY <3>1, <4>1, <4>2
    <3>3. ASSUME NEW l \in Listens, NEW i \in 1 .. Len(slowOut), slowOut[i] = <<"Listen", l>>
          PROVE  /\ Unanswered(l)'
                 /\ \A j \in 1 .. Len(slowOut) : slowOut[j] = <<"Listen", l>> => j = i
                 /\ \A j \in 1 .. Len(slowIn') : ~Acks(slowIn'[j], l)
      <4>1. /\ Unanswered(l)
            /\ \A j \in 1 .. Len(slowOut) : slowOut[j] = <<"Listen", l>> => j = i
            /\ \A j \in 1 .. Len(slowIn) : ~Acks(slowIn[j], l)
        BY <2>3, <3>3 DEF ListenOnce
      <4>2. ~Acks(m, l) /\ \A j \in 1 .. Len(slowIn') : ~Acks(slowIn'[j], l)  BY <2>1, <4>1
      <4> QED  BY <3>1, <4>1, <4>2
    <3>4. ASSUME NEW l \in Listens, NEW i \in 1 .. Len(slowIn'), Acks(slowIn'[i], l)
          PROVE  Unanswered(l)' /\ \A j \in 1 .. Len(slowIn') : Acks(slowIn'[j], l) => j = i
      <4>1. i + 1 \in 1 .. Len(slowIn) /\ Acks(slowIn[i + 1], l)  BY <2>1, <3>4
      <4>2. Unanswered(l) /\ \A j \in 1 .. Len(slowIn) : Acks(slowIn[j], l) => j = i + 1
        BY <2>3, <4>1 DEF ListenOnce
      <4>3. ~Acks(m, l)  BY <2>1, <2>5, <4>2
      <4>4. ASSUME NEW j \in 1 .. Len(slowIn'), Acks(slowIn'[j], l)  PROVE j = i
        <5>1. j + 1 \in 1 .. Len(slowIn) /\ Acks(slowIn[j + 1], l)  BY <2>1, <4>4
        <5>2. j + 1 = i + 1  BY <4>2, <5>1
        <5> QED  BY <2>5, <5>2
      <4> QED  BY <3>1, <4>2, <4>3, <4>4
    <3> QED  BY ZenonT(40), <2>2, <3>2, <3>3, <3>4 DEF ListenOnce
  (* A pending socket has no announcement in front. *)
  <2>8. ASSUME NEW l \in Listens, link = "up", listens[l].status = "pending"  PROVE m # <<"Incoming", l>>
    <3>1. \A j \in 1 .. 1 - 1 : FALSE  BY SMTT(30)
    <3>2. m = <<"Incoming", l>> => ReadyBefore(l, 1 - 1)  BY <2>1, <2>3, <2>8 DEF PendingInv
    <3> QED  BY <3>1, <3>2 DEF ReadyBefore
  <2>9. Acks(m, m[2]) => m[3] \in {"ready", "error"}  BY ReplyKinds DEF Acks
  <2>10. PendingInv'
    <3>1. ASSUME NEW l \in Listens, link = "up", listens'[l].status = "pending"
          PROVE  /\ listens'[l].connections = 0
                 /\ \A t \in Threads : ~Accepts(call[t], l)
                 /\ \A i \in 1 .. Len(slowOut) : ~Accepts(slowOut[i], l)
                 /\ \A i \in 1 .. Len(slowIn') : slowIn'[i] = <<"Incoming", l>> => ReadyBefore(l, i - 1)'
                 /\ l \in dxs.listening => ReadyBefore(l, Len(slowIn))'
      <4>1. ~(Acks(m, l) /\ listens'[l].status = m[3])
        <5>1. "pending" \notin {"ready", "error"}  BY SMTT(30)
        <5> QED  BY <2>9, <3>1, <5>1 DEF Acks
      <4>2. listens'[l] = listens[l] /\ (Acks(m, l) => listens[l].status = "none")
        <5>1. "pending" # "ready"  BY SMTT(30)
        <5> QED  BY <3>1, <4>1, <5>1 DEF ListenHandled
      <4>3. ~Acks(m, l)
        <5>1. "pending" # "none"  BY SMTT(30)
        <5> QED  BY <3>1, <4>2, <5>1
      <4>4. /\ listens[l].connections = 0
            /\ \A t \in Threads : ~Accepts(call[t], l)
            /\ \A i \in 1 .. Len(slowOut) : ~Accepts(slowOut[i], l)
            /\ \A i \in 1 .. Len(slowIn) : slowIn[i] = <<"Incoming", l>> => ReadyBefore(l, i - 1)
            /\ l \in dxs.listening => ReadyBefore(l, Len(slowIn))
        BY <2>3, <3>1, <4>2 DEF PendingInv
      <4>5. ASSUME NEW n \in Nat, n <= Len(slowIn'), ReadyBefore(l, n + 1)
            PROVE  \E j \in 1 .. n : slowIn'[j] = <<"ListenAck", l, "ready">>
        <5>1. PICK j \in 1 .. n + 1 : slowIn[j] = <<"ListenAck", l, "ready">>  BY <4>5 DEF ReadyBefore
        <5>2. j # 1
          <6>1. Acks(<<"ListenAck", l, "ready">>, l)  BY <2>4 DEF Acks
          <6>2. ~Acks(slowIn[1], l)  BY <2>1, <4>3
          <6> QED  BY <5>1, <6>1, <6>2
        <5>3. j \in 1 .. Len(slowIn) /\ j - 1 \in 1 .. n  BY <2>1, <4>5, <5>2, SMTT(30)
        <5>4. slowIn'[j - 1] = slowIn[j]  BY <2>1, <5>2, <5>3
        <5> QED  BY <5>1, <5>3, <5>4
      <4>6. ASSUME NEW i \in 1 .. Len(slowIn'), slowIn'[i] = <<"Incoming", l>>
            PROVE  \E j \in 1 .. i - 1 : slowIn'[j] = <<"ListenAck", l, "ready">>
        <5>1. i + 1 \in 1 .. Len(slowIn) /\ slowIn[i + 1] = <<"Incoming", l>>  BY <2>1, <4>6
        <5>2. (i + 1) - 1 = (i - 1) + 1 /\ i - 1 \in Nat /\ i - 1 <= Len(slowIn')  BY <2>1, SMTT(30)
        <5>3. ReadyBefore(l, (i + 1) - 1)  BY <4>4, <5>1
        <5> QED  BY <4>5, <5>2, <5>3
      <4>7. ASSUME l \in dxs.listening
            PROVE  \E j \in 1 .. Len(slowIn') : slowIn'[j] = <<"ListenAck", l, "ready">>
        <5>1. ReadyBefore(l, Len(slowIn') + 1)  BY <2>1, <4>4, <4>7
        <5>2. Len(slowIn') \in Nat /\ Len(slowIn') <= Len(slowIn')  BY <2>1, SMTT(30)
        <5> QED  BY <4>5, <5>1, <5>2
      <4> QED  BY <4>2, <4>4, <4>6, <4>7 DEF ReadyBefore
    <3> QED  BY <2>2, <3>1 DEF PendingInv
  <2>11. CountInv'
    <3>1. \A l : Accepting(l)' = Accepting(l)  BY <2>2 DEF Accepting
    <3>2. ASSUME NEW l \in Listens, link = "up", listens'[l].status \in {"pending", "ready"}
          PROVE  dxs.waiting[l] = listens'[l].connections + Count(slowIn', IncomingTo(l))
                                  + Cardinality(Accepting(l)) + Count(slowOut, AcceptsOf(l))
      <4>1. slowOut \in Seq(Commands) /\ slowIn \in Seq(Replies) /\ listens[l].connections \in Nat
        BY DEF IInv, Typed, TypeOK
      <4>2. /\ Count(slowIn', IncomingTo(l)) = Count(slowIn, IncomingTo(l)) - One(m \in IncomingTo(l))
            /\ Count(slowIn, IncomingTo(l)) \in Nat
        BY <4>1 DEF CountFacts, SeqFact
      <4>3. Count(slowOut, AcceptsOf(l)) \in Nat  BY <4>1 DEF CountFacts, SeqFact
      <4>4. Cardinality(Accepting(l)) \in Nat  BY AcceptingCount
      <4>5. m \in IncomingTo(l) <=> m = <<"Incoming", l>>  BY DEF IncomingTo
      <4>6. ASSUME listens[l].status \in {"pending", "ready"}
            PROVE  dxs.waiting[l] = listens[l].connections + Count(slowIn, IncomingTo(l))
                                    + Cardinality(Accepting(l)) + Count(slowOut, AcceptsOf(l))
        BY <2>3, <3>2, <4>6 DEF CountInv
      <4>7. CASE listens[l].status \in {"pending", "ready"} /\ m # <<"Incoming", l>>
                   /\ listens'[l].connections = listens[l].connections
        <5>1. One(m \in IncomingTo(l)) = 0  BY <4>5, <4>7 DEF One
        <5>2. Count(slowIn', IncomingTo(l)) = Count(slowIn, IncomingTo(l))  BY <4>2, <5>1, SMTT(30)
        <5> QED  BY <4>6, <4>7, <5>2
      <4>8. CASE listens[l].status = "ready" /\ m = <<"Incoming", l>>
                   /\ listens'[l].connections = listens[l].connections + 1
        <5>1. One(m \in IncomingTo(l)) = 1  BY <4>5, <4>8 DEF One
        <5>2. dxs.waiting[l] = listens[l].connections + Count(slowIn, IncomingTo(l))
                               + Cardinality(Accepting(l)) + Count(slowOut, AcceptsOf(l))
          BY <4>6, <4>8
        <5> DEFINE c == listens[l].connections
                   i == Count(slowIn, IncomingTo(l))
                   a == Cardinality(Accepting(l))
                   o == Count(slowOut, AcceptsOf(l))
        <5>3. c \in Nat /\ i \in Nat /\ a \in Nat /\ o \in Nat  BY <4>1, <4>2, <4>3, <4>4
        <5> HIDE DEF c, i, a, o
        <5>4. (c + 1) + (i - 1) + a + o = c + i + a + o  BY <5>3, SMTT(30)
        <5> QED  BY <4>2, <4>8, <5>1, <5>2, <5>4 DEF c, i, a, o
      <4>9. CASE /\ listens'[l] = listens[l] /\ (Acks(m, l) => listens[l].status = "none")
                 /\ m = <<"Incoming", l>> => listens[l].status # "ready"
        <5>1. m # <<"Incoming", l>>
          <6>1. listens[l].status = "pending" => m # <<"Incoming", l>>  BY <2>8, <3>2
          <6> QED  BY <3>2, <4>9, <6>1
        <5> QED  BY <3>2, <4>7, <4>9, <5>1
      <4>10. CASE /\ Acks(m, l) /\ listens[l].status # "none"
                  /\ listens'[l].status = m[3] /\ listens'[l].connections = listens[l].connections
        <5>1. m # <<"Incoming", l>>
          <6>1. "Incoming" # "ListenAck"  BY SMTT(30)
          <6> QED  BY <2>4, <4>10, <6>1 DEF Acks
        <5>2. Unanswered(l)  BY <2>1, <2>3, <4>10 DEF ListenOnce
        <5>3. listens[l].status = "pending"  BY <3>2, <4>10, <5>2 DEF Unanswered
        <5> QED  BY <4>7, <4>10, <5>1, <5>3
      <4> QED  BY <4>8, <4>9, <4>10 DEF ListenHandled
    <3> QED  BY <2>2, <3>1, <3>2 DEF CountInv
  <2> QED  BY <2>6, <2>7, <2>10, <2>11 DEF ListensInv

(* ConnectAck, AcceptAck: what DXS says of a socket is what became of it. *)
<1>ReceivedSockets.
    ASSUME IInv, NEW m \in Replies, m = Head(slowIn), Shorter(slowIn', slowIn, Replies),
           serverVersion' = serverVersion, \A h \in Socks : SockHandled(m, h), ReceiveControlMessage(m)
    PROVE  SocketsInv'
  <2> USE <1>ReceivedSockets
  <2>1. /\ 1 \in 1 .. Len(slowIn) /\ m = slowIn[1]
        /\ \A i \in 1 .. Len(slowIn') : i \in Nat /\ i + 1 \in 1 .. Len(slowIn) /\ slowIn'[i] = slowIn[i + 1]
    BY DEF Shorter
  <2>2. /\ llcm' = llcm /\ nextSock' = nextSock /\ call' = call /\ link' = link /\ slowOut' = slowOut
        /\ fastOut' = fastOut /\ dxs' = dxs
    BY <1>ReceiveFrame
  <2>3. OpenInv /\ SockInv /\ OrderInv  BY DEF IInv, SocketsInv
  <2>4. ASSUME NEW h \in Socks
        PROVE  /\ socks[h].status = "none" => socks'[h].status = "none"
               /\ socks'[h].status = "connected" => socks[h].status = "connected" \/ dxs.sockets[h] = "connected"
    <3>1. CASE socks'[h] = socks[h]  BY <3>1
    <3>2. CASE m[1] \in AckKinds /\ m[2] = h /\ socks[h].status # "none" /\ socks'[h].status = m[3]
      <4>1. \A i \in 1 .. Len(slowIn) : slowIn[i][1] \in {"ConnectAck", "AcceptAck"} /\ slowIn[i][2] = h =>
               slowIn[i][3] = dxs.sockets[h]
        BY <2>3 DEF OpenInv
      <4>2. m[3] = dxs.sockets[h]  BY <2>1, <3>2, <4>1 DEF AckKinds
      <4> QED  BY <3>2, <4>2
    <3> QED  BY <3>1, <3>2 DEF SockHandled
  <2>5. OpenInv'
    <3>1. ASSUME NEW h \in Socks, NEW i \in 1 .. Len(slowIn'), slowIn'[i][1] \in {"ConnectAck", "AcceptAck"},
                 slowIn'[i][2] = h
          PROVE  slowIn'[i][3] = dxs.sockets[h]
      <4>1. i + 1 \in 1 .. Len(slowIn) /\ slowIn'[i] = slowIn[i + 1]  BY <2>1
      <4> DEFINE j == i + 1
      <4> HIDE DEF j
      <4>2. j \in 1 .. Len(slowIn) /\ slowIn'[i] = slowIn[j]  BY <4>1 DEF j
      <4>3. slowIn[j][3] = dxs.sockets[h]  BY <2>3, <3>1, <4>2 DEF OpenInv
      <4> QED  BY <4>2, <4>3
    <3>2. ASSUME NEW h \in Socks, h >= nextSock  PROVE socks'[h].status = "none" /\ dxs.sockets[h] = "none"
      BY <2>3, <2>4, <3>2 DEF OpenInv
    <3>3. ASSUME NEW h \in Socks
          PROVE  /\ \A t \in Threads : Opens(call[t], h) =>
                      /\ h < nextSock /\ dxs.sockets[h] = "none"
                      /\ \A u \in Threads : Opens(call[u], h) => u = t
                      /\ \A i \in 1 .. Len(slowOut) : ~Opens(slowOut[i], h)
                 /\ \A i \in 1 .. Len(slowOut) : Opens(slowOut[i], h) =>
                      /\ h < nextSock /\ dxs.sockets[h] = "none"
                      /\ \A j \in 1 .. Len(slowOut) : Opens(slowOut[j], h) => j = i
      BY <2>3 DEF OpenInv
    <3> QED  BY <2>2, <3>1, <3>2, <3>3 DEF OpenInv
  <2>6. SockInv'
    <3>1. ASSUME NEW h \in Socks, serverVersion >= kAcceptAckVersion
          PROVE  /\ socks'[h].status = "connected" => dxs.sockets[h] = "connected"
                 /\ \A t \in Threads : Uses(call[t], h) => dxs.sockets[h] = "connected"
                 /\ \A i \in 1 .. Len(slowOut) : Uses(slowOut[i], h) => dxs.sockets[h] = "connected"
                 /\ \A i \in 1 .. Len(fastOut) : Uses(fastOut[i], h) => dxs.sockets[h] = "connected"
      BY <2>3, <2>4, <3>1 DEF SockInv
    <3> QED  BY <2>2, <3>1 DEF SockInv
  <2>7. OrderInv'
    <3>1. \A h, n : KnownBefore(h, n)' <=> KnownBefore(h, n)  BY <2>2 DEF KnownBefore
    <3>2. ASSUME NEW h \in Socks, ~llcm
          PROVE  /\ link = "up" /\ socks'[h].status = "connected" =>
                      KnownBefore(h, Len(slowOut)) \/ \E t \in Threads : Opens(call[t], h)
                 /\ link = "up" => \A t \in Threads : Uses(call[t], h) => KnownBefore(h, Len(slowOut))
                 /\ \A i \in 1 .. Len(slowOut) : Uses(slowOut[i], h) => KnownBefore(h, i - 1)
      <4>1. dxs.sockets[h] = "connected" => KnownBefore(h, Len(slowOut))  BY SMTT(30) DEF KnownBefore
      <4> QED  BY <2>3, <2>4, <3>2, <4>1 DEF OrderInv
    <3> QED  BY <2>2, <3>1, <3>2 DEF OrderInv
  <2> QED  BY <2>5, <2>6, <2>7 DEF SocketsInv

(* The answer to Init finds no data socket. *)
<1>VersionSockets.
    ASSUME IInv, NEW m \in Replies, m[1] = "InitAck", ~initialized, slowIn \in Seq(Replies), slowIn # <<>>,
           slowIn' = Tail(slowIn), \A h \in Socks : SockHandled(m, h), ReceiveControlMessage(m)
    PROVE  SocketsInv'
  <2> USE <1>VersionSockets
  <2>1. /\ llcm' = llcm /\ nextSock' = nextSock /\ call' = call /\ link' = link /\ slowOut' = slowOut
        /\ fastOut' = fastOut /\ dxs' = dxs
    BY <1>ReceiveFrame
  <2>2. phase \in {"init", "error"}
    <3>1. phase \in {"init", "ready", "error", "shutdown"}  BY DEF IInv, Typed, TypeOK
    <3>2. phase \notin {"ready", "shutdown"}  BY DEF IInv, PhaseInv
    <3> QED  BY <3>1, <3>2, SMTT(30)
  <2>3. /\ \A t \in Threads : call[t] = Idle
        /\ nextSock = 1 /\ fastOut = <<>>
        /\ \A i \in 1 .. Len(slowOut) : slowOut[i][1] \in {"Init", "InitLlcm"}
    BY <2>2 DEF IInv, PhaseInv
  <2>4. OpenInv  BY DEF IInv, SocketsInv
  <2>5. \A h \in Socks : h >= 1  BY SMTT(30) DEF Socks
  <2>6. \A h \in Socks : socks[h].status = "none" /\ dxs.sockets[h] = "none"  BY <2>3, <2>4, <2>5 DEF OpenInv
  <2>7. \A h \in Socks : socks'[h].status = "none" /\ socks'[h].status # "connected"
    <3>1. m[1] \notin AckKinds /\ "none" # "connected"  BY SMTT(30) DEF AckKinds
    <3> QED  BY <2>6, <3>1 DEF SockHandled
  <2>8. \A h : \A t \in Threads : ~Opens(call[t], h) /\ ~Uses(call[t], h)  BY <2>3, SMTT(30) DEF Opens, Uses, Idle
  <2>9. \A h : \A i \in 1 .. Len(slowOut) : ~Opens(slowOut[i], h) /\ ~Uses(slowOut[i], h)
    BY <2>3, SMTT(30) DEF Opens, Uses
  <2>10. \A i \in 1 .. Len(fastOut) : FALSE  BY <2>3, SMTT(30)
  <2>11. From(slowIn', slowIn, AckKinds)  BY FromTail
  <2>12. OpenInv'
    <3>1. ASSUME NEW h \in Socks, NEW i \in 1 .. Len(slowIn'), slowIn'[i][1] \in {"ConnectAck", "AcceptAck"},
                 slowIn'[i][2] = h
          PROVE  slowIn'[i][3] = dxs.sockets[h]
      <4>1. PICK j \in 1 .. Len(slowIn) : slowIn'[i] = slowIn[j]  BY <2>11, <3>1 DEF From, AckKinds
      <4>2. slowIn[j][3] = dxs.sockets[h]  BY <2>4, <3>1, <4>1 DEF OpenInv
      <4> QED  BY <4>1, <4>2
    <3> QED  BY <2>1, <2>6, <2>7, <2>8, <2>9, <3>1 DEF OpenInv
  <2>13. SockInv'  BY <2>1, <2>7, <2>8, <2>9, <2>10 DEF SockInv
  <2>14. OrderInv'  BY <2>1, <2>7, <2>8, <2>9 DEF OrderInv
  <2> QED  BY <2>12, <2>13, <2>14 DEF SocketsInv

(* What both channels' deliveries keep. *)
<1>ReceivedRest.
    ASSUME IInv, NEW m \in Replies, ReceiveControlMessage(m), Handled(m), slowIn' \in Seq(Replies),
           fastIn' \in Seq(Replies), \A i \in 1 .. Len(fastIn') : fastIn'[i][1] \in {"OpAck", "Pong"},
           From(slowIn', slowIn, {"OpAck"}), From(fastIn', fastIn, {"OpAck"}),
           m[1] = "OpAck" /\ m[3] = "complete" => m[2] \in dxs.completed
    PROVE  Typed' /\ FastInv' /\ PhaseInv' /\ RealAcks' /\ ResultsAreReal' /\ NothingPendingAfterFailure'
  <2> USE <1>ReceivedRest
  <2>1. /\ llcm' = llcm /\ phase' = phase /\ nextListen' = nextListen /\ nextSock' = nextSock /\ nextOp' = nextOp
        /\ pingSeq' = pingSeq /\ call' = call /\ link' = link /\ slowOut' = slowOut /\ fastOut' = fastOut
        /\ dxs' = dxs
    BY <1>ReceiveFrame
  <2>2. Typed'  BY <2>1 DEF IInv, Typed, TypeOK, Handled, HandledTypes, ListenType, SockType
  <2>3. FastInv'  BY <2>1 DEF IInv, FastInv
  <2>4. PhaseInv'
    <3>1. initialized => initialized'  BY DEF Handled
    <3>2. PhaseInv  BY DEF IInv
    <3> QED  BY <2>1, <3>1, <3>2 DEF PhaseInv
  <2>5. RealAcks'
    <3>1. ASSUME NEW i \in 1 .. Len(slowIn'), slowIn'[i][1] = "OpAck", slowIn'[i][3] = "complete"
          PROVE  slowIn'[i][2] \in dxs.completed
      <4>1. PICK j \in 1 .. Len(slowIn) : slowIn'[i] = slowIn[j]  BY <3>1 DEF From
      <4> QED  BY <3>1, <4>1 DEF IInv, RealAcks
    <3>2. ASSUME NEW i \in 1 .. Len(fastIn'), fastIn'[i][1] = "OpAck", fastIn'[i][3] = "complete"
          PROVE  fastIn'[i][2] \in dxs.completed
      <4>1. PICK j \in 1 .. Len(fastIn) : fastIn'[i] = fastIn[j]  BY <3>2 DEF From
      <4> QED  BY <3>2, <4>1 DEF IInv, RealAcks
    <3> QED  BY <2>1, <3>1, <3>2 DEF RealAcks
  <2>6. ResultsAreReal'
    <3>1. ASSUME NEW o \in Ops, ops'[o] = "complete"  PROVE o \in dxs.completed
      <4>1. OpHandled(m, o)  BY DEF Handled
      <4> QED  BY <3>1, <4>1 DEF OpHandled, IInv, ResultsAreReal
    <3> QED  BY <2>1, <3>1 DEF ResultsAreReal
  <2>7. KeepsPending
    <3>1. "pending" \notin {"ready", "error"} /\ "pending" \notin {"connected", "error"}
          /\ "pending" \notin {"complete", "error"} /\ "ready" # "pending"
      BY SMTT(30)
    <3>2. ASSUME NEW l \in Listens, listens'[l].status = "pending"  PROVE listens[l].status = "pending"
      <4>1. ListenHandled(m, l)  BY DEF Handled
      <4>2. Acks(m, l) => m[3] \in {"ready", "error"}  BY ReplyKinds DEF Acks
      <4> QED  BY <3>1, <3>2, <4>1, <4>2 DEF ListenHandled
    <3>3. ASSUME NEW h \in Socks, socks'[h].status = "pending"  PROVE socks[h].status = "pending"
      <4>1. SockHandled(m, h)  BY DEF Handled
      <4>2. m[1] \in AckKinds => m[3] \in {"connected", "error"}  BY ReplyKinds DEF AckKinds
      <4> QED  BY <3>1, <3>3, <4>1, <4>2 DEF SockHandled
    <3>4. ASSUME NEW o \in Ops, ops'[o] = "pending"  PROVE ops[o] = "pending"
      <4>1. OpHandled(m, o)  BY DEF Handled
      <4>2. m[1] = "OpAck" => m[3] \in {"complete", "error"}  BY ReplyKinds
      <4> QED  BY <3>1, <3>4, <4>1, <4>2 DEF OpHandled
    <3> QED  BY <2>1, <3>2, <3>3, <3>4 DEF KeepsPending
  <2> QED  BY <2>2, <2>3, <2>4, <2>5, <2>6, <2>7, PendingKept DEF IInv

<1>ReceiveSlowOK.
    ASSUME CountFacts, IInv, ReceiveSlow
    PROVE  IInv'
  <2> USE <1>ReceiveSlowOK
  <2> DEFINE m == Head(slowIn)
  <2>1. slowIn # <<>> /\ ReceiveControlMessage(m) /\ slowIn' = Tail(slowIn) /\ fastIn' = fastIn
    BY DEF ReceiveSlow
  <2>2. slowIn \in Seq(Replies) /\ fastIn \in Seq(Replies)  BY DEF IInv, Typed, TypeOK
  <2>3. Shorter(slowIn', slowIn, Replies)  BY <2>1, <2>2, DroppedAt
  <2>4. m \in Replies /\ slowIn' \in Seq(Replies) /\ 1 \in 1 .. Len(slowIn) /\ m = slowIn[1]
    BY <2>3 DEF Shorter
  <2> HIDE DEF m
  <2>5. Handled(m)  BY <2>1, <2>4, <1>MessageHandled DEF IInv
  <2>6. \A l \in Listens : ListenHandled(m, l)  BY <2>5 DEF Handled
  <2>7. \A h \in Socks : SockHandled(m, h)  BY <2>5 DEF Handled
  <2>8. m[1] = "OpAck" /\ m[3] = "complete" => m[2] \in dxs.completed  BY <2>4 DEF IInv, RealAcks
  <2>9. Typed' /\ FastInv' /\ PhaseInv' /\ RealAcks' /\ ResultsAreReal' /\ NothingPendingAfterFailure'
    <3>1. From(slowIn', slowIn, {"OpAck"})  BY <2>1, <2>2, FromTail
    <3>2. From(fastIn', fastIn, {"OpAck"})  BY <2>1, FromSame
    <3>3. \A i \in 1 .. Len(fastIn') : fastIn'[i][1] \in {"OpAck", "Pong"}  BY <2>1 DEF IInv, FastInv
    <3> QED  BY <2>1, <2>2, <2>4, <2>5, <2>8, <3>1, <3>2, <3>3, <1>ReceivedRest
  <2>10. ListensInv'
    <3>1. m = Head(slowIn)  BY DEF m
    <3> QED  BY <2>1, <2>3, <2>4, <2>6, <3>1, <1>ReceivedListens
  <2>11. SocketsInv'
    <3>1. CASE m[1] # "InitAck" \/ initialized
      <4>1. serverVersion' = serverVersion  BY <2>5, <3>1 DEF Handled
      <4>2. m = Head(slowIn)  BY DEF m
      <4> QED  BY <2>1, <2>3, <2>4, <2>7, <4>1, <4>2, <1>ReceivedSockets
    <3>2. CASE m[1] = "InitAck" /\ ~initialized  BY <2>1, <2>2, <2>4, <2>7, <3>2, <1>VersionSockets
    <3> QED  BY <3>1, <3>2
  <2> QED  BY <2>9, <2>10, <2>11 DEF IInv

<1>ReceiveFastOK.
    ASSUME IInv, ReceiveFast
    PROVE  IInv'
  <2> USE <1>ReceiveFastOK
  <2> DEFINE m == Head(fastIn)
  <2>1. fastIn # <<>> /\ ReceiveControlMessage(m) /\ fastIn' = Tail(fastIn) /\ slowIn' = slowIn
    BY DEF ReceiveFast
  <2>2. slowIn \in Seq(Replies) /\ fastIn \in Seq(Replies)  BY DEF IInv, Typed, TypeOK
  <2>3. Shorter(fastIn', fastIn, Replies)  BY <2>1, <2>2, DroppedAt
  <2>4. /\ m \in Replies /\ fastIn' \in Seq(Replies) /\ 1 \in 1 .. Len(fastIn) /\ m = fastIn[1]
        /\ \A i \in 1 .. Len(fastIn') : i + 1 \in 1 .. Len(fastIn) /\ fastIn'[i] = fastIn[i + 1]
    BY <2>3 DEF Shorter
  <2> HIDE DEF m
  <2>5. Handled(m)  BY <2>1, <2>4, <1>MessageHandled DEF IInv
  <2>6. m[1] \in {"OpAck", "Pong"} /\ \A i \in 1 .. Len(fastIn') : fastIn'[i][1] \in {"OpAck", "Pong"}
    <3>1. \A i \in 1 .. Len(fastIn) : fastIn[i][1] \in {"OpAck", "Pong"}  BY DEF IInv, FastInv
    <3>2. m[1] \in {"OpAck", "Pong"}  BY <2>4, <3>1
    <3>3. ASSUME NEW i \in 1 .. Len(fastIn')  PROVE fastIn'[i][1] \in {"OpAck", "Pong"}
      <4>1. i + 1 \in 1 .. Len(fastIn) /\ fastIn'[i] = fastIn[i + 1]  BY <2>4
      <4>2. fastIn[i + 1][1] \in {"OpAck", "Pong"}  BY <3>1, <4>1
      <4> QED  BY <4>1, <4>2
    <3> QED  BY <3>2, <3>3
  <2>7. m[1] # "InitAck" /\ m[1] # "ListenAck" /\ m[1] # "Incoming" /\ m[1] \notin AckKinds  BY <2>6, SMTT(30) DEF AckKinds
  <2>8. m[1] = "OpAck" /\ m[3] = "complete" => m[2] \in dxs.completed  BY <2>4 DEF IInv, RealAcks
  <2>9. Typed' /\ FastInv' /\ PhaseInv' /\ RealAcks' /\ ResultsAreReal' /\ NothingPendingAfterFailure'
    <3>1. From(fastIn', fastIn, {"OpAck"})  BY <2>1, <2>2, FromTail
    <3>2. From(slowIn', slowIn, {"OpAck"})  BY <2>1, FromSame
    <3> QED  BY <2>1, <2>2, <2>4, <2>5, <2>6, <2>8, <3>1, <3>2, <1>ReceivedRest
  <2>10. serverVersion' = serverVersion /\ \A h \in Socks : socks'[h] = socks[h]
    BY <2>5, <2>7 DEF Handled, SockHandled
  <2>11. \A l \in Listens : listens'[l] = listens[l]
    <3>1. \A l : <<"Incoming", l>>[1] = "Incoming"  BY SMTT(30)
    <3>2. \A l \in Listens : ListenHandled(m, l)  BY <2>5 DEF Handled
    <3> QED  BY <2>7, <3>1, <3>2 DEF ListenHandled, Acks
  <2>12. KeepsSockets  BY <2>1, <2>10, <1>ReceiveFrame, FromSame DEF KeepsSockets
  <2>13. KeepsListens  BY <2>1, <2>11, <1>ReceiveFrame, PrefixSame DEF KeepsListens
  <2> QED  BY <2>9, <2>12, <2>13, SocketsKept, ListensKept DEF IInv

<1> QED  BY <1>ReceiveSlowOK, <1>ReceiveFastOK DEF Receive

-----------------------------------------------------------------------------
(* The steps of DXS *)

(* DXS takes d commands off the slow channel and answers with a, or not. *)
Serves(d, a) ==
  /\ \A i \in 1 .. Len(slowOut') : i + d \in 1 .. Len(slowOut) /\ slowOut'[i] = slowOut[i + d]
  /\ Len(slowOut) \in Nat /\ Len(slowOut') \in Nat
  /\ Len(slowIn) \in Nat /\ \A i \in 1 .. Len(slowIn) : i \in 1 .. Len(slowIn') /\ slowIn'[i] = slowIn[i]
  /\ \A i \in 1 .. Len(slowIn') : \/ i \in 1 .. Len(slowIn) /\ slowIn'[i] = slowIn[i]
                                  \/ i = Len(slowIn') /\ i = Len(slowIn) + 1 /\ slowIn'[i] = a

Waits(l, w, s, o, c, x) == w[l] = c + Count(s, IncomingTo(l)) + x + Count(o, AcceptsOf(l))

ServesListens(a) ==
  /\ \A l \in Listens : Acks(a, l) =>
       /\ \E k \in 1 .. Len(slowOut) : slowOut[k] = <<"Listen", l>>
       /\ \A i \in 1 .. Len(slowOut') : slowOut'[i] # <<"Listen", l>>
  /\ \A l \in Listens : a = <<"Incoming", l>> => l \in dxs.listening
  /\ \A l \in Listens : l \in dxs'.listening => l \in dxs.listening \/
       /\ \E k \in 1 .. Len(slowOut) : slowOut[k] = <<"Listen", l>>
       /\ link = "up" => Len(slowIn') \in 1 .. Len(slowIn') /\ slowIn'[Len(slowIn')] = <<"ListenAck", l, "ready">>
  /\ \A l \in Listens : dxs'.waiting[l] # dxs.waiting[l] =>
       l \in dxs.listening \/ \E k \in 1 .. Len(slowOut) : Accepts(slowOut[k], l)
  /\ link = "up" => \A l \in Listens : \A c, x \in Nat :
       Waits(l, dxs.waiting, slowIn, slowOut, c, x) => Waits(l, dxs'.waiting, slowIn', slowOut', c, x)

LEMMA ServedListens ==
  ASSUME CountFacts, IInv, NEW d \in {0, 1}, NEW a, Serves(d, a), ServesListens(a),
         listens' = listens, nextListen' = nextListen, call' = call, link' = link
  PROVE  ListensInv'
<1>1. /\ \A i \in 1 .. Len(slowOut') : i + d \in 1 .. Len(slowOut) /\ slowOut'[i] = slowOut[i + d]
      /\ \A i \in 1 .. Len(slowIn) : i \in 1 .. Len(slowIn') /\ slowIn'[i] = slowIn[i]
      /\ \A i \in 1 .. Len(slowIn') : \/ i \in 1 .. Len(slowIn) /\ slowIn'[i] = slowIn[i]
                                      \/ i = Len(slowIn') /\ i = Len(slowIn) + 1 /\ slowIn'[i] = a
  BY DEF Serves
<1>2. \A i, j \in 1 .. Len(slowOut') : i + d = j + d => i = j  BY SMTT(30) DEF Serves
<1>3. ListenBound /\ ListenOnce /\ PendingInv /\ CountInv  BY DEF IInv, ListensInv
<1>4. ASSUME NEW l \in Listens, l >= nextListen
      PROVE  /\ listens[l].status = "none" /\ listens[l].connections = 0
             /\ l \notin dxs.listening /\ dxs.waiting[l] = 0
             /\ \A t \in Threads : call[t] # <<"Listen", l>> /\ ~Accepts(call[t], l)
             /\ \A i \in 1 .. Len(slowOut) : slowOut[i] # <<"Listen", l>> /\ ~Accepts(slowOut[i], l)
             /\ \A i \in 1 .. Len(slowIn) : ~Acks(slowIn[i], l) /\ slowIn[i] # <<"Incoming", l>>
  BY <1>3, <1>4 DEF ListenBound
<1>5. ASSUME NEW l \in Listens, Acks(a, l)
      PROVE  /\ Unanswered(l) /\ \A t \in Threads : call[t] # <<"Listen", l>>
             /\ \A i \in 1 .. Len(slowOut') : slowOut'[i] # <<"Listen", l>>
             /\ \A i \in 1 .. Len(slowIn) : ~Acks(slowIn[i], l)
  <2>1. PICK k \in 1 .. Len(slowOut) : slowOut[k] = <<"Listen", l>>  BY <1>5 DEF ServesListens
  <2>2. Unanswered(l) /\ \A i \in 1 .. Len(slowIn) : ~Acks(slowIn[i], l)  BY <1>3, <2>1 DEF ListenOnce
  <2>3. \A t \in Threads : call[t] # <<"Listen", l>>  BY <1>3, <2>1 DEF ListenOnce
  <2> QED  BY <1>5, <2>2, <2>3 DEF ServesListens
<1>6. \A l : Unanswered(l)' <=> Unanswered(l)  BY DEF Unanswered
<1>7. ListenBound'
  <2>1. ASSUME NEW l \in Listens, l >= nextListen, NEW i \in 1 .. Len(slowOut')
        PROVE  slowOut'[i] # <<"Listen", l>> /\ ~Accepts(slowOut'[i], l)
    <3>1. i + d \in 1 .. Len(slowOut) /\ slowOut'[i] = slowOut[i + d]  BY <1>1
    <3>2. slowOut[i + d] # <<"Listen", l>> /\ ~Accepts(slowOut[i + d], l)  BY <1>4, <2>1, <3>1
    <3> QED  BY <3>1, <3>2
  <2>2. ASSUME NEW l \in Listens, l >= nextListen, NEW i \in 1 .. Len(slowIn')
        PROVE  ~Acks(slowIn'[i], l) /\ slowIn'[i] # <<"Incoming", l>>
    <3>1. ~Acks(a, l) /\ a # <<"Incoming", l>>  BY <1>4, <2>2 DEF ServesListens
    <3> QED  BY <1>1, <1>4, <2>2, <3>1
  <2>3. ASSUME NEW l \in Listens, l >= nextListen  PROVE l \notin dxs'.listening /\ dxs'.waiting[l] = 0
    BY <1>4, <2>3 DEF ServesListens
  <2>4. ASSUME NEW l \in Listens, l >= nextListen
        PROVE  /\ listens[l].status = "none" /\ listens[l].connections = 0
               /\ \A t \in Threads : call[t] # <<"Listen", l>> /\ ~Accepts(call[t], l)
    BY <1>4, <2>4
  <2> QED  BY <2>1, <2>2, <2>3, <2>4 DEF ListenBound
<1>8. ListenOnce'
  <2>1. ASSUME NEW l \in Listens, NEW t \in Threads, call[t] = <<"Listen", l>>
        PROVE  /\ Unanswered(l)
               /\ \A u \in Threads : call[u] = <<"Listen", l>> => u = t
               /\ \A i \in 1 .. Len(slowOut') : slowOut'[i] # <<"Listen", l>>
               /\ \A i \in 1 .. Len(slowIn') : ~Acks(slowIn'[i], l)
    <3>1. /\ Unanswered(l)
          /\ \A u \in Threads : call[u] = <<"Listen", l>> => u = t
          /\ \A i \in 1 .. Len(slowOut) : slowOut[i] # <<"Listen", l>>
          /\ \A i \in 1 .. Len(slowIn) : ~Acks(slowIn[i], l)
      BY <1>3, <2>1 DEF ListenOnce
    <3>2. ~Acks(a, l)  BY <1>5, <2>1
    <3>3. ASSUME NEW i \in 1 .. Len(slowOut')  PROVE slowOut'[i] # <<"Listen", l>>
      <4>1. i + d \in 1 .. Len(slowOut) /\ slowOut'[i] = slowOut[i + d]  BY <1>1
      <4>2. slowOut[i + d] # <<"Listen", l>>  BY <3>1, <4>1
      <4> QED  BY <4>1, <4>2
    <3> QED  BY <1>1, <3>1, <3>2, <3>3
  <2>2. ASSUME NEW l \in Listens, NEW i \in 1 .. Len(slowOut'), slowOut'[i] = <<"Listen", l>>
        PROVE  /\ Unanswered(l)
               /\ \A j \in 1 .. Len(slowOut') : slowOut'[j] = <<"Listen", l>> => j = i
               /\ \A j \in 1 .. Len(slowIn') : ~Acks(slowIn'[j], l)
    <3>1. i + d \in 1 .. Len(slowOut) /\ slowOut[i + d] = <<"Listen", l>>  BY <1>1, <2>2
    <3>2. /\ Unanswered(l)
          /\ \A j \in 1 .. Len(slowOut) : slowOut[j] = <<"Listen", l>> => j = i + d
          /\ \A j \in 1 .. Len(slowIn) : ~Acks(slowIn[j], l)
      BY <1>3, <3>1 DEF ListenOnce
    <3>3. ASSUME NEW j \in 1 .. Len(slowOut'), slowOut'[j] = <<"Listen", l>>  PROVE j = i
      <4>1. j + d \in 1 .. Len(slowOut) /\ slowOut[j + d] = <<"Listen", l>>  BY <1>1, <3>3
      <4>2. j + d = i + d  BY <3>2, <4>1
      <4> QED  BY <1>2, <4>2
    <3>4. ~Acks(a, l)  BY <1>5, <2>2
    <3> QED  BY <1>1, <3>2, <3>3, <3>4
  <2>3. ASSUME NEW l \in Listens, NEW i \in 1 .. Len(slowIn'), Acks(slowIn'[i], l)
        PROVE  Unanswered(l) /\ \A j \in 1 .. Len(slowIn') : Acks(slowIn'[j], l) => j = i
    <3>1. CASE i \in 1 .. Len(slowIn) /\ slowIn'[i] = slowIn[i]
      <4>1. Unanswered(l) /\ \A j \in 1 .. Len(slowIn) : Acks(slowIn[j], l) => j = i
        BY <1>3, <2>3, <3>1 DEF ListenOnce
      <4>2. ~Acks(a, l)  BY <1>5, <2>3, <3>1
      <4> QED  BY <1>1, <4>1, <4>2
    <3>2. CASE i = Len(slowIn') /\ slowIn'[i] = a
      <4>1. Unanswered(l) /\ \A j \in 1 .. Len(slowIn) : ~Acks(slowIn[j], l)  BY <1>5, <2>3, <3>2
      <4> QED  BY <1>1, <3>2, <4>1
    <3> QED  BY <1>1, <3>1, <3>2
  <2> QED  BY <1>6, <2>1, <2>2, <2>3 DEF ListenOnce
<1>9. PendingInv'
  <2>1. ASSUME NEW l \in Listens, link = "up", listens[l].status = "pending"
        PROVE  /\ listens[l].connections = 0
               /\ \A t \in Threads : ~Accepts(call[t], l)
               /\ \A i \in 1 .. Len(slowOut') : ~Accepts(slowOut'[i], l)
               /\ \A i \in 1 .. Len(slowIn') : slowIn'[i] = <<"Incoming", l>> => ReadyBefore(l, i - 1)'
               /\ l \in dxs'.listening => ReadyBefore(l, Len(slowIn))'
    <3>1. /\ listens[l].connections = 0
          /\ \A t \in Threads : ~Accepts(call[t], l)
          /\ \A i \in 1 .. Len(slowOut) : ~Accepts(slowOut[i], l)
          /\ \A i \in 1 .. Len(slowIn) : slowIn[i] = <<"Incoming", l>> => ReadyBefore(l, i - 1)
          /\ l \in dxs.listening => ReadyBefore(l, Len(slowIn))
      BY <1>3, <2>1 DEF PendingInv
    <3>2. ASSUME NEW i \in 1 .. Len(slowOut')  PROVE ~Accepts(slowOut'[i], l)
      <4>1. i + d \in 1 .. Len(slowOut) /\ slowOut'[i] = slowOut[i + d]  BY <1>1
      <4>2. ~Accepts(slowOut[i + d], l)  BY <3>1, <4>1
      <4> QED  BY <4>1, <4>2
    <3>3. ASSUME NEW n, \A j \in 1 .. n : j \in 1 .. Len(slowIn), ReadyBefore(l, n)
          PROVE  \E j \in 1 .. n : slowIn'[j] = <<"ListenAck", l, "ready">>
      BY <1>1, <3>3 DEF ReadyBefore
    <3>4. ASSUME NEW i \in 1 .. Len(slowIn'), slowIn'[i] = <<"Incoming", l>>
          PROVE  \E j \in 1 .. i - 1 : slowIn'[j] = <<"ListenAck", l, "ready">>
      <4>1. CASE i \in 1 .. Len(slowIn) /\ slowIn'[i] = slowIn[i]
        <5>1. \A j \in 1 .. i - 1 : j \in 1 .. Len(slowIn)  BY <4>1, SMTT(30) DEF Serves
        <5>2. ReadyBefore(l, i - 1)  BY <3>1, <3>4, <4>1
        <5> QED  BY <3>3, <5>1, <5>2
      <4>2. CASE i = Len(slowIn) + 1 /\ slowIn'[i] = a
        <5>1. i - 1 = Len(slowIn)  BY <4>2, SMTT(30) DEF Serves
        <5>2. l \in dxs.listening  BY <3>4, <4>2 DEF ServesListens
        <5>3. ReadyBefore(l, i - 1)  BY <3>1, <5>1, <5>2
        <5> QED  BY <3>3, <5>1, <5>3
      <4> QED  BY <1>1, <4>1, <4>2
    <3>5. ASSUME l \in dxs'.listening
          PROVE  \E j \in 1 .. Len(slowIn') : slowIn'[j] = <<"ListenAck", l, "ready">>
      <4>1. CASE l \in dxs.listening
        <5>1. PICK j \in 1 .. Len(slowIn) : slowIn[j] = <<"ListenAck", l, "ready">>
          BY <3>1, <4>1 DEF ReadyBefore
        <5> QED  BY <1>1, <5>1
      <4>2. CASE l \notin dxs.listening  BY <2>1, <3>5, <4>2 DEF ServesListens
      <4> QED  BY <4>1, <4>2
    <3> QED  BY <3>1, <3>2, <3>4, <3>5 DEF ReadyBefore
  <2> QED  BY <2>1 DEF PendingInv
<1>10. CountInv'
  <2>1. \A l : Accepting(l)' = Accepting(l)  BY DEF Accepting
  <2>2. ASSUME NEW l \in Listens, link = "up", listens[l].status \in {"pending", "ready"}
        PROVE  Waits(l, dxs'.waiting, slowIn', slowOut', listens[l].connections, Cardinality(Accepting(l)))
    <3>1. Waits(l, dxs.waiting, slowIn, slowOut, listens[l].connections, Cardinality(Accepting(l)))
      BY <1>3, <2>2 DEF CountInv, Waits
    <3>2. listens[l].connections \in Nat /\ Cardinality(Accepting(l)) \in Nat
      BY AcceptingCount DEF IInv, Typed, TypeOK
    <3> QED  BY <2>2, <3>1, <3>2 DEF ServesListens
  <2> QED  BY <2>1, <2>2 DEF CountInv, Waits
<1> QED  BY <1>7, <1>8, <1>9, <1>10 DEF ListensInv

(* DXS takes command m off the slow channel and answers with a, or not. *)
ServesSockets(m, a) ==
  /\ \A h \in Socks : IF Opens(m, h) THEN dxs'.sockets[h] # "none" ELSE dxs'.sockets[h] = dxs.sockets[h]
  /\ \A h \in Socks : a[1] \in AckKinds /\ a[2] = h => Opens(m, h) /\ a[3] = dxs'.sockets[h]

LEMMA ServedSockets ==
  ASSUME IInv, NEW m, NEW a, m = slowOut[1], Shorter(slowOut', slowOut, Commands), Serves(1, a), ServesSockets(m, a),
         llcm' = llcm, serverVersion' = serverVersion, socks' = socks, nextSock' = nextSock, call' = call,
         link' = link, fastOut' = fastOut
  PROVE  SocketsInv'
<1>1. /\ \A i \in 1 .. Len(slowOut') : i + 1 \in 1 .. Len(slowOut) /\ slowOut'[i] = slowOut[i + 1]
      /\ \A i \in 1 .. Len(slowIn') : \/ i \in 1 .. Len(slowIn) /\ slowIn'[i] = slowIn[i]
                                      \/ slowIn'[i] = a
  BY DEF Serves
<1>2. /\ Len(slowOut') \in Nat /\ Len(slowOut) = Len(slowOut') + 1 /\ 1 \in 1 .. Len(slowOut)
      /\ \A i \in 1 .. Len(slowOut) : i = 1 \/ (i - 1 \in 1 .. Len(slowOut') /\ slowOut'[i - 1] = slowOut[i])
  BY DEF Shorter
<1>3. OpenInv /\ SockInv /\ OrderInv  BY DEF IInv, SocketsInv
<1>4. \A i, j \in 1 .. Len(slowOut') : (i + 1 = j + 1 => i = j) /\ i + 1 # 1  BY <1>2, SMTT(30)
<1>5. ASSUME NEW h \in Socks, ~Opens(m, h)  PROVE dxs'.sockets[h] = dxs.sockets[h]
  BY <1>5 DEF ServesSockets
<1>6. ASSUME NEW h \in Socks, Opens(m, h)
      PROVE  /\ h < nextSock /\ dxs.sockets[h] = "none" /\ dxs'.sockets[h] # "none"
             /\ \A t \in Threads : ~Opens(call[t], h)
             /\ \A i \in 1 .. Len(slowOut') : ~Opens(slowOut'[i], h)
             /\ \A i \in 1 .. Len(slowIn) : ~(slowIn[i][1] \in AckKinds /\ slowIn[i][2] = h)
  <2>1. /\ h < nextSock /\ dxs.sockets[h] = "none"
        /\ \A j \in 1 .. Len(slowOut) : Opens(slowOut[j], h) => j = 1
    BY <1>2, <1>3, <1>6 DEF OpenInv
  <2>2. \A t \in Threads : ~Opens(call[t], h)  BY <1>2, <1>3, <1>6 DEF OpenInv
  <2>3. ASSUME NEW i \in 1 .. Len(slowOut')  PROVE ~Opens(slowOut'[i], h)
    <3>1. i + 1 \in 1 .. Len(slowOut) /\ slowOut'[i] = slowOut[i + 1] /\ i + 1 # 1  BY <1>1, <1>4
    <3>2. ~Opens(slowOut[i + 1], h)  BY <2>1, <3>1
    <3> QED  BY <3>1, <3>2
  <2>4. ASSUME NEW i \in 1 .. Len(slowIn), slowIn[i][1] \in AckKinds, slowIn[i][2] = h  PROVE FALSE
    <3>1. slowIn[i][3] = "none"  BY <1>3, <2>1, <2>4 DEF OpenInv, AckKinds
    <3>2. slowIn[i] \in Replies  BY Elements DEF IInv, Typed, TypeOK
    <3>3. slowIn[i][3] \in {"connected", "error"}  BY <2>4, <3>2, ReplyKinds DEF AckKinds
    <3> QED  BY <3>1, <3>3, SMTT(30)
  <2>5. dxs'.sockets[h] # "none"  BY <1>6 DEF ServesSockets
  <2> QED  BY <2>1, <2>2, <2>3, <2>4, <2>5
<1>7. OpenInv'
  <2>1. ASSUME NEW h \in Socks, h >= nextSock  PROVE socks[h].status = "none" /\ dxs'.sockets[h] = "none"
    <3>1. socks[h].status = "none" /\ dxs.sockets[h] = "none"  BY <1>3, <2>1 DEF OpenInv
    <3>2. ~(h < nextSock)
      <4>1. nextSock \in Nat /\ h \in Nat  BY Numbers, Bounds, SMTT(30) DEF IInv, Socks
      <4> QED  BY <2>1, <4>1, SMTT(30)
    <3> QED  BY <1>5, <1>6, <3>1, <3>2
  <2>2. ASSUME NEW h \in Socks, NEW t \in Threads, Opens(call[t], h)
        PROVE  /\ h < nextSock /\ dxs'.sockets[h] = "none"
               /\ \A u \in Threads : Opens(call[u], h) => u = t
               /\ \A i \in 1 .. Len(slowOut') : ~Opens(slowOut'[i], h)
    <3>1. /\ h < nextSock /\ dxs.sockets[h] = "none"
          /\ \A u \in Threads : Opens(call[u], h) => u = t
          /\ \A i \in 1 .. Len(slowOut) : ~Opens(slowOut[i], h)
      BY <1>3, <2>2 DEF OpenInv
    <3>2. dxs'.sockets[h] = dxs.sockets[h]  BY <1>5, <1>6, <2>2
    <3>3. ASSUME NEW i \in 1 .. Len(slowOut')  PROVE ~Opens(slowOut'[i], h)
      <4>1. i + 1 \in 1 .. Len(slowOut) /\ slowOut'[i] = slowOut[i + 1]  BY <1>1
      <4>2. ~Opens(slowOut[i + 1], h)  BY <3>1, <4>1
      <4> QED  BY <4>1, <4>2
    <3> QED  BY <3>1, <3>2, <3>3
  <2>3. ASSUME NEW h \in Socks, NEW i \in 1 .. Len(slowOut'), Opens(slowOut'[i], h)
        PROVE  /\ h < nextSock /\ dxs'.sockets[h] = "none"
               /\ \A j \in 1 .. Len(slowOut') : Opens(slowOut'[j], h) => j = i
    <3>1. i + 1 \in 1 .. Len(slowOut) /\ Opens(slowOut[i + 1], h)  BY <1>1, <2>3
    <3>2. /\ h < nextSock /\ dxs.sockets[h] = "none"
          /\ \A j \in 1 .. Len(slowOut) : Opens(slowOut[j], h) => j = i + 1
      BY <1>3, <3>1 DEF OpenInv
    <3>3. dxs'.sockets[h] = dxs.sockets[h]  BY <1>5, <1>6, <2>3
    <3>4. ASSUME NEW j \in 1 .. Len(slowOut'), Opens(slowOut'[j], h)  PROVE j = i
      <4>1. j + 1 \in 1 .. Len(slowOut) /\ Opens(slowOut[j + 1], h)  BY <1>1, <3>4
      <4>2. j + 1 = i + 1  BY <3>2, <4>1
      <4> QED  BY <1>4, <4>2
    <3> QED  BY <3>2, <3>3, <3>4
  <2>4. ASSUME NEW h \in Socks, NEW i \in 1 .. Len(slowIn'), slowIn'[i][1] \in {"ConnectAck", "AcceptAck"},
               slowIn'[i][2] = h
        PROVE  slowIn'[i][3] = dxs'.sockets[h]
    <3>1. CASE i \in 1 .. Len(slowIn) /\ slowIn'[i] = slowIn[i]
      <4>1. slowIn[i][3] = dxs.sockets[h]  BY <1>3, <2>4, <3>1 DEF OpenInv
      <4>2. dxs'.sockets[h] = dxs.sockets[h]  BY <1>5, <1>6, <2>4, <3>1 DEF AckKinds
      <4> QED  BY <3>1, <4>1, <4>2
    <3>2. CASE slowIn'[i] = a  BY <2>4, <3>2 DEF ServesSockets, AckKinds
    <3> QED  BY <1>1, <3>1, <3>2
  <2> QED  BY <2>1, <2>2, <2>3, <2>4 DEF OpenInv
<1>8. SockInv'
  <2>1. ASSUME NEW h \in Socks, dxs.sockets[h] = "connected"  PROVE dxs'.sockets[h] = "connected"
    <3>1. ~Opens(m, h)
      <4>1. "connected" # "none"  BY SMTT(30)
      <4> QED  BY <1>6, <2>1, <4>1
    <3> QED  BY <1>5, <2>1, <3>1
  <2>2. ASSUME NEW h \in Socks, serverVersion >= kAcceptAckVersion
        PROVE  /\ socks[h].status = "connected" => dxs'.sockets[h] = "connected"
               /\ \A t \in Threads : Uses(call[t], h) => dxs'.sockets[h] = "connected"
               /\ \A i \in 1 .. Len(slowOut') : Uses(slowOut'[i], h) => dxs'.sockets[h] = "connected"
               /\ \A i \in 1 .. Len(fastOut) : Uses(fastOut[i], h) => dxs'.sockets[h] = "connected"
    <3>1. /\ socks[h].status = "connected" => dxs.sockets[h] = "connected"
          /\ \A t \in Threads : Uses(call[t], h) => dxs.sockets[h] = "connected"
          /\ \A i \in 1 .. Len(slowOut) : Uses(slowOut[i], h) => dxs.sockets[h] = "connected"
          /\ \A i \in 1 .. Len(fastOut) : Uses(fastOut[i], h) => dxs.sockets[h] = "connected"
      BY <1>3, <2>2 DEF SockInv
    <3>2. ASSUME NEW i \in 1 .. Len(slowOut'), Uses(slowOut'[i], h)  PROVE dxs.sockets[h] = "connected"
      <4>1. i + 1 \in 1 .. Len(slowOut) /\ Uses(slowOut[i + 1], h)  BY <1>1, <3>2
      <4> QED  BY <3>1, <4>1
    <3> QED  BY <2>1, <3>1, <3>2
  <2> QED  BY <2>2 DEF SockInv
<1>9. OrderInv'
  <2>1. ASSUME NEW h \in Socks, NEW n \in Nat, n <= Len(slowOut'), KnownBefore(h, n + 1)
        PROVE  dxs'.sockets[h] # "none" \/ \E j \in 1 .. n : Opens(slowOut'[j], h)
    <3>1. CASE Opens(m, h)  BY <1>6, <3>1
    <3>2. CASE ~Opens(m, h) /\ dxs.sockets[h] # "none"  BY <1>5, <3>2
    <3>3. CASE ~Opens(m, h) /\ \E j \in 1 .. n + 1 : Opens(slowOut[j], h)
      <4>1. PICK j \in 1 .. n + 1 : Opens(slowOut[j], h)  BY <3>3
      <4>2. j # 1  BY <3>3, <4>1
      <4>3. j \in 1 .. Len(slowOut) /\ j - 1 \in 1 .. n  BY <1>2, <2>1, <4>2, SMTT(30)
      <4>4. Opens(slowOut'[j - 1], h)  BY <1>2, <4>1, <4>2, <4>3
      <4> QED  BY <4>3, <4>4
    <3> QED  BY <2>1, <3>1, <3>2, <3>3 DEF KnownBefore
  <2>2. ASSUME NEW h \in Socks, KnownBefore(h, Len(slowOut))
        PROVE  dxs'.sockets[h] # "none" \/ \E j \in 1 .. Len(slowOut') : Opens(slowOut'[j], h)
    <3>1. KnownBefore(h, Len(slowOut') + 1)  BY <1>2, <2>2
    <3>2. Len(slowOut') \in Nat /\ Len(slowOut') <= Len(slowOut')  BY <1>2, SMTT(30)
    <3> QED  BY <2>1, <3>1, <3>2
  <2>3. ASSUME NEW h \in Socks, ~llcm, NEW i \in 1 .. Len(slowOut'), Uses(slowOut'[i], h)
        PROVE  dxs'.sockets[h] # "none" \/ \E j \in 1 .. i - 1 : Opens(slowOut'[j], h)
    <3>1. i + 1 \in 1 .. Len(slowOut) /\ Uses(slowOut[i + 1], h)  BY <1>1, <2>3
    <3>2. KnownBefore(h, (i + 1) - 1)  BY <1>3, <2>3, <3>1 DEF OrderInv
    <3>3. (i + 1) - 1 = (i - 1) + 1 /\ i - 1 \in Nat /\ i - 1 <= Len(slowOut')  BY <1>2, SMTT(30)
    <3> QED  BY <2>1, <3>2, <3>3
  <2>4. ASSUME NEW h \in Socks, ~llcm, link = "up"
        PROVE  /\ socks[h].status = "connected" =>
                    \/ dxs'.sockets[h] # "none" \/ \E j \in 1 .. Len(slowOut') : Opens(slowOut'[j], h)
                    \/ \E t \in Threads : Opens(call[t], h)
               /\ \A t \in Threads : Uses(call[t], h) =>
                    dxs'.sockets[h] # "none" \/ \E j \in 1 .. Len(slowOut') : Opens(slowOut'[j], h)
    <3>1. /\ socks[h].status = "connected" =>
               KnownBefore(h, Len(slowOut)) \/ \E t \in Threads : Opens(call[t], h)
          /\ \A t \in Threads : Uses(call[t], h) => KnownBefore(h, Len(slowOut))
      BY <1>3, <2>4 DEF OrderInv
    <3> QED  BY <2>2, <3>1
  <2> QED  BY <2>3, <2>4 DEF OrderInv, KnownBefore
<1> QED  BY <1>7, <1>8, <1>9 DEF SocketsInv

LEMMA DxsFrame ==
  ASSUME Others
  PROVE  /\ llcm' = llcm /\ phase' = phase /\ initialized' = initialized /\ serverVersion' = serverVersion
         /\ llcmInfo' = llcmInfo /\ failed' = failed /\ listens' = listens /\ socks' = socks /\ ops' = ops
         /\ pings' = pings /\ pingResults' = pingResults /\ nextListen' = nextListen /\ nextSock' = nextSock
         /\ nextOp' = nextOp /\ pingSeq' = pingSeq /\ call' = call /\ link' = link
<1> QED  BY DEF Others, init, tables, pinging, numbers

(* The slow channel to the client keeps its messages, or has one more. *)
Answered(a) == slowIn' = slowIn \/ (slowIn' = Append(slowIn, a) /\ a \in Replies)

LEMMA AnsweredIn ==
  ASSUME Typed, NEW a, Answered(a)
  PROVE  /\ slowIn' \in Seq(Replies) /\ Len(slowIn) \in Nat
         /\ \A i \in 1 .. Len(slowIn) : i \in 1 .. Len(slowIn') /\ slowIn'[i] = slowIn[i]
         /\ \A i \in 1 .. Len(slowIn') : \/ i \in 1 .. Len(slowIn) /\ slowIn'[i] = slowIn[i]
                                         \/ i = Len(slowIn') /\ i = Len(slowIn) + 1 /\ slowIn'[i] = a
<1>1. slowIn \in Seq(Replies)  BY DEF Typed, TypeOK
<1>2. CASE slowIn' = slowIn  BY <1>1, <1>2, Elements
<1>3. CASE slowIn' = Append(slowIn, a) /\ a \in Replies
  <2>1. Longer(slowIn', slowIn, a, Replies)  BY <1>1, <1>3, AppendedAt
  <2> QED  BY <2>1 DEF Longer
<1> QED  BY <1>2, <1>3 DEF Answered

LEMMA ServesNone ==
  ASSUME Typed, NEW a, Answered(a), slowOut' = slowOut
  PROVE  Serves(0, a)
<1>1. Len(slowOut) \in Nat  BY Elements DEF Typed, TypeOK
<1>2. \A i \in 1 .. Len(slowOut') : i + 0 \in 1 .. Len(slowOut) /\ slowOut'[i] = slowOut[i + 0]  BY <1>1, SMTT(30)
<1> QED  BY <1>1, <1>2, AnsweredIn DEF Serves

LEMMA ServesOne ==
  ASSUME Typed, NEW a, Answered(a), Shorter(slowOut', slowOut, Commands)
  PROVE  Serves(1, a)
<1>1. /\ Len(slowOut) \in Nat /\ Len(slowOut') \in Nat
      /\ \A i \in 1 .. Len(slowOut') : i + 1 \in 1 .. Len(slowOut) /\ slowOut'[i] = slowOut[i + 1]
  BY DEF Shorter
<1> QED  BY <1>1, AnsweredIn DEF Serves

(* An answer other than an announcement announces nothing. *)
LEMMA AnsweredCount ==
  ASSUME CountFacts, Typed, NEW a, Answered(a), a[1] # "Incoming", NEW l
  PROVE  Count(slowIn', IncomingTo(l)) = Count(slowIn, IncomingTo(l))
<1>1. slowIn \in Seq(Replies)  BY DEF Typed, TypeOK
<1>2. CASE slowIn' = slowIn  BY <1>2
<1>3. CASE slowIn' = Append(slowIn, a) /\ a \in Replies
  <2>1. <<"Incoming", l>>[1] = "Incoming"  BY SMTT(30)
  <2>2. a \notin IncomingTo(l)  BY <2>1 DEF IncomingTo
  <2>3. One(a \in IncomingTo(l)) = 0  BY <2>2 DEF One
  <2>4. /\ Count(slowIn', IncomingTo(l)) = Count(slowIn, IncomingTo(l)) + One(a \in IncomingTo(l))
        /\ Count(slowIn, IncomingTo(l)) \in Nat
    BY <1>1, <1>3 DEF CountFacts, SeqFact
  <2> QED  BY <2>3, <2>4, SMTT(30)
<1> QED  BY <1>2, <1>3 DEF Answered

LEMMA AnsweredFrom ==
  ASSUME Typed, NEW a, Answered(a), NEW K, a[1] \notin K
  PROVE  From(slowIn', slowIn, K)
<1>1. slowIn \in Seq(Replies)  BY DEF Typed, TypeOK
<1> QED  BY <1>1, FromSame, FromAppend DEF Answered

LEMMA DxsCompletesOK ==
  ASSUME CountFacts, IInv, NEW o \in Ops, DxsCompletes(o)
  PROVE  IInv'
<1>1. PICK s \in {"complete", "error"} :
         /\ dxs' = [dxs EXCEPT !.taken = @ \ {o}, !.completed = IF s = "complete" THEN @ \cup {o} ELSE @]
         /\ IF llcm THEN fastIn' = Append(fastIn, <<"OpAck", o, s>>) /\ UNCHANGED slowIn
            ELSE /\ slowIn' = IF link = "up" THEN Append(slowIn, <<"OpAck", o, s>>) ELSE slowIn
                 /\ UNCHANGED fastIn
  BY DEF DxsCompletes
<1> DEFINE a == <<"OpAck", o, s>>
<1>2. slowOut' = slowOut /\ fastOut' = fastOut /\ Others  BY DEF DxsCompletes
<1>3. a \in Replies /\ a[1] = "OpAck" /\ a[2] = o /\ a[3] = s
  <2>1. a \in Replies  BY RepliesMade
  <2> QED  BY <2>1, SMTT(30)
<1>4. fastIn \in Seq(Replies) /\ slowIn \in Seq(Replies)  BY DEF IInv, Typed, TypeOK
<1>5. Answered(a)  BY <1>1, <1>3 DEF Answered
<1>6. fastIn' = fastIn \/ fastIn' = Append(fastIn, a)  BY <1>1
<1> HIDE DEF a
<1>7. /\ dxs' \in DxsType /\ dxs'.sockets = dxs.sockets /\ dxs'.listening = dxs.listening
      /\ dxs'.waiting = dxs.waiting
      /\ dxs'.completed = IF s = "complete" THEN dxs.completed \cup {o} ELSE dxs.completed
  <2>1. dxs \in DxsType  BY DEF IInv, Typed
  <2> DEFINE T == dxs.taken \ {o}
             C == IF s = "complete" THEN dxs.completed \cup {o} ELSE dxs.completed
  <2>2. T \in SUBSET Ops  BY <2>1 DEF DxsType
  <2>3. C \in SUBSET Ops
    <3>1. dxs.completed \in SUBSET Ops  BY <2>1 DEF DxsType
    <3> QED  BY <3>1
  <2>4. dxs' = [dxs EXCEPT !.taken = T, !.completed = C]  BY <1>1
  <2> HIDE DEF T, C
  <2>5. /\ dxs'.sockets = dxs.sockets /\ dxs'.listening = dxs.listening
        /\ dxs'.waiting = dxs.waiting /\ dxs'.completed = C
    BY <2>1, <2>4 DEF DxsType
  <2>6. dxs' \in DxsType  BY <2>1, <2>2, <2>3, <2>4 DEF DxsType
  <2> QED  BY <2>5, <2>6 DEF C
<1>8. /\ fastIn' \in Seq(Replies)
      /\ \A i \in 1 .. Len(fastIn') : (i \in 1 .. Len(fastIn) /\ fastIn'[i] = fastIn[i]) \/ fastIn'[i] = a
  <2>1. CASE fastIn' = fastIn  BY <1>4, <2>1
  <2>2. CASE fastIn' = Append(fastIn, a)
    <3>1. Longer(fastIn', fastIn, a, Replies)  BY <1>3, <1>4, <2>2, AppendedAt
    <3> QED  BY <3>1 DEF Longer
  <2> QED  BY <1>6, <2>1, <2>2
<1>9. Typed
  BY DEF IInv
<1>10. /\ slowIn' \in Seq(Replies)
       /\ \A i \in 1 .. Len(slowIn') : (i \in 1 .. Len(slowIn) /\ slowIn'[i] = slowIn[i]) \/ slowIn'[i] = a
  BY <1>5, <1>9, AnsweredIn
<1>11. Typed'  BY ZenonT(40), <1>2, <1>7, <1>8, <1>9, <1>10, DxsFrame DEF Typed, TypeOK
<1>12. FastInv'
  <2>1. \A i \in 1 .. Len(fastIn') : fastIn'[i][1] \in {"OpAck", "Pong"}  BY <1>3, <1>8 DEF IInv, FastInv
  <2> QED  BY <1>2, <2>1, DxsFrame DEF IInv, FastInv
<1>13. PhaseInv'  BY <1>2, DxsFrame DEF IInv, PhaseInv
<1>14. /\ \A p \in dxs.completed : p \in dxs'.completed
       /\ a[3] = "complete" => a[2] \in dxs'.completed
  BY <1>3, <1>7
<1>15. RealAcks'
  <2>1. ASSUME NEW i \in 1 .. Len(slowIn'), slowIn'[i][1] = "OpAck", slowIn'[i][3] = "complete"
        PROVE  slowIn'[i][2] \in dxs'.completed
    BY <1>10, <1>14, <2>1 DEF IInv, RealAcks
  <2>2. ASSUME NEW i \in 1 .. Len(fastIn'), fastIn'[i][1] = "OpAck", fastIn'[i][3] = "complete"
        PROVE  fastIn'[i][2] \in dxs'.completed
    BY <1>8, <1>14, <2>2 DEF IInv, RealAcks
  <2> QED  BY <2>1, <2>2 DEF RealAcks
<1>16. ResultsAreReal'  BY <1>2, <1>14, DxsFrame DEF IInv, ResultsAreReal
<1>17. KeepsPending  BY <1>2, DxsFrame DEF KeepsPending
<1>18. KeepsSockets
  <2>1. a[1] \notin AckKinds  BY <1>3, SMTT(30) DEF AckKinds
  <2>2. From(slowIn', slowIn, AckKinds)  BY <1>5, <1>9, <2>1, AnsweredFrom
  <2> QED  BY <1>2, <1>7, <2>2, DxsFrame, FromSame DEF KeepsSockets
<1>19. ListensInv'
  <2>1. a[1] # "ListenAck" /\ a[1] # "Incoming" /\ \A l : <<"Incoming", l>>[1] = "Incoming"  BY <1>3, SMTT(30)
  <2>2. \A l : Count(slowIn', IncomingTo(l)) = Count(slowIn, IncomingTo(l))
    BY <1>5, <1>9, <2>1, AnsweredCount
  <2>3. \A l \in Listens : \A c, x \in Nat :
          Waits(l, dxs.waiting, slowIn, slowOut, c, x) => Waits(l, dxs'.waiting, slowIn', slowOut', c, x)
    BY <1>2, <1>7, <2>2 DEF Waits
  <2>4. ServesListens(a)  BY <1>7, <2>1, <2>3 DEF ServesListens, Acks
  <2>5. Serves(0, a) /\ 0 \in {0, 1}  BY <1>2, <1>5, <1>9, ServesNone
  <2> QED  BY <1>2, <2>4, <2>5, DxsFrame, ServedListens
<1> QED
  BY <1>11, <1>12, <1>13, <1>15, <1>16, <1>17, <1>18, <1>19, PendingKept, SocketsKept DEF IInv

LEMMA DxsIncomingOK ==
  ASSUME CountFacts, IInv, NEW k \in Listens, DxsIncoming(k)
  PROVE  IInv'
<1> DEFINE a == <<"Incoming", k>>
<1>1. /\ k \in dxs.listening /\ link = "up" /\ slowIn' = Append(slowIn, a)
      /\ dxs' = [dxs EXCEPT !.waiting[k] = @ + 1, !.connections = @ + 1]
      /\ slowOut' = slowOut /\ fastOut' = fastOut /\ fastIn' = fastIn /\ Others
  BY DEF DxsIncoming
<1>2. a \in Replies /\ a[1] = "Incoming" /\ a[2] = k /\ \A l : a = <<"Incoming", l>> <=> l = k  BY RepliesMade, SMTT(30)
<1>3. Answered(a)  BY <1>1, <1>2 DEF Answered
<1> HIDE DEF a
<1>4. Typed  BY DEF IInv
<1>5. /\ dxs' \in DxsType /\ dxs'.sockets = dxs.sockets /\ dxs'.listening = dxs.listening
      /\ dxs'.completed = dxs.completed /\ dxs'.waiting = [dxs.waiting EXCEPT ![k] = dxs.waiting[k] + 1]
  <2>1. dxs \in DxsType  BY DEF IInv, Typed
  <2> DEFINE w == [dxs.waiting EXCEPT ![k] = dxs.waiting[k] + 1]
             n == dxs.connections + 1
  <2>2. dxs.waiting \in [Listens -> Int] /\ dxs.connections \in Nat  BY <2>1 DEF DxsType
  <2>3. w \in [Listens -> Int] /\ n \in Nat  BY <2>2, SMTT(30)
  <2>4. dxs' = [dxs EXCEPT !.waiting = w, !.connections = n]  BY <1>1, <2>1 DEF DxsType
  <2> HIDE DEF w, n
  <2>5. /\ dxs'.sockets = dxs.sockets /\ dxs'.listening = dxs.listening
        /\ dxs'.completed = dxs.completed /\ dxs'.waiting = w
    BY <2>1, <2>4 DEF DxsType
  <2>6. dxs' \in DxsType  BY <2>1, <2>3, <2>4 DEF DxsType
  <2> QED  BY <2>5, <2>6 DEF w
<1>6. dxs.waiting \in [Listens -> Int]  BY <1>4 DEF Typed, DxsType
<1>7. slowIn' \in Seq(Replies)  BY <1>3, <1>4, AnsweredIn
<1>8. Typed'  BY <1>1, <1>4, <1>5, <1>7, DxsFrame DEF Typed, TypeOK
<1>9. FastInv'  BY <1>1, DxsFrame DEF IInv, FastInv
<1>10. PhaseInv'  BY <1>1, DxsFrame DEF IInv, PhaseInv
<1>11. a[1] \notin AckKinds /\ a[1] \notin {"OpAck"} /\ a[1] # "ListenAck"  BY <1>2, SMTT(30) DEF AckKinds
<1>12. KeepsResults
  <2>1. From(slowIn', slowIn, {"OpAck"})  BY <1>3, <1>4, <1>11, AnsweredFrom
  <2> QED  BY <1>1, <1>5, <2>1, DxsFrame, FromSame DEF KeepsResults
<1>13. KeepsPending  BY <1>1, DxsFrame DEF KeepsPending
<1>14. KeepsSockets
  <2>1. From(slowIn', slowIn, AckKinds)  BY <1>3, <1>4, <1>11, AnsweredFrom
  <2> QED  BY <1>1, <1>5, <2>1, DxsFrame, FromSame DEF KeepsSockets
<1>15. ListensInv'
  <2>1. ASSUME NEW l \in Listens, NEW c \in Nat, NEW x \in Nat, Waits(l, dxs.waiting, slowIn, slowOut, c, x)
        PROVE  Waits(l, dxs'.waiting, slowIn', slowOut', c, x)
    <3> DEFINE i == Count(slowIn, IncomingTo(l))
               p == Count(slowOut, AcceptsOf(l))
    <3>1. slowOut \in Seq(Commands) /\ slowIn \in Seq(Replies)  BY <1>4 DEF Typed, TypeOK
    <3>2. Count(slowIn', IncomingTo(l)) = i + One(a \in IncomingTo(l)) /\ i \in Nat
      BY <1>1, <1>2, <3>1 DEF CountFacts, SeqFact
    <3>3. p \in Nat  BY <3>1 DEF CountFacts, SeqFact
    <3>4. One(a \in IncomingTo(l)) = One(l = k)
      <4>1. a \in IncomingTo(l) <=> l = k  BY <1>2 DEF IncomingTo
      <4> QED  BY <4>1 DEF One
    <3>5. dxs'.waiting[l] = dxs.waiting[l] + One(l = k) /\ One(l = k) \in Nat
      <4>1. CASE l = k  BY <1>5, <1>6, <4>1, SMTT(30) DEF One
      <4>2. CASE l # k  BY <1>5, <1>6, <4>2, SMTT(30) DEF One
      <4> QED  BY <4>1, <4>2
    <3>6. dxs.waiting[l] = c + i + x + p  BY <2>1 DEF Waits
    <3> HIDE DEF i, p
    <3> DEFINE z == One(l = k)
    <3>7. z \in Nat  BY <3>5
    <3> HIDE DEF z
    <3>8. (c + i + x + p) + z = c + (i + z) + x + p  BY <3>2, <3>3, <3>7, SMTT(30)
    <3> QED  BY <1>1, <3>2, <3>4, <3>5, <3>6, <3>8 DEF Waits, z, i, p
  <2>2. \A l \in Listens : dxs'.waiting[l] # dxs.waiting[l] => l = k  BY <1>5, <1>6
  <2>3. ServesListens(a)  BY <1>1, <1>2, <1>5, <1>11, <2>1, <2>2 DEF ServesListens, Acks
  <2>4. Serves(0, a) /\ 0 \in {0, 1}  BY <1>1, <1>3, <1>4, ServesNone
  <2> QED  BY <1>1, <2>3, <2>4, DxsFrame, ServedListens
<1> QED
  BY <1>8, <1>9, <1>10, <1>12, <1>13, <1>14, <1>15, ResultsKept, PendingKept, SocketsKept DEF IInv

(* What DXS answers, when it does. *)
LEMMA AnswerOf ==
  ASSUME NEW m \in Commands, NEW a \in Answers(m), ~Silent(m)
  PROVE  /\ a \in Replies /\ a[1] \notin {"OpAck"} /\ a[1] # "Incoming"
         /\ \A l : Acks(a, l) => m = <<"Listen", l>>
         /\ \A h : a[1] \in AckKinds /\ a[2] = h => Opens(m, h)
         /\ m[1] = "Ping" => a[1] = "Pong"
<1>1. a \in Replies  BY AnswerKinds
<1>2. m[1] \in {"Init", "InitLlcm", "Listen", "Connect", "Accept", "Ping"}  BY CommandKinds, SMTT(30) DEF Silent
<1>3. CASE m[1] = "Init"
  <2>1. a[1] = "InitAck"  BY <1>3, AnswerKinds
  <2> QED  BY <1>1, <1>3, <2>1, SMTT(30) DEF Acks, AckKinds
<1>4. CASE m[1] = "InitLlcm"
  <2>1. a[1] = "InitLlcmAck"  BY <1>4, AnswerKinds
  <2> QED  BY <1>1, <1>4, <2>1, SMTT(30) DEF Acks, AckKinds
<1>5. CASE m[1] = "Listen"
  <2>1. a = <<"ListenAck", m[2], a[3]>>  BY <1>5, AnswerKinds
  <2>2. m = <<"Listen", m[2]>>  BY <1>5, CommandKinds, SMTT(30)
  <2>3. a[1] = "ListenAck" /\ a[2] = m[2]  BY <2>1, SMTT(30)
  <2> QED  BY <1>1, <1>5, <2>2, <2>3, SMTT(30) DEF Acks, AckKinds
<1>6. CASE m[1] \in {"Connect", "Accept"}
  <2>1. a = <<"ConnectAck", m[2], a[3]>> \/ a = <<"AcceptAck", m[2], a[3]>>  BY <1>6, AnswerKinds
  <2>2. a[1] \in {"ConnectAck", "AcceptAck"} /\ a[2] = m[2]  BY <2>1, SMTT(30)
  <2> QED  BY <1>1, <1>6, <2>2, SMTT(30) DEF Acks, AckKinds, Opens
<1>7. CASE m[1] = "Ping"
  <2>1. a = <<"Pong", m[2]>>  BY <1>7, AnswerKinds
  <2>2. a[1] = "Pong"  BY <2>1, SMTT(30)
  <2> QED  BY <1>1, <1>7, <2>2, SMTT(30) DEF Acks, AckKinds
<1> QED  BY <1>2, <1>3, <1>4, <1>5, <1>6, <1>7

LEMMA DxsTakesFastOK ==
  ASSUME IInv, DxsTakesFast
  PROVE  IInv'
<1> DEFINE m == Head(fastOut)
<1>1. /\ fastOut # <<>> /\ fastOut' = Tail(fastOut) /\ slowOut' = slowOut /\ slowIn' = slowIn /\ Others
  BY DEF DxsTakesFast
<1>2. PICK a \in Answers(m) : dxs' = Serve(m, a) /\ fastIn' = AppendAnswer(fastIn, m, a)
  BY DEF DxsTakesFast
<1>3. Typed /\ FastInv /\ PhaseInv  BY DEF IInv
<1>4. fastOut \in Seq(Commands) /\ fastIn \in Seq(Replies) /\ dxs \in DxsType  BY <1>3 DEF Typed, TypeOK
<1>5. Shorter(fastOut', fastOut, Commands)  BY <1>1, <1>4, DroppedAt
<1>6. /\ m \in Commands /\ fastOut' \in Seq(Commands) /\ 1 \in 1 .. Len(fastOut) /\ m = fastOut[1]
      /\ \A i \in 1 .. Len(fastOut') : i + 1 \in 1 .. Len(fastOut) /\ fastOut'[i] = fastOut[i + 1]
  BY <1>5 DEF Shorter
<1> HIDE DEF m
<1>7. m[1] \in FastCommands  BY <1>3, <1>6 DEF FastInv
<1>8. m[1] \notin {"Connect", "Accept", "Listen", "CloseListen"}  BY <1>7, SMTT(30) DEF FastCommands
<1>9. /\ dxs' \in DxsType /\ dxs'.sockets = dxs.sockets /\ dxs'.waiting = dxs.waiting
      /\ dxs'.listening = dxs.listening /\ dxs'.completed = dxs.completed
  <2>1. /\ dxs' \in DxsType
        /\ dxs'.sockets = IF m[1] \in {"Connect", "Accept"} THEN [dxs.sockets EXCEPT ![m[2]] = a[3]]
                          ELSE dxs.sockets
        /\ dxs'.waiting = IF m[1] = "Accept" THEN [dxs.waiting EXCEPT ![m[3]] = @ - 1] ELSE dxs.waiting
        /\ dxs'.listening = IF m[1] = "Listen" /\ a[3] = "ready" THEN dxs.listening \cup {m[2]}
                            ELSE IF m[1] = "CloseListen" THEN dxs.listening \ {m[2]} ELSE dxs.listening
        /\ dxs'.completed = dxs.completed
    BY <1>2, <1>4, <1>6, Served
  <2> QED  BY <1>8, <2>1
<1>10. fastIn' = fastIn \/ (fastIn' = Append(fastIn, a) /\ a \in Replies /\ a[1] = "Pong")
  <2>1. CASE Silent(m)  BY <1>2, <2>1 DEF AppendAnswer
  <2>2. CASE ~Silent(m)
    <3>1. m[1] = "Ping"  BY <1>7, <2>2, SMTT(30) DEF Silent, FastCommands
    <3> QED  BY <1>2, <1>6, <2>2, <3>1, AnswerOf DEF AppendAnswer
  <2> QED  BY <2>1, <2>2
<1>11. /\ fastIn' \in Seq(Replies) /\ From(fastIn', fastIn, {"OpAck"})
       /\ \A i \in 1 .. Len(fastIn') : fastIn'[i][1] \in {"OpAck", "Pong"}
  <2>1. \A i \in 1 .. Len(fastIn) : fastIn[i][1] \in {"OpAck", "Pong"}  BY <1>3 DEF FastInv
  <2>2. CASE fastIn' = fastIn  BY <1>4, <2>1, <2>2, FromSame
  <2>3. CASE fastIn' = Append(fastIn, a) /\ a \in Replies /\ a[1] = "Pong"
    <3>1. Longer(fastIn', fastIn, a, Replies)  BY <1>4, <2>3, AppendedAt
    <3>2. "Pong" \notin {"OpAck"}  BY SMTT(30)
    <3>3. From(fastIn', fastIn, {"OpAck"})  BY <1>4, <2>3, <3>2, FromAppend
    <3> QED  BY <2>1, <2>3, <3>1, <3>3 DEF Longer
  <2> QED  BY <1>10, <2>2, <2>3
<1>12. Typed'  BY ZenonT(40), <1>1, <1>3, <1>6, <1>9, <1>11, DxsFrame DEF Typed, TypeOK
<1>13. FastInv'
  <2>1. ASSUME NEW i \in 1 .. Len(fastOut')  PROVE fastOut'[i][1] \in FastCommands
    <3>1. i + 1 \in 1 .. Len(fastOut) /\ fastOut'[i] = fastOut[i + 1]  BY <1>6
    <3>2. fastOut[i + 1][1] \in FastCommands  BY <1>3, <3>1 DEF FastInv
    <3> QED  BY <3>1, <3>2
  <2>2. llcm'  BY <1>1, <1>3, DxsFrame DEF FastInv
  <2> QED  BY <1>11, <2>1, <2>2 DEF FastInv
<1>14. PhaseInv'
  <2>1. phase \in {"init", "ready", "error", "shutdown"}  BY <1>3 DEF Typed, TypeOK
  <2>2. phase \notin {"init", "error"}  BY <1>1, <1>3 DEF PhaseInv
  <2>3. phase \in {"ready", "shutdown"}  BY <2>1, <2>2, SMTT(30)
  <2> QED  BY <1>1, <1>3, <2>3, DxsFrame, PhaseKept
<1>15. KeepsResults  BY <1>1, <1>9, <1>11, DxsFrame, FromSame DEF KeepsResults
<1>16. KeepsPending  BY <1>1, DxsFrame DEF KeepsPending
<1>17. KeepsSockets
  <2>1. From(fastOut', fastOut, UseKinds)  BY <1>1, <1>4, FromTail
  <2> QED  BY <1>1, <1>9, <2>1, DxsFrame, FromSame DEF KeepsSockets
<1>18. KeepsListens  BY <1>1, <1>9, DxsFrame, PrefixSame DEF KeepsListens
<1> QED  BY <1>12, <1>13, <1>14, <1>15, <1>16, <1>17, <1>18, AllKept

LEMMA TakenListens ==
  ASSUME CountFacts, IInv, NEW m \in Commands, NEW a \in Answers(m), NEW b, slowOut # <<>>, m = Head(slowOut),
         slowOut' = Tail(slowOut), Shorter(slowOut', slowOut, Commands), Answered(b), Others, dxs' = Serve(m, a),
         (b = a /\ ~Silent(m)) \/ (b = Idle /\ (Silent(m) \/ link # "up")),
         link = "up" /\ ~Silent(m) => slowIn' = Append(slowIn, a)
  PROVE  ListensInv'
<1>1. Typed /\ ListenOnce  BY DEF IInv, ListensInv
<1>2. dxs \in DxsType /\ slowOut \in Seq(Commands) /\ slowIn \in Seq(Replies)  BY <1>1 DEF Typed, TypeOK
<1>3. /\ dxs' \in DxsType
      /\ dxs'.waiting = IF m[1] = "Accept" THEN [dxs.waiting EXCEPT ![m[3]] = @ - 1] ELSE dxs.waiting
      /\ dxs'.listening = IF m[1] = "Listen" /\ a[3] = "ready" THEN dxs.listening \cup {m[2]}
                          ELSE IF m[1] = "CloseListen" THEN dxs.listening \ {m[2]} ELSE dxs.listening
  BY <1>2, Served
<1>4. /\ 1 \in 1 .. Len(slowOut) /\ m = slowOut[1] /\ Len(slowOut') \in Nat
      /\ \A i \in 1 .. Len(slowOut') : i + 1 \in 1 .. Len(slowOut) /\ slowOut'[i] = slowOut[i + 1]
  BY DEF Shorter
<1>5. b[1] # "Incoming" /\ \A l : Acks(b, l) => m = <<"Listen", l>>
  <2>1. CASE b = a /\ ~Silent(m)  BY <2>1, AnswerOf
  <2>2. CASE b = Idle  BY <2>2, SMTT(30) DEF Idle, Acks
  <2> QED  BY <2>1, <2>2
<1>6. ASSUME NEW l, m = <<"Listen", l>>, l \in Listens
      PROVE  \A i \in 1 .. Len(slowOut') : slowOut'[i] # <<"Listen", l>>
  <2>1. \A j \in 1 .. Len(slowOut) : slowOut[j] = <<"Listen", l>> => j = 1
    BY <1>1, <1>4, <1>6 DEF ListenOnce
  <2>2. ASSUME NEW i \in 1 .. Len(slowOut')  PROVE slowOut'[i] # <<"Listen", l>>
    <3>1. i + 1 \in 1 .. Len(slowOut) /\ slowOut'[i] = slowOut[i + 1]  BY <1>4
    <3>2. i + 1 # 1  BY <1>4, SMTT(30)
    <3>3. slowOut[i + 1] # <<"Listen", l>>  BY <2>1, <3>1, <3>2
    <3> QED  BY <3>1, <3>3
  <2> QED  BY <2>2
<1>7. ASSUME NEW l \in Listens, l \in dxs'.listening, l \notin dxs.listening
      PROVE  /\ m = <<"Listen", l>>
             /\ link = "up" => Len(slowIn') \in 1 .. Len(slowIn') /\ slowIn'[Len(slowIn')] = <<"ListenAck", l, "ready">>
  <2>1. m[1] = "Listen" /\ a[3] = "ready" /\ m[2] = l  BY <1>3, <1>7
  <2>2. m = <<"Listen", l>>  BY <2>1, CommandKinds, SMTT(30)
  <2>3. a = <<"ListenAck", l, "ready">> /\ a \in Replies  BY <2>1, AnswerKinds
  <2>4. ~Silent(m)  BY <2>1, SMTT(30) DEF Silent
  <2>5. ASSUME link = "up"  PROVE Longer(slowIn', slowIn, a, Replies)
    BY <1>2, <2>3, <2>4, <2>5, AppendedAt
  <2>6. link = "up" => Len(slowIn') \in 1 .. Len(slowIn') /\ slowIn'[Len(slowIn')] = a  BY <2>5 DEF Longer
  <2> QED  BY <2>2, <2>3, <2>6
<1>8. ASSUME NEW l \in Listens
      PROVE  dxs'.waiting[l] = dxs.waiting[l] - One(m \in AcceptsOf(l)) /\ dxs.waiting[l] \in Int
  <2>1. dxs.waiting \in [Listens -> Int]  BY <1>2 DEF DxsType
  <2>2. m \in AcceptsOf(l) <=> m[1] = "Accept" /\ m[3] = l
    <3>1. m[1] # "Popped"  BY CommandKinds, SMTT(30)
    <3> QED  BY <3>1 DEF AcceptsOf, Accepts
  <2>3. m[1] = "Accept" => m[3] \in Listens  BY CommandKinds
  <2>4. CASE m[1] = "Accept" /\ m[3] = l
    <3>1. One(m \in AcceptsOf(l)) = 1  BY <2>2, <2>4 DEF One
    <3>2. dxs'.waiting = [dxs.waiting EXCEPT ![m[3]] = dxs.waiting[m[3]] - 1]  BY <1>3, <2>4
    <3>3. dxs'.waiting[l] = dxs.waiting[l] - 1 /\ dxs.waiting[l] \in Int  BY <2>1, <2>4, <3>2
    <3> QED  BY <3>1, <3>3
  <2>5. CASE ~(m[1] = "Accept" /\ m[3] = l)
    <3>1. One(m \in AcceptsOf(l)) = 0  BY <2>2, <2>5 DEF One
    <3>2. dxs'.waiting[l] = dxs.waiting[l] /\ dxs.waiting[l] \in Int  BY <1>3, <2>1, <2>3, <2>5
    <3>3. dxs.waiting[l] - 0 = dxs.waiting[l]  BY <3>2, SMTT(30)
    <3> QED  BY <3>1, <3>2, <3>3
  <2> QED  BY <2>4, <2>5
<1>9. ASSUME NEW l \in Listens, NEW c \in Nat, NEW x \in Nat, Waits(l, dxs.waiting, slowIn, slowOut, c, x)
      PROVE  Waits(l, dxs'.waiting, slowIn', slowOut', c, x)
  <2> DEFINE i == Count(slowIn, IncomingTo(l))
             p == Count(slowOut, AcceptsOf(l))
             z == One(m \in AcceptsOf(l))
  <2>1. Count(slowIn', IncomingTo(l)) = i  BY <1>1, <1>5, AnsweredCount
  <2>2. Count(slowOut', AcceptsOf(l)) = p - z /\ p \in Nat  BY <1>2 DEF CountFacts, SeqFact
  <2>3. i \in Nat  BY <1>2 DEF CountFacts, SeqFact
  <2>4. z \in Nat  BY SMTT(30) DEF One
  <2>5. dxs'.waiting[l] = dxs.waiting[l] - z  BY <1>8
  <2>6. dxs.waiting[l] = c + i + x + p  BY <1>9 DEF Waits
  <2> HIDE DEF i, p, z
  <2>7. (c + i + x + p) - z = c + i + x + (p - z)  BY <2>2, <2>3, <2>4, SMTT(30)
  <2> QED  BY <2>1, <2>2, <2>5, <2>6, <2>7 DEF Waits, i, p
<1>10. ASSUME NEW l \in Listens, dxs'.waiting[l] # dxs.waiting[l]  PROVE Accepts(slowOut[1], l)
  <2>1. CASE m \in AcceptsOf(l)  BY <1>4, <2>1 DEF AcceptsOf
  <2>2. CASE m \notin AcceptsOf(l)
    <3>1. One(m \in AcceptsOf(l)) = 0  BY <2>2 DEF One
    <3>2. dxs'.waiting[l] = dxs.waiting[l] - 0 /\ dxs.waiting[l] \in Int  BY <1>8, <3>1
    <3> QED  BY <1>10, <3>2, SMTT(30)
  <2> QED  BY <2>1, <2>2
<1>11. ServesListens(b)
  <2>1. ASSUME NEW l \in Listens, Acks(b, l)
        PROVE  /\ \E k \in 1 .. Len(slowOut) : slowOut[k] = <<"Listen", l>>
               /\ \A i \in 1 .. Len(slowOut') : slowOut'[i] # <<"Listen", l>>
    BY <1>4, <1>5, <1>6, <2>1
  <2>2. \A l \in Listens : b # <<"Incoming", l>>
    <3>1. \A l : <<"Incoming", l>>[1] = "Incoming"  BY SMTT(30)
    <3> QED  BY <1>5, <3>1
  <2>3. ASSUME NEW l \in Listens, l \in dxs'.listening
        PROVE  l \in dxs.listening \/
                 /\ \E k \in 1 .. Len(slowOut) : slowOut[k] = <<"Listen", l>>
                 /\ link = "up" => Len(slowIn') \in 1 .. Len(slowIn') /\ slowIn'[Len(slowIn')] = <<"ListenAck", l, "ready">>
    BY <1>4, <1>7, <2>3
  <2>4. \A l \in Listens : dxs'.waiting[l] # dxs.waiting[l] =>
          l \in dxs.listening \/ \E k \in 1 .. Len(slowOut) : Accepts(slowOut[k], l)
    BY <1>4, <1>10
  <2> QED  BY <1>9, <2>1, <2>2, <2>3, <2>4 DEF ServesListens
<1>12. Serves(1, b) /\ 1 \in {0, 1}  BY <1>1, ServesOne
<1> QED  BY <1>11, <1>12, DxsFrame, ServedListens

LEMMA DxsTakesSlowOK ==
  ASSUME CountFacts, IInv, DxsTakesSlow
  PROVE  IInv'
<1> DEFINE m == Head(slowOut)
<1>1. /\ slowOut # <<>> /\ slowOut' = Tail(slowOut) /\ fastOut' = fastOut /\ fastIn' = fastIn /\ Others
  BY DEF DxsTakesSlow
<1>2. PICK a \in Answers(m) : /\ dxs' = Serve(m, a)
                              /\ slowIn' = IF link = "up" THEN AppendAnswer(slowIn, m, a) ELSE slowIn
  BY DEF DxsTakesSlow
<1>3. Typed /\ FastInv /\ PhaseInv  BY DEF IInv
<1>4. slowOut \in Seq(Commands) /\ slowIn \in Seq(Replies) /\ dxs \in DxsType  BY <1>3 DEF Typed, TypeOK
<1>5. Shorter(slowOut', slowOut, Commands)  BY <1>1, <1>4, DroppedAt
<1>6. /\ m \in Commands /\ slowOut' \in Seq(Commands) /\ 1 \in 1 .. Len(slowOut) /\ m = slowOut[1]
      /\ \A i \in 1 .. Len(slowOut') : i + 1 \in 1 .. Len(slowOut) /\ slowOut'[i] = slowOut[i + 1]
  BY <1>5 DEF Shorter
<1>7. m = Head(slowOut)  BY SMTT(30)
<1> HIDE DEF m
<1>8. /\ dxs' \in DxsType /\ dxs'.completed = dxs.completed
      /\ dxs'.sockets = IF m[1] \in {"Connect", "Accept"} THEN [dxs.sockets EXCEPT ![m[2]] = a[3]]
                        ELSE dxs.sockets
  BY <1>2, <1>4, <1>6, Served
<1>9. PICK b : /\ Answered(b) /\ ((b = a /\ ~Silent(m)) \/ (b = Idle /\ (Silent(m) \/ link # "up")))
               /\ link = "up" /\ ~Silent(m) => slowIn' = Append(slowIn, a)
  <2> DEFINE Fits(x) == /\ Answered(x) /\ ((x = a /\ ~Silent(m)) \/ (x = Idle /\ (Silent(m) \/ link # "up")))
                        /\ link = "up" /\ ~Silent(m) => slowIn' = Append(slowIn, a)
  <2>1. ASSUME link = "up", ~Silent(m)  PROVE Fits(a)
    <3>1. slowIn' = Append(slowIn, a) /\ a \in Replies  BY <1>2, <1>6, <2>1, AnswerOf DEF AppendAnswer
    <3>2. Answered(a)  BY <3>1 DEF Answered
    <3> QED  BY <2>1, <3>1, <3>2
  <2>2. ASSUME ~(link = "up" /\ ~Silent(m))  PROVE Fits(Idle)
    <3>1. slowIn' = slowIn  BY <1>2, <2>2 DEF AppendAnswer
    <3>2. Answered(Idle)  BY <3>1 DEF Answered
    <3> QED  BY <2>2, <3>2
  <2>3. \E x : Fits(x)
    <3> HIDE DEF Fits
    <3> QED  BY <2>1, <2>2
  <2> QED  BY <2>3
<1>10. /\ b[1] \notin {"OpAck"}
       /\ \A h : b[1] \in AckKinds /\ b[2] = h => b = a /\ Opens(m, h)
  <2>1. CASE b = a /\ ~Silent(m)  BY <1>6, <2>1, AnswerOf
  <2>2. CASE b = Idle  BY <2>2, SMTT(30) DEF Idle, AckKinds
  <2> QED  BY <1>9, <2>1, <2>2
<1>11. Typed'
  <2>1. slowIn' \in Seq(Replies)  BY <1>3, <1>9, AnsweredIn
  <2>2. slowOut' \in Seq(Commands) /\ fastOut' = fastOut /\ fastIn' = fastIn /\ dxs' \in DxsType
    BY <1>1, <1>6, <1>8
  <2>3. Others  BY <1>1
  <2> QED  BY <1>3, <2>1, <2>2, <2>3, DxsFrame, ZenonT(40) DEF Typed, TypeOK
<1>12. FastInv'  BY <1>1, <1>3, DxsFrame DEF FastInv
<1>13. PhaseInv'
  <2>1. ASSUME \A j \in 1 .. Len(slowOut) : slowOut[j][1] \in {"Init", "InitLlcm"}, NEW i \in 1 .. Len(slowOut')
        PROVE  slowOut'[i][1] \in {"Init", "InitLlcm"}
    <3>1. i + 1 \in 1 .. Len(slowOut) /\ slowOut'[i] = slowOut[i + 1]  BY <1>6
    <3>2. slowOut[i + 1][1] \in {"Init", "InitLlcm"}  BY <2>1, <3>1
    <3> QED  BY <3>1, <3>2
  <2> QED  BY <1>1, <1>3, <2>1, DxsFrame DEF PhaseInv
<1>14. KeepsResults
  <2>1. From(slowIn', slowIn, {"OpAck"})  BY <1>3, <1>9, <1>10, AnsweredFrom
  <2> QED  BY <1>1, <1>8, <2>1, DxsFrame, FromSame DEF KeepsResults
<1>15. KeepsPending  BY <1>1, DxsFrame DEF KeepsPending
<1>16. SocketsInv'
  <2>1. dxs.sockets \in [Socks -> {"none", "connected", "error"}]  BY <1>4 DEF DxsType
  <2>2. ASSUME NEW h \in Socks, ~Opens(m, h)  PROVE dxs'.sockets[h] = dxs.sockets[h]
    BY <1>8, <2>1, <2>2 DEF Opens
  <2>3. ASSUME NEW h \in Socks, Opens(m, h)  PROVE dxs'.sockets[h] = a[3] /\ a[3] # "none"
    <3>1. m[1] \in {"Connect", "Accept"} /\ m[2] = h  BY <2>3 DEF Opens
    <3>2. a[3] \in {"connected", "error"}  BY <1>6, <3>1, AnswerKinds
    <3>3. dxs'.sockets[h] = a[3]  BY <1>8, <2>1, <3>1
    <3> QED  BY <3>2, <3>3, SMTT(30)
  <2>4. ServesSockets(m, b)  BY <1>10, <2>2, <2>3 DEF ServesSockets
  <2>5. Serves(1, b)  BY <1>3, <1>5, <1>9, ServesOne
  <2> QED  BY <1>1, <1>5, <1>6, <2>4, <2>5, DxsFrame, ServedSockets
<1>17. ListensInv'  BY <1>1, <1>2, <1>5, <1>6, <1>7, <1>9, TakenListens
<1> QED
  BY <1>11, <1>12, <1>13, <1>14, <1>15, <1>16, <1>17, ResultsKept, PendingKept DEF IInv

-----------------------------------------------------------------------------
(* The invariant *)

(* A message that is about no object. *)
Inert(m) == (\A h : ~Opens(m, h) /\ ~Uses(m, h)) /\ (\A l : ~Accepts(m, l) /\ m # <<"Listen", l>>)

LEMMA InitOK ==
  ASSUME Init
  PROVE  IInv
<1>1. /\ llcm \in BOOLEAN /\ phase = "init" /\ failed = FALSE /\ initialized = FALSE /\ serverVersion = 0
      /\ llcmInfo = FALSE /\ listens = [l \in Listens |-> NoListen] /\ socks = [h \in Socks |-> NoSock]
      /\ ops = [o \in Ops |-> "none"] /\ pings = {} /\ pingResults = {}
      /\ nextListen = 1 /\ nextSock = 1 /\ nextOp = 1 /\ pingSeq = 0
      /\ call = [t \in Threads |-> Idle] /\ link = "up" /\ slowIn = <<>> /\ fastOut = <<>> /\ fastIn = <<>>
  BY DEF Init
<1>2. slowOut = IF llcm THEN <<<<"Init">>, <<"InitLlcm">>>> ELSE <<<<"Init">>>>  BY DEF Init
<1>3. dxs = [listening |-> {}, sockets |-> [h \in Socks |-> "none"], taken |-> {}, completed |-> {},
             waiting |-> [l \in Listens |-> 0], connections |-> 0]
  BY DEF Init
<1>4. slowOut \in Seq(Commands) /\ \A i \in 1 .. Len(slowOut) : slowOut[i][1] \in {"Init", "InitLlcm"}
  <2>1. <<"Init">> \in Commands /\ <<"InitLlcm">> \in Commands  BY CommandsMade
  <2>2. CASE llcm
    <3>1. slowOut = <<<<"Init">>, <<"InitLlcm">>>>  BY <1>2, <2>2
    <3> QED  BY <2>1, <3>1, SMTT(30)
  <2>3. CASE ~llcm
    <3>1. slowOut = <<<<"Init">>>>  BY <1>2, <2>3
    <3> QED  BY <2>1, <3>1, SMTT(30)
  <2> QED  BY <2>2, <2>3
<1>5. /\ slowIn \in Seq(Replies) /\ fastIn \in Seq(Replies) /\ fastOut \in Seq(Commands)
      /\ \A i \in 1 .. Len(slowIn) : FALSE
      /\ \A i \in 1 .. Len(fastIn) : FALSE
      /\ \A i \in 1 .. Len(fastOut) : FALSE
  BY <1>1, SMTT(30)
<1>6. \A t \in Threads : call[t] = Idle  BY <1>1
<1>7. \A l \in Listens : listens[l].status = "none" /\ listens[l].connections = 0  BY <1>1, SMTT(30) DEF NoListen
<1>8. \A h \in Socks : socks[h].status = "none"  BY <1>1, SMTT(30) DEF NoSock
<1>9. /\ dxs.listening = {} /\ dxs.sockets = [h \in Socks |-> "none"] /\ dxs.taken = {} /\ dxs.completed = {}
      /\ dxs.waiting = [l \in Listens |-> 0] /\ dxs.connections = 0
  BY <1>3, SMTT(30)
<1>10. dxs \in DxsType
  <2>1. [h \in Socks |-> "none"] \in [Socks -> {"none", "connected", "error"}]  BY SMTT(30)
  <2>2. [l \in Listens |-> 0] \in [Listens -> Int]  BY SMTT(30)
  <2>3. {} \in SUBSET Listens /\ {} \in SUBSET Ops /\ 0 \in Nat  BY SMTT(30)
  <2> QED  BY <1>3, <2>1, <2>2, <2>3 DEF DxsType
<1>11. TypeOK
  <2>1. listens \in [Listens -> [status : {"none", "pending", "ready", "error"}, connections : Nat]]
    BY <1>1, SMTT(30) DEF NoListen
  <2>2. socks \in [Socks -> [dir : {"none", "send", "recv"}, status : {"none", "pending", "connected", "error"}]]
    BY <1>1, SMTT(30) DEF NoSock
  <2>3. ops \in [Ops -> {"none", "pending", "complete", "error"}]  BY <1>1, SMTT(30)
  <2>4. /\ nextListen \in 1 .. MaxListens + 1 /\ nextSock \in 1 .. MaxSocks + 1
        /\ nextOp \in 1 .. MaxOps + 1 /\ pingSeq \in 0 .. MaxPings
    BY <1>1, Bounds, SMTT(30)
  <2>5. call \in [Threads -> Commands \cup {Idle} \cup {Popped(l) : l \in Listens}
                              \cup {<<"Await", k>> : k \in Pings}]
    BY <1>1
  <2> QED  BY <1>1, <1>4, <1>5, <2>1, <2>2, <2>3, <2>4, <2>5 DEF TypeOK
<1>12. ASSUME NEW m, m[1] \in {"idle", "Init", "InitLlcm"}  PROVE Inert(m)
  <2>1. m[1] \notin {"Listen", "Connect", "Popped", "Accept", "Send", "Recv"}  BY <1>12, SMTT(30)
  <2>2. \A l : <<"Listen", l>>[1] = "Listen"  BY SMTT(30)
  <2> QED  BY <2>1, <2>2 DEF Inert, Opens, Uses, Accepts
<1>13. Inert(Idle)
  <2>1. Idle[1] = "idle"  BY SMTT(30) DEF Idle
  <2> QED  BY <1>12, <2>1, SMTT(20)
<1>14. ASSUME NEW i \in 1 .. Len(slowOut)  PROVE Inert(slowOut[i])
  <2>1. slowOut[i][1] \in {"idle", "Init", "InitLlcm"}  BY <1>4, SMTT(30)
  <2> QED  BY <1>12, <2>1, SMTT(20)
<1>15. FastInv  BY <1>1, <1>5 DEF FastInv
<1>16. PhaseInv  BY <1>1, <1>4, <1>6, SMTT(30) DEF PhaseInv
<1>17. RealAcks  BY <1>5 DEF RealAcks
<1>18. ResultsAreReal  BY <1>1, SMTT(30) DEF ResultsAreReal
<1>19. NothingPendingAfterFailure  BY <1>1, SMTT(30) DEF NothingPendingAfterFailure
<1>20. SocketsInv
  <2>1. \A h \in Socks : dxs.sockets[h] = "none"  BY <1>9
  <2>2. OpenInv  BY <1>5, <1>6, <1>8, <1>13, <1>14, <2>1 DEF Inert, OpenInv
  <2>3. \A h \in Socks : socks[h].status # "connected"  BY <1>8, SMTT(30)
  <2>4. SockInv  BY <1>5, <1>6, <1>13, <1>14, <2>3 DEF Inert, SockInv
  <2>5. OrderInv  BY <1>6, <1>13, <1>14, <2>3 DEF Inert, OrderInv
  <2> QED  BY <2>2, <2>4, <2>5 DEF SocketsInv
<1>21. ListensInv
  <2>1. \A l \in Listens : l \notin dxs.listening /\ dxs.waiting[l] = 0  BY <1>9
  <2>2. \A l \in Listens : listens[l].status \notin {"pending", "ready"}  BY <1>7, SMTT(30)
  <2>3. ListenBound  BY <1>5, <1>6, <1>7, <1>13, <1>14, <2>1 DEF Inert, ListenBound
  <2>4. ListenOnce  BY <1>5, <1>6, <1>13, <1>14 DEF Inert, ListenOnce
  <2>5. PendingInv  BY <2>2 DEF PendingInv
  <2>6. CountInv  BY <2>2 DEF CountInv
  <2> QED  BY <2>3, <2>4, <2>5, <2>6 DEF ListensInv
<1> QED
  BY <1>10, <1>11, <1>15, <1>16, <1>17, <1>18, <1>19, <1>20, <1>21 DEF IInv, Typed

LEMMA StutterOK ==
  ASSUME IInv, UNCHANGED vars
  PROVE  IInv'
<1>1. /\ llcm' = llcm /\ phase' = phase /\ failed' = failed /\ initialized' = initialized
      /\ serverVersion' = serverVersion /\ llcmInfo' = llcmInfo /\ listens' = listens /\ socks' = socks
      /\ ops' = ops /\ pings' = pings /\ pingResults' = pingResults /\ nextListen' = nextListen
      /\ nextSock' = nextSock /\ nextOp' = nextOp /\ pingSeq' = pingSeq /\ call' = call /\ link' = link
      /\ slowOut' = slowOut /\ slowIn' = slowIn /\ fastOut' = fastOut /\ fastIn' = fastIn /\ dxs' = dxs
  BY DEF vars, init, tables, pinging, numbers, channels
<1>2. Typed'  BY ZenonT(40), <1>1 DEF IInv, Typed, TypeOK
<1>3. FastInv'  BY <1>1 DEF IInv, FastInv
<1>4. PhaseInv'  BY <1>1 DEF IInv, PhaseInv
<1>5. KeepsResults  BY <1>1, FromSame DEF KeepsResults
<1>6. KeepsPending  BY <1>1 DEF KeepsPending
<1>7. KeepsSockets  BY <1>1, FromSame DEF KeepsSockets
<1>8. KeepsListens  BY <1>1, PrefixSame DEF KeepsListens
<1> QED  BY <1>2, <1>3, <1>4, <1>5, <1>6, <1>7, <1>8, AllKept

(* Every step. *)
LEMMA NextOK ==
  ASSUME CountFacts, IInv, [Next]_vars
  PROVE  IInv'
<1>1. CASE LocalStep \/ \E t \in Threads : CallStep(t)  BY <1>1, ClientOK
<1>2. CASE Receive  BY <1>2, ReceiveOK
<1>3. CASE DxsTakesSlow  BY <1>3, DxsTakesSlowOK
<1>4. CASE DxsTakesFast  BY <1>4, DxsTakesFastOK
<1>5. CASE \E o \in Ops : DxsCompletes(o)  BY <1>5, DxsCompletesOK
<1>6. CASE \E l \in Listens : DxsIncoming(l)  BY <1>6, DxsIncomingOK
<1>7. CASE UNCHANGED vars  BY <1>7, StutterOK
<1> QED  BY <1>1, <1>2, <1>3, <1>4, <1>5, <1>6, <1>7 DEF Next, DxsStep, LocalStep, CallStep

-----------------------------------------------------------------------------
(* What follows from it *)

(* DXS finds the socket of a command at the head of a channel open. *)
LEMMA RequestsFromInv ==
  ASSUME IInv
  PROVE  RequestsAfterOpen
<1>1. Typed /\ FastInv /\ SockInv /\ OrderInv  BY DEF IInv, SocketsInv
<1> SUFFICES ASSUME NEW chan \in {slowOut, fastOut}, chan # <<>>, Head(chan)[1] \in {"Send", "Recv"}
             PROVE  /\ serverVersion >= kAcceptAckVersion => dxs.sockets[Head(chan)[2]] = "connected"
                    /\ ~llcm => dxs.sockets[Head(chan)[2]] # "none"
  BY DEF RequestsAfterOpen
<1> DEFINE h == Head(chan)[2]
<1>2. chan \in Seq(Commands)  BY <1>1 DEF Typed, TypeOK
<1>3. 1 \in 1 .. Len(chan) /\ Head(chan) = chan[1] /\ Head(chan) \in Commands  BY <1>2, SMTT(30)
<1>4. h \in Socks /\ Uses(chan[1], h)
  <2>1. h \in Socks  BY <1>3, CommandKinds
  <2> QED  BY <1>3, <2>1 DEF Uses
<1> HIDE DEF h
<1>5. ASSUME serverVersion >= kAcceptAckVersion  PROVE dxs.sockets[h] = "connected"
  <2>1. CASE chan = slowOut  BY <1>1, <1>3, <1>4, <1>5, <2>1 DEF SockInv
  <2>2. CASE chan = fastOut  BY <1>1, <1>3, <1>4, <1>5, <2>2 DEF SockInv
  <2> QED  BY <2>1, <2>2
<1>6. ASSUME ~llcm  PROVE dxs.sockets[h] # "none"
  <2>1. chan = slowOut  BY <1>1, <1>6 DEF FastInv
  <2>2. KnownBefore(h, 1 - 1)  BY <1>1, <1>3, <1>4, <1>6, <2>1 DEF OrderInv
  <2>3. \A j \in 1 .. 1 - 1 : FALSE  BY SMTT(30)
  <2> QED  BY <2>2, <2>3 DEF KnownBefore
<1> QED  BY <1>5, <1>6 DEF h

LEMMA ConnectionsFromInv ==
  ASSUME IInv
  PROVE  ConnectionsConserved
<1>1. Typed /\ CountInv  BY DEF IInv, ListensInv
<1>2. slowOut \in Seq(Commands) /\ slowIn \in Seq(Replies)  BY <1>1 DEF Typed, TypeOK
<1> SUFFICES ASSUME NEW l \in Listens, link = "up", listens[l].status = "ready"
             PROVE  dxs.waiting[l] = listens[l].connections
                                      + Cardinality({i \in DOMAIN slowIn : slowIn[i] = <<"Incoming", l>>})
                                      + Cardinality({t \in Threads : call[t][1] \in {"Popped", "Accept"} /\ call[t][3] = l})
                                      + Cardinality({i \in DOMAIN slowOut : slowOut[i][1] = "Accept" /\ slowOut[i][3] = l})
  BY DEF ConnectionsConserved
<1>3. Count(slowIn, IncomingTo(l)) = Cardinality({i \in DOMAIN slowIn : slowIn[i] = <<"Incoming", l>>})
  <2>1. DOMAIN slowIn = 1 .. Len(slowIn)  BY <1>2, SMTT(30)
  <2>2. {i \in 1 .. Len(slowIn) : slowIn[i] \in IncomingTo(l)}
          = {i \in DOMAIN slowIn : slowIn[i] = <<"Incoming", l>>}
    BY <2>1 DEF IncomingTo
  <2> QED  BY <2>2 DEF Count
<1>4. Accepting(l) = {t \in Threads : call[t][1] \in {"Popped", "Accept"} /\ call[t][3] = l}
  BY DEF Accepting, Accepts
<1>5. Count(slowOut, AcceptsOf(l)) = Cardinality({i \in DOMAIN slowOut : slowOut[i][1] = "Accept" /\ slowOut[i][3] = l})
  <2>1. DOMAIN slowOut = 1 .. Len(slowOut) /\ \A i \in 1 .. Len(slowOut) : slowOut[i] \in Commands  BY <1>2, SMTT(30)
  <2>2. {i \in 1 .. Len(slowOut) : slowOut[i] \in AcceptsOf(l)}
          = {i \in DOMAIN slowOut : slowOut[i][1] = "Accept" /\ slowOut[i][3] = l}
    <3>1. \A m \in Commands : m[1] # "Popped"  BY CommandKinds, SMTT(30)
    <3> QED  BY <2>1, <3>1 DEF AcceptsOf, Accepts
  <2> QED  BY <2>2 DEF Count
<1>6. listens[l].status \in {"pending", "ready"}  BY SMTT(30)
<1>7. dxs.waiting[l] = listens[l].connections + Count(slowIn, IncomingTo(l))
                         + Cardinality(Accepting(l)) + Count(slowOut, AcceptsOf(l))
  BY <1>1, <1>6 DEF CountInv
<1> QED  BY <1>3, <1>4, <1>5, <1>7

-----------------------------------------------------------------------------
(* Counting *)
Sets == INSTANCE FiniteSetTheorems

LEMMA SameSets == \A S : /\ IsFiniteSet(S) <=> Sets!IsFiniteSet(S)
                         /\ Cardinality(S) = Sets!Cardinality(S)
<1>1. \A S : IsFiniteSet(S) <=> Sets!IsFiniteSet(S)  BY SMTT(30) DEF IsFiniteSet, Sets!IsFiniteSet
<1>2. \A S : Cardinality(S) = Sets!Cardinality(S)  BY SMTT(30) DEF Cardinality, Sets!Cardinality
<1> QED  BY <1>1, <1>2

(* The size of a finite set, and with one element more or less. *)
LEMMA Sizes ==
  ASSUME NEW S, NEW x, IsFiniteSet(S)
  PROVE  /\ Cardinality(S) \in Nat /\ Cardinality({}) = 0
         /\ Cardinality(S \cup {x}) = Cardinality(S) + One(x \notin S)
         /\ Cardinality(S \ {x}) = Cardinality(S) - One(x \in S)
<1>1. Sets!IsFiniteSet(S)  BY SameSets
<1>2. Cardinality(S) \in Nat  BY <1>1, SameSets, Sets!FS_CardinalityType
<1>3. Cardinality({}) = 0  BY SameSets, Sets!FS_EmptySet, SMTT(20)
<1>4. Cardinality(S \cup {x}) = IF x \in S THEN Cardinality(S) ELSE Cardinality(S) + 1
  BY <1>1, SameSets, Sets!FS_AddElement, SMTT(20)
<1>5. Cardinality(S \ {x}) = IF x \in S THEN Cardinality(S) - 1 ELSE Cardinality(S)
  BY <1>1, SameSets, Sets!FS_RemoveElement, SMTT(20)
<1> QED  BY <1>2, <1>3, <1>4, <1>5, SMTT(30) DEF One

LEMMA Parts ==
  ASSUME NEW S, NEW T \in SUBSET S, IsFiniteSet(S)
  PROVE  IsFiniteSet(T)
<1> QED  BY SameSets, Sets!FS_Subset, SMTT(20)

LEMMA Indices ==
  ASSUME NEW n \in Nat
  PROVE  IsFiniteSet(1 .. n)
<1> QED  BY SameSets, Sets!FS_Interval, SMTT(20)

(* Indices moved by one are as many. *)
LEMMA Shifted ==
  ASSUME NEW n \in Nat, NEW A \in SUBSET (1 .. n), NEW B, B = {i \in 2 .. n + 1 : i - 1 \in A}
  PROVE  IsFiniteSet(B) /\ Cardinality(B) = Cardinality(A)
<1> DEFINE f == [i \in A |-> i + 1]
<1>1. f \in [A -> B] /\ (\A i, j \in A : f[i] = f[j] => i = j)  BY SMTT(30)
<1>2. ASSUME NEW k \in B  PROVE \E i \in A : f[i] = k
  <2>1. k - 1 \in A /\ f[k - 1] = k  BY SMTT(30)
  <2> QED  BY <2>1, SMTT(30)
<1>3. Sets!ExistsBijection(A, B)
  <2> HIDE DEF f
  <2>1. f \in Sets!Injection(A, B)  BY <1>1, SMTT(30) DEF Sets!Injection, Sets!IsInjective
  <2>2. f \in Sets!Surjection(A, B)  BY <1>1, <1>2, SMTT(30) DEF Sets!Surjection
  <2> QED  BY <2>1, <2>2, SMTT(30) DEF Sets!ExistsBijection, Sets!Bijection
<1>4. Sets!IsFiniteSet(A)  BY Indices, Parts, SameSets
<1> QED  BY <1>3, <1>4, SameSets, Sets!FS_Bijection, SMTT(20)

LEMMA Counts ==
  ASSUME NEW S
  PROVE  SeqFact(S)
<1> SUFFICES ASSUME NEW s \in Seq(S), NEW K
             PROVE  /\ Count(s, K) \in Nat
                    /\ \A m \in S : Count(Append(s, m), K) = Count(s, K) + One(m \in K)
                    /\ s # <<>> => Count(Tail(s), K) = Count(s, K) - One(Head(s) \in K)
                    /\ (\A i \in 1 .. Len(s) : s[i] \notin K) => Count(s, K) = 0
  BY DEF SeqFact
<1> DEFINE A == {i \in 1 .. Len(s) : s[i] \in K}
<1>1. Len(s) \in Nat /\ A \in SUBSET (1 .. Len(s)) /\ Count(s, K) = Cardinality(A)  BY SMTT(30) DEF Count
<1>2. IsFiniteSet(A)  BY <1>1, Indices, Parts
<1>3. Count(s, K) \in Nat  BY <1>1, <1>2, Sizes
<1>4. ASSUME NEW m \in S  PROVE Count(Append(s, m), K) = Count(s, K) + One(m \in K)
  <2> DEFINE n == Len(s) + 1
  <2>1. n \notin A  BY <1>1, SMTT(30)
  <2>2. {i \in 1 .. Len(Append(s, m)) : Append(s, m)[i] \in K} = IF m \in K THEN A \cup {n} ELSE A
    <3>1. Len(Append(s, m)) = n /\ \A i \in 1 .. n : Append(s, m)[i] = IF i = n THEN m ELSE s[i]  BY SMTT(30)
    <3>2. 1 .. n = (1 .. Len(s)) \cup {n} /\ n \notin 1 .. Len(s)  BY <1>1, SMTT(30)
    <3>3. A = {i \in 1 .. Len(s) : s[i] \in K}  BY SMTT(30)
    <3> HIDE DEF n, A
    <3>4. CASE m \in K
      <4>1. \A i : i \in 1 .. n /\ Append(s, m)[i] \in K <=> i \in A \cup {n}  BY <3>1, <3>2, <3>3, <3>4, SMTT(30)
      <4> QED  BY <3>1, <3>4, <4>1, SMTT(30)
    <3>5. CASE m \notin K
      <4>1. \A i : i \in 1 .. n /\ Append(s, m)[i] \in K <=> i \in A  BY <3>1, <3>2, <3>3, <3>5, SMTT(30)
      <4> QED  BY <3>1, <3>5, <4>1, SMTT(30)
    <3> QED  BY <3>4, <3>5, SMTT(30)
  <2> HIDE DEF A, n
  <2>3. Cardinality(A \cup {n}) = Cardinality(A) + 1 /\ Cardinality(A) \in Nat  BY <1>2, <2>1, Sizes, SMTT(30) DEF One
  <2>4. Count(Append(s, m), K) = Cardinality(IF m \in K THEN A \cup {n} ELSE A)  BY <2>2 DEF Count
  <2>5. CASE m \in K  BY <1>1, <2>3, <2>4, <2>5, SMTT(30) DEF One
  <2>6. CASE m \notin K  BY <1>1, <2>3, <2>4, <2>6, SMTT(30) DEF One
  <2> QED  BY <2>5, <2>6
<1>5. ASSUME s # <<>>  PROVE Count(Tail(s), K) = Count(s, K) - One(Head(s) \in K)
  <2> DEFINE T == {i \in 1 .. Len(Tail(s)) : Tail(s)[i] \in K}
             B == A \ {1}
  <2>1. /\ Len(s) \in Nat \ {0} /\ Len(Tail(s)) = Len(s) - 1 /\ Head(s) = s[1]
        /\ \A i \in 1 .. Len(s) - 1 : Tail(s)[i] = s[i + 1]
    BY <1>5, SMTT(30)
  <2>2. Len(s) - 1 \in Nat /\ T \in SUBSET (1 .. Len(s) - 1)  BY <2>1, SMTT(30)
  <2>3. B = {i \in 2 .. (Len(s) - 1) + 1 : i - 1 \in T}
    <3>1. \A i \in 2 .. Len(s) : i - 1 \in 1 .. Len(s) - 1 /\ Tail(s)[i - 1] = s[i]  BY <2>1, SMTT(30)
    <3>2. B = {i \in 2 .. Len(s) : s[i] \in K}  BY <2>1, SMTT(30)
    <3>3. (Len(s) - 1) + 1 = Len(s)  BY <2>1, SMTT(30)
    <3> QED  BY <2>1, <3>1, <3>2, <3>3, SMTT(30)
  <2>4. 1 \in A <=> Head(s) \in K  BY <2>1, SMTT(30)
  <2> HIDE DEF A, B, T
  <2>5. Cardinality(B) = Cardinality(T)  BY <2>2, <2>3, Shifted
  <2>6. Cardinality(B) = Cardinality(A) - One(1 \in A)  BY <1>2, Sizes DEF B
  <2>7. Count(Tail(s), K) = Cardinality(T)  BY SMTT(30) DEF Count, T
  <2> QED  BY <1>1, <2>4, <2>5, <2>6, <2>7, SMTT(30) DEF One
<1>6. ASSUME \A i \in 1 .. Len(s) : s[i] \notin K  PROVE Count(s, K) = 0
  <2>1. A = {}  BY <1>6, SMTT(30)
  <2> HIDE DEF A
  <2> QED  BY <1>1, <1>2, <2>1, Sizes
<1> QED  BY <1>3, <1>4, <1>5, <1>6

LEMMA CountFactsHold == CountFacts
<1>1. ThreadsFact
  <2>1. ASSUME NEW S \in SUBSET Threads, NEW t \in Threads
        PROVE  /\ Cardinality(S) \in Nat /\ Cardinality({}) = 0
               /\ Cardinality(S \cup {t}) = Cardinality(S) + One(t \notin S)
               /\ Cardinality(S \ {t}) = Cardinality(S) - One(t \in S)
    BY BoundsAssumption, Parts, Sizes
  <2>2. Cardinality({}) = 0  BY SameSets, Sets!FS_EmptySet, SMTT(20)
  <2> QED  BY <2>1, <2>2 DEF ThreadsFact
<1> QED  BY <1>1, Counts DEF CountFacts
-----------------------------------------------------------------------------
LEMMA Invariant == Spec => []IInv
<1>1. Init => IInv  BY InitOK
<1>2. IInv /\ [Next]_vars => IInv'  BY CountFactsHold, NextOK
<1> QED  BY <1>1, <1>2, PTL DEF Spec

(* ReceiveControlMessage and the API calls keep every table entry at a     *)
(* status its object knows, and put on each channel only messages that its *)
(* receiver handles.                                                       *)
THEOREM ClientTyped == Spec => []TypeOK
<1>1. IInv => TypeOK  BY DEF IInv, Typed
<1> QED  BY <1>1, Invariant, PTL

(* Send and RecvLinearized over LLCM cannot overtake the Connect or the    *)
(* Accept over SCTP that opens their socket: DXS takes a request only for  *)
(* a socket it has opened, and without AcceptAck and LLCM for one it knows. *)
THEOREM RequestsFindTheirSocket == Spec => []RequestsAfterOpen
<1>1. IInv => RequestsAfterOpen  BY RequestsFromInv
<1> QED  BY <1>1, Invariant, PTL

(* HandleSendAck, HandleRecvAck and OnControlChannelFailure: Test reports  *)
(* completion of an operation only once DXS has completed it.              *)
THEOREM CompletionsAreReal == Spec => []ResultsAreReal
<1>1. IInv => ResultsAreReal  BY DEF IInv
<1> QED  BY <1>1, Invariant, PTL

(* HandleIncomingConnection and Accept: while the channel is up no         *)
(* connection to a ready listening socket is lost or accepted twice.       *)
THEOREM NoConnectionLost == Spec => []ConnectionsConserved
<1>1. IInv => ConnectionsConserved  BY ConnectionsFromInv
<1> QED  BY <1>1, Invariant, PTL

(* OnControlChannelFailure and the calls that race with it leave no object *)
(* waiting for an answer that cannot come.                                 *)
THEOREM FailureReachesAll == Spec => []NothingPendingAfterFailure
<1>1. IInv => NothingPendingAfterFailure  BY DEF IInv
<1> QED  BY <1>1, Invariant, PTL
=============================================================================
