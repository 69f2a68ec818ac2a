-------------------------- MODULE LlcmHandlerProofs --------------------------
(***************************************************************************)
(* Proofs about LlcmHandler, for any ring capacity, any batch size and any *)
(* number of threads and messages.  TypeOK is inductive; with it every     *)
(* step is a step of MessageChannel on the ring followed by the overflow.  *)
(***************************************************************************)
EXTENDS LlcmHandler, SequenceTheorems, TLAPS

-----------------------------------------------------------------------------
(* Queues kept as concatenations of sequences *)

(* Taking the head of a concatenation is taking the head of its first part. *)
LEMMA HeadAndTail ==
  ASSUME NEW S, NEW s \in Seq(S), s # <<>>
  PROVE  s = <<Head(s)>> \o Tail(s) /\ Head(s) \in S /\ Tail(s) \in Seq(S)
<1> QED  BY HeadTailProperties, ConcatProperties

LEMMA TailConcat ==
  ASSUME NEW S, NEW s \in Seq(S), NEW r \in Seq(S), s # <<>>
  PROVE  s \o r # <<>> /\ Head(s \o r) = Head(s) /\ Tail(s \o r) = Tail(s) \o r
<1> DEFINE h == Head(s)
           t == Tail(s)
           q == s \o r
<1>1. s = <<h>> \o t /\ h \in S /\ t \in Seq(S)  BY HeadAndTail, Zenon
<1>2. q \in Seq(S) /\ q # <<>> /\ Head(q) = h
  BY EmptySeq, LenProperties, ConcatProperties
<1>3. q = <<Head(q)>> \o Tail(q) /\ Tail(q) \in Seq(S)  BY <1>2, HeadAndTail, Zenon
<1>4. <<h>> \in Seq(S) /\ t \o r \in Seq(S)  BY <1>1, ConcatProperties
<1> HIDE DEF h, t
<1>5. q = <<h>> \o (t \o r)  BY <1>1, <1>4, ConcatAssociative, SMTT(30)
<1> HIDE DEF q
<1>6. Tail(q) = t \o r  BY <1>2, <1>3, <1>4, <1>5, ConcatSimplifications, Zenon
<1> QED  BY <1>2, <1>6, Zenon DEF h, t, q

(* Appending to the last part of a queue is appending to the queue. *)
LEMMA AppendConcat ==
  ASSUME NEW S, NEW s \in Seq(S), NEW t \in Seq(S), NEW m \in S
  PROVE  s \o Append(t, m) = Append(s \o t, m)
<1>1. <<m>> \in Seq(S) /\ s \o t \in Seq(S)  BY ConcatProperties
<1> QED  BY <1>1, AppendIsConcat, ConcatAssociative, SMTT(30)

(* Moving the head of one part to the end of the part before it. *)
LEMMA MoveHead ==
  ASSUME NEW S, NEW s \in Seq(S), NEW t \in Seq(S), t # <<>>
  PROVE  Append(s, Head(t)) \o Tail(t) = s \o t
<1>1. t = <<Head(t)>> \o Tail(t) /\ Head(t) \in S /\ Tail(t) \in Seq(S)  BY HeadAndTail, Zenon
<1>2. Append(s, Head(t)) = s \o <<Head(t)>> /\ <<Head(t)>> \in Seq(S)
  BY <1>1, AppendIsConcat
<1> QED  BY <1>1, <1>2, ConcatAssociative, SMTT(30)

-----------------------------------------------------------------------------
(* Type correctness *)

LEMMA Initially == Init => TypeOK
<1> QED  BY LlcmAssumption, NoMessageAssumption, EmptySeq DEF Init, TypeOK

(* The messages of each kind are what their counters allow. *)
LEMMA Kinds ==
  /\ \A k \in 1 .. MaxSends : <<"send", k>> \in Outgoing
  /\ \A k \in 1 .. MaxPings : <<"ping", k>> \in Pings \cup Acks /\ <<"pong", k>> \in Outgoing
  /\ \A k \in 1 .. MaxAcks : <<"ack", k>> \in Pings \cup Acks
<1> QED  BY Zenon DEF Outgoing, Commands, Pings, Pongs, Acks

(* Sends and polls that take mutex_. *)
LEMMA LockStep ==
  ASSUME TypeOK, NEW t \in Threads, SendControlMessage(t) \/ RxPoll(t) \/ Shutdown(t)
  PROVE  TypeOK'
<1> USE LlcmAssumption, NoMessageAssumption DEF TypeOK, Lock, peer
<1>1. CASE SendControlMessage(t)
  <2>1. sends' \in 1 .. MaxSends  BY <1>1 DEF SendControlMessage
  <2>2. message' \in Outgoing /\ message' # NoMessage
    BY <1>1, <2>1, Kinds, Zenon DEF SendControlMessage
  <2> QED  BY <1>1, <2>1, <2>2 DEF SendControlMessage
<1>2. CASE RxPoll(t)  BY <1>2 DEF RxPoll
<1>3. CASE Shutdown(t)  BY <1>3, Zenon DEF Shutdown
<1> QED  BY <1>1, <1>2, <1>3, Zenon

(* The sending half: overflow, then the message. *)
LEMMA SendStep ==
  ASSUME TypeOK, TrySendLlcmOverflow \/ LlcmSendQueues \/ LlcmSendDirect
  PROVE  TypeOK'
<1> USE LlcmAssumption, NoMessageAssumption DEF TypeOK, peer, HasRoom
<1>1. CASE TrySendLlcmOverflow
  <2> USE <1>1 DEF TrySendLlcmOverflow
  <2>1. Head(overflow) \in Outgoing /\ Tail(overflow) \in Seq(Outgoing)
    BY HeadTailProperties, Zenon
  <2>2. ring' \in Seq(Outgoing) /\ Len(ring') = Len(ring) + 1  BY <2>1, AppendProperties, Zenon
  <2>3. Len(ring') <= Capacity  BY <2>2, LenProperties
  <2> QED  BY <2>1, <2>2, <2>3, Zenon
<1>2. CASE LlcmSendQueues
  <2>1. message \in Outgoing  BY <1>2, Zenon DEF LlcmSendQueues
  <2>2. overflow' \in Seq(Outgoing)  BY <1>2, <2>1, AppendProperties, Zenon DEF LlcmSendQueues
  <2> QED  BY <1>2, <2>2 DEF LlcmSendQueues, SendReturns, Unlock
<1>3. CASE LlcmSendDirect
  <2>1. message \in Outgoing  BY <1>3, Zenon DEF LlcmSendDirect
  <2>2. ring' \in Seq(Outgoing) /\ Len(ring') = Len(ring) + 1
    BY <1>3, <2>1, AppendProperties, Zenon DEF LlcmSendDirect
  <2>3. Len(ring') <= Capacity  BY <1>3, <2>2, LenProperties DEF LlcmSendDirect
  <2> QED  BY <1>3, <2>2, <2>3 DEF LlcmSendDirect, SendReturns, Unlock
<1> QED  BY <1>1, <1>2, <1>3, Zenon

(* The receiving half. *)
LEMMA ReceiveStep ==
  ASSUME TypeOK, RxPollReceives \/ LlcmRecv \/ RxPollReturns \/ ShutdownReturns
  PROVE  TypeOK'
<1> USE LlcmAssumption, NoMessageAssumption DEF TypeOK, peer
<1>1. CASE LlcmRecv
  <2> USE <1>1 DEF LlcmRecv
  <2>1. Head(reverse) \in Pings \cup Acks /\ Tail(reverse) \in Seq(Pings \cup Acks)
    BY HeadTailProperties, Zenon
  <2>2. left' \in 0 .. kBatchSize  BY SMTT(30)
  <2>3. CASE Head(reverse)[1] = "ping"
    <3>1. Head(reverse) \in Pings  BY Zenon, <2>1, <2>3 DEF Acks, Pings
    <3>2. <<"pong", Head(reverse)[2]>> \in Outgoing  BY <3>1, Zenon DEF Pings, Pongs, Outgoing
    <3> QED  BY Zenon, <2>1, <2>2, <2>3, <3>2
  <2>4. CASE Head(reverse)[1] # "ping"
    <3>1. Head(reverse) \in Acks  BY Zenon, <2>1, <2>4 DEF Acks, Pings
    <3> QED  BY <2>1, <2>2, <2>4, <3>1
  <2> QED  BY <2>3, <2>4, Zenon
<1>2. CASE RxPollReceives  BY <1>2, Zenon DEF RxPollReceives
<1>3. CASE RxPollReturns  BY <1>3 DEF RxPollReturns, Unlock
<1>4. CASE ShutdownReturns  BY <1>4 DEF ShutdownReturns, Unlock
<1> QED  BY <1>1, <1>2, <1>3, <1>4, Zenon

(* DXS on the other side of the rings. *)
LEMMA DxsStep ==
  ASSUME TypeOK, DxsTakes \/ DxsPings \/ DxsAcks
  PROVE  TypeOK'
<1> USE LlcmAssumption, NoMessageAssumption DEF TypeOK, peer
<1>1. CASE DxsTakes
  <2> USE <1>1 DEF DxsTakes
  <2>1. /\ Head(ring) \in Outgoing /\ Tail(ring) \in Seq(Outgoing)
        /\ Len(Tail(ring)) = Len(ring) - 1
    BY HeadTailProperties, Zenon
  <2>2. Len(ring') <= Capacity  BY <2>1, LenProperties
  <2> QED  BY <2>1, <2>2
<1>2. CASE DxsPings
  <2>1. pings' \in 1 .. MaxPings  BY <1>2 DEF DxsPings
  <2>2. reverse' \in Seq(Pings \cup Acks)
    BY Zenon, <1>2, <2>1, Kinds, AppendProperties DEF DxsPings
  <2> QED  BY <1>2, <2>1, <2>2 DEF DxsPings
<1>3. CASE DxsAcks
  <2>1. acks' \in 1 .. MaxAcks  BY <1>3 DEF DxsAcks
  <2>2. reverse' \in Seq(Pings \cup Acks)
    BY <1>3, <2>1, Kinds, AppendProperties DEF DxsAcks
  <2> QED  BY <1>3, <2>1, <2>2 DEF DxsAcks
<1> QED  BY <1>1, <1>2, <1>3, Zenon

LEMMA Inductive == TypeOK /\ [Next]_vars => TypeOK'
<1> SUFFICES ASSUME TypeOK, [Next]_vars PROVE TypeOK'  BY Zenon
<1>1. CASE UNCHANGED vars  BY <1>1, Zenon DEF vars, peer, TypeOK
<1> QED  BY <1>1, LockStep, SendStep, ReceiveStep, DxsStep DEF Next, LockedStep

(* Whoever holds mutex_ is in exactly one operation, which leaves nothing  *)
(* behind, and the ring is never asked to hold more than it can.           *)
THEOREM TypeCorrect == Spec => []TypeOK
<1> QED  BY Initially, Inductive, PTL DEF Spec

-----------------------------------------------------------------------------
(* Refinement *)

(* Every step leaves the queue of unsent messages alone, adds the message  *)
(* being sent at its end, or takes its first one.                          *)
LEMMA ChannelStep == TypeOK /\ [Next]_vars => [Channel!Next]_<<ring \o overflow, out>>
<1> SUFFICES ASSUME TypeOK, [Next]_vars
             PROVE  \/ \E m \in Outgoing : Channel!Accept(m)
                    \/ Channel!Deliver
                    \/ ring' \o overflow' = ring \o overflow /\ out' = out
  BY Zenon DEF Channel!Next
<1>1. ring \in Seq(Outgoing) /\ overflow \in Seq(Outgoing)  BY Zenon DEF TypeOK
<1>2. CASE TrySendLlcmOverflow
  <2>1. overflow # <<>>  BY <1>2, Zenon DEF TrySendLlcmOverflow
  <2>2. Append(ring, Head(overflow)) \o Tail(overflow) = ring \o overflow
    BY <1>1, <2>1, MoveHead, Zenon
  <2> QED  BY <1>2, <2>2, Zenon DEF TrySendLlcmOverflow
<1>3. CASE LlcmSendQueues
  <2>1. message \in Outgoing  BY <1>3, Zenon DEF LlcmSendQueues, TypeOK
  <2>2. ring \o Append(overflow, message) = Append(ring \o overflow, message)
    BY <1>1, <2>1, AppendConcat
  <2> QED  BY <1>3, <2>1, <2>2 DEF LlcmSendQueues, Channel!Accept
<1>4. CASE LlcmSendDirect
  <2>1. message \in Outgoing /\ overflow = <<>>  BY <1>4, Zenon DEF LlcmSendDirect, TypeOK
  <2>2. Append(ring, message) \in Seq(Outgoing)  BY <1>1, <2>1, AppendProperties
  <2>3. ring \o <<>> = ring  BY <1>1, ConcatEmptySeq
  <2>4. Append(ring, message) \o <<>> = Append(ring, message)  BY <2>2, ConcatEmptySeq
  <2> QED  BY <1>4, <2>1, <2>3, <2>4, Zenon DEF LlcmSendDirect, Channel!Accept
<1>5. CASE DxsTakes
  <2>1. ring # <<>>  BY <1>5, Zenon DEF DxsTakes
  <2>2. /\ ring \o overflow # <<>> /\ Head(ring \o overflow) = Head(ring)
        /\ Tail(ring \o overflow) = Tail(ring) \o overflow
    BY <1>1, <2>1, TailConcat
  <2> QED  BY <1>5, <2>2, SMTT(30) DEF DxsTakes, Channel!Deliver
<1>6. CASE \/ \E t \in Threads : SendControlMessage(t) \/ RxPoll(t) \/ Shutdown(t)
           \/ RxPollReceives \/ LlcmRecv \/ RxPollReturns \/ ShutdownReturns
           \/ DxsPings \/ DxsAcks \/ UNCHANGED vars
  BY <1>6, Zenon DEF SendControlMessage, RxPoll, Shutdown, RxPollReceives, LlcmRecv,
              RxPollReturns, ShutdownReturns, DxsPings, DxsAcks, vars
<1> QED  BY <1>2, <1>3, <1>4, <1>5, <1>6, SMTT(30) DEF Next, LockedStep

(* Messages reach DXS in the order in which they were sent, each once, for *)
(* any size of the ring: the overflow never lets one overtake another.     *)
THEOREM SentInOrder == Spec => InOrder
<1>1. Init => Channel!Init
  <2>1. <<>> \o <<>> = <<>>  BY EmptySeq, ConcatEmptySeq
  <2> QED  BY <2>1, Zenon DEF Init, Channel!Init
<1> QED  BY <1>1, TypeCorrect, ChannelStep, PTL DEF Spec, InOrder, Channel!Spec

-----------------------------------------------------------------------------
(* PINGs and PONGs *)

(* Runs grow at the end, shrink at the front and can be joined. *)
LEMMA RunAppend ==
  ASSUME NEW S, NEW s \in Seq(S), NEW m \in S,
         NEW lo \in Nat, NEW hi \in Nat, lo <= hi, Run(s, lo, hi)
  PROVE  /\ PingOrPong(m) /\ m[2] = hi + 1 => Run(Append(s, m), lo, hi + 1)
         /\ ~PingOrPong(m) => Run(Append(s, m), lo, hi)
<1> DEFINE t == Append(s, m)
           l == Len(s)
<1>1. /\ l \in Nat /\ Len(t) = l + 1 /\ t[l + 1] = m
      /\ \A i \in 1 .. l : t[i] = s[i]
  BY AppendProperties, LenProperties
<1>2. \A i \in 1 .. l + 1 : i \in 1 .. l \/ i = l + 1  BY <1>1
<1> HIDE DEF t, l
<1>3. ASSUME PingOrPong(m), m[2] = hi + 1  PROVE Run(t, lo, hi + 1)
  <2>1. ASSUME NEW i \in 1 .. l + 1, PingOrPong(t[i])  PROVE t[i][2] \in lo + 1 .. hi + 1
    <3>1. CASE i = l + 1  BY <1>1, <1>3, <3>1
    <3>2. CASE i \in 1 .. l
      <4>1. t[i] = s[i] /\ t[i][2] \in lo + 1 .. hi  BY <1>1, <2>1, <3>2, SMTT(30) DEF Run, l
      <4>2. \A n \in lo + 1 .. hi : n \in lo + 1 .. hi + 1  OBVIOUS
      <4> QED  BY Zenon, <4>1, <4>2
    <3> QED  BY <1>2, <3>1, <3>2
  <2>2. ASSUME NEW n \in lo + 1 .. hi + 1
        PROVE  \E i \in 1 .. l + 1 : PingOrPong(t[i]) /\ t[i][2] = n
    <3>1. CASE n = hi + 1  BY <1>1, <1>3, <3>1
    <3>2. CASE n \in lo + 1 .. hi
      <4>1. PICK i \in 1 .. l : PingOrPong(s[i]) /\ s[i][2] = n  BY <3>2, SMTT(30) DEF Run, l
      <4> QED  BY <1>1, <4>1
    <3> QED  BY <3>1, <3>2
  <2>3. ASSUME NEW i \in 1 .. l + 1, NEW j \in 1 .. l + 1, i < j,
               PingOrPong(t[i]), PingOrPong(t[j])
        PROVE  t[i][2] < t[j][2]
    <3>1. i \in 1 .. l /\ t[i] = s[i] /\ s[i][2] \in lo + 1 .. hi  BY <1>1, <2>3 DEF Run, l
    <3>2. CASE j = l + 1  BY <1>1, <1>3, <3>1, <3>2, SMTT(30)
    <3>3. CASE j \in 1 .. l  BY <1>1, <2>3, <3>1, <3>3, SMTT(30) DEF Run, l
    <3> QED  BY <1>2, <3>2, <3>3
  <2> QED  BY <1>1, <2>1, <2>2, <2>3, Zenon DEF Run
<1>4. ASSUME ~PingOrPong(m)  PROVE Run(t, lo, hi)
  <2>1. \A i \in 1 .. l + 1 : PingOrPong(t[i]) => i \in 1 .. l /\ t[i] = s[i]
    BY <1>1, <1>2, <1>4, Zenon
  <2>2. ASSUME NEW n \in lo + 1 .. hi
        PROVE  \E i \in 1 .. l + 1 : PingOrPong(t[i]) /\ t[i][2] = n
    <3>1. PICK i \in 1 .. l : PingOrPong(s[i]) /\ s[i][2] = n  BY Zenon DEF Run, l
    <3>2. i \in 1 .. l + 1 /\ t[i] = s[i]  BY <1>1
    <3> QED  BY Zenon, <3>1, <3>2
  <2> QED  BY <1>1, <2>1, <2>2, Zenon DEF Run, l
<1> QED  BY <1>3, <1>4 DEF t

LEMMA RunTail ==
  ASSUME NEW S, NEW s \in Seq(S), s # <<>>,
         NEW lo \in Nat, NEW hi \in Nat, Run(s, lo, hi)
  PROVE  /\ PingOrPong(Head(s)) =>
              lo < hi /\ Head(s)[2] = lo + 1 /\ Run(Tail(s), lo + 1, hi)
         /\ ~PingOrPong(Head(s)) => Run(Tail(s), lo, hi)
<1> DEFINE t == Tail(s)
           l == Len(s)
<1>1. /\ l \in Nat \ {0} /\ Head(s) = s[1] /\ Len(t) = l - 1
      /\ \A i \in 1 .. l - 1 : t[i] = s[i + 1] /\ i + 1 \in 1 .. l
  BY HeadTailProperties, EmptySeq, LenProperties
<1>2. 1 \in 1 .. l /\ \A i \in 1 .. l : i = 1 \/ (i - 1 \in 1 .. l - 1 /\ s[i] = t[i - 1])
  BY <1>1
<1> HIDE DEF t, l
<1>3. \A i, j \in 1 .. l - 1 :
        i < j /\ PingOrPong(t[i]) /\ PingOrPong(t[j]) => t[i][2] < t[j][2]
  <2> SUFFICES ASSUME NEW i \in 1 .. l - 1, NEW j \in 1 .. l - 1, i < j,
                      PingOrPong(t[i]), PingOrPong(t[j])
               PROVE  t[i][2] < t[j][2]
    BY Zenon
  <2>1. i + 1 < j + 1 /\ i + 1 \in 1 .. l /\ j + 1 \in 1 .. l  BY <1>1
  <2> QED  BY <1>1, <2>1, Zenon DEF Run, l
<1>4. ASSUME PingOrPong(s[1])
      PROVE  lo < hi /\ s[1][2] = lo + 1 /\ Run(t, lo + 1, hi)
  <2>1. s[1][2] \in lo + 1 .. hi  BY <1>2, <1>4 DEF Run, l
  <2>2. lo + 1 \in lo + 1 .. hi  BY <2>1
  <2>3. PICK i \in 1 .. l : PingOrPong(s[i]) /\ s[i][2] = lo + 1  BY <2>2 DEF Run, l
  <2>4. s[1][2] = lo + 1
    <3>1. CASE i = 1  BY <2>3, <3>1
    <3>2. CASE 1 < i
      <4>1. s[1][2] < s[i][2]  BY <1>2, <1>4, <2>3, <3>2, SMTT(30) DEF Run, l
      <4> QED  BY <2>1, <2>3, <4>1
    <3> QED  BY <3>1, <3>2
  <2>5. \A j \in 1 .. l - 1 : PingOrPong(t[j]) => t[j][2] \in lo + 2 .. hi
    <3> SUFFICES ASSUME NEW j \in 1 .. l - 1, PingOrPong(t[j])  PROVE t[j][2] \in lo + 2 .. hi
      BY Zenon
    <3>1. t[j] = s[j + 1] /\ j + 1 \in 1 .. l /\ 1 < j + 1  BY <1>1
    <3>2. s[j + 1][2] \in lo + 1 .. hi /\ s[1][2] < s[j + 1][2]  BY <1>2, <1>4, <3>1 DEF Run, l
    <3> QED  BY <2>4, <3>1, <3>2, SMTT(30)
  <2>6. ASSUME NEW n \in lo + 2 .. hi
        PROVE  \E j \in 1 .. l - 1 : PingOrPong(t[j]) /\ t[j][2] = n
    <3>1. PICK j \in 1 .. l : PingOrPong(s[j]) /\ s[j][2] = n  BY DEF Run, l
    <3>2. j # 1  BY <2>4, <3>1
    <3> QED  BY <1>2, <3>1, <3>2, SMTT(30)
  <2>7. (lo + 1) + 1 = lo + 2 /\ lo < hi  BY <2>1
  <2> QED  BY <1>1, <1>3, <2>4, <2>5, <2>6, <2>7, Zenon DEF Run
<1>5. ASSUME ~PingOrPong(s[1])  PROVE Run(t, lo, hi)
  <2>1. \A j \in 1 .. l - 1 : PingOrPong(t[j]) => t[j][2] \in lo + 1 .. hi
    BY <1>1, SMTT(30) DEF Run, l
  <2>2. ASSUME NEW n \in lo + 1 .. hi
        PROVE  \E j \in 1 .. l - 1 : PingOrPong(t[j]) /\ t[j][2] = n
    <3>1. PICK j \in 1 .. l : PingOrPong(s[j]) /\ s[j][2] = n  BY Zenon DEF Run, l
    <3> QED  BY <1>2, <1>5, <3>1, SMTT(30)
  <2> QED  BY <1>1, <1>3, <2>1, <2>2, Zenon DEF Run
<1> QED  BY <1>1, <1>4, <1>5 DEF t

LEMMA RunConcat ==
  ASSUME NEW S, NEW s \in Seq(S), NEW t \in Seq(S),
         NEW lo \in Nat, NEW mid \in Nat, NEW hi \in Nat, lo <= mid, mid <= hi,
         Run(s, lo, mid), Run(t, mid, hi)
  PROVE  Run(s \o t, lo, hi)
<1> DEFINE u == s \o t
           l == Len(s)
           k == Len(t)
<1>1. /\ l \in Nat /\ k \in Nat /\ Len(u) = l + k
      /\ \A i \in 1 .. l + k : u[i] = IF i <= l THEN s[i] ELSE t[i - l]
  BY ConcatProperties, LenProperties
<1> HIDE DEF u, l, k
<1>2. /\ \A i \in 1 .. l : i \in 1 .. l + k /\ u[i] = s[i]
      /\ \A i \in 1 .. k : i + l \in 1 .. l + k /\ u[i + l] = t[i]
  BY <1>1, SMTT(30)
<1>3. /\ \A i \in 1 .. l + k : i <= l /\ PingOrPong(u[i]) =>
           i \in 1 .. l /\ u[i] = s[i] /\ u[i][2] \in lo + 1 .. mid
      /\ \A i \in 1 .. l + k : ~(i <= l) /\ PingOrPong(u[i]) =>
           i - l \in 1 .. k /\ u[i] = t[i - l] /\ u[i][2] \in mid + 1 .. hi
  <2>1. ASSUME NEW i \in 1 .. l + k, i <= l, PingOrPong(u[i])
        PROVE  i \in 1 .. l /\ u[i] = s[i] /\ u[i][2] \in lo + 1 .. mid
    <3>1. i \in 1 .. l /\ u[i] = s[i]  BY <1>1, <2>1, SMTT(30)
    <3> QED  BY <2>1, <3>1 DEF Run, l
  <2>2. ASSUME NEW i \in 1 .. l + k, ~(i <= l), PingOrPong(u[i])
        PROVE  i - l \in 1 .. k /\ u[i] = t[i - l] /\ u[i][2] \in mid + 1 .. hi
    <3>1. i - l \in 1 .. k /\ u[i] = t[i - l]  BY <1>1, <2>2, SMTT(30)
    <3> QED  BY <2>2, <3>1 DEF Run, k
  <2> QED  BY <2>1, <2>2
<1>4. \A i \in 1 .. l + k : PingOrPong(u[i]) => u[i][2] \in lo + 1 .. hi  BY <1>3, SMTT(30)
<1>5. ASSUME NEW n \in lo + 1 .. hi
      PROVE  \E i \in 1 .. l + k : PingOrPong(u[i]) /\ u[i][2] = n
  <2>1. CASE n \in lo + 1 .. mid
    <3>1. PICK i \in 1 .. l : PingOrPong(s[i]) /\ s[i][2] = n  BY <2>1, Zenon DEF Run, l
    <3> QED  BY <1>2, <3>1
  <2>2. CASE n \in mid + 1 .. hi
    <3>1. PICK i \in 1 .. k : PingOrPong(t[i]) /\ t[i][2] = n  BY <2>2 DEF Run, k
    <3> QED  BY <1>2, <3>1, SMTT(30)
  <2> QED  BY <2>1, <2>2
<1>6. ASSUME NEW i \in 1 .. l + k, NEW j \in 1 .. l + k, i < j,
             PingOrPong(u[i]), PingOrPong(u[j])
      PROVE  u[i][2] < u[j][2]
  <2>1. CASE j <= l
    <3>1. i \in 1 .. l /\ j \in 1 .. l /\ u[i] = s[i] /\ u[j] = s[j]  BY <1>1, <1>2, <1>6, <2>1
    <3> QED  BY <1>6, <3>1 DEF Run, l
  <2>2. CASE i <= l /\ ~(j <= l)
    <3>1. u[i][2] \in lo + 1 .. mid /\ u[j][2] \in mid + 1 .. hi  BY <1>3, <1>6, <2>2
    <3>2. \A a \in lo + 1 .. mid, b \in mid + 1 .. hi : a < b  OBVIOUS
    <3> QED  BY Zenon, <3>1, <3>2
  <2>3. CASE ~(i <= l)
    <3>1. ~(j <= l) /\ i - l < j - l  BY <1>1, <1>6, <2>3, SMTT(30)
    <3>2. i - l \in 1 .. k /\ j - l \in 1 .. k /\ u[i] = t[i - l] /\ u[j] = t[j - l]
      BY <1>3, <1>6, <2>3, <3>1, Zenon
    <3> QED  BY <1>6, <3>1, <3>2, Zenon DEF Run, k
  <2> QED  BY <1>1, <2>1, <2>2, <2>3
<1> QED  BY <1>1, <1>4, <1>5, <1>6, Zenon DEF Run, u

LEMMA RunOne ==
  ASSUME NEW n \in Nat, NEW m, PingOrPong(m), m[2] = n + 1
  PROVE  Run(<<>>, n, n) /\ Run(<<m>>, n, n + 1)
<1>1. Len(<<>>) = 0 /\ Len(<<m>>) = 1 /\ <<m>>[1] = m  BY Zenon
<1> QED  BY <1>1 DEF Run

(* The queue of unsent messages ends where the PINGs that are not yet      *)
(* answered begin, the one being answered among them.  This is inductive   *)
(* and gives EachPingAnsweredOnce.                                         *)
Answered(taken, sent) ==
  /\ taken <= sent /\ sent <= pings
  /\ Run(ring \o overflow, taken, sent) /\ Run(Answering \o reverse, sent, pings)
PongInv == \E taken, sent \in Nat : Answered(taken, sent)

(* What is being sent is a command of the application or a PONG. *)
Sending == (pc = "send" => message \in Commands) /\ (pc = "pong" => message \in Pongs)

Messages == Outgoing \cup Pings \cup Acks

LEMMA MessageKinds ==
  /\ \A m \in Commands \cup Acks : ~PingOrPong(m)
  /\ \A m \in Pings \cup Pongs : PingOrPong(m)
<1> QED  BY Zenon DEF Commands, Acks, Pings, Pongs, PingOrPong

LEMMA HeadTailConcat ==
  ASSUME NEW S, NEW m \in S, NEW s \in Seq(S)
  PROVE  /\ <<m>> \o s \in Seq(S) /\ <<m>> \o s # <<>>
         /\ Head(<<m>> \o s) = m /\ Tail(<<m>> \o s) = s
<1>1. <<m>> \in Seq(S) /\ <<m>> # <<>> /\ Head(<<m>>) = m /\ Tail(<<m>>) = <<>>  OBVIOUS
<1>2. <<>> \o s = s  BY ConcatEmptySeq
<1> QED  BY <1>1, <1>2, ConcatProperties, TailConcat

(* A run of messages is one whatever set the messages are taken from. *)
LEMMA Parts ==
  ASSUME TypeOK
  PROVE  /\ ring \o overflow \in Seq(Messages)
         /\ reverse \in Seq(Messages) /\ Answering \in Seq(Messages)
         /\ Answering \o reverse \in Seq(Messages)
<1>1. ring \in Seq(Messages) /\ overflow \in Seq(Messages) /\ reverse \in Seq(Messages)
  <2>1. Outgoing \subseteq Messages /\ Pings \cup Acks \subseteq Messages  BY Zenon DEF Messages
  <2> QED  BY <2>1, SeqMonotonic DEF TypeOK
<1>2. Answering \in Seq(Messages)
  <2>1. pc = "pong" => message \in Messages  BY Zenon DEF TypeOK, Messages
  <2> QED  BY <2>1 DEF Answering
<1> QED  BY <1>1, <1>2, ConcatProperties

(* The queue of unsent messages, one step at a time. *)
LEMMA QueueStep ==
  ASSUME TypeOK, Sending, PongInv, TrySendLlcmOverflow \/ LlcmSendQueues \/ LlcmSendDirect \/ DxsTakes
  PROVE  PongInv'
<1> DEFINE q == ring \o overflow
           r == Answering \o reverse
<1>1. PICK taken, sent \in Nat : Answered(taken, sent)  BY SMTT(30) DEF PongInv
<1>2. /\ q \in Seq(Messages) /\ r \in Seq(Messages) /\ reverse \in Seq(Messages)
      /\ ring \in Seq(Outgoing) /\ overflow \in Seq(Outgoing) /\ pings \in Nat
  BY Parts, LlcmAssumption DEF TypeOK
<1>3. /\ taken <= sent /\ sent <= pings /\ Run(q, taken, sent) /\ Run(r, sent, pings)
  BY <1>1 DEF Answered
<1>4. CASE TrySendLlcmOverflow
  <2>1. ring' \o overflow' = q
    BY <1>2, <1>4, MoveHead, Zenon DEF TrySendLlcmOverflow
  <2>2. pings' = pings /\ Answering' \o reverse' = r
    BY <1>4 DEF TrySendLlcmOverflow, Answering, peer
  <2> QED  BY <1>3, <2>1, <2>2 DEF PongInv, Answered
<1>5. CASE LlcmSendQueues \/ LlcmSendDirect
  <2>1. /\ message \in Outgoing /\ message \in Messages /\ pings' = pings /\ reverse' = reverse
        /\ Answering' = <<>>
    BY <1>5 DEF LlcmSendQueues, LlcmSendDirect, TypeOK, Messages, peer, Answering, SendReturns, Unlock
  <2>2. ring' \o overflow' = Append(q, message)
    <3>1. CASE LlcmSendQueues  BY <1>2, <2>1, <3>1, AppendConcat, SMTT(30) DEF LlcmSendQueues
    <3>2. CASE LlcmSendDirect
      <4>1. overflow = <<>> /\ overflow' = <<>> /\ ring' = Append(ring, message)
        BY <3>2 DEF LlcmSendDirect
      <4>2. Append(ring, message) \in Seq(Outgoing)  BY <1>2, <2>1, AppendProperties
      <4> QED  BY <1>2, <4>1, <4>2, ConcatEmptySeq
    <3> QED  BY <1>5, <3>1, <3>2, SMTT(30)
  <2>3. Answering' \o reverse' = reverse  BY <1>2, <2>1, ConcatEmptySeq
  <2>4. CASE pc = "send"
    <3>1. r = reverse  BY <1>2, <2>4, ConcatEmptySeq DEF Answering
    <3>2. ~PingOrPong(message)  BY <2>4, MessageKinds DEF Sending
    <3>3. Run(Append(q, message), taken, sent)  BY <1>2, <1>3, <2>1, <3>2, RunAppend, Zenon
    <3> QED  BY <1>3, <2>1, <2>2, <2>3, <3>1, <3>3 DEF PongInv, Answered
  <2>5. CASE pc = "pong"
    <3>1. r = <<message>> \o reverse  BY <2>5 DEF Answering
    <3>2. r # <<>> /\ Head(r) = message /\ Tail(r) = reverse
      BY <1>2, <2>1, <3>1, HeadTailConcat, SMTT(30)
    <3>3. PingOrPong(message)  BY <2>5, MessageKinds DEF Sending
    <3>4. sent < pings /\ message[2] = sent + 1 /\ Run(reverse, sent + 1, pings)
      BY <1>2, <1>3, <3>2, <3>3, RunTail, Zenon
    <3>5. Run(Append(q, message), taken, sent + 1)  BY <1>2, <1>3, <2>1, <3>3, <3>4, RunAppend, Zenon
    <3>6. sent + 1 \in Nat /\ taken <= sent + 1 /\ sent + 1 <= pings  BY <1>2, <1>3, <3>4
    <3> QED  BY <2>1, <2>2, <2>3, <3>4, <3>5, <3>6 DEF PongInv, Answered
  <2> QED  BY <1>5, <2>4, <2>5, SMTT(30) DEF LlcmSendQueues, LlcmSendDirect
<1>6. CASE DxsTakes
  <2>1. ring # <<>> /\ ring' = Tail(ring) /\ overflow' = overflow  BY <1>6 DEF DxsTakes
  <2>2. q # <<>> /\ ring' \o overflow' = Tail(q)  BY <1>2, <2>1, TailConcat, Zenon
  <2>3. pings' = pings /\ Answering' \o reverse' = r  BY <1>6, Zenon DEF DxsTakes, Answering, peer
  <2>4. CASE PingOrPong(Head(q))
    <3>1. taken < sent /\ Run(Tail(q), taken + 1, sent)  BY <1>2, <1>3, <2>2, <2>4, RunTail, Zenon
    <3>2. taken + 1 \in Nat /\ taken + 1 <= sent  BY <3>1
    <3> QED  BY <1>3, <2>2, <2>3, <3>1, <3>2, Zenon DEF PongInv, Answered
  <2>5. CASE ~PingOrPong(Head(q))
    <3>1. Run(Tail(q), taken, sent)  BY <1>2, <1>3, <2>2, <2>5, RunTail, Zenon
    <3> QED  BY <1>3, <2>2, <2>3, <3>1 DEF PongInv, Answered
  <2> QED  BY <2>4, <2>5, Zenon
<1> QED  BY <1>4, <1>5, <1>6

(* PINGs that come in and are read. *)
LEMMA PingStep ==
  ASSUME TypeOK, PongInv, LlcmRecv \/ DxsPings \/ DxsAcks
  PROVE  PongInv'
<1> DEFINE q == ring \o overflow
           r == Answering \o reverse
<1>1. PICK taken, sent \in Nat : Answered(taken, sent)  BY DEF PongInv
<1>2. /\ r \in Seq(Messages) /\ reverse \in Seq(Messages) /\ pings \in Nat
      /\ reverse \in Seq(Pings \cup Acks) /\ Answering \in Seq(Messages)
  BY Parts, LlcmAssumption DEF TypeOK
<1>3. /\ taken <= sent /\ sent <= pings /\ Run(q, taken, sent) /\ Run(r, sent, pings)
  BY <1>1 DEF Answered
<1>4. CASE LlcmRecv
  <2>1. /\ pc = "recv" /\ reverse # <<>> /\ reverse' = Tail(reverse)
        /\ ring' \o overflow' = q /\ pings' = pings
    BY <1>4 DEF LlcmRecv, peer
  <2>2. r = reverse  BY <1>2, <2>1, ConcatEmptySeq DEF Answering
  <2>3. Head(reverse) \in Pings \cup Acks /\ Tail(reverse) \in Seq(Messages)
    BY <1>2, <2>1, HeadTailProperties
  <2>4. CASE Head(reverse)[1] = "ping"
    <3>1. Head(reverse) \in Pings  BY Zenon, <2>3, <2>4 DEF Acks, Pings
    <3>2. PingOrPong(Head(reverse))  BY <3>1, MessageKinds
    <3>3. /\ sent < pings /\ Head(reverse)[2] = sent + 1
          /\ Run(Tail(reverse), sent + 1, pings)
      BY <1>2, <1>3, <2>1, <2>2, <3>2, RunTail, Zenon
    <3>4. pc' = "pong" /\ message' = <<"pong", Head(reverse)[2]>>  BY <1>4, <2>4 DEF LlcmRecv
    <3>5. message' \in Messages  BY <3>1, <3>4 DEF Pings, Pongs, Outgoing, Messages
    <3>6. PingOrPong(message') /\ message'[2] = sent + 1  BY <3>3, <3>4 DEF PingOrPong
    <3>7. Run(<<message'>>, sent, sent + 1)  BY <3>6, RunOne
    <3>8. sent + 1 \in Nat /\ sent <= sent + 1 /\ sent + 1 <= pings  BY <1>2, <3>3
    <3>9. <<message'>> \in Seq(Messages)  BY <3>5
    <3>10. Run(<<message'>> \o Tail(reverse), sent, pings)
      BY <1>2, <2>3, <3>3, <3>7, <3>8, <3>9, RunConcat, Zenon
    <3>11. Answering' \o reverse' = <<message'>> \o Tail(reverse)  BY <2>1, <3>4 DEF Answering
    <3> QED  BY <1>3, <2>1, <3>10, <3>11, Zenon DEF PongInv, Answered
  <2>5. CASE Head(reverse)[1] # "ping"
    <3>1. Head(reverse) \in Acks  BY Zenon, <2>3, <2>5 DEF Acks, Pings
    <3>2. ~PingOrPong(Head(reverse))  BY <3>1, MessageKinds
    <3>3. Run(Tail(reverse), sent, pings)  BY <1>2, <1>3, <2>1, <2>2, <3>2, RunTail, SMTT(30)
    <3>4. pc' = "recv"  BY <1>4, <2>1, <2>5 DEF LlcmRecv
    <3>5. Answering' \o reverse' = Tail(reverse)
      BY <2>1, <2>3, <3>4, ConcatEmptySeq DEF Answering
    <3> QED  BY <1>3, <2>1, <3>3, <3>5, Zenon DEF PongInv, Answered
  <2> QED  BY <2>4, <2>5
<1>5. CASE DxsPings
  <2>1. /\ pings' = pings + 1 /\ reverse' = Append(reverse, <<"ping", pings + 1>>)
        /\ pings < MaxPings /\ ring' \o overflow' = q /\ Answering' = Answering
    BY <1>5 DEF DxsPings, Answering
  <2>2. <<"ping", pings + 1>> \in Messages
    <3>1. pings + 1 \in 1 .. MaxPings  BY <1>2, <2>1, LlcmAssumption
    <3> QED  BY Zenon, <3>1, Kinds DEF Messages
  <2>3. Answering' \o reverse' = Append(r, <<"ping", pings + 1>>)
    BY <1>2, <2>1, <2>2, AppendConcat, SMTT(30)
  <2>4. PingOrPong(<<"ping", pings + 1>>) /\ <<"ping", pings + 1>>[2] = pings + 1
    BY DEF PingOrPong
  <2>5. Run(Append(r, <<"ping", pings + 1>>), sent, pings + 1)
    BY <1>2, <1>3, <2>2, <2>4, RunAppend, Zenon
  <2>6. sent <= pings + 1  BY <1>2, <1>3
  <2> QED  BY <1>3, <2>1, <2>3, <2>5, <2>6, Zenon DEF PongInv, Answered
<1>6. CASE DxsAcks
  <2>1. /\ pings' = pings /\ reverse' = Append(reverse, <<"ack", acks + 1>>)
        /\ acks < MaxAcks /\ ring' \o overflow' = q /\ Answering' = Answering
    BY <1>6 DEF DxsAcks, Answering
  <2>2. <<"ack", acks + 1>> \in Messages
    <3>1. acks \in Nat  BY DEF TypeOK
    <3> QED  BY <2>1, <3>1, LlcmAssumption, Kinds DEF Messages
  <2>3. Answering' \o reverse' = Append(r, <<"ack", acks + 1>>)
    BY <1>2, <2>1, <2>2, AppendConcat, SMTT(30)
  <2>4. ~PingOrPong(<<"ack", acks + 1>>)  BY DEF PingOrPong
  <2>5. Run(Append(r, <<"ack", acks + 1>>), sent, pings)
    BY <1>2, <1>3, <2>2, <2>4, RunAppend, Zenon
  <2> QED  BY <1>3, <2>1, <2>3, <2>5, Zenon DEF PongInv, Answered
<1> QED  BY <1>4, <1>5, <1>6

(* The steps that move no message. *)
LEMMA OtherStep ==
  ASSUME TypeOK, Sending, PongInv,
         \/ \E t \in Threads : SendControlMessage(t) \/ RxPoll(t) \/ Shutdown(t)
         \/ RxPollReceives \/ RxPollReturns \/ ShutdownReturns \/ UNCHANGED vars
  PROVE  PongInv'
<1>1. ring' = ring /\ overflow' = overflow /\ reverse' = reverse /\ pings' = pings
  BY SMTT(30) DEF SendControlMessage, RxPoll, Shutdown, RxPollReceives, RxPollReturns, ShutdownReturns,
         vars, peer
<1>2. Answering' = Answering
  BY DEF SendControlMessage, RxPoll, Shutdown, RxPollReceives, RxPollReturns, ShutdownReturns,
         vars, Answering, Lock, Unlock, TypeOK
<1> QED  BY <1>1, <1>2, SMTT(30) DEF PongInv, Answered

LEMMA SendingStep == TypeOK /\ Sending /\ [Next]_vars => Sending'
<1> SUFFICES ASSUME TypeOK, Sending, [Next]_vars  PROVE Sending'  BY Zenon
<1>1. ASSUME NEW t \in Threads, SendControlMessage(t)  PROVE Sending'
  <2>1. pc' = "send" /\ message' = <<"send", sends + 1>> /\ sends + 1 \in 1 .. MaxSends
    BY <1>1, LlcmAssumption DEF SendControlMessage, Lock, TypeOK
  <2> QED  BY <2>1 DEF Sending, Commands
<1>2. CASE LlcmRecv
  <2>1. CASE Head(reverse)[1] = "ping"
    <3>1. Head(reverse) \in Pings \cup Acks  BY <1>2, HeadTailProperties DEF LlcmRecv, TypeOK
    <3>2. Head(reverse) \in Pings  BY Zenon, <2>1, <3>1 DEF Acks, Pings
    <3>3. pc' = "pong" /\ message' = <<"pong", Head(reverse)[2]>>  BY <1>2, <2>1 DEF LlcmRecv
    <3> QED  BY <3>2, <3>3 DEF Sending, Pings, Pongs
  <2>2. CASE Head(reverse)[1] # "ping"  BY <1>2, <2>2, SMTT(30) DEF LlcmRecv, Sending
  <2> QED  BY <2>1, <2>2
<1>3. CASE \/ \E t \in Threads : RxPoll(t) \/ Shutdown(t)
           \/ TrySendLlcmOverflow \/ LlcmSendQueues \/ LlcmSendDirect
           \/ RxPollReceives \/ RxPollReturns \/ ShutdownReturns
           \/ DxsTakes \/ DxsPings \/ DxsAcks \/ UNCHANGED vars
  BY <1>3 DEF RxPoll, Shutdown, TrySendLlcmOverflow, LlcmSendQueues, LlcmSendDirect,
              RxPollReceives, RxPollReturns, ShutdownReturns, DxsTakes, DxsPings, DxsAcks,
              SendReturns, Lock, Unlock, vars, Sending
<1> QED  BY <1>1, <1>2, <1>3 DEF Next, LockedStep

(* Every PING that DXS sends is answered once and in order, however many   *)
(* of the PONGs had to wait in overflow_, and whatever was sent between.   *)
THEOREM PingsAnswered == Spec => []EachPingAnsweredOnce
<1>1. Init => Sending /\ PongInv
  <2> SUFFICES ASSUME Init  PROVE Sending /\ PongInv  BY Zenon
  <2>1. ring \o overflow = <<>> /\ Answering \o reverse = <<>>
    BY EmptySeq, ConcatEmptySeq DEF Init, Answering
  <2>2. Run(<<>>, 0, 0)
    <3>1. Len(<<>>) = 0  BY Zenon
    <3> QED  BY <3>1 DEF Run
  <2>3. pings = 0 /\ 0 \in Nat /\ 0 <= 0  BY DEF Init
  <2> QED  BY <2>1, <2>2, <2>3 DEF Init, Sending, PongInv, Answered
<1>2. TypeOK /\ Sending /\ PongInv /\ [Next]_vars => PongInv'
  BY QueueStep, PingStep, OtherStep DEF Next, LockedStep
<1>3. TypeOK /\ PongInv => EachPingAnsweredOnce
  <2> SUFFICES ASSUME TypeOK, PongInv  PROVE EachPingAnsweredOnce  BY Zenon
  <2>1. PICK taken, sent \in Nat : Answered(taken, sent)  BY DEF PongInv
  <2>2. pings \in Nat /\ taken \in 0 .. pings /\ taken <= sent /\ sent <= pings
    BY <2>1, LlcmAssumption DEF Answered, TypeOK
  <2>3. Run((ring \o overflow) \o (Answering \o reverse), taken, pings)
    BY <2>1, <2>2, Parts, RunConcat, Zenon DEF Answered
  <2> QED  BY <2>2, <2>3 DEF EachPingAnsweredOnce
<1> QED  BY <1>1, <1>2, <1>3, TypeCorrect, SendingStep, PTL DEF Spec
=============================================================================
