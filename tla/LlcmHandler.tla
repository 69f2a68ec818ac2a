----------------------------- MODULE LlcmHandler -----------------------------
(***************************************************************************)
(* LlcmHandler: the low-latency control channel of a client.  Commands of  *)
(* the data path go through a pair of rings shared with DXS (llcmq_, see   *)
(* SpscQueue); what does not fit waits in overflow_ until the next send or *)
(* poll.  A PING that DXS sends is answered here with a PONG, behind what  *)
(* is already queued.                                                      *)
(*                                                                         *)
(* Every operation holds mutex_ from its first line to its last, across    *)
(* the calls to the receiver and, in Shutdown, across the shutdown of the  *)
(* SCTP handler.  DXS reads and writes the rings at any time, so a step is *)
(* one operation on a ring.                                                *)
(*                                                                         *)
(* All messages of this path are smaller than kMaxMessageSize, and DXS     *)
(* follows the ring's protocol, so llcmq_ answers kOk, kResourceExhausted  *)
(* (Send) or kUnavailable (Receive) and nothing else.                      *)
(***************************************************************************)
EXTENDS Naturals, Sequences

CONSTANTS Threads,     \* application threads
          Capacity,    \* messages a ring holds
          kBatchSize,  \* messages one RxPoll receives at most
          MaxSends,    \* bound on the messages the application sends
          MaxPings,    \* bound on the PINGs DXS sends
          MaxAcks,     \* bound on the other messages DXS sends
          NoThread, NoMessage

ASSUME LlcmAssumption == /\ Capacity \in Nat \ {0} /\ kBatchSize \in Nat \ {0}
                         /\ MaxSends \in Nat /\ MaxPings \in Nat /\ MaxAcks \in Nat
                         /\ NoThread \notin Threads

Commands == {"send"} \X (1 .. MaxSends)
Pings == {"ping"} \X (1 .. MaxPings)
Pongs == {"pong"} \X (1 .. MaxPings)
Acks == {"ack"} \X (1 .. MaxAcks)
Outgoing == Commands \cup Pongs

ASSUME NoMessageAssumption == NoMessage \notin Outgoing \cup Acks

VARIABLES
  mutex,      \* the thread that holds mutex_, or NoThread
  pc,         \* what the holder is doing
  message,    \* the message it is sending
  left,       \* receives left in this RxPoll
  overflow,   \* overflow_
  ring,       \* llcmq_, towards DXS
  reverse,    \* llcmq_, from DXS
  sends, pings, acks,  \* messages sent so far by each source
  out,        \* the message DXS took last
  received    \* the message handed to the receiver last

peer == <<pings, acks>>
vars == <<mutex, pc, message, left, overflow, ring, reverse, sends, peer, out, received>>

Init ==
  /\ mutex = NoThread /\ pc = "unlocked" /\ message = NoMessage /\ left = 0
  /\ overflow = <<>> /\ ring = <<>> /\ reverse = <<>>
  /\ sends = 0 /\ pings = 0 /\ acks = 0
  /\ out = NoMessage /\ received = NoMessage

Lock(t, job) == /\ mutex = NoThread /\ mutex' = t /\ pc' = job

Unlock == /\ mutex' = NoThread /\ pc' = "unlocked"
          /\ message' = NoMessage /\ left' = 0

HasRoom == Len(ring) < Capacity

-----------------------------------------------------------------------------
(* LlcmSend: under mutex_, first the overflow, then the message. *)
SendControlMessage(t) ==
  /\ sends < MaxSends
  /\ Lock(t, "send")
  /\ sends' = sends + 1 /\ message' = <<"send", sends'>>
  /\ UNCHANGED <<left, overflow, ring, reverse, peer, out, received>>

(* TrySendLlcmOverflow, one turn of its loop that succeeds. *)
TrySendLlcmOverflow ==
  /\ pc \in {"send", "pong", "poll"}
  /\ overflow # <<>> /\ HasRoom
  /\ ring' = Append(ring, Head(overflow)) /\ overflow' = Tail(overflow)
  /\ UNCHANGED <<mutex, pc, message, left, reverse, sends, peer, out, received>>

(* The end of LlcmSendLockHeld: LlcmSend returns, LlcmRecv goes on. *)
SendReturns ==
  \/ pc = "send" /\ Unlock
  \/ pc = "pong" /\ pc' = "recv" /\ message' = NoMessage /\ UNCHANGED <<mutex, left>>

LlcmSendDropsPong ==                                         \* mutant
  /\ pc \in {"send", "pong"} /\ ~HasRoom
  /\ overflow' = IF pc = "send" THEN Append(overflow, message) ELSE overflow
  /\ SendReturns
  /\ UNCHANGED <<ring, reverse, sends, peer, out, received>>

(* The ring is exhausted, by the overflow or by the message itself. *)
LlcmSendQueues ==
  /\ pc \in {"send", "pong"} /\ ~HasRoom
  /\ overflow' = Append(overflow, message)
  /\ SendReturns
  /\ UNCHANGED <<ring, reverse, sends, peer, out, received>>

LlcmSendDirectFirst ==                                       \* mutant
  /\ pc \in {"send", "pong"} /\ HasRoom
  /\ ring' = Append(ring, message)
  /\ SendReturns
  /\ UNCHANGED <<overflow, reverse, sends, peer, out, received>>

LlcmSendDirect ==
  /\ pc \in {"send", "pong"} /\ overflow = <<>> /\ HasRoom
  /\ ring' = Append(ring, message)
  /\ SendReturns
  /\ UNCHANGED <<overflow, reverse, sends, peer, out, received>>

-----------------------------------------------------------------------------
RxPollSkipsOverflow(t) ==                                    \* mutant
  /\ Lock(t, "recv") /\ left' = kBatchSize
  /\ UNCHANGED <<message, overflow, ring, reverse, sends, peer, out, received>>

(* RxPoll: the overflow, then up to kBatchSize messages. *)
RxPoll(t) ==
  /\ Lock(t, "poll") /\ left' = kBatchSize
  /\ UNCHANGED <<message, overflow, ring, reverse, sends, peer, out, received>>

RxPollReceives ==
  /\ pc = "poll" /\ (overflow = <<>> \/ ~HasRoom)
  /\ pc' = "recv"
  /\ UNCHANGED <<mutex, message, left, overflow, ring, reverse, sends, peer, out, received>>

(* LlcmRecv: a PING is answered, anything else goes to the receiver. *)
LlcmRecv ==
  /\ pc = "recv" /\ left > 0 /\ reverse # <<>>
  /\ left' = left - 1 /\ reverse' = Tail(reverse)
  /\ LET m == Head(reverse)
     IN IF m[1] = "ping" THEN /\ pc' = "pong" /\ message' = <<"pong", m[2]>>
                              /\ UNCHANGED received
                         ELSE /\ received' = m
                              /\ UNCHANGED <<pc, message>>
  /\ UNCHANGED <<mutex, overflow, ring, sends, peer, out>>

RxPollReturns ==
  /\ pc = "recv" /\ (left = 0 \/ reverse = <<>>)
  /\ Unlock
  /\ UNCHANGED <<overflow, ring, reverse, sends, peer, out, received>>

-----------------------------------------------------------------------------
(* Shutdown of the SCTP handler, which returns at its timeout at the latest. *)
Shutdown(t) ==
  /\ Lock(t, "shutdown")
  /\ UNCHANGED <<message, left, overflow, ring, reverse, sends, peer, out, received>>

ShutdownReturns ==
  /\ pc = "shutdown" /\ Unlock
  /\ UNCHANGED <<overflow, ring, reverse, sends, peer, out, received>>

-----------------------------------------------------------------------------
(* DXS takes a message from one ring and puts messages into the other. *)
DxsTakes ==
  /\ ring # <<>>
  /\ out' = Head(ring) /\ ring' = Tail(ring)
  /\ UNCHANGED <<mutex, pc, message, left, overflow, reverse, sends, peer, received>>

DxsPings ==
  /\ pings < MaxPings /\ Len(reverse) < Capacity
  /\ pings' = pings + 1 /\ reverse' = Append(reverse, <<"ping", pings'>>)
  /\ UNCHANGED <<mutex, pc, message, left, overflow, ring, sends, acks, out, received>>

DxsAcks ==
  /\ acks < MaxAcks /\ Len(reverse) < Capacity
  /\ acks' = acks + 1 /\ reverse' = Append(reverse, <<"ack", acks'>>)
  /\ UNCHANGED <<mutex, pc, message, left, overflow, ring, sends, pings, out, received>>

-----------------------------------------------------------------------------
LockedStep == \/ TrySendLlcmOverflow \/ LlcmSendQueues \/ LlcmSendDirect
              \/ RxPollReceives \/ LlcmRecv \/ RxPollReturns \/ ShutdownReturns

Next == \/ \E t \in Threads : SendControlMessage(t) \/ RxPoll(t) \/ Shutdown(t)
        \/ LockedStep
        \/ DxsTakes \/ DxsPings \/ DxsAcks

Spec == Init /\ [][Next]_vars

(* Threads are scheduled.  The application keeps polling (Test and         *)
(* SocketReady call RxPoll) and gets mutex_ now and then among the threads *)
(* that want it.  DXS keeps reading its ring.                              *)
FairSpec == /\ Spec /\ WF_vars(LockedStep) /\ WF_vars(DxsTakes)
            /\ SF_vars(\E t \in Threads : RxPoll(t))

-----------------------------------------------------------------------------
(* Properties *)

(* Type correctness.  Whoever holds mutex_ is in exactly one operation,    *)
(* and nothing of an operation is left over when mutex_ is free.           *)
TypeOK ==
  /\ mutex \in Threads \cup {NoThread}
  /\ pc \in {"unlocked", "send", "pong", "poll", "recv", "shutdown"}
  /\ mutex = NoThread <=> pc = "unlocked"
  /\ message \in Outgoing \cup {NoMessage}
  /\ message = NoMessage <=> pc \notin {"send", "pong"}
  /\ left \in 0 .. kBatchSize
  /\ overflow \in Seq(Outgoing) /\ ring \in Seq(Outgoing)
  /\ Len(ring) <= Capacity
  /\ reverse \in Seq(Pings \cup Acks)
  /\ sends \in 0 .. MaxSends /\ pings \in 0 .. MaxPings /\ acks \in 0 .. MaxAcks
  /\ out \in Outgoing \cup {NoMessage}
  /\ received \in Acks \cup {NoMessage}

(* What DXS takes from the ring is what was sent, in the order in which    *)
(* the sends took mutex_, whether a message went straight into the ring or *)
(* through overflow_, and PONGs among them: LlcmHandler implements         *)
(* MessageChannel.                                                         *)
Channel == INSTANCE MessageChannel
  WITH Messages <- Outgoing, chan <- ring \o overflow
InOrder == Channel!Spec

(* The PINGs and PONGs of s are those numbered lo + 1 to hi, each once and *)
(* in this order, whatever else is between them.                           *)
PingOrPong(m) == m[1] \in {"ping", "pong"}
Run(s, lo, hi) ==
  /\ \A i \in 1 .. Len(s) : PingOrPong(s[i]) => s[i][2] \in lo + 1 .. hi
  /\ \A n \in lo + 1 .. hi : \E i \in 1 .. Len(s) : PingOrPong(s[i]) /\ s[i][2] = n
  /\ \A i, j \in 1 .. Len(s) :
       i < j /\ PingOrPong(s[i]) /\ PingOrPong(s[j]) => s[i][2] < s[j][2]

(* Every PING is answered once and in order: the PONGs queued towards DXS, *)
(* the PONG being sent and the PINGs not yet read are an unbroken run that *)
(* ends with the last PING (LlcmRecv, 89-103).                             *)
Answering == IF pc = "pong" THEN <<message>> ELSE <<>>
EachPingAnsweredOnce ==
  \E taken \in 0 .. pings : Run((ring \o overflow) \o (Answering \o reverse), taken, pings)

(* A message that was sent reaches DXS even when the ring was full: the    *)
(* next send or RxPoll empties overflow_ (TrySendLlcmOverflow).            *)
SendsArrive == \A m \in Commands : (message = m) ~> (out = m)
=============================================================================
