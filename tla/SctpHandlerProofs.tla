--------------------------- MODULE SctpHandlerProofs ---------------------------
(***************************************************************************)
(* Proofs about SctpHandler, for any set of polling threads and any number *)
(* of messages.  The inductive invariant adds to BufferHasOwner that at    *)
(* most one thread is inside the receive loop and that exactly the threads *)
(* with a message left to deliver have a batch.                            *)
(***************************************************************************)
EXTENDS SctpHandler, SequenceTheorems, TLAPS

OneReceiver == \A t, u \in Threads : Receiving(t) /\ Receiving(u) => t = u

BatchOK == \A t \in Threads : batch[t] # <<>> <=> pc[t] \in {"deliver", "call"}

IInv == TypeOK /\ OneReceiver /\ BatchOK /\ BufferHasOwner

-----------------------------------------------------------------------------
(* Types *)

(* SubSeq of a stream of messages is a sequence of messages. *)
LEMMA Cut ==
  ASSUME NEW s \in Seq(Messages), NEW k \in 0 .. Len(s)
  PROVE  /\ SubSeq(s, 1, k) \in Seq(Messages)
         /\ SubSeq(s, k + 1, Len(s)) \in Seq(Messages)
         /\ SubSeq(s, 1, k) \o SubSeq(s, k + 1, Len(s)) = s
<1>1. \A i \in 1 .. Len(s) : s[i] \in Messages  BY ElementOfSeq, Zenon
<1>2. Len(s) \in Nat  BY LenProperties, Zenon
<1>3. SubSeq(s, 1, k) \in Seq(Messages)  BY <1>1, <1>2, SubSeqProperties
<1>4. SubSeq(s, k + 1, Len(s)) \in Seq(Messages)  BY <1>1, <1>2, SubSeqProperties
<1>5. SubSeq(s, 1, k) \o SubSeq(s, k + 1, Len(s)) = SubSeq(s, 1, Len(s))
  <2>1. 1 \in 1 .. Len(s) + 1 /\ k \in 1 - 1 .. Len(s) /\ Len(s) \in k .. Len(s)
    BY <1>2
  <2> QED  BY Zenon, <2>1, ConcatAdjacentSubSeq
<1>6. SubSeq(s, 1, Len(s)) = s  BY SubSeqFull, Zenon
<1> QED  BY Zenon, <1>3, <1>4, <1>5, <1>6

(* The initial state satisfies the invariant. *)
LEMMA Initially == Init => IInv
<1> SUFFICES ASSUME Init PROVE IInv  BY Zenon
<1> USE ThreadsAssumption DEF Init
<1>1. TypeOK
  <2>1. <<>> \in Seq(Messages)  BY EmptySeq, Zenon
  <2>2. batch \in [Threads -> Seq(Messages)]  BY <2>1, Zenon
  <2>3. /\ DOMAIN pc = Threads /\ pc[Handler] = "sleep"
        /\ \A p \in Pollers : pc[p] = "idle"
    BY Zenon DEF Threads
  <2>4. sent \in 0 .. MaxMessages  OBVIOUS
  <2> QED  BY Zenon, <2>1, <2>2, <2>3, <2>4 DEF TypeOK
<1>2. OneReceiver  BY Zenon DEF OneReceiver, Receiving, Threads
<1>3. BatchOK  BY Zenon DEF BatchOK, Threads
<1>4. BufferHasOwner  BY Zenon DEF BufferHasOwner, Receiving, Threads
<1> QED  BY <1>1, <1>2, <1>3, <1>4, Zenon DEF IInv

-----------------------------------------------------------------------------
(* The receive path *)

(* A thread that was outside the loop takes a batch: it becomes the one    *)
(* receiver, which is allowed because there was none.                      *)
LEMMA TakeBatchStep ==
  ASSUME IInv, NEW t \in Threads, NEW buffer \in Seq(Messages), buffer # <<>>,
         \A u \in Threads \ {t} : ~Receiving(u),
         TakeBatch(t, buffer)
  PROVE  /\ OneReceiver' /\ BatchOK' /\ BufferHasOwner'
         /\ receiveBuffer' \in Seq(Messages) /\ batch' \in [Threads -> Seq(Messages)]
         /\ activeReceive' \in BOOLEAN
         /\ DOMAIN pc' = Threads /\ pc'[t] = "deliver"
         /\ \A u \in Threads \ {t} : pc'[u] = pc[u]
<1> USE DEF TakeBatch
<1>1. DOMAIN pc = Threads /\ batch \in [Threads -> Seq(Messages)]  BY Zenon DEF IInv, TypeOK
<1>2. /\ DOMAIN pc' = Threads /\ pc'[t] = "deliver"
      /\ \A u \in Threads \ {t} : pc'[u] = pc[u]
  BY <1>1, Zenon
<1>3. receiveBuffer' \in Seq(Messages)  BY EmptySeq, Zenon
<1>4. batch' \in [Threads -> Seq(Messages)] /\ batch'[t] = buffer
      /\ \A u \in Threads \ {t} : batch'[u] = batch[u]
  BY <1>1, Zenon
<1>5. OneReceiver'  BY <1>2 DEF OneReceiver, Receiving
<1>6. BatchOK'  BY <1>2, <1>4 DEF IInv, BatchOK
<1>7. BufferHasOwner'  BY <1>2, Zenon DEF BufferHasOwner, Receiving
<1> QED  BY <1>2, <1>3, <1>4, <1>5, <1>6, <1>7, Zenon

(* ReadSocket by a thread outside the loop: the thread either leaves the   *)
(* messages to the active receiver or becomes the receiver itself.         *)
LEMMA ReadSocketStep ==
  ASSUME IInv, NEW t \in Threads, ~Receiving(t), ReadSocket(t),
         UNCHANGED <<closer, out, failed, running>>,
         shuttingDown' \in BOOLEAN, cleanShutdown' \in BOOLEAN
  PROVE  IInv'
<1> USE ThreadsAssumption
<1>1. PICK k \in 0 .. MaxMessages, up \in BOOLEAN :
        /\ Received(k, up)
        /\ LET buffer == receiveBuffer \o SubSeq(stream, 1, k)
           IN \/ /\ activeReceive \/ buffer = <<>>
                 /\ ReadReturns(t, up)
                 /\ receiveBuffer' = buffer
                 /\ UNCHANGED <<activeReceive, batch>>
              \/ /\ ~activeReceive /\ buffer # <<>>
                 /\ TakeBatch(t, buffer) /\ connected' = up
  BY Zenon DEF ReadSocket
<1> DEFINE buffer == receiveBuffer \o SubSeq(stream, 1, k)
<1>2. /\ stream \in Seq(Messages) /\ receiveBuffer \in Seq(Messages)
      /\ connected \in BOOLEAN /\ DOMAIN pc = Threads
      /\ batch \in [Threads -> Seq(Messages)]
  BY Zenon DEF IInv, TypeOK
<1>3. k \in 0 .. Len(stream)
  <2>1. Len(stream) \in Nat  BY <1>2, LenProperties, Zenon
  <2> QED  BY <1>1, <2>1 DEF Received
<1>4. SubSeq(stream, 1, k) \in Seq(Messages) /\ stream' \in Seq(Messages) /\ sent' = sent
  BY <1>1, <1>2, <1>3, Cut, Zenon DEF Received
<1>5. buffer \in Seq(Messages)  BY <1>2, <1>4, ConcatProperties, Zenon
<1> HIDE DEF buffer
<1>6. CASE /\ activeReceive \/ buffer = <<>>
           /\ ReadReturns(t, up)
           /\ receiveBuffer' = buffer
           /\ UNCHANGED <<activeReceive, batch>>
  <2>1. /\ DOMAIN pc' = Threads /\ ~(Receiving(t)')
        /\ \A u \in Threads \ {t} : pc'[u] = pc[u]
        /\ t = Handler => pc'[t] \in {"sleep", "cleanup"}
        /\ t # Handler => pc'[t] = "idle"
        /\ connected' \in BOOLEAN
    BY Zenon, <1>2, <1>6 DEF ReadReturns, Receiving
  <2>2. \A u \in Threads : Receiving(u)' <=> Receiving(u)  BY <2>1, Zenon DEF Receiving
  <2>3. OneReceiver'  BY <2>2, Zenon DEF IInv, OneReceiver
  <2>4. BatchOK'
    <3>1. batch[t] = <<>> /\ batch' = batch  BY <1>6, Zenon DEF IInv, BatchOK, Receiving
    <3>2. pc'[t] \notin {"deliver", "call"}  BY <2>1, Zenon DEF Receiving
    <3> QED  BY <2>1, <3>1, <3>2, Zenon DEF IInv, BatchOK
  <2>5. BufferHasOwner'  BY <1>6, <2>2, Zenon DEF IInv, BufferHasOwner
  <2>6. TypeOK'  BY Zenon, <1>2, <1>4, <1>5, <1>6, <2>1 DEF IInv, TypeOK, Threads
  <2> QED  BY <2>3, <2>4, <2>5, <2>6, Zenon DEF IInv
<1>7. CASE ~activeReceive /\ buffer # <<>> /\ TakeBatch(t, buffer) /\ connected' = up
  <2>1. \A u \in Threads \ {t} : ~Receiving(u)
    BY <1>7, Zenon DEF IInv, BufferHasOwner
  <2>2. /\ OneReceiver' /\ BatchOK' /\ BufferHasOwner'
        /\ receiveBuffer' \in Seq(Messages) /\ batch' \in [Threads -> Seq(Messages)]
        /\ activeReceive' \in BOOLEAN
        /\ DOMAIN pc' = Threads /\ pc'[t] = "deliver"
        /\ \A u \in Threads \ {t} : pc'[u] = pc[u]
    BY <1>5, <1>7, <2>1, TakeBatchStep, Zenon
  <2>3. TypeOK'  BY Zenon, <1>4, <1>7, <2>2 DEF IInv, TypeOK, Threads
  <2> QED  BY <2>2, <2>3, Zenon DEF IInv
<1> QED  BY Zenon, <1>1, <1>6, <1>7 DEF buffer

(* Starting and finishing a call does not change who the receiver is. *)
LEMMA DeliverStep ==
  ASSUME IInv, NEW t \in Threads, Deliver(t) \/ Delivered(t)
  PROVE  IInv'
<1> USE ThreadsAssumption
<1>1. /\ DOMAIN pc = Threads /\ batch \in [Threads -> Seq(Messages)]
      /\ batch[t] # <<>> /\ Receiving(t)
  BY Zenon DEF IInv, TypeOK, BatchOK, Deliver, Delivered, Receiving
<1>2. /\ Head(batch[t]) \in Messages /\ Tail(batch[t]) \in Seq(Messages)
      /\ Len(batch[t]) \in Nat /\ Len(Tail(batch[t])) = Len(batch[t]) - 1
  BY <1>1, HeadTailProperties, LenProperties, Zenon
<1>3. CASE Deliver(t)
  <2>1. DOMAIN pc' = Threads /\ pc'[t] = "call"
        /\ \A u \in Threads \ {t} : pc'[u] = pc[u]
    BY <1>1, <1>3, Zenon DEF Deliver
  <2>2. \A u \in Threads : Receiving(u)' <=> Receiving(u)
    BY <1>1, <2>1, Zenon DEF Receiving
  <2>3. TypeOK'  BY <1>2, <1>3, <2>1 DEF IInv, TypeOK, Deliver, receive, flags, wire, Threads
  <2>4. OneReceiver' /\ BufferHasOwner'
    BY <1>3, <2>2, Zenon DEF IInv, OneReceiver, BufferHasOwner, Deliver, receive
  <2>5. BatchOK'  BY <1>1, <1>3, <2>1, Zenon DEF IInv, BatchOK, Deliver, receive
  <2> QED  BY <2>3, <2>4, <2>5, Zenon DEF IInv
<1>4. CASE Delivered(t)
  <2>1. /\ DOMAIN pc' = Threads
        /\ pc'[t] = IF Len(batch[t]) = 1 THEN "relock" ELSE "deliver"
        /\ \A u \in Threads \ {t} : pc'[u] = pc[u]
    BY <1>1, <1>4, Zenon DEF Delivered
  <2>2. \A u \in Threads : Receiving(u)' <=> Receiving(u)
    BY <1>1, <2>1, Zenon DEF Receiving
  <2>3. /\ batch' \in [Threads -> Seq(Messages)] /\ batch'[t] = Tail(batch[t])
        /\ \A u \in Threads \ {t} : batch'[u] = batch[u]
    BY <1>1, <1>2, <1>4, Zenon DEF Delivered
  <2>4. Tail(batch[t]) = <<>> <=> Len(batch[t]) = 1
    <3> DEFINE rest == Tail(batch[t])
    <3>1. Len(<<>>) = 0  BY EmptySeq, Zenon
    <3>2. rest # <<>> => Len(rest) \in Nat \ {0}  BY Zenon, <1>2, EmptySeq
    <3>3. Len(rest) = Len(batch[t]) - 1 /\ Len(batch[t]) \in Nat  BY <1>2, Zenon
    <3> HIDE DEF rest
    <3>4. rest = <<>> <=> Len(rest) = 0  BY <3>1, <3>2, Zenon
    <3>5. Len(rest) = 0 <=> Len(batch[t]) = 1  BY <3>3
    <3> QED  BY <3>4, <3>5, Zenon DEF rest
  <2>5. TypeOK'  BY <1>4, <2>1, <2>3 DEF IInv, TypeOK, Delivered, flags, wire, Threads
  <2>6. OneReceiver' /\ BufferHasOwner'
    BY <1>4, <2>2, Zenon DEF IInv, OneReceiver, BufferHasOwner, Delivered
  <2>7. BatchOK'  BY Zenon, <2>1, <2>3, <2>4 DEF IInv, BatchOK
  <2> QED  BY <2>5, <2>6, <2>7, Zenon DEF IInv
<1> QED  BY <1>3, <1>4, Zenon

(* The receiver either takes what was buffered meanwhile or gives up the   *)
(* role, and then nothing is left behind.                                  *)
LEMMA RelockStep ==
  ASSUME IInv, NEW t \in Threads, Relock(t)
  PROVE  IInv'
<1> USE ThreadsAssumption
<1>1. /\ DOMAIN pc = Threads /\ batch \in [Threads -> Seq(Messages)]
      /\ receiveBuffer \in Seq(Messages) /\ connected \in BOOLEAN
      /\ Receiving(t) /\ batch[t] = <<>>
  BY Zenon DEF IInv, TypeOK, BatchOK, Relock, Receiving
<1>2. \A u \in Threads \ {t} : ~Receiving(u)
  BY <1>1, Zenon DEF IInv, OneReceiver
<1>3. CASE /\ receiveBuffer = <<>>
           /\ ReadReturns(t, connected) /\ activeReceive' = FALSE
           /\ UNCHANGED <<receiveBuffer, batch>>
  <2>1. /\ DOMAIN pc' = Threads /\ ~(Receiving(t)')
        /\ \A u \in Threads \ {t} : pc'[u] = pc[u]
        /\ t = Handler => pc'[t] \in {"sleep", "cleanup"}
        /\ t # Handler => pc'[t] = "idle"
        /\ connected' \in BOOLEAN
    BY Zenon, <1>1, <1>3 DEF ReadReturns, Receiving
  <2>2. \A u \in Threads : ~(Receiving(u)')  BY <1>2, <2>1, Zenon DEF Receiving
  <2>3. OneReceiver' /\ BufferHasOwner'
    BY <1>3, <2>2, Zenon DEF OneReceiver, BufferHasOwner
  <2>4. BatchOK'
    <3>1. pc'[t] \notin {"deliver", "call"}  BY <2>1, Zenon DEF Receiving
    <3> QED  BY <1>1, <1>3, <2>1, <3>1, Zenon DEF IInv, BatchOK
  <2>5. TypeOK'
    BY Zenon, <1>1, <1>3, <2>1 DEF IInv, TypeOK, Relock, flags, wire, Threads
  <2> QED  BY <2>3, <2>4, <2>5, Zenon DEF IInv
<1>4. CASE receiveBuffer # <<>> /\ TakeBatch(t, receiveBuffer) /\ UNCHANGED connected
  <2>1. /\ OneReceiver' /\ BatchOK' /\ BufferHasOwner'
        /\ receiveBuffer' \in Seq(Messages) /\ batch' \in [Threads -> Seq(Messages)]
        /\ activeReceive' \in BOOLEAN
        /\ DOMAIN pc' = Threads /\ pc'[t] = "deliver"
        /\ \A u \in Threads \ {t} : pc'[u] = pc[u]
    BY <1>1, <1>2, <1>4, TakeBatchStep, Zenon
  <2>2. TypeOK'
    BY Zenon, <1>4, <2>1 DEF IInv, TypeOK, Relock, flags, wire, Threads
  <2> QED  BY <2>1, <2>2, Zenon DEF IInv
<1> QED  BY Zenon, <1>3, <1>4 DEF Relock

-----------------------------------------------------------------------------
(* Everything else leaves the receive path alone *)

(* A step that keeps the receive state, and moves no thread into or out of *)
(* the loop, keeps what the invariant says about it.                       *)
LEMMA ReceiveFrame ==
  ASSUME IInv, UNCHANGED receive, DOMAIN pc' = Threads,
         \A t \in Threads : pc'[t] = pc[t] \/ (~Receiving(t) /\ ~(Receiving(t)'))
  PROVE  OneReceiver' /\ BatchOK' /\ BufferHasOwner'
<1>1. \A t \in Threads : Receiving(t)' <=> Receiving(t)  BY Zenon DEF Receiving
<1>2. OneReceiver'  BY <1>1, Zenon DEF IInv, OneReceiver
<1>3. BufferHasOwner'  BY <1>1, Zenon DEF IInv, BufferHasOwner, receive
<1>4. BatchOK'
  <2> SUFFICES ASSUME NEW t \in Threads
               PROVE  batch'[t] # <<>> <=> pc'[t] \in {"deliver", "call"}
    BY Zenon DEF BatchOK
  <2>1. batch'[t] = batch[t]  BY Zenon DEF receive
  <2>2. pc'[t] \in {"deliver", "call"} <=> pc[t] \in {"deliver", "call"}
    BY Zenon DEF Receiving
  <2> QED  BY <2>1, <2>2, Zenon DEF IInv, BatchOK
<1> QED  BY <1>2, <1>3, <1>4, Zenon

LEMMA OtherSteps ==
  ASSUME IInv,
         \/ PeerSend \/ HandlerStops \/ HandlerCleanup \/ CloserReturns
         \/ \E accepted \in BOOLEAN : SendControlMessage(accepted)
         \/ \E as \in {"shutdown", "destructor"} : ShutdownBegins(as)
  PROVE  IInv'
<1> USE ThreadsAssumption
<1>1. DOMAIN pc = Threads /\ stream \in Seq(Messages) /\ sent \in 0 .. MaxMessages
  BY Zenon DEF IInv, TypeOK
<1>2. UNCHANGED receive
  BY Zenon DEF PeerSend, HandlerStops, HandlerCleanup, CloserReturns, ShutdownReturns,
         ShutdownTimesOut, Destroyed, SendControlMessage, ShutdownBegins
<1>3. /\ DOMAIN pc' = Threads
      /\ \A t \in Threads : pc'[t] = pc[t] \/ (~Receiving(t) /\ ~(Receiving(t)'))
  BY <1>1, Zenon DEF PeerSend, HandlerStops, HandlerCleanup, CloserReturns, ShutdownReturns,
              ShutdownTimesOut, Destroyed, SendControlMessage, ShutdownBegins, Receiving
<1>4. OneReceiver' /\ BatchOK' /\ BufferHasOwner'  BY <1>2, <1>3, ReceiveFrame, Zenon
<1>5. TypeOK'
  <2>1. CASE PeerSend
    <3>1. sent' \in Messages  BY <1>1, <2>1 DEF PeerSend, Messages
    <3>2. stream' \in Seq(Messages)  BY <1>1, <2>1, <3>1, AppendProperties, Zenon DEF PeerSend
    <3> QED  BY <1>2, <2>1, <3>1, <3>2 DEF IInv, TypeOK, PeerSend, receive, flags, Messages
  <2>2. CASE HandlerStops \/ HandlerCleanup
    BY Zenon, <1>1, <2>2 DEF IInv, TypeOK, HandlerStops, HandlerCleanup, receive, flags, wire,
                      Threads
  <2>3. CASE CloserReturns
    BY Zenon, <2>3 DEF IInv, TypeOK, CloserReturns, ShutdownReturns, ShutdownTimesOut,
                Destroyed, Returned, receive, flags, wire
  <2>4. CASE \E accepted \in BOOLEAN : SendControlMessage(accepted)
    BY <2>4 DEF IInv, TypeOK, SendControlMessage, receive, flags, wire
  <2>5. CASE \E as \in {"shutdown", "destructor"} : ShutdownBegins(as)
    BY Zenon, <2>5 DEF IInv, TypeOK, ShutdownBegins, receive, wire
  <2> QED  BY <2>1, <2>2, <2>3, <2>4, <2>5, Zenon
<1> QED  BY <1>4, <1>5, Zenon DEF IInv

(* The invariant is inductive: one case per action of Next. *)
LEMMA Inductive == IInv /\ [Next]_vars => IInv'
<1> SUFFICES ASSUME IInv, [Next]_vars PROVE IInv'  BY Zenon
<1>1. CASE HandlerLoop
  <2>1. /\ Handler \in Threads /\ ~Receiving(Handler)
        /\ shuttingDown' \in BOOLEAN /\ cleanShutdown' \in BOOLEAN
    BY Zenon, <1>1 DEF HandlerLoop, Threads, Receiving
  <2> QED  BY <1>1, <2>1, ReadSocketStep, Zenon DEF HandlerLoop
<1>2. ASSUME NEW p \in Pollers, RxPoll(p) PROVE IInv'
  <2>1. /\ p \in Threads /\ ~Receiving(p)
        /\ shuttingDown' \in BOOLEAN /\ cleanShutdown' \in BOOLEAN
    BY <1>2, Zenon DEF RxPoll, Threads, Receiving, flags, IInv, TypeOK
  <2> QED  BY <1>2, <2>1, ReadSocketStep, Zenon DEF RxPoll, flags
<1>3. ASSUME NEW t \in Threads, ReceiveStep(t) PROVE IInv'
  BY <1>3, DeliverStep, RelockStep, Zenon DEF ReceiveStep
<1>4. CASE \/ PeerSend \/ HandlerStops \/ HandlerCleanup \/ CloserReturns
           \/ \E accepted \in BOOLEAN : SendControlMessage(accepted)
           \/ \E as \in {"shutdown", "destructor"} : ShutdownBegins(as)
  BY <1>4, OtherSteps, Zenon
<1>5. CASE UNCHANGED vars
  <2>1. UNCHANGED receive /\ UNCHANGED pc  BY <1>5, Zenon DEF vars, receive
  <2>2. OneReceiver' /\ BatchOK' /\ BufferHasOwner'
    BY <2>1, ReceiveFrame, Zenon DEF IInv, TypeOK
  <2>3. TypeOK'  BY <1>5 DEF IInv, TypeOK, vars, receive, flags, wire
  <2> QED  BY <2>2, <2>3, Zenon DEF IInv
<1> QED  BY <1>1, <1>2, <1>3, <1>4, <1>5, Zenon DEF Next, HandlerStep

LEMMA Invariant == Spec => []IInv
<1> QED  BY Initially, Inductive, PTL DEF Spec

(* Every variable of the handler keeps its type. *)
THEOREM TypeCorrect == Spec => []TypeOK
<1>1. IInv => TypeOK  BY Zenon DEF IInv
<1> QED  BY <1>1, Invariant, PTL

(* However many threads poll, at most one call of ReceiveControlMessage is *)
(* in flight: the contract of ControlMessageReceiverInterface.             *)
THEOREM AtMostOneCall == Spec => []OneOutstandingCall
<1>1. IInv => OneOutstandingCall
  BY Zenon DEF IInv, OneReceiver, OneOutstandingCall, Receiving
<1> QED  BY <1>1, Invariant, PTL

(* A buffered message always has a thread that will look at it again:      *)
(* active_receive_ is never cleared over a non-empty receive_buffer_.      *)
THEOREM NothingStranded == Spec => []BufferHasOwner
<1>1. IInv => BufferHasOwner  BY Zenon DEF IInv
<1> QED  BY <1>1, Invariant, PTL
-----------------------------------------------------------------------------
(* The receive path implements MessageChannel *)

(* The one batch there is, seen from the thread that holds it. *)
TheBatch == /\ \A t \in Threads : batch[t] # <<>> => Batched = Undelivered(t)
            /\ (\A t \in Threads : batch[t] = <<>>) => Batched = <<>>
            /\ Batched \in Seq(Messages)

LEMMA BatchedIs == IInv => TheBatch
<1> SUFFICES ASSUME IInv PROVE TheBatch  BY Zenon
<1>1. \A t, u \in Threads : batch[t] # <<>> /\ batch[u] # <<>> => t = u
  BY Zenon DEF IInv, BatchOK, OneReceiver, Receiving
<1>2. ASSUME NEW t \in Threads, batch[t] # <<>> PROVE Batched = Undelivered(t)
  <2>1. (CHOOSE u \in Threads : batch[u] # <<>>) = t  BY <1>1, <1>2, Zenon
  <2> QED  BY Zenon, <1>2, <2>1 DEF Batched
<1>3. (\A t \in Threads : batch[t] = <<>>) => Batched = <<>>  BY Zenon DEF Batched
<1>4. Batched \in Seq(Messages)
  <2>1. CASE \A t \in Threads : batch[t] = <<>>  BY Zenon, <1>3, <2>1, EmptySeq
  <2>2. CASE \E t \in Threads : batch[t] # <<>>
    <3>1. PICK t \in Threads : batch[t] # <<>>  BY <2>2, Zenon
    <3>2. batch[t] \in Seq(Messages)  BY Zenon DEF IInv, TypeOK
    <3>3. Tail(batch[t]) \in Seq(Messages)  BY <3>1, <3>2, HeadTailProperties, Zenon
    <3> QED  BY <1>2, <3>1, <3>2, <3>3, Zenon DEF Undelivered
  <2> QED  BY <2>1, <2>2, Zenon
<1> QED  BY <1>2, <1>3, <1>4, Zenon DEF TheBatch

LEMMA BatchedIsNext == IInv' => TheBatch'
<1> QED  BY BatchedIs, PTL

(* Taking the head of a concatenation is taking the head of its first part. *)
LEMMA HeadAndTail ==
  ASSUME NEW S, NEW s \in Seq(S), s # <<>>
  PROVE  s = <<Head(s)>> \o Tail(s) /\ Head(s) \in S /\ Tail(s) \in Seq(S)
<1> QED  BY HeadTailProperties, ConcatProperties

LEMMA TailConcat ==
  ASSUME NEW S, NEW s \in Seq(S), NEW r \in Seq(S), s # <<>>
  PROVE  s \o r # <<>> /\ Head(s \o r) = Head(s) /\ Tail(s \o r) = Tail(s) \o r
<1> DEFINE h == Head(s)
           t == Tail(s)
           q == s \o r
<1>1. s = <<h>> \o t /\ h \in S /\ t \in Seq(S)  BY HeadAndTail, Zenon
<1>2. q \in Seq(S) /\ q # <<>> /\ Head(q) = h
  BY EmptySeq, LenProperties, ConcatProperties
<1>3. q = <<Head(q)>> \o Tail(q) /\ Tail(q) \in Seq(S)  BY <1>2, HeadAndTail, Zenon
<1>4. <<h>> \in Seq(S) /\ t \o r \in Seq(S)  BY <1>1, ConcatProperties
<1> HIDE DEF h, t
<1>5. q = <<h>> \o (t \o r)  BY <1>1, <1>4, ConcatAssociative
<1> HIDE DEF q
<1>6. Tail(q) = t \o r  BY <1>2, <1>3, <1>4, <1>5, ConcatSimplifications, SMTT(30)
<1> QED  BY <1>2, <1>6, Zenon DEF h, t, q

LEMMA RegroupMessages == \A s, t, u \in Seq(Messages) : (s \o t) \o u = s \o (t \o u)
<1> QED  BY ConcatAssociative, SMTT(30)

(* A step that moves messages between the socket, the buffer and a batch   *)
(* leaves the queue of undelivered messages as it is.                      *)
LEMMA ReadSocketMoves ==
  ASSUME IInv, IInv', NEW t \in Threads, ~Receiving(t), ReadSocket(t)
  PROVE  Pending' = Pending
<1>1. PICK k \in 0 .. MaxMessages, up \in BOOLEAN :
        /\ Received(k, up)
        /\ LET buffer == receiveBuffer \o SubSeq(stream, 1, k)
           IN \/ /\ activeReceive \/ buffer = <<>>
                 /\ ReadReturns(t, up)
                 /\ receiveBuffer' = buffer
                 /\ UNCHANGED <<activeReceive, batch>>
              \/ /\ ~activeReceive /\ buffer # <<>>
                 /\ TakeBatch(t, buffer) /\ connected' = up
  BY Zenon DEF ReadSocket
<1> DEFINE buffer == receiveBuffer \o SubSeq(stream, 1, k)
           rest == SubSeq(stream, k + 1, Len(stream))
<1>2. /\ stream \in Seq(Messages) /\ receiveBuffer \in Seq(Messages)
      /\ DOMAIN pc = Threads /\ batch \in [Threads -> Seq(Messages)]
      /\ Batched \in Seq(Messages)
  BY BatchedIs, Zenon DEF IInv, TypeOK, TheBatch
<1>3. k \in 0 .. Len(stream)
  <2>1. Len(stream) \in Nat  BY <1>2, LenProperties, Zenon
  <2> QED  BY <1>1, <2>1 DEF Received
<1>4. /\ SubSeq(stream, 1, k) \in Seq(Messages) /\ rest \in Seq(Messages)
      /\ SubSeq(stream, 1, k) \o rest = stream
  BY Zenon, <1>2, <1>3, Cut
<1>5. buffer \in Seq(Messages) /\ buffer \o rest = receiveBuffer \o stream
  <2> DEFINE read == SubSeq(stream, 1, k)
  <2>1. read \in Seq(Messages) /\ rest \in Seq(Messages) /\ read \o rest = stream
    BY Zenon, <1>4
  <2> HIDE DEF read, rest
  <2>2. receiveBuffer \o read \in Seq(Messages)  BY <1>2, <2>1, ConcatProperties
  <2>3. (receiveBuffer \o read) \o rest = receiveBuffer \o (read \o rest)
    <3>1. receiveBuffer \in Seq(Messages)  BY <1>2, Zenon
    <3>2. read \in Seq(Messages)  BY <2>1, Zenon
    <3>3. rest \in Seq(Messages)  BY <2>1, Zenon
    <3> QED  BY <3>1, <3>2, <3>3, RegroupMessages, ZenonT(40)
  <2> QED  BY Zenon, <2>1, <2>2, <2>3 DEF read
<1>6. stream' = rest  BY <1>1, Zenon DEF Received
<1>7. Pending = Batched \o (receiveBuffer \o stream)
  BY <1>2, RegroupMessages, ZenonT(40) DEF Pending
<1> HIDE DEF buffer, rest
<1>8. CASE ReadReturns(t, up) /\ receiveBuffer' = buffer /\ UNCHANGED batch
  <2>1. Batched' = Batched
    <3>1. CASE \A u \in Threads : batch[u] = <<>>
      BY <1>8, <3>1, BatchedIs, BatchedIsNext, SMTT(30) DEF TheBatch
    <3>2. ASSUME NEW u \in Threads, batch[u] # <<>> PROVE Batched' = Batched
      <4>1. u # t  BY <3>2, Zenon DEF IInv, BatchOK, Receiving
      <4>2. pc'[u] = pc[u]  BY <1>2, <1>8, <4>1, Zenon DEF ReadReturns
      <4>3. Batched = Undelivered(u) /\ Batched' = Undelivered(u)'
        BY <1>8, <3>2, BatchedIs, BatchedIsNext, Zenon DEF TheBatch
      <4> QED  BY <1>8, <4>2, <4>3 DEF Undelivered
    <3> QED  BY <3>1, <3>2, Zenon
  <2>2. Pending' = (Batched \o buffer) \o rest  BY <1>6, <1>8, <2>1, Zenon DEF Pending
  <2>3. (Batched \o buffer) \o rest = Batched \o (buffer \o rest)
    <3>1. Batched \in Seq(Messages)  BY <1>2, Zenon
    <3>2. buffer \in Seq(Messages)  BY <1>5, Zenon
    <3>3. rest \in Seq(Messages)  BY <1>4, Zenon
    <3> QED  BY <3>1, <3>2, <3>3, RegroupMessages, SMTT(30)
  <2> QED  BY <1>5, <1>7, <2>2, <2>3, Zenon
<1>9. CASE ~activeReceive /\ buffer # <<>> /\ TakeBatch(t, buffer)
  <2>1. \A u \in Threads : batch[u] = <<>>
    BY <1>9, Zenon DEF IInv, BatchOK, BufferHasOwner, Receiving
  <2>2. Batched = <<>>  BY <2>1, BatchedIs DEF TheBatch
  <2>3. batch'[t] = buffer /\ pc'[t] = "deliver" /\ receiveBuffer' = <<>>
    BY <1>2, <1>9, Zenon DEF TakeBatch
  <2>4. Batched' = buffer
    BY <1>9, <2>3, BatchedIsNext, SMTT(30) DEF TheBatch, Undelivered
  <2>5. Pending' = (buffer \o <<>>) \o rest  BY <1>6, <2>3, <2>4 DEF Pending
  <2>6. Pending' = buffer \o rest  BY <1>5, <2>5, ConcatEmptySeq, Zenon
  <2>7. Pending = receiveBuffer \o stream
    BY <1>2, <1>7, <2>2, ConcatProperties, ConcatEmptySeq, SMTT(30)
  <2> QED  BY <1>5, <2>6, <2>7, Zenon
<1> QED  BY <1>1, <1>8, <1>9, Zenon DEF buffer

LEMMA RelockMoves ==
  ASSUME IInv, IInv', NEW t \in Threads, Relock(t)
  PROVE  Pending' = Pending
<1>1. /\ DOMAIN pc = Threads /\ batch \in [Threads -> Seq(Messages)]
      /\ receiveBuffer \in Seq(Messages) /\ stream' = stream
  BY Zenon DEF IInv, TypeOK, Relock, wire
<1>2. \A u \in Threads : batch[u] = <<>>
  BY DEF IInv, BatchOK, OneReceiver, Receiving, Relock
<1>3. Batched = <<>>  BY <1>2, BatchedIs, Zenon DEF TheBatch
<1>4. CASE receiveBuffer = <<>> /\ UNCHANGED <<receiveBuffer, batch>>
  <2>1. Batched' = <<>>  BY <1>2, <1>4, BatchedIsNext, Zenon DEF TheBatch
  <2> QED  BY <1>1, <1>3, <1>4, <2>1, Zenon DEF Pending
<1>5. CASE receiveBuffer # <<>> /\ TakeBatch(t, receiveBuffer)
  <2>1. batch'[t] = receiveBuffer /\ pc'[t] = "deliver" /\ receiveBuffer' = <<>>
    BY <1>1, <1>5, Zenon DEF TakeBatch
  <2>2. Batched' = receiveBuffer
    BY <1>5, <2>1, BatchedIsNext, Zenon DEF TheBatch, Undelivered
  <2>3. Pending' = (receiveBuffer \o <<>>) \o stream  BY <1>1, <2>1, <2>2, Zenon DEF Pending
  <2>4. Pending = (<<>> \o receiveBuffer) \o stream  BY <1>3, Zenon DEF Pending
  <2> QED  BY <1>1, <2>3, <2>4, ConcatEmptySeq, Zenon
<1> QED  BY <1>4, <1>5, Zenon DEF Relock

LEMMA DeliverTakes ==
  ASSUME IInv, IInv', NEW t \in Threads, Deliver(t)
  PROVE  Pending # <<>> /\ out' = Head(Pending) /\ Pending' = Tail(Pending)
<1>1. /\ DOMAIN pc = Threads /\ batch \in [Threads -> Seq(Messages)]
      /\ receiveBuffer \in Seq(Messages) /\ stream \in Seq(Messages)
      /\ batch[t] # <<>>
  BY Zenon DEF IInv, TypeOK, BatchOK, Deliver
<1>2. /\ pc[t] = "deliver" /\ pc'[t] = "call" /\ out' = Head(batch[t])
      /\ batch' = batch /\ receiveBuffer' = receiveBuffer /\ stream' = stream
  BY <1>1, Zenon DEF Deliver, receive, wire
<1>3. Batched = batch[t]  BY <1>1, <1>2, BatchedIs, Zenon DEF TheBatch, Undelivered
<1>4. Batched' = Tail(batch[t])
  BY <1>1, <1>2, BatchedIsNext, Zenon DEF TheBatch, Undelivered
<1> DEFINE b == batch[t]
           r == receiveBuffer \o stream
<1>5. b \in Seq(Messages) /\ Tail(b) \in Seq(Messages) /\ r \in Seq(Messages) /\ b # <<>>
  BY <1>1, ConcatProperties, HeadTailProperties, Zenon
<1>6. Pending = b \o r
  <2>1. (b \o receiveBuffer) \o stream = b \o (receiveBuffer \o stream)
    BY <1>1, RegroupMessages, SMTT(30)
  <2> QED  BY <1>3, <2>1, Zenon DEF Pending
<1>7. Pending' = Tail(b) \o r
  <2>1. Tail(b) \in Seq(Messages)  BY <1>5, Zenon
  <2>2. receiveBuffer \in Seq(Messages) /\ stream \in Seq(Messages)  BY <1>1, Zenon
  <2>3. (Tail(b) \o receiveBuffer) \o stream = Tail(b) \o (receiveBuffer \o stream)
    BY Zenon, <2>1, <2>2, RegroupMessages
  <2> QED  BY Zenon, <1>2, <1>4, <2>3 DEF Pending
<1>8. out' = Head(b)  BY <1>2, Zenon
<1> HIDE DEF b, r
<1> QED  BY Zenon, <1>5, <1>6, <1>7, <1>8, TailConcat

LEMMA DeliveredMoves ==
  ASSUME IInv, IInv', NEW t \in Threads, Delivered(t)
  PROVE  Pending' = Pending
<1>1. /\ DOMAIN pc = Threads /\ batch \in [Threads -> Seq(Messages)]
      /\ batch[t] # <<>>
  BY Zenon DEF IInv, TypeOK, BatchOK, Delivered
<1>2. /\ pc[t] = "call" /\ pc'[t] # "call"
      /\ batch'[t] = Tail(batch[t]) /\ \A u \in Threads \ {t} : batch'[u] = batch[u]
      /\ receiveBuffer' = receiveBuffer /\ stream' = stream
  BY <1>1, Zenon DEF Delivered, wire
<1>3. Batched = Tail(batch[t])  BY <1>1, <1>2, BatchedIs, Zenon DEF TheBatch, Undelivered
<1>4. Batched' = Tail(batch[t])
  <2>1. CASE batch'[t] # <<>>
    BY Zenon, <1>2, <2>1, BatchedIsNext DEF TheBatch, Undelivered
  <2>2. CASE batch'[t] = <<>>
    <3>1. \A u \in Threads \ {t} : batch[u] = <<>>
      BY <1>1, Zenon DEF IInv, BatchOK, OneReceiver, Receiving
    <3> QED  BY Zenon, <1>2, <2>2, <3>1, BatchedIsNext DEF TheBatch
  <2> QED  BY <2>1, <2>2, Zenon
<1> QED  BY <1>2, <1>3, <1>4, Zenon DEF Pending

(* A step outside the receive path: nothing moves, or DXS adds a message. *)
LEMMA OtherMoves ==
  ASSUME IInv, IInv', UNCHANGED <<receive, stream>>,
         \A t \in Threads : pc'[t] = pc[t] \/ (~Receiving(t) /\ ~(Receiving(t)'))
  PROVE  Pending' = Pending
<1>1. batch' = batch /\ receiveBuffer' = receiveBuffer /\ stream' = stream  BY Zenon DEF receive
<1>2. CASE \A u \in Threads : batch[u] = <<>>
  BY <1>1, <1>2, BatchedIs, BatchedIsNext, Zenon DEF TheBatch, Pending
<1>3. ASSUME NEW u \in Threads, batch[u] # <<>> PROVE Pending' = Pending
  <2>1. Receiving(u)  BY <1>3, Zenon DEF IInv, BatchOK, Receiving
  <2>2. Batched = Undelivered(u) /\ Batched' = Undelivered(u)'
    BY <1>1, <1>3, BatchedIs, BatchedIsNext, Zenon DEF TheBatch
  <2> QED  BY Zenon, <1>1, <2>1, <2>2 DEF Undelivered, Pending
<1> QED  BY <1>2, <1>3, Zenon

(* Every step of the handler is a step of the channel or leaves it alone. *)
LEMMA ChannelStep == IInv /\ IInv' /\ [Next]_vars => [Channel!Next]_<<Pending, out>>
<1> SUFFICES ASSUME IInv, IInv', [Next]_vars
             PROVE  \/ \E m \in Messages : Channel!Accept(m)
                    \/ Channel!Deliver
                    \/ Pending' = Pending /\ out' = out
  BY Zenon DEF Channel!Next
<1>1. CASE HandlerLoop
  <2>1. Handler \in Threads /\ ~Receiving(Handler) /\ ReadSocket(Handler) /\ out' = out
    BY <1>1, Zenon DEF HandlerLoop, Threads, Receiving
  <2> QED  BY <2>1, ReadSocketMoves, Zenon
<1>2. ASSUME NEW p \in Pollers, RxPoll(p) PROVE Pending' = Pending /\ out' = out
  <2>1. p \in Threads /\ ~Receiving(p) /\ ReadSocket(p) /\ out' = out
    BY <1>2, Zenon DEF RxPoll, Threads, Receiving
  <2> QED  BY <2>1, ReadSocketMoves, Zenon
<1>3. ASSUME NEW t \in Threads, Deliver(t) PROVE Channel!Deliver
  BY <1>3, DeliverTakes, Zenon DEF Channel!Deliver
<1>4. ASSUME NEW t \in Threads, Delivered(t) \/ Relock(t)
      PROVE  Pending' = Pending /\ out' = out
  BY Zenon, <1>4, DeliveredMoves, RelockMoves DEF Delivered, Relock
<1>5. CASE PeerSend
  <2>1. /\ receiveBuffer \in Seq(Messages) /\ stream \in Seq(Messages)
        /\ Batched \in Seq(Messages) /\ sent \in 0 .. MaxMessages
    BY BatchedIs, Zenon DEF IInv, TypeOK, TheBatch
  <2>2. /\ sent' \in Messages /\ stream' = Append(stream, sent')
        /\ batch' = batch /\ pc' = pc /\ receiveBuffer' = receiveBuffer /\ out' = out
    BY <1>5, <2>1, ThreadsAssumption DEF PeerSend, Messages, receive
  <2>3. Batched' = Batched  BY <2>2, Zenon DEF Batched, Undelivered
  <2> DEFINE front == Batched \o receiveBuffer
             m == sent'
  <2>4. front \in Seq(Messages)  BY <2>1, ConcatProperties, Zenon
  <2>5. m \in Messages /\ <<m>> \in Seq(Messages)  BY <2>2
  <2>6. stream' = stream \o <<m>>  BY <2>1, <2>2, AppendIsConcat, Zenon
  <2>7. Pending = front \o stream /\ Pending' = front \o (stream \o <<m>>)
    BY <2>2, <2>3, <2>6, Zenon DEF Pending
  <2>8. out' = out  BY <2>2, Zenon
  <2> HIDE DEF front, m
  <2>9. front \o (stream \o <<m>>) = (front \o stream) \o <<m>> /\ front \o stream \in Seq(Messages)
    BY <2>1, <2>4, <2>5, ConcatProperties, RegroupMessages, SMTT(30)
  <2>10. (front \o stream) \o <<m>> = Append(front \o stream, m)
    BY <2>5, <2>9, AppendIsConcat, Zenon
  <2> QED  BY <2>5, <2>7, <2>8, <2>9, <2>10, Zenon DEF Channel!Accept
<1>6. CASE \/ HandlerStops \/ HandlerCleanup \/ CloserReturns
           \/ \E accepted \in BOOLEAN : SendControlMessage(accepted)
           \/ \E as \in {"shutdown", "destructor"} : ShutdownBegins(as)
           \/ UNCHANGED vars
  <2> USE DEF HandlerStops, HandlerCleanup, CloserReturns, ShutdownReturns,
              ShutdownTimesOut, Destroyed, SendControlMessage, ShutdownBegins
  <2>1. UNCHANGED <<receive, stream, out>>  BY <1>6, Zenon DEF wire, vars, receive
  <2>2. DOMAIN pc = Threads  BY Zenon DEF IInv, TypeOK
  <2>3. \A t \in Threads : pc'[t] = pc[t] \/ (~Receiving(t) /\ ~(Receiving(t)'))
    BY <1>6, <2>2, Zenon DEF Receiving, vars
  <2>4. Pending' = Pending  BY <2>1, <2>3, OtherMoves, Zenon
  <2> QED  BY <2>1, <2>4, Zenon
<1> QED  BY <1>1, <1>2, <1>3, <1>4, <1>5, <1>6 DEF Next, HandlerStep, ReceiveStep

(* The receive path of the handler is a FIFO channel, whichever and however *)
(* many threads read the socket: nothing DXS sent is lost, repeated or      *)
(* overtaken on its way to the receiver.                                    *)
THEOREM ReceiveInOrder == Spec => InOrder
<1>1. Init => Channel!Init
  <2> SUFFICES ASSUME Init PROVE Channel!Init  BY Zenon
  <2>1. Batched = <<>> /\ receiveBuffer = <<>> /\ stream = <<>>
    BY Initially, BatchedIs, Zenon DEF Init, TheBatch
  <2>2. <<>> \o <<>> \o <<>> = <<>>  BY EmptySeq, ConcatEmptySeq, Zenon
  <2> QED  BY <2>1, <2>2, Zenon DEF Pending, Init, Channel!Init
<1> QED  BY <1>1, Invariant, ChannelStep, PTL DEF Spec, InOrder, Channel!Spec
=============================================================================
