----------------------------- MODULE SctpHandler -----------------------------
(***************************************************************************)
(* SctpHandler: the control channel to DXS, SCTP (dcSCTP, external) over a *)
(* UDP socket.  The handler thread and any number of threads that call     *)
(* RxPoll read the socket under mu_, release mu_ while they hand messages  *)
(* to the receiver, and are ordered by active_receive_.                    *)
(*                                                                         *)
(* A step is what a thread does in one hold of mu_, or one boundary of a   *)
(* call to the receiver, made without mu_.  Messages are numbered in the   *)
(* order in which DXS sends them.                                          *)
(***************************************************************************)
EXTENDS Naturals, Sequences, FiniteSets

CONSTANTS Handler,       \* the handler thread
          Pollers,       \* application threads that call RxPoll
          MaxMessages,   \* bound on the messages DXS sends
          NoMessage

ASSUME ThreadsAssumption == Handler \notin Pollers /\ MaxMessages \in Nat
                            /\ NoMessage \notin Nat

VARIABLES
  connected, running, shuttingDown,   \* connected_, running_, shutting_down_
  activeReceive, receiveBuffer,       \* active_receive_, receive_buffer_
  cleanShutdown,  \* clean_shutdown of RunSctpHandler
  pc,             \* what each thread is doing
  batch,          \* received of ReadSocket: what each thread has still to deliver
  closer,         \* the thread in Shutdown or in the destructor
  sent,           \* how many messages DXS has sent
  stream,         \* sent by DXS and not yet read from the socket
  out,            \* the last message handed to the receiver
  failed          \* the receiver was told OnControlChannelFailure

flags == <<running, shuttingDown, cleanShutdown>>
receive == <<activeReceive, receiveBuffer, batch>>
wire == <<sent, stream>>
vars == <<connected, flags, receive, pc, closer, wire, out, failed>>

Threads == {Handler} \cup Pollers
Messages == 1 .. MaxMessages

(* After Init: the association is being set up and the thread is running. *)
Init ==
  /\ connected = TRUE /\ running = TRUE /\ shuttingDown = FALSE
  /\ activeReceive = FALSE /\ receiveBuffer = <<>>
  /\ cleanShutdown = FALSE
  /\ pc = [t \in Threads |-> IF t = Handler THEN "sleep" ELSE "idle"]
  /\ batch = [t \in Threads |-> <<>>]
  /\ closer = "none"
  /\ sent = 0 /\ stream = <<>>
  /\ out = NoMessage /\ failed = FALSE

(* DXS sends; dcSCTP retransmits and reorders, so the socket sees a stream. *)
PeerSend ==
  /\ sent < MaxMessages /\ connected
  /\ sent' = sent + 1 /\ stream' = Append(stream, sent')
  /\ UNCHANGED <<connected, flags, receive, pc, closer, out, failed>>

-----------------------------------------------------------------------------
(* ReadSocket *)

(* What recvmsg and dcSCTP make of the packets that have arrived: the next *)
(* k messages through OnMessageReceived, and perhaps the end of the        *)
(* association through OnAborted, OnClosed or OnConnectionRestarted (up).  *)
Received(k, up) ==
  /\ k \in 0 .. (IF connected THEN Len(stream) ELSE 0)
  /\ up \in {connected, FALSE}
  /\ stream' = SubSeq(stream, k + 1, Len(stream))
  /\ UNCHANGED sent

(* ReadSocket returns, mu_ still held.  The handler thread leaves its loop *)
(* if the connection is gone; else timeout_queue_->Run may still abort it. *)
ReadReturns(t, up) ==
  /\ connected' \in IF t = Handler THEN {up, FALSE} ELSE {up}
  /\ pc' = [pc EXCEPT ![t] = IF t # Handler THEN "idle"
                             ELSE IF up THEN "sleep" ELSE "cleanup"]

(* Drain the buffer into a batch of its own and release mu_ to deliver it. *)
TakeBatch(t, buffer) ==
  /\ batch' = [batch EXCEPT ![t] = buffer]
  /\ receiveBuffer' = <<>>
  /\ activeReceive' = TRUE
  /\ pc' = [pc EXCEPT ![t] = "deliver"]

ReadSocketTwoReceivers(t) ==                                 \* mutant
  \E k \in 0 .. MaxMessages, up \in BOOLEAN :
    /\ Received(k, up)
    /\ LET buffer == receiveBuffer \o SubSeq(stream, 1, k)
       IN \/ /\ buffer = <<>>
             /\ ReadReturns(t, up) /\ UNCHANGED receive
          \/ /\ buffer # <<>>
             /\ TakeBatch(t, buffer) /\ connected' = up

ReadSocketDropsRacing(t) ==                                  \* mutant
  \E k \in 0 .. MaxMessages, up \in BOOLEAN :
    /\ Received(k, up)
    /\ LET buffer == receiveBuffer \o SubSeq(stream, 1, k)
       IN \/ /\ activeReceive \/ buffer = <<>>
             /\ ReadReturns(t, up) /\ UNCHANGED receive
          \/ /\ ~activeReceive /\ buffer # <<>>
             /\ TakeBatch(t, buffer) /\ connected' = up

ReadSocket(t) ==
  \E k \in 0 .. MaxMessages, up \in BOOLEAN :
    /\ Received(k, up)
    /\ LET buffer == receiveBuffer \o SubSeq(stream, 1, k)
       IN \/ /\ activeReceive \/ buffer = <<>>
             /\ ReadReturns(t, up)
             /\ receiveBuffer' = buffer
             /\ UNCHANGED <<activeReceive, batch>>
          \/ /\ ~activeReceive /\ buffer # <<>>
             /\ TakeBatch(t, buffer) /\ connected' = up

(* Receiver().ReceiveControlMessage(message), called and returning. *)
Deliver(t) ==
  /\ pc[t] = "deliver"
  /\ out' = Head(batch[t])
  /\ pc' = [pc EXCEPT ![t] = "call"]
  /\ UNCHANGED <<connected, flags, receive, closer, wire, failed>>

Delivered(t) ==
  /\ pc[t] = "call"
  /\ batch' = [batch EXCEPT ![t] = Tail(@)]
  /\ pc' = [pc EXCEPT ![t] = IF Len(batch[t]) = 1 THEN "relock" ELSE "deliver"]
  /\ UNCHANGED <<connected, flags, activeReceive, receiveBuffer, closer, wire, out,
                 failed>>

RelockForgets(t) ==                                          \* mutant
  /\ pc[t] = "relock"
  /\ ReadReturns(t, connected) /\ activeReceive' = FALSE
  /\ UNCHANGED <<receiveBuffer, batch, flags, closer, wire, out, failed>>

(* mu_ again: deliver what racing threads have buffered, or give up the role. *)
Relock(t) ==
  /\ pc[t] = "relock"
  /\ \/ /\ receiveBuffer = <<>>
        /\ ReadReturns(t, connected) /\ activeReceive' = FALSE
        /\ UNCHANGED <<receiveBuffer, batch>>
     \/ /\ receiveBuffer # <<>>
        /\ TakeBatch(t, receiveBuffer) /\ UNCHANGED connected
  /\ UNCHANGED <<flags, closer, wire, out, failed>>

-----------------------------------------------------------------------------
(* The handler thread and RxPoll *)

HandlerStops ==
  /\ pc[Handler] = "sleep" /\ ~running
  /\ pc' = [pc EXCEPT ![Handler] = "cleanup"]
  /\ UNCHANGED <<connected, flags, receive, closer, wire, out, failed>>

HandlerLoop ==
  /\ pc[Handler] = "sleep" /\ running
  /\ shuttingDown' = FALSE
  /\ cleanShutdown' = (cleanShutdown \/ shuttingDown)
  /\ ReadSocket(Handler)
  /\ UNCHANGED <<running, closer, out, failed>>

HandlerCleanupDefers ==                                      \* mutant
  /\ pc[Handler] = "cleanup"
  /\ pc' = [pc EXCEPT ![Handler] = "exited"]
  /\ failed' = (failed \/ ~(cleanShutdown \/ activeReceive))
  /\ UNCHANGED <<connected, flags, receive, closer, wire, out>>

(* cleanup of RunSctpHandler: OnControlChannelFailure unless shut down. *)
HandlerCleanup ==
  /\ pc[Handler] = "cleanup"
  /\ pc' = [pc EXCEPT ![Handler] = "exited"]
  /\ failed' = (failed \/ ~cleanShutdown)
  /\ UNCHANGED <<connected, flags, receive, closer, wire, out>>

RxPoll(p) ==
  /\ pc[p] = "idle" /\ closer \in {"none", "shutdown"}
  /\ ReadSocket(p)
  /\ UNCHANGED <<flags, closer, out, failed>>

(* SendControlMessage: a send dcSCTP refuses closes the socket. *)
SendControlMessage(accepted) ==
  /\ connected /\ closer \in {"none", "shutdown"}
  /\ connected' = accepted
  /\ UNCHANGED <<flags, receive, pc, closer, wire, out, failed>>

-----------------------------------------------------------------------------
(* Shutdown and the destructor, which calls it and then joins the thread *)

Returned == IF closer = "shutdown" THEN "none" ELSE "join"

(* The destructor runs when no other thread uses the handler. *)
ShutdownBegins(as) ==
  /\ closer = "none"
  /\ as = "destructor" => \A p \in Pollers : pc[p] = "idle"
  /\ \/ running /\ closer' = as /\ shuttingDown' = TRUE
     \/ ~running /\ closer' = (IF as = "shutdown" THEN "none" ELSE "join")
        /\ UNCHANGED shuttingDown
  /\ UNCHANGED <<connected, running, cleanShutdown, receive, pc, wire, out, failed>>

ShutdownReturns ==
  /\ closer \in {"shutdown", "destructor"} /\ ~connected
  /\ closer' = Returned
  /\ UNCHANGED <<connected, flags, receive, pc, wire, out, failed>>

ShutdownTimesOutRunning ==                                   \* mutant
  /\ closer \in {"shutdown", "destructor"} /\ connected
  /\ closer' = Returned
  /\ UNCHANGED <<connected, running, shuttingDown, cleanShutdown, receive, pc, wire,
                 out, failed>>

ShutdownTimesOut ==
  /\ closer \in {"shutdown", "destructor"} /\ connected
  /\ running' = FALSE
  /\ closer' = Returned
  /\ UNCHANGED <<connected, shuttingDown, cleanShutdown, receive, pc, wire, out, failed>>

(* handler_thread_.reset() joins; close(socket_fd_). *)
Destroyed ==
  /\ closer = "join" /\ pc[Handler] = "exited"
  /\ closer' = "gone"
  /\ UNCHANGED <<connected, flags, receive, pc, wire, out, failed>>

-----------------------------------------------------------------------------
HandlerStep == HandlerStops \/ HandlerLoop \/ HandlerCleanup
ReceiveStep(t) == Deliver(t) \/ Delivered(t) \/ Relock(t)
CloserReturns == ShutdownReturns \/ ShutdownTimesOut \/ Destroyed

Next ==
  \/ PeerSend
  \/ HandlerStep
  \/ \E t \in Threads : ReceiveStep(t)
  \/ \E p \in Pollers : RxPoll(p)
  \/ \E accepted \in BOOLEAN : SendControlMessage(accepted)
  \/ \E as \in {"shutdown", "destructor"} : ShutdownBegins(as)
  \/ CloserReturns

Spec == Init /\ [][Next]_vars

(* Threads run, the receiver returns, the timeout of Shutdown expires.     *)
(* Nothing obliges the association to end, so the handler's turn is fair   *)
(* only as far as it leaves connected_ alone.                              *)
FairSpec == /\ Spec
            /\ WF_vars(HandlerStep /\ UNCHANGED connected)
            /\ \A t \in Threads : WF_vars(ReceiveStep(t))
            /\ WF_vars(CloserReturns)

-----------------------------------------------------------------------------
(* Properties *)

(* Type correctness.  Only the handler thread sleeps, cleans up and exits;  *)
(* a poller is back to idle when its ReadSocket returns.                   *)
TypeOK ==
  /\ connected \in BOOLEAN /\ running \in BOOLEAN /\ shuttingDown \in BOOLEAN
  /\ activeReceive \in BOOLEAN /\ cleanShutdown \in BOOLEAN /\ failed \in BOOLEAN
  /\ receiveBuffer \in Seq(Messages) /\ stream \in Seq(Messages)
  /\ batch \in [Threads -> Seq(Messages)]
  /\ DOMAIN pc = Threads
  /\ pc[Handler] \in {"sleep", "deliver", "call", "relock", "cleanup", "exited"}
  /\ \A p \in Pollers : pc[p] \in {"idle", "deliver", "call", "relock"}
  /\ closer \in {"none", "shutdown", "destructor", "join", "gone"}
  /\ sent \in 0 .. MaxMessages /\ out \in Messages \cup {NoMessage}

Receiving(t) == pc[t] \in {"deliver", "call", "relock"}

(* At most one call of ReceiveControlMessage is in flight (the contract of *)
(* ControlMessageReceiverInterface), though mu_ is not held during it.     *)
OneOutstandingCall == \A t, u \in Threads : pc[t] = "call" /\ pc[u] = "call" => t = u

(* Buffered messages always have an owner: while receive_buffer_ holds a   *)
(* message, exactly one thread is still going to look at it again.  ("Must *)
(* be drained before setting active_receive_ = false.")                    *)
BufferHasOwner ==
  /\ activeReceive <=> \E t \in Threads : Receiving(t)
  /\ receiveBuffer # <<>> => activeReceive

(* What has been sent and not yet delivered, in the order it will be. *)
Undelivered(t) == IF pc[t] = "call" THEN Tail(batch[t]) ELSE batch[t]
Batched == IF \E t \in Threads : batch[t] # <<>>
             THEN Undelivered(CHOOSE t \in Threads : batch[t] # <<>>)
             ELSE <<>>
Pending == Batched \o receiveBuffer \o stream

Channel == INSTANCE MessageChannel WITH chan <- Pending

(* The receive path is a FIFO channel whichever threads read the socket:   *)
(* no message is lost, repeated or overtaken between DXS and the receiver. *)
InOrder == Channel!Spec

(* A message read from the socket reaches the receiver, even if the thread *)
(* that read it was not the one to deliver it.                             *)
EventuallyDelivered ==
  \A m \in Messages :
    (\E i \in DOMAIN receiveBuffer : receiveBuffer[i] = m) ~> (out = m)

(* Losing the connection ends in OnControlChannelFailure, unless a         *)
(* Shutdown was asked for.                                                 *)
FailureReported == ~connected ~> (failed \/ cleanShutdown)

(* The destructor returns, whatever DXS and the pollers did before. *)
DestructorReturns == closer = "destructor" ~> closer = "gone"

(* OnControlChannelFailure is the end of reading: no ReceiveControlMessage *)
(* follows it ("reading has failed and will not resume").                  *)
FailureIsFinal == [][failed => out' = out]_vars
=============================================================================
