--------------------------- MODULE BufferManager ---------------------------
(***************************************************************************)
(* dxs::BufferManager (dxs/client/dxs-client.cc): the client RxDM uses to  *)
(* register GPU buffers with DXS.  A call is synchronous: it sends its     *)
(* messages, then waits under mu_ for the acks, for the failure of the     *)
(* channel or for a timeout.  What a waiting call looks at (the number of  *)
(* outstanding messages, the last ack) belongs to the manager, not to the  *)
(* call, so acks that arrive after a timeout, and calls of two threads,    *)
(* meet in the same fields.                                                *)
(*                                                                         *)
(* A registration is identified by its number: the manager's caller maps   *)
(* buffer number nextReq and DXS hands out that number as the handle, so   *)
(* a call got its own handle iff the two numbers agree.  0 is an error;    *)
(* kInvalidRegistration is what DXS puts in the ack of every message of a  *)
(* registration but the last.                                              *)
(***************************************************************************)
EXTENDS Naturals, FiniteSets, Sequences

CONSTANTS Callers,      \* the threads that call RegBuffer and DeregBuffer
          MaxRequests,  \* bound: registrations started
          MaxChunks     \* bound: messages the iovecs of a buffer take

ASSUME BoundsAssumption == MaxRequests \in Nat \ {0} /\ MaxChunks \in Nat \ {0}

VARIABLES outstanding,  \* outstanding_registrations_
          lastReg,      \* last_reg_buffer_ack_
          awaiting,     \* awaiting_unreg_buffer_
          lastDereg,    \* last_dereg_buffer_ack_
          failed,       \* failed_
          call,         \* [Callers -> the call a thread is in and how far it is]
          ret,          \* [Callers -> what the last call returned]
          nextReq,      \* the number of the next registration
          late,         \* a call has timed out or was refused
          linkUp, toDxs, fromDxs,  \* the SCTP association with DXS
          dxs           \* the registrations of DXS

bmVars == <<outstanding, lastReg, awaiting, lastDereg, failed, call, ret,
            nextReq, late, linkUp, toDxs, fromDxs, dxs>>

Requests == 1 .. MaxRequests
kInvalidRegistration == MaxRequests + 1
Steps == {"idle", "regCount", "regSend", "regWait", "deregSend", "deregWait"}
Idle == [step |-> "idle", req |-> 0, left |-> 0]

BMInit ==
  /\ outstanding = 0 /\ awaiting = FALSE /\ failed = FALSE
  /\ lastReg = [req |-> 0, ok |-> TRUE] /\ lastDereg = TRUE
  /\ call = [c \in Callers |-> Idle]
  /\ ret = [c \in Callers |-> [req |-> 0, got |-> 0]]
  /\ nextReq = 1 /\ late = FALSE
  /\ linkUp = TRUE /\ toDxs = <<>> /\ fromDxs = <<>>
  /\ dxs = [registered |-> {}, rejected |-> {}]

-----------------------------------------------------------------------------
(* Calls.  Return(c, r, h): the call of c about registration r returns     *)
(* handle h, or an error when h = 0.                                       *)

Return(c, r, h) ==
  /\ call' = [call EXCEPT ![c] = Idle]
  /\ ret' = [ret EXCEPT ![c] = [req |-> r, got |-> h]]

\* RegBufferWithDxsServer up to its first unlock: registrations left over from
\* an earlier call are an error.  A buffer without iovecs takes no message: the
\* call goes straight to the wait, for nothing of its own, and has number 0.
RegBuffer(c, chunks) ==
  /\ call[c].step = "idle" /\ nextReq <= MaxRequests
  /\ LET req == IF chunks = 0 THEN 0 ELSE nextReq IN
     /\ nextReq' = IF chunks = 0 THEN nextReq ELSE nextReq + 1
     /\ IF outstanding # 0
          THEN Return(c, req, 0) /\ late' = TRUE
          ELSE /\ call' = [call EXCEPT ![c] = [step |-> IF chunks = 0 THEN "regWait" ELSE "regCount",
                                              req |-> req, left |-> chunks]]
               /\ ret' = [ret EXCEPT ![c] = [req |-> req, got |-> 0]]
               /\ late' = late
  /\ UNCHANGED <<outstanding, lastReg, awaiting, lastDereg, failed, linkUp, toDxs, fromDxs, dxs>>

\* One turn of the loop counts the message under mu_ ...
RegCounts(c) ==
  /\ call[c].step = "regCount"
  /\ outstanding' = outstanding + 1
  /\ call' = [call EXCEPT ![c].step = "regSend"]
  /\ UNCHANGED <<lastReg, awaiting, lastDereg, failed, ret, nextReq, late, linkUp, toDxs, fromDxs, dxs>>

\* ... and sends it without the lock.  A failed send returns with the count
\* as it is.
RegSends(c) ==
  /\ call[c].step = "regSend"
  /\ IF linkUp
       THEN /\ toDxs' = Append(toDxs, [op |-> "reg", req |-> call[c].req, more |-> call[c].left > 1])
            /\ call' = [call EXCEPT ![c] = [step |-> IF @.left > 1 THEN "regCount" ELSE "regWait",
                                            req |-> @.req, left |-> @.left - 1]]
            /\ ret' = ret
       ELSE toDxs' = toDxs /\ Return(c, call[c].req, 0)
  /\ UNCHANGED <<outstanding, lastReg, awaiting, lastDereg, failed, nextReq, late, linkUp, fromDxs, dxs>>

\* The wait ends when the channel failed or nothing is outstanding; the last
\* ack the manager received, whoever it was for, decides the result.
RegReturns(c) ==
  /\ call[c].step = "regWait" /\ (failed \/ outstanding = 0)
  /\ Return(c, call[c].req, IF failed \/ ~lastReg.ok THEN 0 ELSE lastReg.req)
  /\ UNCHANGED <<outstanding, lastReg, awaiting, lastDereg, failed, nextReq, late, linkUp, toDxs, fromDxs, dxs>>

RegWaitsForever(c) == FALSE                                  \* mutant

RegTimesOutResets(c) ==                                      \* mutant
  /\ call[c].step = "regWait" /\ ~failed /\ outstanding # 0
  /\ Return(c, call[c].req, 0)
  /\ outstanding' = 0 /\ late' = TRUE
  /\ UNCHANGED <<lastReg, awaiting, lastDereg, failed, nextReq, linkUp, toDxs, fromDxs, dxs>>

\* AwaitWithTimeout gives up; the acks still owed stay counted.
RegTimesOut(c) ==
  /\ call[c].step = "regWait" /\ ~failed /\ outstanding # 0
  /\ Return(c, call[c].req, 0)
  /\ late' = TRUE
  /\ UNCHANGED <<outstanding, lastReg, awaiting, lastDereg, failed, nextReq, linkUp, toDxs, fromDxs, dxs>>

\* DeregBufferWithDxsServer: one deregistration at a time.
DeregBuffer(c, h) ==
  /\ call[c].step = "idle"
  /\ IF awaiting
       THEN Return(c, h, 0) /\ awaiting' = TRUE /\ late' = TRUE
       ELSE /\ call' = [call EXCEPT ![c] = [step |-> "deregSend", req |-> h, left |-> 0]]
            /\ ret' = [ret EXCEPT ![c] = [req |-> h, got |-> 0]]
            /\ awaiting' = TRUE /\ late' = late
  /\ UNCHANGED <<outstanding, lastReg, lastDereg, failed, nextReq, linkUp, toDxs, fromDxs, dxs>>

\* awaiting_unreg_buffer_ stays set when the send fails.
DeregSends(c) ==
  /\ call[c].step = "deregSend"
  /\ IF linkUp
       THEN /\ toDxs' = Append(toDxs, [op |-> "dereg", req |-> call[c].req, more |-> FALSE])
            /\ call' = [call EXCEPT ![c].step = "deregWait"]
            /\ ret' = ret
       ELSE toDxs' = toDxs /\ Return(c, call[c].req, 0)
  /\ UNCHANGED <<outstanding, lastReg, awaiting, lastDereg, failed, nextReq, late, linkUp, fromDxs, dxs>>

DeregReturns(c) ==
  /\ call[c].step = "deregWait" /\ (failed \/ ~awaiting)
  /\ Return(c, call[c].req, IF failed \/ ~lastDereg THEN 0 ELSE call[c].req)
  /\ UNCHANGED <<outstanding, lastReg, awaiting, lastDereg, failed, nextReq, late, linkUp, toDxs, fromDxs, dxs>>

DeregTimesOut(c) ==
  /\ call[c].step = "deregWait" /\ ~failed /\ awaiting
  /\ Return(c, call[c].req, 0)
  /\ late' = TRUE
  /\ UNCHANGED <<outstanding, lastReg, awaiting, lastDereg, failed, nextReq, linkUp, toDxs, fromDxs, dxs>>

-----------------------------------------------------------------------------
(* The control channel.                                                    *)

\* Acks nobody asked for are ignored.
HandleRegBufferAck(m) ==
  /\ IF outstanding > 0
       THEN outstanding' = outstanding - 1 /\ lastReg' = [req |-> m.req, ok |-> m.ok]
       ELSE UNCHANGED <<outstanding, lastReg>>
  /\ UNCHANGED <<awaiting, lastDereg>>

HandleDeregBufferAck(m) ==
  /\ IF awaiting THEN awaiting' = FALSE /\ lastDereg' = m.ok
                 ELSE UNCHANGED <<awaiting, lastDereg>>
  /\ UNCHANGED <<outstanding, lastReg>>

ReceiveControlMessage ==
  /\ fromDxs # <<>>
  /\ fromDxs' = Tail(fromDxs)
  /\ \/ Head(fromDxs).op = "reg" /\ HandleRegBufferAck(Head(fromDxs))
     \/ Head(fromDxs).op = "dereg" /\ HandleDeregBufferAck(Head(fromDxs))
  /\ UNCHANGED <<failed, call, ret, nextReq, late, linkUp, toDxs, dxs>>

\* The association is lost: what DXS had not read is gone, what it had sent
\* may still be in the handler.
ChannelLost ==
  /\ linkUp
  /\ linkUp' = FALSE /\ toDxs' = <<>>
  /\ \E n \in 0 .. Len(fromDxs) : fromDxs' = SubSeq(fromDxs, 1, n)
  /\ UNCHANGED <<outstanding, lastReg, awaiting, lastDereg, failed, call, ret, nextReq, late, dxs>>

OnControlChannelFailure ==
  /\ ~linkUp /\ ~failed
  /\ failed' = TRUE
  /\ UNCHANGED <<outstanding, lastReg, awaiting, lastDereg, call, ret, nextReq, late, linkUp, toDxs, fromDxs, dxs>>

\* DXS.  It answers every message, in order, whenever it likes.  It may reject
\* any message of a registration, and then rejects the rest of that one.
DxsAnswers ==
  /\ linkUp /\ toDxs # <<>>
  /\ toDxs' = Tail(toDxs)
  /\ LET m == Head(toDxs) IN
     \/ /\ m.op = "reg" /\ m.req \notin dxs.rejected
        /\ dxs' = IF m.more THEN dxs ELSE [dxs EXCEPT !.registered = @ \union {m.req}]
        /\ fromDxs' = Append(fromDxs, [op |-> "reg", ok |-> TRUE,
                                           req |-> IF m.more THEN kInvalidRegistration ELSE m.req])
     \/ /\ m.op = "reg"
        /\ dxs' = [dxs EXCEPT !.rejected = @ \union {m.req}]
        /\ fromDxs' = Append(fromDxs, [op |-> "reg", ok |-> FALSE, req |-> kInvalidRegistration])
     \/ /\ m.op = "dereg"
        /\ dxs' = [dxs EXCEPT !.registered = @ \ {m.req}]
        /\ fromDxs' = Append(fromDxs, [op |-> "dereg", req |-> m.req, ok |-> m.req \in dxs.registered])
  /\ UNCHANGED <<outstanding, lastReg, awaiting, lastDereg, failed, call, ret, nextReq, late, linkUp>>

-----------------------------------------------------------------------------
CallSteps(c) ==
  \/ RegCounts(c) \/ RegSends(c) \/ RegReturns(c) \/ RegTimesOut(c)
  \/ DeregSends(c) \/ DeregReturns(c) \/ DeregTimesOut(c)

ChannelSteps ==
  ReceiveControlMessage \/ ChannelLost \/ OnControlChannelFailure \/ DxsAnswers

BMNext ==
  \/ \E c \in Callers :
       \/ \E n \in 0 .. MaxChunks : RegBuffer(c, n)
       \/ \E h \in dxs.registered : DeregBuffer(c, h)
       \/ CallSteps(c)
  \/ ChannelSteps

BMSpec == BMInit /\ [][BMNext]_bmVars

-----------------------------------------------------------------------------
\* Type correctness of the manager's part of the state.
BMTypeOK ==
  /\ outstanding \in 0 .. MaxRequests * MaxChunks
  /\ awaiting \in BOOLEAN /\ lastDereg \in BOOLEAN /\ failed \in BOOLEAN
  /\ lastReg \in [req : 0 .. kInvalidRegistration, ok : BOOLEAN]
  /\ call \in [Callers -> [step : Steps, req : 0 .. MaxRequests, left : 0 .. MaxChunks]]
  /\ ret \in [Callers -> [req : 0 .. MaxRequests, got : 0 .. kInvalidRegistration]]
  /\ nextReq \in 1 .. MaxRequests + 1 /\ late \in BOOLEAN /\ linkUp \in BOOLEAN
  /\ toDxs \in Seq([op : {"reg", "dereg"}, req : Requests, more : BOOLEAN])
  /\ fromDxs \in Seq([op : {"reg", "dereg"}, req : 1 .. kInvalidRegistration, ok : BOOLEAN])
  /\ dxs \in [registered : SUBSET Requests, rejected : SUBSET Requests]

\* A call that registered a buffer with iovecs and returns a handle returns the
\* handle of its own buffer, although the acks of calls that timed out earlier
\* may still come in.  It is what "Thread safe." promises of a BufferManager
\* shared by several threads.
HandleIsOwn ==
  \A c \in Callers : ret[c].got # 0 /\ ret[c].req # 0 => ret[c].got = ret[c].req
=============================================================================
