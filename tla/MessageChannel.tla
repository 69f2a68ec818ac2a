--------------------------- MODULE MessageChannel ---------------------------
(***************************************************************************)
(* What a one-directional control channel promises its user: messages come *)
(* out in the order in which they went in, each exactly once, unchanged.   *)
(* The queue pair (SpscQueue), the receive path of the SCTP handler        *)
(* (SctpHandler) and the send path of the LLCM handler (LlcmHandler) are   *)
(* all shown to implement it.                                              *)
(***************************************************************************)
EXTENDS Sequences

CONSTANTS Messages,   \* the messages that may be sent
          NoMessage   \* the value of out before the first delivery

VARIABLES chan,       \* accepted and not yet delivered, oldest first
          out         \* the message delivered last

Init == chan = <<>> /\ out = NoMessage

Accept(m) == chan' = Append(chan, m) /\ UNCHANGED out

Deliver == /\ chan # <<>>
           /\ out' = Head(chan)
           /\ chan' = Tail(chan)

Next == (\E m \in Messages : Accept(m)) \/ Deliver

Spec == Init /\ [][Next]_<<chan, out>>
=============================================================================
