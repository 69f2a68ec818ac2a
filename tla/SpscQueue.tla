------------------------------ MODULE SpscQueue ------------------------------
(***************************************************************************)
(* One direction of SpscQueuePair / SpscMessagingQueuePair: the sender     *)
(* writes messages through MMIO into a ring in the receiver's memory; each *)
(* side rings a doorbell in the other side's memory.  A pair is two        *)
(* independent copies of this module.                                      *)
(*                                                                         *)
(* Counters are w-bit (Mod = 2^w) and wrap; the ring is byte addressed.    *)
(* Data stores may reach the peer in any order until MmioWriteBarrier,     *)
(* doorbell stores reach it some time after they are issued.               *)
(***************************************************************************)
EXTENDS Integers, Sequences

CONSTANTS Size,             \* ring size in bytes
          Align,            \* kAlignment
          Header,           \* sizeof(MessageHeader)
          Mod,              \* 2^w for the w-bit counters
          MaxMessageSize,   \* kMaxMessageSize
          Ids,              \* identities of the messages tried
          Lens,             \* body lengths tried
          NoMessage

ASSUME SizesAssumption ==
  /\ Size \in Nat \ {0} /\ Align \in Nat \ {0} /\ Header \in Nat \ {0}
  /\ Mod \in Nat /\ MaxMessageSize \in Nat
  /\ Header =< Align /\ Size % Align = 0
  /\ Mod % Size = 0 /\ Size < Mod
  /\ Lens \subseteq Nat

VARIABLES
  produced,       \* remote_bytes_produced_ of the sender
  producedOut,    \* last value the sender stored to the bytes_produced doorbell
  producedBell,   \* bytes_produced as the receiver's memory holds it
  consumed,       \* local_bytes_consumed_ of the receiver
  consumedOut,    \* last value the receiver stored to remote_bytes_consumed
  consumedBell,   \* remote_bytes_consumed as the sender's memory holds it
  ring,           \* the ring, in the receiver's memory
  writes,         \* data stores issued and not yet in the ring: address -> byte
  spc, msg, sb,   \* the sender: step of Send, its message, its SendBatch
  rpc, rb, body,  \* the receiver: step of Receive, its ReceiveBatch, body_bytes
  saved,          \* SpscQueuePairState of a side that is restarting
  chan, out       \* history: messages committed and not handled; last one handled

sender == <<produced, producedOut, spc, msg, sb>>
receiver == <<consumed, consumedOut, rpc, rb, body>>
history == <<chan, out>>
vars == <<sender, receiver, producedBell, consumedBell, ring, writes, saved, history>>

Messages == [id : Ids, len : Lens]

-----------------------------------------------------------------------------
(* uint64_t arithmetic, on values already in 0 .. Mod-1 *)

Plus(a, b) == IF a + b >= Mod THEN a + b - Mod ELSE a + b
Minus(a, b) == IF a >= b THEN a - b ELSE a - b + Mod

Least(a, b) == IF a =< b THEN a ELSE b

(* PaddingBytes: header + body rounded up to kAlignment, less both. *)
AlignUpTo(n) == Align * ((n + Align - 1) \div Align)
NoPadding(n) == 0                                            \* mutant
PaddingBytes(n) == AlignUpTo(n + Header) - Header - n

(* absl::Span into the ring *)
Spans == {s \in [at : 0 .. Size, len : 0 .. Size] : s.at + s.len =< Size}
NoSpan == [at |-> 0, len |-> 0]
Drop(s, n) == [at |-> s.at + n, len |-> s.len - n]

Batches == [seg : Spans, backup : Spans, taken : Nat]
NoBatch == [seg |-> NoSpan, backup |-> NoSpan, taken |-> 0]
RemainingWholeRing(b) == Size                                \* mutant
Remaining(b) == b.seg.len + b.backup.len

(* Two spans covering n bytes of the ring from the offset of counter c. *)
BatchAt(c, n) ==
  LET offset == c % Size
      first == Least(n, Size - offset)
  IN [seg |-> [at |-> offset, len |-> first],
      backup |-> IF first < n THEN [at |-> 0, len |-> n - first] ELSE NoSpan,
      taken |-> 0]

(* The ring address of the i-th byte still in batch b. *)
Address(b, i) == IF i < b.seg.len THEN b.seg.at + i
                                  ELSE b.backup.at + i - b.seg.len

AdvanceFirstOnly(b, n) ==                                    \* mutant
  [seg |-> IF n =< b.seg.len THEN Drop(b.seg, n)
                             ELSE Drop(b.backup, n - b.seg.len),
   backup |-> IF n =< b.seg.len THEN b.backup ELSE NoSpan,
   taken |-> b.taken + Least(n, b.seg.len)]

(* SendBatch::Append and Skip: move past n bytes; the backup segment is    *)
(* promoted only when the first one does not hold all n.                   *)
Advance(b, n) ==
  [seg |-> IF n =< b.seg.len THEN Drop(b.seg, n)
                             ELSE Drop(b.backup, n - b.seg.len),
   backup |-> IF n =< b.seg.len THEN b.backup ELSE NoSpan,
   taken |-> b.taken + n]

(* ReceiveBatch::Recv: the same, but an emptied segment is replaced at once. *)
Take(b, n) == LET a == Advance(b, n)
              IN IF a.seg.len = 0 THEN [a EXCEPT !.seg = a.backup, !.backup = NoSpan]
                                  ELSE a
-----------------------------------------------------------------------------
(* Bytes.  A header byte carries body_bytes, a body byte its message and place. *)

Zero == [id |-> NoMessage, len |-> 0, i |-> 0]
HeaderOf(m) == [i \in 0 .. Header - 1 |-> [id |-> NoMessage, len |-> m.len, i |-> i]]

(* A message as its receiver sees it: the bytes of the body. *)
Body(m) == [i \in 0 .. m.len - 1 |-> [id |-> m.id, len |-> m.len, i |-> i]]
Bodies == {Body(m) : m \in Messages}

Init ==
  /\ produced = 0 /\ producedOut = 0 /\ producedBell = 0
  /\ consumed = 0 /\ consumedOut = 0 /\ consumedBell = 0
  /\ ring = [a \in 0 .. Size - 1 |-> Zero]
  /\ writes = [a \in {} |-> Zero]
  /\ spc = "idle" /\ msg = NoMessage /\ sb = NoBatch
  /\ rpc = "idle" /\ rb = NoBatch /\ body = 0
  /\ saved = [produced |-> 0, consumed |-> 0]
  /\ chan = <<>> /\ out = NoMessage

-----------------------------------------------------------------------------
(* Send *)

FreeBatchIgnoringUnread == BatchAt(produced, Size)           \* mutant

(* BeginSend.  An impossible amount of used space gives an empty batch. *)
FreeBatch ==
  LET used == Minus(produced, consumedBell)
  IN IF used > Size THEN NoBatch ELSE BatchAt(produced, Size - used)

SendBegin(m) ==
  /\ spc = "idle"
  /\ m.len =< MaxMessageSize
  /\ spc' = "header" /\ msg' = m /\ sb' = FreeBatch
  /\ UNCHANGED <<produced, producedOut, receiver, producedBell, consumedBell,
                 ring, writes, saved, history>>

(* kResourceExhausted: Send returns and the batch is dropped uncommitted. *)
AbandonSend ==
  /\ spc' = "idle" /\ msg' = NoMessage /\ sb' = NoBatch
  /\ UNCHANGED writes

(* Append: stores the n bytes given at the front of the batch. *)
Store(n, bytes) ==
  LET at == {Address(sb, i) : i \in 0 .. n - 1}
      from(a) == CHOOSE i \in 0 .. n - 1 : Address(sb, i) = a
  IN writes' = [a \in DOMAIN writes \cup at |->
                  IF a \in at THEN bytes[from(a)] ELSE writes[a]]

AppendHeader ==
  /\ spc = "header"
  /\ IF Remaining(sb) < Header
     THEN AbandonSend
     ELSE /\ Store(Header, HeaderOf(msg))
          /\ sb' = Advance(sb, Header)
          /\ spc' = "body" /\ UNCHANGED msg
  /\ UNCHANGED <<produced, producedOut, receiver, producedBell, consumedBell,
                 ring, saved, history>>

AppendBody ==
  /\ spc = "body"
  /\ IF Remaining(sb) < msg.len
     THEN AbandonSend
     ELSE /\ Store(msg.len, Body(msg))
          /\ sb' = Advance(sb, msg.len)
          /\ spc' = "padding" /\ UNCHANGED msg
  /\ UNCHANGED <<produced, producedOut, receiver, producedBell, consumedBell,
                 ring, saved, history>>

SkipPadding ==
  /\ spc = "padding"
  /\ IF Remaining(sb) < PaddingBytes(msg.len)
     THEN AbandonSend
     ELSE /\ sb' = Advance(sb, PaddingBytes(msg.len))
          /\ spc' = "commit" /\ UNCHANGED <<msg, writes>>
  /\ UNCHANGED <<produced, producedOut, receiver, producedBell, consumedBell,
                 ring, saved, history>>

NoBarrier == TRUE                                            \* mutant

(* MmioWriteBarrier: every data store is in the ring before the doorbell store. *)
Barrier == DOMAIN writes = {}

SendCommit ==
  /\ spc = "commit"
  /\ Barrier
  /\ produced' = Plus(produced, sb.taken)
  /\ producedOut' = Plus(produced, sb.taken)
  /\ chan' = Append(chan, Body(msg))
  /\ spc' = "idle" /\ msg' = NoMessage /\ sb' = NoBatch
  /\ UNCHANGED <<receiver, producedBell, consumedBell, ring, writes, saved, out>>

-----------------------------------------------------------------------------
(* Receive *)

ReceiveBegin ==
  LET available == Minus(producedBell, consumed)
  IN /\ rpc = "idle"
     /\ available \in 1 .. Size
     /\ rb' = BatchAt(consumed, available)
     /\ rpc' = "header"
     /\ UNCHANGED <<sender, consumed, consumedOut, body, producedBell, consumedBell,
                    ring, writes, saved, history>>

ReceiveHeaderStrict ==                                       \* mutant
  LET n == ring[Address(rb, 0)].len
      rest == Take(rb, Header)
  IN /\ rpc = "header"
     /\ IF Remaining(rest) =< n
        THEN rpc' = "idle" /\ rb' = NoBatch /\ UNCHANGED body
        ELSE rpc' = "handler" /\ rb' = rest /\ body' = n
     /\ UNCHANGED <<sender, consumed, consumedOut, producedBell, consumedBell,
                    ring, writes, saved, history>>

(* The header is read from the front of the batch.  A message that is not  *)
(* complete is left in the queue.                                          *)
ReceiveHeader ==
  LET n == ring[Address(rb, 0)].len
      rest == Take(rb, Header)
  IN /\ rpc = "header"
     /\ IF Remaining(rb) < Header \/ Remaining(rest) < n
        THEN rpc' = "idle" /\ rb' = NoBatch /\ UNCHANGED body
        ELSE rpc' = "handler" /\ rb' = rest /\ body' = n
     /\ UNCHANGED <<sender, consumed, consumedOut, producedBell, consumedBell,
                    ring, writes, saved, history>>

(* The handler is given the body in at most two segments of the ring. *)
ReceiveHandler ==
  /\ rpc = "handler"
  /\ out' = [i \in 0 .. body - 1 |-> ring[Address(rb, i)]]
  /\ chan' = IF chan = <<>> THEN chan ELSE Tail(chan)
  /\ rb' = Take(rb, body)
  /\ rpc' = "padding"
  /\ UNCHANGED <<sender, consumed, consumedOut, body, producedBell, consumedBell,
                 ring, writes, saved>>

ReceiveCommitSilent ==                                       \* mutant
  /\ rpc = "padding"
  /\ consumed' = Plus(consumed, Take(rb, PaddingBytes(body)).taken)
  /\ rpc' = "idle" /\ rb' = NoBatch /\ body' = 0
  /\ UNCHANGED <<sender, consumedOut, producedBell, consumedBell, ring, writes,
                 saved, history>>

(* Commit, unless the padding is not there: then nothing is consumed. *)
ReceiveCommit ==
  /\ rpc = "padding"
  /\ LET n == PaddingBytes(body)
         total == Plus(consumed, Take(rb, n).taken)
     IN IF Remaining(rb) < n
        THEN UNCHANGED <<consumed, consumedOut>>
        ELSE consumed' = total /\ consumedOut' = total
  /\ rpc' = "idle" /\ rb' = NoBatch /\ body' = 0
  /\ UNCHANGED <<sender, producedBell, consumedBell, ring, writes, saved, history>>

-----------------------------------------------------------------------------
(* The stores arrive *)

LandWrite(a) ==
  /\ a \in DOMAIN writes
  /\ ring' = [ring EXCEPT ![a] = writes[a]]
  /\ writes' = [b \in DOMAIN writes \ {a} |-> writes[b]]
  /\ UNCHANGED <<sender, receiver, producedBell, consumedBell, saved, history>>

LandProduced ==
  /\ producedBell # producedOut
  /\ producedBell' = producedOut
  /\ UNCHANGED <<sender, receiver, consumedBell, ring, writes, saved, history>>

LandConsumed ==
  /\ consumedBell # consumedOut
  /\ consumedBell' = consumedOut
  /\ UNCHANGED <<sender, receiver, producedBell, ring, writes, saved, history>>

-----------------------------------------------------------------------------
(* Hitless restart of either side: SaveState on an idle queue, the object  *)
(* is gone, and Restore builds a new one (counters zero) from the state.   *)

SenderSave ==
  /\ spc = "idle"
  /\ saved' = [saved EXCEPT !.produced = produced]
  /\ spc' = "down" /\ produced' = 0
  /\ UNCHANGED <<producedOut, msg, sb, receiver, producedBell, consumedBell,
                 ring, writes, history>>

(* The MMIO read of the peer's doorbell waits for the store on its way there. *)
SenderRestore ==
  /\ spc = "down"
  /\ producedBell' = producedOut
  /\ IF saved.produced % Align = 0 /\ produced = 0 /\ saved.produced = producedOut
     THEN /\ produced' = saved.produced /\ spc' = "idle"
          /\ saved' = [saved EXCEPT !.produced = 0]
     ELSE UNCHANGED <<produced, saved>> /\ spc' = "refused"
  /\ UNCHANGED <<producedOut, msg, sb, receiver, consumedBell, ring, writes, history>>

ReceiverSaveSwapped ==                                       \* mutant
  /\ rpc = "idle"
  /\ saved' = [saved EXCEPT !.consumed = producedBell]
  /\ rpc' = "down" /\ consumed' = 0
  /\ UNCHANGED <<consumedOut, rb, body, sender, producedBell, consumedBell,
                 ring, writes, history>>

ReceiverSave ==
  /\ rpc = "idle"
  /\ saved' = [saved EXCEPT !.consumed = consumed]
  /\ rpc' = "down" /\ consumed' = 0
  /\ UNCHANGED <<consumedOut, rb, body, sender, producedBell, consumedBell,
                 ring, writes, history>>

ReceiverRestore ==
  /\ rpc = "down"
  /\ consumedBell' = consumedOut
  /\ IF saved.consumed % Align = 0 /\ consumed = 0 /\ saved.consumed = consumedOut
     THEN /\ consumed' = saved.consumed /\ rpc' = "idle"
          /\ saved' = [saved EXCEPT !.consumed = 0]
     ELSE UNCHANGED <<consumed, saved>> /\ rpc' = "refused"
  /\ UNCHANGED <<consumedOut, rb, body, sender, producedBell, ring, writes, history>>

-----------------------------------------------------------------------------
SendStep == AppendHeader \/ AppendBody \/ SkipPadding \/ SendCommit
ReceiveStep == ReceiveBegin \/ ReceiveHeader \/ ReceiveHandler \/ ReceiveCommit
Land == (\E a \in 0 .. Size - 1 : LandWrite(a)) \/ LandProduced \/ LandConsumed

Next == \/ \E m \in Messages : SendBegin(m)
        \/ SendStep
        \/ ReceiveStep
        \/ Land
        \/ SenderSave \/ SenderRestore
        \/ ReceiverSave \/ ReceiverRestore

Spec == Init /\ [][Next]_vars

(* The receiver polls for ever, stores arrive, a Send that has begun runs to  *)
(* its end, and a restart that has begun is completed.  Restarts may go on    *)
(* for ever, but not so fast that the receiver never gets to poll between two *)
(* of them, hence the strong fairness.                                        *)
FairSpec == /\ Spec
            /\ SF_vars(ReceiveStep) /\ WF_vars(SendStep)
            /\ WF_vars(SenderRestore) /\ WF_vars(ReceiverRestore)
            /\ WF_vars(LandProduced) /\ WF_vars(LandConsumed)
            /\ \A a \in 0 .. Size - 1 : WF_vars(LandWrite(a))
-----------------------------------------------------------------------------
(* Properties *)

SendSteps == {"header", "body", "padding", "commit"}
ReceiveSteps == {"header", "handler", "padding"}
Bytes == [id : Ids \cup {NoMessage}, len : Lens \cup {0}, i : Nat]

(* Every variable stays in the range its C++ type and the ring give it.    *)
TypeOK ==
  /\ {produced, producedOut, producedBell} \subseteq 0 .. Mod - 1
  /\ {consumed, consumedOut, consumedBell} \subseteq 0 .. Mod - 1
  /\ saved \in [produced : 0 .. Mod - 1, consumed : 0 .. Mod - 1]
  /\ ring \in [0 .. Size - 1 -> Bytes]
  /\ DOMAIN writes \subseteq 0 .. Size - 1
  /\ \A a \in DOMAIN writes : writes[a] \in Bytes
  /\ spc \in SendSteps \cup {"idle", "down", "refused"}
  /\ spc \in SendSteps => msg \in Messages
  /\ rpc \in ReceiveSteps \cup {"idle", "down", "refused"}
  /\ sb \in Batches /\ rb \in Batches /\ body \in Lens \cup {0}

(* The counters of a side that is restarting are the ones it saved. *)
Produced == IF spc \in {"down", "refused"} THEN saved.produced ELSE produced
Consumed == IF rpc \in {"down", "refused"} THEN saved.consumed ELSE consumed

(* The four counters follow one another round the w-bit circle within one  *)
(* ring: remote_bytes_consumed as the sender sees it, bytes consumed, bytes *)
(* produced as the receiver sees it, bytes produced.  So the two "Broken    *)
(* invariant" branches of BeginSend and BeginReceive are never taken.       *)
CountersInOrder ==
  Minus(Consumed, consumedBell) + Minus(producedBell, Consumed)
    + Minus(Produced, producedBell) =< Size

(* The addresses of the bytes from counter c on, n of them. *)
Region(c, n) == {(c + k) % Size : k \in 0 .. n - 1}

(* No store on its way to the ring hits a byte the receiver has still to    *)
(* read, however stale the consumed counter the sender worked from was, and *)
(* whatever an abandoned batch left behind ("will overwrite unreceived      *)
(* data" is what Append's kResourceExhausted prevents).                     *)
NoOverwrite ==
  DOMAIN writes \cap Region(Consumed, Minus(Produced, Consumed)) = {}

(* "MessageHeader should never cross the queue boundary": the fallback copy *)
(* in Receive is dead code, because every message starts aligned.           *)
HeaderContiguous ==
  rpc = "header" => rb.seg.len >= Header

(* "Message received but incomplete" never happens: a doorbell always ends  *)
(* at the end of a message, and its bytes are there before it.              *)
MessageComplete ==
  rpc = "header" =>
    LET n == ring[Address(rb, 0)].len
    IN Remaining(rb) >= Header + n + PaddingBytes(n)

(* RestoreState never refuses the state SaveState returned, although the    *)
(* peer kept sending and receiving in between.                              *)
RestoreAccepted == spc # "refused" /\ rpc # "refused"

(* "The length is preserved and all msg is received in order": the queue is *)
(* a FIFO channel of message bodies.                                        *)
Channel == INSTANCE MessageChannel WITH Messages <- Bodies
InOrder == Channel!Spec

(* A message that was committed is handed to the handler.                   *)
EventuallyHandled == chan # <<>> ~> rpc = "padding"

(* A full ring does not stay full: the space of what was handled comes back *)
(* to the sender, so a retried Send finds room.                             *)
SpaceReturns ==
  Minus(Produced, consumedBell) = Size ~> Minus(Produced, consumedBell) < Size
=============================================================================
