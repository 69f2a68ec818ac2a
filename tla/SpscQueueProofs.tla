--------------------------- MODULE SpscQueueProofs ---------------------------
(***************************************************************************)
(* For every ring size, alignment, header size, counter width and set of   *)
(* messages: the counters of a queue stay in order, no store overwrites a  *)
(* byte that is still to be read, a header never crosses the end of the    *)
(* ring, a saved state is never refused, a message that is announced is    *)
(* there to its last byte, and the queue implements MessageChannel.        *)
(***************************************************************************)
EXTENDS SpscQueue, TLAPS

(* Batch b covers the bytes from counter c + b.taken on, at most n from c. *)
Covers(b, c, n) ==
  /\ b.taken + Remaining(b) =< n
  /\ \A i \in 0 .. Remaining(b) - 1 : Address(b, i) = (c + b.taken + i) % Size

(* The space the sender may use. *)
Free == Size - Minus(Produced, consumedBell)

-----------------------------------------------------------------------------
(* Arithmetic.  The provers know a = q * S + r; the rest follows from it. *)

LEMMA DivMod ==
  ASSUME NEW S \in Nat \ {0}, NEW a \in Int
  PROVE  /\ a \div S \in Int
         /\ a = (a \div S) * S + (a % S)
         /\ a % S \in 0 .. S - 1
  OBVIOUS

LEMMA ModOf ==
  ASSUME NEW S \in Nat \ {0}, NEW q \in Int, NEW r \in 0 .. S - 1
  PROVE  (q * S + r) % S = r
  OBVIOUS

(* Adding a multiple of S does not change the remainder. *)
LEMMA ModShift ==
  ASSUME NEW S \in Nat \ {0}, NEW a \in Int, NEW b \in Int, b % S = 0
  PROVE  (a + b) % S = a % S /\ (a - b) % S = a % S
  <1> DEFINE q == a \div S   p == b \div S   r == a % S
  <1>1. q \in Int /\ r \in 0 .. S - 1 /\ a = q * S + r
    BY DivMod, Zenon
  <1>2. p \in Int /\ b = p * S
    BY DivMod
  <1> HIDE DEF q, p, r
  <1>3. a + b = (q + p) * S + r /\ a - b = (q - p) * S + r
    BY <1>1, <1>2
  <1>4. ((q + p) * S + r) % S = r /\ ((q - p) * S + r) % S = r
    BY <1>1, <1>2, ModOf
  <1> QED
    BY <1>3, <1>4, Zenon DEF r

(* Two numbers less than S apart have different remainders. *)
LEMMA ModDistinct ==
  ASSUME NEW S \in Nat \ {0}, NEW a \in Int, NEW b \in Int,
         0 < a - b, a - b < S
  PROVE  a % S # b % S
  <1> SUFFICES ASSUME a % S = b % S PROVE FALSE
    BY Zenon
  <1> DEFINE q == a \div S   p == b \div S
  <1>1. /\ q \in Int /\ a = q * S + (a % S) /\ a % S \in Int
        /\ p \in Int /\ b = p * S + (b % S)
    BY DivMod
  <1> HIDE DEF q, p
  <1>2. a - b = (q - p) * S
    BY <1>1
  <1>3. CASE q - p =< 0
    BY <1>1, <1>2, <1>3
  <1>4. CASE q - p >= 1
    BY <1>1, <1>2, <1>4
  <1> QED
    BY <1>1, <1>3, <1>4

(* The remainder of a sum, by cases, as BatchAt splits the ring. *)
LEMMA ModSplit ==
  ASSUME NEW S \in Nat \ {0}, NEW a \in Int, NEW k \in 0 .. S - 1
  PROVE  (a + k) % S = IF (a % S) + k < S THEN (a % S) + k ELSE (a % S) + k - S
  <1> DEFINE q == a \div S   r == a % S
  <1>1. q \in Int /\ r \in 0 .. S - 1 /\ a = q * S + r
    BY DivMod, Zenon
  <1> HIDE DEF q, r
  <1>2. CASE r + k < S
    <2>1. a + k = q * S + (r + k)
      BY <1>1
    <2> QED
      BY <1>1, <1>2, <2>1, ModOf, SMTT(30) DEF r
  <1>3. CASE ~ (r + k < S)
    <2>1. a + k = (q + 1) * S + (r + k - S)
      BY <1>1
    <2>2. r + k - S \in 0 .. S - 1
      BY <1>1, <1>3
    <2> DEFINE t == r + k - S
    <2>3. t \in 0 .. S - 1 /\ q + 1 \in Int /\ a + k = (q + 1) * S + t
      BY <1>1, <2>1, <2>2
    <2> HIDE DEF t
    <2>4. ((q + 1) * S + t) % S = t
      BY Zenon, <2>3, ModOf
    <2> QED
      BY <1>3, <2>3, <2>4, Zenon DEF r, t
  <1> QED
    BY <1>2, <1>3, Zenon

(* A positive multiple of S is at least S. *)
LEMMA MultipleAtLeast ==
  ASSUME NEW S \in Nat \ {0}, NEW a \in Int, a % S = 0, a > 0
  PROVE  a >= S
  <1> DEFINE q == a \div S
  <1>1. q \in Int /\ a = q * S
    BY DivMod
  <1> HIDE DEF q
  <1>2. CASE q >= 1
    BY <1>1, <1>2
  <1>3. CASE q =< 0
    BY <1>1, <1>3
  <1> QED
    BY <1>1, <1>2, <1>3

LEMMA Multiples ==
  ASSUME NEW S \in Nat \ {0}, NEW T \in Nat \ {0}, T % S = 0, NEW a \in Int, a % T = 0
  PROVE  a % S = 0
  <1> DEFINE q == a \div T   p == T \div S
  <1>1. q \in Int /\ a = q * T
    BY DivMod
  <1>2. p \in Int /\ T = p * S
    BY DivMod
  <1> HIDE DEF q, p
  <1>3. a = (q * p) * S + 0 /\ q * p \in Int /\ 0 \in 0 .. S - 1
    BY <1>1, <1>2
  <1>4. ((q * p) * S + 0) % S = 0
    BY Zenon, <1>3, ModOf
  <1> QED
    BY <1>3, <1>4, Zenon

(* The counter after a wrap has the remainder it would have without. *)
LEMMA ModAligned == Mod % Align = 0
  <1>1. /\ Align \in Nat \ {0} /\ Size \in Nat \ {0} /\ Size % Align = 0
        /\ Mod \in Int /\ Mod % Size = 0
    BY SizesAssumption
  <1> QED
    BY Zenon, <1>1, Multiples

-----------------------------------------------------------------------------
(* Batches *)

LEMMA AdvanceOK ==
  ASSUME NEW b \in Batches, NEW n \in Nat, n =< Remaining(b)
  PROVE  /\ Advance(b, n) \in Batches
         /\ Advance(b, n).taken = b.taken + n
         /\ Remaining(Advance(b, n)) = Remaining(b) - n
         /\ \A i \in 0 .. Remaining(b) - n - 1 :
              Address(Advance(b, n), i) = Address(b, n + i)
  <1> DEFINE a == Advance(b, n)
  <1>0. /\ b.seg.at \in 0 .. Size /\ b.seg.len \in 0 .. Size
        /\ b.seg.at + b.seg.len =< Size
        /\ b.backup.at \in 0 .. Size /\ b.backup.len \in 0 .. Size
        /\ b.backup.at + b.backup.len =< Size /\ b.taken \in Nat
        /\ b.seg \in Spans /\ b.backup \in Spans
        /\ Size \in Nat
    BY SizesAssumption, Zenon DEF Batches, Spans
  <1>1. CASE n =< b.seg.len
    <2>1. a = [seg |-> [at |-> b.seg.at + n, len |-> b.seg.len - n],
               backup |-> b.backup, taken |-> b.taken + n]
      BY <1>1, Zenon DEF Advance, Drop
    <2>2. [at |-> b.seg.at + n, len |-> b.seg.len - n] \in Spans
      BY <1>0, <1>1 DEF Spans
    <2>3. a \in Batches
      BY <1>0, <2>1, <2>2 DEF Batches
    <2> QED
      BY <1>0, <1>1, <2>1, <2>3 DEF Remaining, Address
  <1>2. CASE ~ (n =< b.seg.len)
    <2> DEFINE k == n - b.seg.len
    <2>1. a = [seg |-> [at |-> b.backup.at + k, len |-> b.backup.len - k],
               backup |-> NoSpan, taken |-> b.taken + n]
      BY <1>2, Zenon DEF Advance, Drop
    <2>2. [at |-> b.backup.at + k, len |-> b.backup.len - k] \in Spans
      BY <1>0, <1>2 DEF Spans, Remaining
    <2>3. NoSpan \in Spans /\ NoSpan.len = 0
      BY <1>0 DEF Spans, NoSpan
    <2>4. a \in Batches
      BY <1>0, <2>1, <2>2, <2>3 DEF Batches
    <2> QED
      BY <1>0, <1>2, <2>1, <2>3, <2>4 DEF Remaining, Address
  <1> QED
    BY <1>1, <1>2, Zenon

LEMMA TakeOK ==
  ASSUME NEW b \in Batches, NEW n \in Nat, n =< Remaining(b)
  PROVE  /\ Take(b, n) \in Batches
         /\ Take(b, n).taken = b.taken + n
         /\ Remaining(Take(b, n)) = Remaining(b) - n
         /\ \A i \in 0 .. Remaining(b) - n - 1 :
              Address(Take(b, n), i) = Address(b, n + i)
  <1> DEFINE a == Advance(b, n)
  <1>1. /\ a \in Batches /\ a.taken = b.taken + n
        /\ Remaining(a) = Remaining(b) - n
        /\ \A i \in 0 .. Remaining(b) - n - 1 : Address(a, i) = Address(b, n + i)
    BY AdvanceOK, Zenon
  <1> HIDE DEF a
  <1>2. Take(b, n) = IF a.seg.len = 0
                     THEN [a EXCEPT !.seg = a.backup, !.backup = NoSpan] ELSE a
    BY Zenon DEF Take, a
  <1>3. CASE a.seg.len = 0
    <2>1. Take(b, n) = [seg |-> a.backup, backup |-> NoSpan, taken |-> a.taken]
      BY Zenon, <1>1, <1>2, <1>3 DEF Batches
    <2>2. NoSpan \in Spans /\ NoSpan.len = 0
      BY SizesAssumption DEF Spans, NoSpan
    <2>3. a.backup \in Spans /\ a.taken \in Nat /\ a.backup.len \in Nat /\ a.backup.at \in Nat
      BY <1>1, SizesAssumption DEF Batches, Spans
    <2>4. Take(b, n) \in Batches
      BY <2>1, <2>2, <2>3 DEF Batches
    <2> QED
      BY <1>1, <1>3, <2>1, <2>2, <2>3, <2>4 DEF Remaining, Address
  <1>4. CASE a.seg.len # 0
    BY <1>1, <1>2, <1>4, Zenon
  <1> QED
    BY <1>3, <1>4, Zenon

LEMMA BatchAtOK ==
  ASSUME NEW c \in Nat, NEW n \in 0 .. Size
  PROVE  /\ BatchAt(c, n) \in Batches
         /\ BatchAt(c, n).taken = 0
         /\ BatchAt(c, n).seg.len = Least(n, Size - (c % Size))
         /\ Remaining(BatchAt(c, n)) = n
         /\ \A i \in 0 .. n - 1 : Address(BatchAt(c, n), i) = (c + i) % Size
  <1> DEFINE o == c % Size
             f == Least(n, Size - o)
             b == BatchAt(c, n)
  <1>1. Size \in Nat \ {0} /\ o \in 0 .. Size - 1
    BY SizesAssumption, DivMod
  <1>2. f \in 0 .. n /\ o + f =< Size /\ (f < n => f = Size - o)
    BY <1>1 DEF Least
  <1>3. b = [seg |-> [at |-> o, len |-> f],
             backup |-> IF f < n THEN [at |-> 0, len |-> n - f] ELSE NoSpan,
             taken |-> 0]
    BY Zenon DEF BatchAt
  <1>4. \A i \in 0 .. n - 1 :
          (c + i) % Size = IF o + i < Size THEN o + i ELSE o + i - Size
    <2> TAKE i \in 0 .. n - 1
    <2>1. i \in 0 .. Size - 1 /\ c \in Int
      BY <1>1
    <2> QED
      BY Zenon, <1>1, <2>1, ModSplit
  <1> HIDE DEF o, f, b
  <1>5. /\ [at |-> o, len |-> f] \in Spans /\ NoSpan \in Spans /\ NoSpan.len = 0
        /\ f < n => [at |-> 0, len |-> n - f] \in Spans
    BY <1>1, <1>2 DEF Spans, NoSpan
  <1>6. b \in Batches /\ b.taken = 0 /\ b.seg.len = f /\ Remaining(b) = n
    BY <1>1, <1>2, <1>3, <1>5 DEF Batches, Remaining
  <1>7. ASSUME NEW i \in 0 .. n - 1
        PROVE  Address(b, i) = (c + i) % Size
    <2>1. CASE i < f
      BY <1>1, <1>2, <1>3, <1>4, <2>1 DEF Address
    <2>2. CASE ~ (i < f)
      BY <1>1, <1>2, <1>3, <1>4, <2>2 DEF Address
    <2> QED
      BY <2>1, <2>2, Zenon
  <1> QED
    BY <1>6, <1>7, Zenon DEF b, f, o

LEMMA CoversAdvance ==
  ASSUME NEW b \in Batches, NEW c \in Nat, NEW m \in Int, Covers(b, c, m),
         NEW n \in Nat, n =< Remaining(b)
  PROVE  Covers(Advance(b, n), c, m) /\ Covers(Take(b, n), c, m)
  <1>1. b.taken \in Nat /\ Remaining(b) \in Nat
    BY SizesAssumption DEF Batches, Spans, Remaining
  <1>2. \A i \in 0 .. Remaining(b) - n - 1 :
          Address(b, n + i) = (c + (b.taken + n) + i) % Size
    <2> TAKE i \in 0 .. Remaining(b) - n - 1
    <2>1. n + i \in 0 .. Remaining(b) - 1
      BY <1>1
    <2>2. c + b.taken + (n + i) = c + (b.taken + n) + i
      BY <1>1
    <2> QED
      BY <2>1, <2>2, Zenon DEF Covers
  <1>3. Covers(Advance(b, n), c, m)
    BY <1>1, <1>2, AdvanceOK DEF Covers
  <1>4. Covers(Take(b, n), c, m)
    BY <1>1, <1>2, TakeOK DEF Covers
  <1> QED
    BY <1>3, <1>4, Zenon

LEMMA CoversBatchAt ==
  ASSUME NEW c \in Nat, NEW n \in 0 .. Size
  PROVE  Covers(BatchAt(c, n), c, n)
  <1> DEFINE b == BatchAt(c, n)
  <1>1. /\ b.taken = 0 /\ Remaining(b) = n
        /\ \A i \in 0 .. n - 1 : Address(b, i) = (c + i) % Size
    BY BatchAtOK, Zenon
  <1>2. \A i \in 0 .. n - 1 : c + 0 + i = c + i
    OBVIOUS
  <1> HIDE DEF b
  <1>3. Covers(b, c, n)
    BY <1>1, <1>2, SizesAssumption DEF Covers
  <1> QED
    BY <1>3, Zenon DEF b

LEMMA PaddingOK ==
  ASSUME NEW n \in Nat
  PROVE  /\ PaddingBytes(n) \in Nat
         /\ Header + n + PaddingBytes(n) = AlignUpTo(n + Header)
         /\ AlignUpTo(n + Header) \in Nat
         /\ AlignUpTo(n + Header) % Align = 0
  <1> DEFINE x == n + Header + Align - 1
             q == x \div Align
  <1>1. Align \in Nat \ {0} /\ Header \in Nat /\ x \in Int
    BY SizesAssumption
  <1>2. q \in Int /\ x = q * Align + (x % Align) /\ x % Align \in 0 .. Align - 1
    BY Zenon, <1>1, DivMod
  <1>3. AlignUpTo(n + Header) = Align * q
    BY Zenon DEF AlignUpTo
  <1> HIDE DEF q
  <1>4. Align * q >= n + Header /\ Align * q \in Int /\ Align * q = q * Align + 0
    BY <1>1, <1>2
  <1>5. (q * Align + 0) % Align = 0
    BY <1>1, <1>2, ModOf
  <1> QED
    BY <1>1, <1>3, <1>4, <1>5 DEF PaddingBytes

-----------------------------------------------------------------------------
(* Consequences of the invariant that every step uses *)

LEMMA Sizes ==
  /\ Size \in Nat \ {0} /\ Align \in Nat \ {0} /\ Header \in Nat \ {0} /\ Mod \in Nat
  /\ Header =< Align /\ Size < Mod /\ Lens \subseteq Nat
  /\ Size % Align = 0 /\ Mod % Size = 0 /\ Mod % Align = 0
  BY SizesAssumption, ModAligned, Zenon

LEMMA ZeroInRange == 0 \in 0 .. Mod - 1
  BY Sizes

LEMMA Ranges ==
  ASSUME TypeOK
  PROVE  /\ produced \in 0 .. Mod - 1 /\ producedOut \in 0 .. Mod - 1
         /\ producedBell \in 0 .. Mod - 1 /\ Produced \in 0 .. Mod - 1
         /\ consumed \in 0 .. Mod - 1 /\ consumedOut \in 0 .. Mod - 1
         /\ consumedBell \in 0 .. Mod - 1 /\ Consumed \in 0 .. Mod - 1
  BY Zenon DEF TypeOK, Produced, Consumed

LEMMA MinusRange ==
  ASSUME NEW a \in 0 .. Mod - 1, NEW b \in 0 .. Mod - 1
  PROVE  Minus(a, b) \in 0 .. Mod - 1
  BY Sizes DEF Minus

(* Free space, unread bytes and doorbell lag, as the counters order them. *)
LEMMA Distances ==
  ASSUME TypeOK, CountersInOrder
  PROVE  /\ Minus(Produced, consumedBell) \in 0 .. Size
         /\ Minus(producedBell, Consumed) \in 0 .. Size
         /\ Minus(Produced, Consumed) \in 0 .. Size
         /\ Minus(Produced, Consumed) =< Minus(Produced, consumedBell)
         /\ Free \in 0 .. Size
  BY Sizes, Ranges DEF CountersInOrder, Minus, Free

LEMMA BatchType ==
  ASSUME NEW b \in Batches
  PROVE  Remaining(b) \in Nat /\ b.taken \in Nat
  BY Sizes DEF Batches, Spans, Remaining

LEMMA NoBatchType == NoBatch \in Batches /\ Remaining(NoBatch) = 0
  BY Sizes DEF NoBatch, NoSpan, Batches, Spans, Remaining

LEMMA AlignedSum ==
  ASSUME NEW a \in 0 .. Mod - 1, NEW n \in 0 .. Size, a % Align = 0, n % Align = 0
  PROVE  Plus(a, n) \in 0 .. Mod - 1 /\ Plus(a, n) % Align = 0
  <1> DEFINE x == a + n
  <1>0. /\ a \in Int /\ n \in Int /\ Mod \in Int /\ x \in Int
        /\ Align \in Nat \ {0} /\ Mod % Align = 0
    BY Sizes
  <1>1. x % Align = a % Align
    BY Zenon, <1>0, ModShift
  <1> HIDE DEF x
  <1>2. (x - Mod) % Align = x % Align
    BY Zenon, <1>0, ModShift
  <1> QED
    BY Sizes, <1>1, <1>2 DEF Plus, x

LEMMA AlignedDifference ==
  ASSUME NEW a \in 0 .. Mod - 1, NEW b \in 0 .. Mod - 1, a % Align = 0, b % Align = 0
  PROVE  Minus(a, b) % Align = 0
  <1> DEFINE x == a - b
  <1>0. /\ a \in Int /\ b \in Int /\ Mod \in Int /\ x \in Int
        /\ Align \in Nat \ {0} /\ Mod % Align = 0
    BY Sizes
  <1>1. x % Align = a % Align
    BY Zenon, <1>0, ModShift
  <1> HIDE DEF x
  <1>2. (x + Mod) % Align = x % Align
    BY Zenon, <1>0, ModShift
  <1> QED
    BY Sizes, <1>1, <1>2 DEF Minus, x

(* From an aligned counter to the end of the ring there is room for a header. *)
LEMMA RoomToEnd ==
  ASSUME NEW c \in Nat, c % Align = 0
  PROVE  Size - (c % Size) >= Align /\ c % Size \in Int
  <1> DEFINE r == c % Size   q == c \div Size   x == q * Size   y == Size - r
  <1>1. q \in Int /\ c = q * Size + r /\ r \in 0 .. Size - 1
    BY DivMod, Sizes
  <1> HIDE DEF r, q
  <1>2. x \in Int /\ c = x + r /\ r \in Int /\ c - x = r /\ y \in Int /\ y > 0
    BY <1>1, Sizes
  <1>3. x % Size = 0
    <2>1. 0 \in 0 .. Size - 1 /\ x = q * Size + 0 /\ Size \in Nat \ {0}
      BY <1>1, Sizes
    <2> QED
      BY <1>1, <2>1, ModOf
  <1> HIDE DEF x
  <1>4. x % Align = 0
    BY Zenon, <1>2, <1>3, Multiples, Sizes
  <1>5. (c - x) % Align = c % Align
    <2>1. c \in Int /\ Align \in Nat \ {0}
      BY Sizes
    <2> QED
      BY Zenon, <1>2, <1>4, <2>1, ModShift
  <1>6. r % Align = 0
    BY <1>2, <1>5, Zenon
  <1>7. y % Align = 0
    <2>1. Size \in Int /\ Align \in Nat \ {0} /\ Size % Align = 0
      BY Sizes
    <2>2. (Size - r) % Align = Size % Align
      BY Zenon, <1>2, <1>6, <2>1, ModShift
    <2> QED
      BY <2>1, <2>2
  <1> HIDE DEF y
  <1>8. y >= Align
    BY <1>2, <1>7, MultipleAtLeast, Sizes
  <1> QED
    BY <1>2, <1>8, Zenon DEF y, r


-----------------------------------------------------------------------------
(* The inductive invariant *)

(* What the doorbell stores carry, and what a restart keeps. *)
OutsOK ==
  /\ producedOut = Produced /\ consumedOut = Consumed
  /\ spc # "refused" /\ rpc # "refused"
  /\ spc = "down" => produced = 0
  /\ rpc = "down" => consumed = 0

AlignedOK ==
  /\ Produced % Align = 0 /\ Consumed % Align = 0
  /\ producedBell % Align = 0 /\ consumedBell % Align = 0

SendBatchOK ==
  /\ spc \in SendSteps => Covers(sb, produced, Free)
  /\ spc = "header" => sb.taken = 0
  /\ spc = "body" => sb.taken = Header
  /\ spc = "padding" => sb.taken = Header + msg.len
  /\ spc = "commit" => sb.taken = AlignUpTo(msg.len + Header)

ReceiveBatchOK ==
  /\ rpc \in ReceiveSteps => Covers(rb, consumed, Minus(producedBell, consumed))
  /\ rpc = "header" => rb.taken = 0 /\ rb.seg.len >= Header
  /\ rpc = "handler" => rb.taken = Header /\ Remaining(rb) >= body
  /\ rpc = "padding" => rb.taken = Header + body

(* Every store on its way lands in the free space, abandoned ones included. *)
WritesOK ==
  \A a \in DOMAIN writes : \E j \in 0 .. Free - 1 : a = (Produced + j) % Size

IInv == /\ TypeOK /\ OutsOK /\ AlignedOK /\ CountersInOrder
        /\ SendBatchOK /\ ReceiveBatchOK /\ WritesOK

-----------------------------------------------------------------------------
(* The first four parts of the invariant do not mention the batches. *)

CoreOK == OutsOK /\ AlignedOK /\ CountersInOrder

LEMMA CoreFrame ==
  ASSUME CoreOK, UNCHANGED <<produced, producedOut, producedBell>>,
         UNCHANGED <<consumed, consumedOut, consumedBell, saved>>,
         (spc' \in {"down", "refused"}) <=> (spc \in {"down", "refused"}),
         (rpc' \in {"down", "refused"}) <=> (rpc \in {"down", "refused"}),
         spc' # "refused", rpc' # "refused"
  PROVE  CoreOK' /\ Produced' = Produced /\ Consumed' = Consumed /\ Free' = Free
  <1>1. Produced' = Produced /\ Consumed' = Consumed
    BY Zenon DEF Produced, Consumed
  <1>2. OutsOK'
    BY <1>1, Zenon DEF CoreOK, OutsOK
  <1>3. AlignedOK'
    BY <1>1, Zenon DEF CoreOK, AlignedOK
  <1>4. CountersInOrder'
    BY <1>1 DEF CoreOK, CountersInOrder
  <1> QED
    BY <1>1, <1>2, <1>3, <1>4 DEF CoreOK, Free

LEMMA SendBeginStep ==
  ASSUME IInv, NEW m \in Messages, SendBegin(m)
  PROVE  IInv'
  <1> USE DEF IInv
  <1>1. CoreOK' /\ Produced' = Produced /\ Consumed' = Consumed /\ Free' = Free
    BY CoreFrame DEF SendBegin, CoreOK, receiver, OutsOK
  <1>2. Produced = produced /\ Free = Size - Minus(produced, consumedBell)
    BY Zenon DEF SendBegin, Produced, Free
  <1>3. FreeBatch = BatchAt(produced, Free) /\ Free \in 0 .. Size /\ produced \in Nat
    BY <1>2, Distances, Ranges, Sizes DEF FreeBatch
  <1>4. sb' \in Batches /\ sb'.taken = 0 /\ Covers(sb', produced, Free)
    BY <1>3, BatchAtOK, CoversBatchAt DEF SendBegin
  <1>5. TypeOK'
    BY <1>4 DEF TypeOK, SendBegin, receiver, SendSteps
  <1>6. SendBatchOK'
    BY <1>1, <1>4 DEF SendBegin, SendBatchOK
  <1>7. ReceiveBatchOK'
    BY Zenon DEF SendBegin, ReceiveBatchOK, receiver
  <1>8. WritesOK'
    BY <1>1, Zenon DEF WritesOK, SendBegin
  <1> QED
    BY <1>1, <1>5, <1>6, <1>7, <1>8 DEF CoreOK

(* A Send that gives up leaves only its stores behind. *)
LEMMA AbandonStep ==
  ASSUME IInv, spc \in SendSteps, AbandonSend,
         UNCHANGED <<produced, producedOut, receiver, producedBell, consumedBell,
                     ring, saved, history>>
  PROVE  IInv'
  <1> USE DEF IInv
  <1>1. CoreOK' /\ Produced' = Produced /\ Consumed' = Consumed /\ Free' = Free
    BY CoreFrame, Zenon DEF AbandonSend, CoreOK, receiver, OutsOK, SendSteps
  <1>2. TypeOK'
    BY NoBatchType DEF TypeOK, AbandonSend, receiver, SendSteps
  <1>3. SendBatchOK'
    BY Zenon DEF AbandonSend, SendBatchOK, SendSteps
  <1>4. ReceiveBatchOK'
    BY Zenon DEF ReceiveBatchOK, receiver
  <1>5. WritesOK'
    BY <1>1 DEF WritesOK, AbandonSend
  <1> QED
    BY <1>1, <1>2, <1>3, <1>4, <1>5 DEF CoreOK

(* Append stores into the free space only. *)
LEMMA StoreOK ==
  ASSUME TypeOK, CountersInOrder, WritesOK, spc \in SendSteps,
         Covers(sb, produced, Free),
         NEW n \in Nat, n =< Remaining(sb),
         NEW bytes \in [0 .. n - 1 -> Bytes], Store(n, bytes)
  PROVE  /\ DOMAIN writes' \subseteq 0 .. Size - 1
         /\ \A a \in DOMAIN writes' : writes'[a] \in Bytes
         /\ \A a \in DOMAIN writes' :
              \E j \in 0 .. Free - 1 : a = (Produced + j) % Size
  <1> DEFINE at == {Address(sb, i) : i \in 0 .. n - 1}
             from(a) == CHOOSE i \in 0 .. n - 1 : Address(sb, i) = a
  <1>1. writes' = [a \in DOMAIN writes \cup at |->
                     IF a \in at THEN bytes[from(a)] ELSE writes[a]]
    BY Zenon DEF Store
  <1>2. Produced = produced /\ produced \in Nat /\ Free \in 0 .. Size
    <2>1. Produced = produced
      BY DEF Produced, SendSteps
    <2>2. produced \in 0 .. Mod - 1
      BY Ranges
    <2>3. Free \in 0 .. Size
      BY Distances
    <2> QED
      BY <2>1, <2>2, <2>3
  <1>3. sb \in Batches /\ Remaining(sb) \in Nat /\ sb.taken \in Nat
    BY BatchType DEF TypeOK
  <1>4. ASSUME NEW a \in at
        PROVE  /\ bytes[from(a)] \in Bytes
               /\ a \in 0 .. Size - 1
               /\ \E j \in 0 .. Free - 1 : a = (Produced + j) % Size
    <2>1. PICK i \in 0 .. n - 1 : Address(sb, i) = a
      BY Zenon
    <2>2. from(a) \in 0 .. n - 1
      BY <2>1
    <2>0. sb.taken + Remaining(sb) =< Free
      BY Zenon DEF Covers
    <2>3. i \in 0 .. Remaining(sb) - 1 /\ sb.taken + i \in 0 .. Free - 1
      <3> DEFINE k == sb.taken   r == Remaining(sb)   f == Free
      <3>1. k \in Nat /\ r \in Nat /\ f \in Int /\ k + r =< f /\ n =< r
        BY <1>2, <1>3, <2>0
      <3> HIDE DEF k, r, f
      <3>2. i \in 0 .. r - 1 /\ k + i \in 0 .. f - 1
        BY <3>1
      <3> QED
        BY <3>2 DEF k, r, f
    <2>4. a = (produced + sb.taken + i) % Size
      BY <2>1, <2>3 DEF Covers
    <2>5. produced + sb.taken + i = Produced + (sb.taken + i)
      BY <1>2, <1>3
    <2>6. a \in 0 .. Size - 1
      <3> DEFINE x == produced + sb.taken + i
      <3>1. x \in Int /\ a = x % Size /\ Size \in Nat \ {0}
        BY <2>4, <1>2, <1>3, Sizes, SMTT(30)
      <3> HIDE DEF x
      <3> QED
        BY <3>1, DivMod
    <2> QED
      BY <2>2, <2>3, <2>4, <2>5, <2>6
  <1>5. DOMAIN writes' = DOMAIN writes \cup at
    BY <1>1
  <1>6. ASSUME NEW a \in DOMAIN writes'
        PROVE  /\ a \in 0 .. Size - 1 /\ writes'[a] \in Bytes
               /\ \E j \in 0 .. Free - 1 : a = (Produced + j) % Size
    <2>1. CASE a \in at
      BY <1>1, <1>4, <1>5, <2>1, SMTT(30)
    <2>2. CASE a \notin at
      BY <1>1, <1>5, <2>2 DEF TypeOK, WritesOK
    <2> QED
      BY <2>1, <2>2
  <1> QED
    BY <1>6

LEMMA AppendHeaderStep ==
  ASSUME IInv, AppendHeader
  PROVE  IInv'
  <1> USE DEF IInv
  <1>1. CASE Remaining(sb) < Header
    BY <1>1, AbandonStep DEF AppendHeader, SendSteps
  <1>2. CASE ~ (Remaining(sb) < Header)
    <2>1. /\ Store(Header, HeaderOf(msg)) /\ sb' = Advance(sb, Header)
          /\ spc = "header" /\ spc' = "body" /\ msg' = msg /\ spc \in SendSteps
      BY <1>2, SMTT(30) DEF AppendHeader, SendSteps
    <2>2. CoreOK' /\ Produced' = Produced /\ Consumed' = Consumed /\ Free' = Free
      BY <2>1, CoreFrame DEF AppendHeader, CoreOK, receiver, OutsOK
    <2>3. /\ sb \in Batches /\ Remaining(sb) \in Nat /\ Header \in Nat
          /\ Header =< Remaining(sb) /\ sb.taken = 0 /\ Covers(sb, produced, Free)
          /\ Free \in Int /\ produced \in Nat
      <3>1. sb \in Batches
        BY Zenon DEF TypeOK
      <3>2. Remaining(sb) \in Nat /\ Header \in Nat /\ Header =< Remaining(sb)
        BY <1>2, <3>1, BatchType, Sizes
      <3>3. sb.taken = 0 /\ Covers(sb, produced, Free)
        BY <2>1 DEF SendBatchOK
      <3>4. Free \in Int /\ produced \in Nat
        BY Sizes, Distances, Ranges
      <3> QED
        BY <3>1, <3>2, <3>3, <3>4
    <2>4. sb' \in Batches /\ sb'.taken = Header /\ Covers(sb', produced, Free)
      BY <2>1, <2>3, AdvanceOK, CoversAdvance, SMTT(30)
    <2>5. HeaderOf(msg) \in [0 .. Header - 1 -> Bytes]
      BY <2>1, Sizes DEF HeaderOf, Bytes, TypeOK, Messages
    <2>6. /\ DOMAIN writes' \subseteq 0 .. Size - 1
          /\ \A a \in DOMAIN writes' : writes'[a] \in Bytes
          /\ \A a \in DOMAIN writes' :
              \E j \in 0 .. Free - 1 : a = (Produced + j) % Size
      BY <2>1, <2>3, <2>5, StoreOK, SMTT(30)
    <2>7. TypeOK'
      BY <2>1, <2>4, <2>6, SMTT(30) DEF TypeOK, AppendHeader, receiver, SendSteps
    <2>8. SendBatchOK'
      BY <2>1, <2>2, <2>4 DEF AppendHeader, SendBatchOK
    <2>9. ReceiveBatchOK'
      BY Zenon DEF AppendHeader, ReceiveBatchOK, receiver
    <2>10. WritesOK'
      BY <2>2, <2>6 DEF WritesOK
    <2> QED
      BY <2>2, <2>7, <2>8, <2>9, <2>10 DEF CoreOK
  <1> QED
    BY <1>1, <1>2

LEMMA AppendBodyStep ==
  ASSUME IInv, AppendBody
  PROVE  IInv'
  <1> USE DEF IInv
  <1>1. CASE Remaining(sb) < msg.len
    BY <1>1, AbandonStep DEF AppendBody, SendSteps
  <1>2. CASE ~ (Remaining(sb) < msg.len)
    <2>1. /\ Store(msg.len, Body(msg)) /\ sb' = Advance(sb, msg.len)
          /\ spc = "body" /\ spc' = "padding" /\ msg' = msg /\ spc \in SendSteps
      BY <1>2, SMTT(30) DEF AppendBody, SendSteps
    <2>2. CoreOK' /\ Produced' = Produced /\ Consumed' = Consumed /\ Free' = Free
      BY <2>1, CoreFrame DEF AppendBody, CoreOK, receiver, OutsOK
    <2>0. msg.len \in Nat
      BY Zenon, <2>1, Sizes DEF TypeOK, Messages
    <2>3. /\ sb \in Batches /\ Remaining(sb) \in Nat /\ msg.len \in Nat
          /\ msg.len =< Remaining(sb) /\ sb.taken = Header
          /\ Covers(sb, produced, Free) /\ Free \in Int /\ produced \in Nat
      <3>1. sb \in Batches
        BY Zenon DEF TypeOK
      <3>2. Remaining(sb) \in Nat /\ msg.len =< Remaining(sb)
        BY <1>2, <2>0, <3>1, BatchType
      <3>3. sb.taken = Header /\ Covers(sb, produced, Free)
        BY <2>1, SMTT(30) DEF SendBatchOK
      <3>4. Free \in Int /\ produced \in Nat
        BY Sizes, Distances, Ranges
      <3> QED
        BY <2>0, <3>1, <3>2, <3>3, <3>4
    <2>4. sb' \in Batches /\ sb'.taken = Header + msg.len /\ Covers(sb', produced, Free)
      BY <2>1, <2>3, AdvanceOK, CoversAdvance, SMTT(30)
    <2>5. Body(msg) \in [0 .. msg.len - 1 -> Bytes]
      <3>1. msg.id \in Ids /\ msg.len \in Lens
        BY <2>1, SMTT(30) DEF TypeOK, Messages
      <3>2. \A i \in 0 .. msg.len - 1 : [id |-> msg.id, len |-> msg.len, i |-> i] \in Bytes
        BY <2>0, <3>1, SMTT(30) DEF Bytes
      <3> QED
        BY <3>2, SMTT(30) DEF Body
    <2>6. /\ DOMAIN writes' \subseteq 0 .. Size - 1
          /\ \A a \in DOMAIN writes' : writes'[a] \in Bytes
          /\ \A a \in DOMAIN writes' :
              \E j \in 0 .. Free - 1 : a = (Produced + j) % Size
      BY <2>1, <2>3, <2>5, StoreOK, SMTT(30)
    <2>7. TypeOK'
      BY <2>1, <2>4, <2>6, SMTT(30) DEF TypeOK, AppendBody, receiver, SendSteps
    <2>8. SendBatchOK'
      BY <2>1, <2>2, <2>4, SMTT(30) DEF AppendBody, SendBatchOK
    <2>9. ReceiveBatchOK'
      BY DEF AppendBody, ReceiveBatchOK, receiver
    <2>10. WritesOK'
      BY <2>2, <2>6, Zenon DEF WritesOK
    <2> QED
      BY <2>2, <2>7, <2>8, <2>9, <2>10, Zenon DEF CoreOK
  <1> QED
    BY <1>1, <1>2, SMTT(30)

LEMMA SkipPaddingStep ==
  ASSUME IInv, SkipPadding
  PROVE  IInv'
  <1> USE DEF IInv
  <1> DEFINE n == PaddingBytes(msg.len)
  <1>1. CASE Remaining(sb) < n
    BY <1>1, AbandonStep, SMTT(30) DEF SkipPadding, SendSteps
  <1>2. CASE ~ (Remaining(sb) < n)
    <2>1. /\ sb' = Advance(sb, n) /\ writes' = writes
          /\ spc = "padding" /\ spc' = "commit" /\ msg' = msg /\ spc \in SendSteps
      BY <1>2, SMTT(30) DEF SkipPadding, SendSteps
    <2>2. CoreOK' /\ Produced' = Produced /\ Consumed' = Consumed /\ Free' = Free
      BY <2>1, CoreFrame DEF SkipPadding, CoreOK, receiver, OutsOK
    <2>3. msg.len \in Nat
      BY Zenon, <2>1, Sizes DEF TypeOK, Messages
    <2>4. n \in Nat /\ Header + msg.len + n = AlignUpTo(msg.len + Header)
      BY <2>3, PaddingOK, SMTT(30)
    <2>5. /\ sb \in Batches /\ Remaining(sb) \in Nat
          /\ n =< Remaining(sb) /\ sb.taken = Header + msg.len
          /\ Covers(sb, produced, Free) /\ Free \in Int /\ produced \in Nat
      <3>1. sb \in Batches
        BY Zenon DEF TypeOK
      <3>2. Remaining(sb) \in Nat /\ n =< Remaining(sb)
        BY <1>2, <2>4, <3>1, BatchType
      <3>3. sb.taken = Header + msg.len /\ Covers(sb, produced, Free)
        BY <2>1, SMTT(30) DEF SendBatchOK
      <3>4. Free \in Int /\ produced \in Nat
        BY Sizes, Distances, Ranges
      <3> QED
        BY <3>1, <3>2, <3>3, <3>4, SMTT(30)
    <2> HIDE DEF n
    <2>6. /\ sb' \in Batches /\ sb'.taken = AlignUpTo(msg.len + Header)
          /\ Covers(sb', produced, Free)
      BY <2>1, <2>4, <2>5, AdvanceOK, CoversAdvance, SMTT(30)
    <2>7. TypeOK'
      BY <2>1, <2>6, SMTT(30) DEF TypeOK, SkipPadding, receiver, SendSteps
    <2>8. SendBatchOK'
      BY <2>1, <2>2, <2>6
      DEF SkipPadding, SendBatchOK
    <2>9. ReceiveBatchOK'
      BY Zenon DEF SkipPadding, ReceiveBatchOK, receiver
    <2>10. WritesOK'
      BY <2>1, <2>2 DEF WritesOK
    <2> QED
      BY <2>2, <2>7, <2>8, <2>9, <2>10, Zenon DEF CoreOK
  <1> QED
    BY <1>1, <1>2, Zenon

LEMMA SendCommitStep ==
  ASSUME IInv, SendCommit
  PROVE  IInv'
  <1> USE DEF IInv
  <1> DEFINE n == sb.taken
  <1>1. /\ spc = "commit" /\ spc' = "idle" /\ DOMAIN writes = {} /\ writes' = writes
        /\ produced' = Plus(produced, n) /\ producedOut' = Plus(produced, n)
        /\ rpc' = rpc /\ saved' = saved /\ consumed' = consumed
        /\ producedBell' = producedBell /\ consumedBell' = consumedBell
        /\ consumedOut' = consumedOut
    BY Zenon DEF SendCommit, Barrier, receiver
  <1>2. /\ Produced = produced /\ Produced' = produced' /\ Consumed' = Consumed
    BY <1>1, SMTT(30) DEF Produced, Consumed
  <1>3. n \in Nat /\ n =< Free /\ n % Align = 0 /\ Free \in 0 .. Size
    <2>1. msg.len \in Nat /\ n = AlignUpTo(msg.len + Header) /\ spc \in SendSteps
      BY Zenon, <1>1, Sizes DEF TypeOK, Messages, SendBatchOK, SendSteps
    <2>2. n \in Nat /\ Remaining(sb) \in Nat /\ n + Remaining(sb) =< Free
      BY <2>1, BatchType, SMTT(30) DEF TypeOK, SendBatchOK, Covers
    <2> QED
      BY <2>1, <2>2, PaddingOK, Distances
  <1>4. /\ produced \in 0 .. Mod - 1 /\ producedBell \in 0 .. Mod - 1
        /\ Consumed \in 0 .. Mod - 1 /\ consumedBell \in 0 .. Mod - 1
    BY Ranges
  <1>5. produced' \in 0 .. Mod - 1 /\ produced' % Align = 0
    BY <1>1, <1>2, <1>3, <1>4, AlignedSum, Sizes, SMTT(30) DEF AlignedOK
  <1>6. TypeOK'
    BY <1>1, <1>5, NoBatchType, SMTT(30) DEF TypeOK, SendCommit, receiver, SendSteps
  <1>7. OutsOK'
    BY <1>1, <1>2, SMTT(30) DEF OutsOK
  <1>8. AlignedOK'
    BY <1>1, <1>2, <1>5, SMTT(30) DEF AlignedOK
  <1> HIDE DEF n
  <1>9. CountersInOrder'
    BY <1>1, <1>2, <1>3, <1>4, Sizes, SMTT(30) DEF CountersInOrder, Plus, Minus, Free
  <1>10. SendBatchOK'
    BY <1>1 DEF SendBatchOK, SendSteps
  <1>11. ReceiveBatchOK'
    BY Zenon DEF SendCommit, ReceiveBatchOK, receiver
  <1>12. WritesOK'
    BY <1>1 DEF WritesOK
  <1> QED
    BY <1>6, <1>7, <1>8, <1>9, <1>10, <1>11, <1>12

-----------------------------------------------------------------------------
(* The receiver *)

(* The sender's part of the invariant is untouched by a receiver step that *)
(* moves no counter.                                                       *)
LEMMA SenderFrame ==
  ASSUME IInv, UNCHANGED <<sender, writes>>, Free' = Free, Produced' = Produced
  PROVE  SendBatchOK' /\ WritesOK'
  <1>1. SendBatchOK'
    BY Zenon DEF IInv, SendBatchOK, sender
  <1>2. WritesOK'
    BY Zenon DEF IInv, WritesOK
  <1> QED
    BY <1>1, <1>2

LEMMA ReceiveBeginStep ==
  ASSUME IInv, ReceiveBegin
  PROVE  IInv'
  <1> USE DEF IInv
  <1> DEFINE n == Minus(producedBell, consumed)
  <1>1. /\ rpc = "idle" /\ rpc' = "header" /\ n \in 1 .. Size
        /\ rb' = BatchAt(consumed, n) /\ Consumed = consumed
    BY Zenon DEF ReceiveBegin, Consumed
  <1>0. /\ UNCHANGED <<consumed, consumedOut, producedBell, consumedBell, ring, saved>>
        /\ UNCHANGED <<sender, writes, body>>
    BY Zenon DEF ReceiveBegin
  <1>2. CoreOK' /\ Produced' = Produced /\ Consumed' = Consumed /\ Free' = Free
    BY <1>0, <1>1, CoreFrame DEF CoreOK, sender, OutsOK
  <1>3. consumed \in 0 .. Mod - 1 /\ consumed \in Nat /\ producedBell \in 0 .. Mod - 1
        /\ consumed % Align = 0 /\ producedBell % Align = 0
    BY <1>1, Ranges, Sizes DEF AlignedOK
  <1>4. n % Align = 0
    BY <1>3, AlignedDifference, Zenon
  <1> HIDE DEF n
  <1>5. /\ rb' \in Batches /\ rb'.taken = 0 /\ Covers(rb', consumed, n)
        /\ rb'.seg.len = Least(n, Size - (consumed % Size))
    BY <1>1, <1>3, BatchAtOK, CoversBatchAt, Sizes
  <1>6. n >= Align
    BY <1>1, <1>4, MultipleAtLeast, Sizes
  <1>7. Size - (consumed % Size) >= Align /\ consumed % Size \in Int
    BY <1>3, RoomToEnd
  <1>8. rb'.seg.len >= Header
    <2> DEFINE k == Size - (consumed % Size)
    <2>1. k >= Align /\ k \in Int /\ n \in Int /\ rb'.seg.len = Least(n, k)
      BY <1>1, <1>5, <1>7, Sizes, SMTT(30)
    <2> HIDE DEF k
    <2> QED
      BY <1>6, <2>1, Sizes DEF Least
  <1>9. TypeOK'
    BY <1>0, <1>1, <1>5, SMTT(30) DEF TypeOK, sender, ReceiveSteps
  <1>10. SendBatchOK' /\ WritesOK'
    BY <1>0, <1>2, SenderFrame, Zenon
  <1>11. ReceiveBatchOK'
    BY <1>0, <1>1, <1>5, <1>8 DEF ReceiveBatchOK, n
  <1> QED
    BY <1>2, <1>9, <1>10, <1>11 DEF CoreOK

LEMMA ReceiveHeaderStep ==
  ASSUME IInv, ReceiveHeader
  PROVE  IInv'
  <1> USE DEF IInv
  <1> DEFINE n == ring[Address(rb, 0)].len   rest == Take(rb, Header)
  <1>1. rpc = "header" /\ rpc' \in {"idle", "handler"}
    BY Zenon DEF ReceiveHeader
  <1>0. /\ UNCHANGED <<consumed, consumedOut, producedBell, consumedBell, ring, saved>>
        /\ UNCHANGED <<sender, writes>>
    BY Zenon DEF ReceiveHeader
  <1>2. CoreOK' /\ Produced' = Produced /\ Consumed' = Consumed /\ Free' = Free
    BY <1>0, <1>1, CoreFrame, SMTT(30) DEF CoreOK, sender, OutsOK
  <1>3. SendBatchOK' /\ WritesOK'
    BY <1>0, <1>2, SenderFrame, SMTT(30)
  <1>4. CASE Remaining(rb) < Header \/ Remaining(rest) < n
    <2>1. rpc' = "idle" /\ rb' = NoBatch /\ body' = body
      BY Zenon, <1>4 DEF ReceiveHeader
    <2>2. TypeOK'
      BY <1>0, <2>1, NoBatchType, Zenon DEF TypeOK, sender
    <2>3. ReceiveBatchOK'
      BY <2>1 DEF ReceiveBatchOK, ReceiveSteps
    <2> QED
      BY <1>2, <1>3, <2>2, <2>3 DEF CoreOK
  <1>5. CASE ~ (Remaining(rb) < Header \/ Remaining(rest) < n)
    <2>1. rpc' = "handler" /\ rb' = rest /\ body' = n
      BY Zenon, <1>5 DEF ReceiveHeader
    <2>2. /\ rb \in Batches /\ rb.taken = 0 /\ Remaining(rb) \in Nat /\ Header \in Nat
          /\ Header =< Remaining(rb) /\ consumed \in Nat
          /\ Covers(rb, consumed, Minus(producedBell, consumed))
          /\ Minus(producedBell, consumed) \in Int
      <3>1. rb \in Batches
        BY Zenon DEF TypeOK
      <3>2. Remaining(rb) \in Nat /\ Header \in Nat /\ Header =< Remaining(rb)
        BY <1>5, <3>1, BatchType, Sizes, SMTT(30)
      <3>3. rb.taken = 0 /\ Covers(rb, consumed, Minus(producedBell, consumed))
        BY <1>1, SMTT(30) DEF ReceiveBatchOK, ReceiveSteps
      <3>4. consumed \in Nat /\ Minus(producedBell, consumed) \in Int
        BY Sizes, Ranges, MinusRange, SMTT(30)
      <3> QED
        BY <3>1, <3>2, <3>3, <3>4
    <2>3. n \in Lens \cup {0}
      <3>1. /\ 0 \in 0 .. Remaining(rb) - 1
            /\ Address(rb, 0) = (consumed + rb.taken + 0) % Size
        BY <2>2, Sizes DEF Covers
      <3>2. consumed + rb.taken + 0 = consumed
        BY <2>2
      <3>3. Address(rb, 0) \in 0 .. Size - 1
        <4>1. consumed \in Int /\ Size \in Nat \ {0} /\ Address(rb, 0) = consumed % Size
          BY <3>1, <3>2, <2>2, Sizes, SMTT(30)
        <4> QED
          BY <4>1, DivMod
      <3> QED
        BY <3>3, SMTT(30) DEF TypeOK, Bytes
    <2>4. /\ rest \in Batches /\ rest.taken = Header
          /\ Covers(rest, consumed, Minus(producedBell, consumed))
      BY <2>2, TakeOK, CoversAdvance
    <2>5. n \in Nat /\ Remaining(rest) \in Nat /\ Remaining(rest) >= n
      <3> HIDE DEF n, rest
      <3>1. n \in Nat
        BY <2>3, Sizes
      <3>2. Remaining(rest) \in Nat
        BY <2>4, BatchType, Zenon
      <3> QED
        BY <1>5, <3>1, <3>2
    <2> HIDE DEF n, rest
    <2>6. TypeOK'
      BY <1>0, <2>1, <2>3, <2>4 DEF TypeOK, sender, ReceiveSteps
    <2>7. Remaining(rb') >= body'
      BY <2>1, <2>5, SMTT(30)
    <2>8. ReceiveBatchOK'
      BY <1>0, <2>1, <2>4, <2>7, ZenonT(40) DEF ReceiveBatchOK
    <2> QED
      BY <1>2, <1>3, <2>6, <2>8, Zenon DEF CoreOK
  <1> QED
    BY Zenon, <1>4, <1>5

LEMMA ReceiveHandlerStep ==
  ASSUME IInv, ReceiveHandler
  PROVE  IInv'
  <1> USE DEF IInv
  <1>1. rpc = "handler" /\ rpc' = "padding" /\ rb' = Take(rb, body) /\ body' = body
    BY Zenon DEF ReceiveHandler
  <1>0. /\ UNCHANGED <<consumed, consumedOut, producedBell, consumedBell, ring, saved>>
        /\ UNCHANGED <<sender, writes>>
    BY Zenon DEF ReceiveHandler
  <1>2. CoreOK' /\ Produced' = Produced /\ Consumed' = Consumed /\ Free' = Free
    BY <1>0, <1>1, CoreFrame DEF CoreOK, sender, OutsOK
  <1>3. SendBatchOK' /\ WritesOK'
    BY <1>0, <1>2, SenderFrame, Zenon
  <1>4. rb \in Batches /\ body \in Nat
    BY Sizes DEF TypeOK
  <1>5. /\ rb.taken = Header /\ body =< Remaining(rb) /\ Remaining(rb) \in Nat
        /\ Covers(rb, consumed, Minus(producedBell, consumed))
    BY <1>1, <1>4, BatchType, Zenon DEF ReceiveBatchOK, ReceiveSteps
  <1>6. consumed \in Nat /\ Minus(producedBell, consumed) \in Int
    BY Sizes, Ranges, MinusRange
  <1>7. /\ rb' \in Batches /\ rb'.taken = Header + body
        /\ Covers(rb', consumed, Minus(producedBell, consumed))
    BY <1>1, <1>4, <1>5, <1>6, TakeOK, CoversAdvance, Zenon
  <1>8. TypeOK'
    BY <1>0, <1>1, <1>7, SMTT(30) DEF TypeOK, sender, ReceiveSteps
  <1>9. ReceiveBatchOK'
    BY <1>0, <1>1, <1>7, ZenonT(40) DEF ReceiveBatchOK
  <1> QED
    BY <1>2, <1>3, <1>8, <1>9, Zenon DEF CoreOK

LEMMA ReceiveCommitStep ==
  ASSUME IInv, ReceiveCommit
  PROVE  IInv'
  <1> USE DEF IInv
  <1> DEFINE n == PaddingBytes(body)   t == Take(rb, n).taken
  <1>1. /\ rpc = "padding" /\ rpc' = "idle" /\ rb' = NoBatch /\ body' = 0
        /\ spc' = spc /\ saved' = saved /\ produced' = produced
        /\ producedOut' = producedOut
        /\ producedBell' = producedBell /\ consumedBell' = consumedBell
        /\ Produced' = Produced /\ Consumed = consumed /\ Consumed' = consumed'
        /\ Free' = Free
    BY Zenon DEF ReceiveCommit, sender, Produced, Consumed, Free, Minus
  <1>2. SendBatchOK' /\ WritesOK'
    BY <1>1, SenderFrame, Zenon DEF ReceiveCommit
  <1>3. ReceiveBatchOK'
    BY <1>1 DEF ReceiveBatchOK, ReceiveSteps
  <1>4. CASE Remaining(rb) < n
    <2>1. UNCHANGED <<consumed, consumedOut>>
      BY <1>4, Zenon DEF ReceiveCommit
    <2>2. CoreOK'
      BY <1>1, <2>1, CoreFrame, Zenon DEF CoreOK, OutsOK
    <2>3. TypeOK'
      BY <1>1, <2>1, NoBatchType, SMTT(30) DEF TypeOK, ReceiveCommit, sender
    <2> QED
      BY <1>2, <1>3, <2>2, <2>3 DEF CoreOK
  <1>5. CASE ~ (Remaining(rb) < n)
    <2>1. consumed' = Plus(consumed, t) /\ consumedOut' = Plus(consumed, t)
      BY <1>5, SMTT(30) DEF ReceiveCommit
    <2>2. /\ body \in Nat /\ rb \in Batches /\ rb.taken = Header + body
          /\ Covers(rb, consumed, Minus(producedBell, consumed))
      BY <1>1, Sizes DEF TypeOK, ReceiveBatchOK, ReceiveSteps
    <2>3. /\ n \in Nat /\ Header + body + n = AlignUpTo(body + Header)
          /\ AlignUpTo(body + Header) % Align = 0
      BY <2>2, PaddingOK, Zenon
    <2>4. Remaining(rb) \in Nat /\ n =< Remaining(rb)
          /\ rb.taken + Remaining(rb) =< Minus(producedBell, consumed)
      BY <1>5, <2>2, <2>3, BatchType, SMTT(30) DEF Covers
    <2>5. t = rb.taken + n
      BY <2>2, <2>3, <2>4, TakeOK, SMTT(30)
    <2>6. Minus(producedBell, consumed) \in 0 .. Size
      BY <1>1, Distances, SMTT(30)
    <2> HIDE DEF n, t
    <2>7. t \in 0 .. Size /\ t % Align = 0 /\ t =< Minus(producedBell, consumed)
      BY <2>2, <2>3, <2>4, <2>5, <2>6, Sizes
    <2>8. /\ consumed \in 0 .. Mod - 1 /\ producedBell \in 0 .. Mod - 1
          /\ Produced \in 0 .. Mod - 1 /\ consumedBell \in 0 .. Mod - 1
      BY Ranges, SMTT(30)
    <2>9. consumed' \in 0 .. Mod - 1 /\ consumed' % Align = 0
      BY <1>1, <2>1, <2>7, <2>8, AlignedSum, Zenon DEF AlignedOK
    <2>10. TypeOK'
      BY <1>1, <2>1, <2>9, NoBatchType, SMTT(30) DEF TypeOK, ReceiveCommit, sender
    <2>11. OutsOK'
      BY <1>1, <2>1 DEF OutsOK
    <2>12. AlignedOK'
      BY <1>1, <2>9, SMTT(30) DEF AlignedOK
    <2>13. CountersInOrder'
      BY <1>1, <2>1, <2>7, <2>8, Sizes, SMTT(30) DEF CountersInOrder, Plus, Minus
    <2> QED
      BY <1>2, <1>3, <2>10, <2>11, <2>12, <2>13, SMTT(30)
  <1> QED
    BY <1>4, <1>5

-----------------------------------------------------------------------------
(* Stores that arrive *)

LEMMA LandWriteStep ==
  ASSUME IInv, NEW a \in 0 .. Size - 1, LandWrite(a)
  PROVE  IInv'
  <1> USE DEF IInv
  <1>1. /\ CoreOK' /\ Produced' = Produced /\ Consumed' = Consumed /\ Free' = Free
    BY CoreFrame, SMTT(30) DEF LandWrite, CoreOK, sender, receiver, OutsOK
  <1>2. /\ a \in DOMAIN writes /\ ring' = [ring EXCEPT ![a] = writes[a]]
        /\ writes' = [b \in DOMAIN writes \ {a} |-> writes[b]]
    BY SMTT(30) DEF LandWrite
  <1>3. DOMAIN writes' \subseteq DOMAIN writes /\ \A b \in DOMAIN writes' : writes'[b] = writes[b]
    BY <1>2, SMTT(30)
  <1>4. ring' \in [0 .. Size - 1 -> Bytes]
    BY <1>2, SMTT(30) DEF TypeOK
  <1>5. TypeOK'
    BY <1>3, <1>4, SMTT(30) DEF TypeOK, LandWrite, sender, receiver
  <1>6. SendBatchOK'
    BY <1>1, SMTT(30) DEF LandWrite, SendBatchOK, sender
  <1>7. ReceiveBatchOK'
    BY SMTT(30) DEF LandWrite, ReceiveBatchOK, receiver
  <1>8. WritesOK'
    BY <1>1, <1>3 DEF WritesOK
  <1> QED
    BY <1>1, <1>5, <1>6, <1>7, <1>8, SMTT(30) DEF CoreOK

LEMMA LandProducedStep ==
  ASSUME IInv, LandProduced
  PROVE  IInv'
  <1> USE DEF IInv
  <1>1. /\ producedBell' = Produced /\ Produced' = Produced /\ Consumed' = Consumed
        /\ Free' = Free /\ consumedBell' = consumedBell /\ consumed' = consumed
    BY DEF LandProduced, OutsOK, sender, receiver, Produced, Consumed, Free, Minus
  <1>2. /\ Produced \in 0 .. Mod - 1 /\ producedBell \in 0 .. Mod - 1
        /\ Consumed \in 0 .. Mod - 1 /\ consumedBell \in 0 .. Mod - 1
    BY Ranges, SMTT(30)
  <1>3. TypeOK'
    BY SMTT(30) DEF TypeOK, LandProduced, sender, receiver
  <1>4. OutsOK'
    BY <1>1, Zenon DEF OutsOK, LandProduced, sender, receiver
  <1>5. AlignedOK'
    BY <1>1, SMTT(30) DEF AlignedOK
  <1>6. CountersInOrder' /\ Minus(producedBell, Consumed) =< Minus(producedBell', Consumed)
    BY <1>1, <1>2, Sizes, SMTT(30) DEF CountersInOrder, Minus
  <1>7. SendBatchOK' /\ WritesOK'
    BY <1>1, SenderFrame DEF LandProduced
  <1>8. ReceiveBatchOK'
    <2>1. CASE rpc \in ReceiveSteps
      <3>1. Consumed = consumed
        BY <2>1, SMTT(30) DEF Consumed, ReceiveSteps
      <3>2. rb \in Batches /\ Remaining(rb) \in Nat /\ rb.taken \in Nat
        BY BatchType, SMTT(30) DEF TypeOK
      <3>3. Minus(producedBell, consumed) \in Int /\ Minus(producedBell', consumed) \in Int
        BY <1>1, <1>2, <3>1, MinusRange, Sizes, SMTT(30)
      <3>4. Covers(rb, consumed, Minus(producedBell', consumed))
        <4> DEFINE c == Minus(producedBell, consumed)   d == Minus(producedBell', consumed)
        <4>1. Covers(rb, consumed, c) /\ c =< d  BY <1>6, <2>1, <3>1, Zenon DEF ReceiveBatchOK
        <4> HIDE DEF c, d
        <4>2. ASSUME c \in Int, d \in Int PROVE rb.taken + Remaining(rb) =< d
          BY <3>2, <4>1, <4>2 DEF Covers
        <4> QED  BY <3>3, <4>1, <4>2, Zenon DEF c, d, Covers
      <3> QED
        BY Zenon, <2>1, <3>4, <1>1 DEF ReceiveBatchOK, LandProduced, receiver
    <2>2. CASE rpc \notin ReceiveSteps
      BY <2>2 DEF ReceiveBatchOK, LandProduced, receiver, ReceiveSteps
    <2> QED
      BY <2>1, <2>2
  <1> QED
    BY <1>3, <1>4, <1>5, <1>6, <1>7, <1>8, SMTT(30)

(* The free space the sender sees only grows when the counter arrives. *)
LEMMA FreeGrows ==
  ASSUME IInv, consumedBell' = Consumed, Consumed' = Consumed, Produced' = Produced,
         producedBell' = producedBell, UNCHANGED <<sender, writes>>
  PROVE  CountersInOrder' /\ SendBatchOK' /\ WritesOK'
  <1> USE DEF IInv
  <1>1. /\ Produced \in 0 .. Mod - 1 /\ producedBell \in 0 .. Mod - 1
        /\ Consumed \in 0 .. Mod - 1 /\ consumedBell \in 0 .. Mod - 1
    BY Ranges, SMTT(30)
  <1>2. CountersInOrder'
    BY <1>1, Sizes, SMTT(30) DEF CountersInOrder, Minus
  <1>3. Free \in Int /\ Free' \in Int /\ Free =< Free'
    BY <1>1, Sizes DEF CountersInOrder, Minus, Free
  <1>4. SendBatchOK'
    <2>1. CASE spc \in SendSteps
      <3>1. sb \in Batches /\ Remaining(sb) \in Nat /\ sb.taken \in Nat
        BY BatchType, SMTT(30) DEF TypeOK
      <3>2. Covers(sb, produced, Free')
        BY <1>3, <2>1, <3>1, SMTT(30) DEF SendBatchOK, Covers
      <3> QED
        BY <2>1, <3>2, SMTT(30) DEF SendBatchOK, sender
    <2>2. CASE spc \notin SendSteps
      BY <2>2 DEF SendBatchOK, sender, SendSteps
    <2> QED
      BY <2>1, <2>2, SMTT(30)
  <1>5. WritesOK'
    <2> SUFFICES ASSUME NEW a \in DOMAIN writes
                 PROVE  \E j \in 0 .. Free' - 1 : a = (Produced + j) % Size
      BY Zenon DEF WritesOK
    <2>1. PICK j \in 0 .. Free - 1 : a = (Produced + j) % Size
      BY Zenon DEF WritesOK
    <2>2. j \in 0 .. Free' - 1
      <3> DEFINE f == Free   g == Free'
      <3>1. f \in Int /\ g \in Int /\ f =< g /\ j \in 0 .. f - 1
        BY <1>3, <2>1
      <3> HIDE DEF f, g
      <3>2. j \in 0 .. g - 1
        BY <3>1
      <3> QED
        BY <3>2 DEF g
    <2> QED
      BY <2>1, <2>2
  <1> QED
    BY <1>2, <1>4, <1>5, SMTT(30)

LEMMA LandConsumedStep ==
  ASSUME IInv, LandConsumed
  PROVE  IInv'
  <1> USE DEF IInv
  <1>1. /\ consumedBell' = Consumed /\ Produced' = Produced /\ Consumed' = Consumed
        /\ producedBell' = producedBell /\ consumed' = consumed
    BY Zenon DEF LandConsumed, OutsOK, sender, receiver, Produced, Consumed
  <1>2. TypeOK'
    BY DEF TypeOK, LandConsumed, sender, receiver
  <1>3. OutsOK'
    BY <1>1, Zenon DEF OutsOK, LandConsumed, sender, receiver
  <1>4. AlignedOK'
    BY <1>1, Zenon DEF AlignedOK
  <1>5. CountersInOrder' /\ SendBatchOK' /\ WritesOK'
    BY <1>1, FreeGrows DEF LandConsumed
  <1>6. ReceiveBatchOK'
    BY Zenon DEF LandConsumed, ReceiveBatchOK, receiver
  <1> QED
    BY <1>2, <1>3, <1>4, <1>5, <1>6

-----------------------------------------------------------------------------
(* Restarts *)

LEMMA SenderSaveStep ==
  ASSUME IInv, SenderSave
  PROVE  IInv'
  <1> USE DEF IInv
  <1>1. /\ saved' = [saved EXCEPT !.produced = produced] /\ spc = "idle" /\ spc' = "down"
        /\ produced' = 0 /\ UNCHANGED <<producedOut, msg, sb, producedBell, consumedBell>>
        /\ UNCHANGED <<consumed, consumedOut, rpc, rb, body, ring, writes>>
    BY DEF SenderSave, receiver
  <1>2. saved' \in [produced : 0 .. Mod - 1, consumed : 0 .. Mod - 1]
        /\ saved'.produced = produced /\ saved'.consumed = saved.consumed
    BY <1>1, SMTT(30) DEF TypeOK
  <1>3. Produced' = Produced /\ Consumed' = Consumed /\ Free' = Free
    BY <1>1, <1>2 DEF Produced, Consumed, Free, Minus
  <1>4. TypeOK'
    BY <1>1, <1>2, ZeroInRange, SMTT(30) DEF TypeOK, SendSteps
  <1>5. OutsOK'
    BY <1>1, <1>3 DEF OutsOK
  <1>6. AlignedOK' /\ CountersInOrder'
    BY <1>1, <1>3 DEF AlignedOK, CountersInOrder, Minus
  <1>7. SendBatchOK'
    BY <1>1 DEF SendBatchOK, SendSteps
  <1>8. ReceiveBatchOK'
    BY <1>1 DEF ReceiveBatchOK
  <1>9. WritesOK'
    BY <1>1, <1>3, SMTT(30) DEF WritesOK
  <1> QED
    BY <1>4, <1>5, <1>6, <1>7, <1>8, <1>9

LEMMA ReceiverSaveStep ==
  ASSUME IInv, ReceiverSave
  PROVE  IInv'
  <1> USE DEF IInv
  <1>1. /\ saved' = [saved EXCEPT !.consumed = consumed] /\ rpc = "idle" /\ rpc' = "down"
        /\ consumed' = 0 /\ UNCHANGED <<producedOut, msg, sb, producedBell, consumedBell>>
        /\ UNCHANGED <<produced, spc, consumedOut, rb, body, ring, writes>>
    BY DEF ReceiverSave, sender
  <1>2. saved' \in [produced : 0 .. Mod - 1, consumed : 0 .. Mod - 1]
        /\ saved'.consumed = consumed /\ saved'.produced = saved.produced
    BY <1>1 DEF TypeOK
  <1>3. Produced' = Produced /\ Consumed' = Consumed /\ Free' = Free
    BY <1>1, <1>2 DEF Produced, Consumed, Free, Minus
  <1>4. TypeOK'
    BY <1>1, <1>2, ZeroInRange, SMTT(30) DEF TypeOK
  <1>5. OutsOK'
    BY <1>1, <1>3 DEF OutsOK
  <1>6. AlignedOK' /\ CountersInOrder'
    BY <1>1, <1>3 DEF AlignedOK, CountersInOrder, Minus
  <1>7. SendBatchOK' /\ WritesOK'
    BY <1>1, <1>3, SenderFrame DEF sender
  <1>8. ReceiveBatchOK'
    BY <1>1, SMTT(30) DEF ReceiveBatchOK, ReceiveSteps
  <1> QED
    BY <1>4, <1>5, <1>6, <1>7, <1>8

LEMMA SenderRestoreStep ==
  ASSUME IInv, SenderRestore
  PROVE  IInv'
  <1> USE DEF IInv
  <1>1. /\ spc = "down" /\ Produced = saved.produced /\ producedOut = saved.produced
        /\ produced = 0 /\ saved.produced % Align = 0
    BY DEF SenderRestore, Produced, OutsOK, AlignedOK
  <1>2. /\ produced' = saved.produced /\ spc' = "idle" /\ producedBell' = Produced
        /\ saved' = [saved EXCEPT !.produced = 0]
        /\ UNCHANGED <<producedOut, msg, sb, consumedBell>>
        /\ UNCHANGED <<consumed, consumedOut, rpc, rb, body, ring, writes>>
    BY <1>1, Zenon DEF SenderRestore, receiver
  <1>3. saved' \in [produced : 0 .. Mod - 1, consumed : 0 .. Mod - 1]
        /\ saved'.consumed = saved.consumed /\ saved.produced \in 0 .. Mod - 1
    BY <1>2, ZeroInRange, SMTT(30) DEF TypeOK
  <1>4. Produced' = Produced /\ Consumed' = Consumed /\ Free' = Free
    BY <1>1, <1>2, <1>3 DEF Produced, Consumed, Free, Minus
  <1>5. TypeOK'
    BY <1>1, <1>2, <1>3 DEF TypeOK, SendSteps
  <1>6. OutsOK'
    BY <1>1, <1>2, <1>4 DEF OutsOK
  <1>7. AlignedOK'
    BY <1>2, <1>4 DEF AlignedOK
  <1>8. /\ Produced \in 0 .. Mod - 1 /\ producedBell \in 0 .. Mod - 1
        /\ Consumed \in 0 .. Mod - 1 /\ consumedBell \in 0 .. Mod - 1
    BY Ranges, Zenon
  <1>9. CountersInOrder' /\ Minus(producedBell, Consumed) =< Minus(producedBell', Consumed)
    BY <1>2, <1>4, <1>8, Sizes DEF CountersInOrder, Minus
  <1>10. SendBatchOK'
    BY <1>2 DEF SendBatchOK, SendSteps
  <1>11. WritesOK'
    BY <1>2, <1>4 DEF WritesOK
  <1>12. ReceiveBatchOK'
    <2>1. CASE rpc \in ReceiveSteps
      <3>1. Consumed = consumed
        BY <2>1, Zenon DEF Consumed, ReceiveSteps
      <3>2. rb \in Batches /\ Remaining(rb) \in Nat /\ rb.taken \in Nat
        BY BatchType, Zenon DEF TypeOK
      <3>3. Minus(producedBell, consumed) \in Int /\ Minus(producedBell', consumed) \in Int
        BY <1>2, <1>8, <3>1, MinusRange, Sizes, SMTT(30)
      <3>4. Covers(rb, consumed, Minus(producedBell', consumed))
        BY <1>9, <2>1, <3>1, <3>2, <3>3 DEF ReceiveBatchOK, Covers
      <3> QED
        BY <2>1, <3>4, <1>2 DEF ReceiveBatchOK
    <2>2. CASE rpc \notin ReceiveSteps
      BY <1>2, <2>2 DEF ReceiveBatchOK, ReceiveSteps
    <2> QED
      BY <2>1, <2>2, Zenon
  <1> QED
    BY <1>5, <1>6, <1>7, <1>9, <1>10, <1>11, <1>12, SMTT(30)

LEMMA ReceiverRestoreStep ==
  ASSUME IInv, ReceiverRestore
  PROVE  IInv'
  <1> USE DEF IInv
  <1>1. /\ rpc = "down" /\ Consumed = saved.consumed /\ consumedOut = saved.consumed
        /\ consumed = 0 /\ saved.consumed % Align = 0
    BY DEF ReceiverRestore, Consumed, OutsOK, AlignedOK
  <1>2. /\ consumed' = saved.consumed /\ rpc' = "idle" /\ consumedBell' = Consumed
        /\ saved' = [saved EXCEPT !.consumed = 0]
        /\ UNCHANGED <<consumedOut, rb, body, producedBell>>
        /\ UNCHANGED <<produced, producedOut, spc, msg, sb, ring, writes>>
    BY <1>1 DEF ReceiverRestore, sender
  <1>3. saved' \in [produced : 0 .. Mod - 1, consumed : 0 .. Mod - 1]
        /\ saved'.produced = saved.produced /\ saved.consumed \in 0 .. Mod - 1
    BY <1>2, ZeroInRange, SMTT(30) DEF TypeOK
  <1>4. Produced' = Produced /\ Consumed' = Consumed
    BY <1>1, <1>2, <1>3 DEF Produced, Consumed
  <1>5. TypeOK'
    BY <1>1, <1>2, <1>3 DEF TypeOK
  <1>6. OutsOK'
    BY <1>1, <1>2, <1>4 DEF OutsOK
  <1>7. AlignedOK'
    BY <1>2, <1>4 DEF AlignedOK
  <1>8. CountersInOrder' /\ SendBatchOK' /\ WritesOK'
    BY <1>2, <1>4, FreeGrows DEF sender
  <1>9. ReceiveBatchOK'
    BY <1>2, SMTT(30) DEF ReceiveBatchOK, ReceiveSteps
  <1> QED
    BY <1>5, <1>6, <1>7, <1>8, <1>9, Zenon

-----------------------------------------------------------------------------
(* The theorems *)

LEMMA Initially == Init => IInv
  <1> SUFFICES ASSUME Init PROVE IInv
    BY SMTT(30)
  <1> USE DEF Init
  <1>1. Produced = 0 /\ Consumed = 0 /\ Minus(0, 0) = 0 /\ 0 % Align = 0
    <2>1. 0 * Align + 0 = 0 /\ 0 \in 0 .. Align - 1 /\ Align \in Nat \ {0}
      BY Sizes, SMTT(30)
    <2>2. (0 * Align + 0) % Align = 0
      BY <2>1, ModOf, SMTT(30)
    <2> QED
      BY <2>1, <2>2, SMTT(30) DEF Produced, Consumed, Minus
  <1>2. TypeOK
    BY Sizes, NoBatchType, SMTT(30) DEF TypeOK, Bytes, Zero, SendSteps, ReceiveSteps
  <1>3. OutsOK /\ AlignedOK /\ CountersInOrder
    BY <1>1, Sizes, SMTT(30) DEF OutsOK, AlignedOK, CountersInOrder
  <1>4. SendBatchOK /\ ReceiveBatchOK /\ WritesOK
    BY SMTT(30) DEF SendBatchOK, ReceiveBatchOK, WritesOK, SendSteps, ReceiveSteps
  <1> QED
    BY <1>2, <1>3, <1>4 DEF IInv

LEMMA Stutter == IInv /\ UNCHANGED vars => IInv'
  <1> SUFFICES ASSUME IInv, UNCHANGED vars PROVE IInv'
    BY Zenon
  <1> USE DEF vars, sender, receiver
  <1>1. Produced' = Produced /\ Consumed' = Consumed
    BY Zenon DEF Produced, Consumed
  <1>2. Free' = Free
    BY <1>1, SMTT(30) DEF Free
  <1>3. TypeOK'
    BY SMTT(30) DEF IInv, TypeOK
  <1>4. OutsOK' /\ AlignedOK' /\ CountersInOrder'
    BY <1>1, Zenon DEF IInv, OutsOK, AlignedOK, CountersInOrder
  <1>5. SendBatchOK'
    BY <1>2 DEF IInv, SendBatchOK
  <1>6. ReceiveBatchOK'
    BY Zenon DEF IInv, ReceiveBatchOK
  <1>7. WritesOK'
    BY <1>1, <1>2 DEF IInv, WritesOK
  <1> QED
    BY <1>3, <1>4, <1>5, <1>6, <1>7 DEF IInv

LEMMA Inductive == IInv /\ [Next]_vars => IInv'
  <1> SUFFICES ASSUME IInv, [Next]_vars PROVE IInv'
    BY Zenon
  <1>1. ASSUME NEW m \in Messages, SendBegin(m) PROVE IInv'
    BY <1>1, SendBeginStep
  <1>2. CASE SendStep
    BY <1>2, AppendHeaderStep, AppendBodyStep, SkipPaddingStep, SendCommitStep
    DEF SendStep
  <1>3. CASE ReceiveStep
    BY <1>3, ReceiveBeginStep, ReceiveHeaderStep, ReceiveHandlerStep, ReceiveCommitStep
   , SMTT(30) DEF ReceiveStep
  <1>4. CASE Land
    BY <1>4, LandWriteStep, LandProducedStep, LandConsumedStep DEF Land
  <1>5. CASE SenderSave \/ SenderRestore
    BY <1>5, SenderSaveStep, SenderRestoreStep
  <1>6. CASE ReceiverSave \/ ReceiverRestore
    BY <1>6, ReceiverSaveStep, ReceiverRestoreStep
  <1>7. CASE UNCHANGED vars
    BY <1>7, Stutter
  <1> QED
    BY <1>1, <1>2, <1>3, <1>4, <1>5, <1>6, <1>7 DEF Next

LEMMA Invariant == Spec => []IInv
  BY Initially, Inductive, PTL DEF Spec

(* The queue's variables keep their types: in particular a batch never     *)
(* points outside the ring and every counter stays within its w bits.      *)
THEOREM TypeCorrect == Spec => []TypeOK
  <1>1. IInv => TypeOK
    BY DEF IInv
  <1> QED
    BY <1>1, Invariant, PTL

(* For every ring size and counter width the counters follow one another   *)
(* within one ring, across wraps and restarts: BeginSend and BeginReceive  *)
(* never meet a "Broken invariant".                                        *)
THEOREM CountersNeverBreak == Spec => []CountersInOrder
  <1>1. IInv => CountersInOrder
    BY DEF IInv
  <1> QED
    BY <1>1, Invariant, PTL

(* No store of a Send, committed, in progress or abandoned, reaches a byte *)
(* that Receive has still to read.                                         *)
THEOREM UnreadBytesSafe == Spec => []NoOverwrite
  <1>1. IInv => NoOverwrite
    <2> SUFFICES ASSUME IInv, NEW a \in DOMAIN writes,
                        a \in Region(Consumed, Minus(Produced, Consumed))
                 PROVE  FALSE
      BY Zenon DEF NoOverwrite
    <2> DEFINE d == Minus(Produced, Consumed)
    <2>1. PICK k \in 0 .. d - 1 : a = (Consumed + k) % Size
      BY Zenon DEF Region
    <2>2. PICK j \in 0 .. Free - 1 : a = (Produced + j) % Size
      BY Zenon DEF IInv, WritesOK
    <2>3. /\ Produced \in 0 .. Mod - 1 /\ Consumed \in 0 .. Mod - 1
          /\ d \in 0 .. Size /\ d + Free =< Size /\ Free \in 0 .. Size
      BY Ranges, Distances, Sizes, SMTT(30) DEF IInv, Free
    <2>4. Produced = Consumed + d \/ Produced = Consumed + d - Mod
      BY <2>3, Sizes, SMTT(30) DEF Minus
    <2> HIDE DEF d
    <2> DEFINE x == Consumed + d + j   y == Consumed + k
    <2>5. x \in Int /\ y \in Int /\ 0 < x - y /\ x - y < Size /\ Size \in Nat \ {0}
      BY <2>1, <2>2, <2>3, Sizes
    <2>6. (x - Mod) % Size = x % Size
      <3> HIDE DEF x, y
      <3>1. Mod \in Int /\ Mod % Size = 0
        BY Sizes, SMTT(30)
      <3> QED
        BY Zenon, <2>5, <3>1, ModShift
    <2>7. Produced + j = x \/ Produced + j = x - Mod
      BY <2>2, <2>3, <2>4, Sizes, SMTT(30)
    <2>8. a = x % Size /\ a = y % Size
      BY <2>1, <2>2, <2>6, <2>7, SMTT(30)
    <2> HIDE DEF x, y
    <2> QED
      BY Zenon, <2>5, <2>8, ModDistinct
  <1> QED
    BY <1>1, Invariant, PTL

(* Receive never needs its fallback copy: a header lies in one piece.      *)
THEOREM HeaderInOnePiece == Spec => []HeaderContiguous
  <1>1. IInv => HeaderContiguous
    BY DEF IInv, ReceiveBatchOK, HeaderContiguous
  <1> QED
    BY <1>1, Invariant, PTL

(* RestoreState accepts what SaveState returned, whatever the peer did.    *)
THEOREM RestartAccepted == Spec => []RestoreAccepted
  <1>1. IInv => RestoreAccepted
    BY Zenon DEF IInv, OutsOK, RestoreAccepted
  <1> QED
    BY <1>1, Invariant, PTL

-----------------------------------------------------------------------------
(* The content of the ring.  The second invariant, Content, says that the  *)
(* unread part of the ring is the messages committed and not yet handled,  *)
(* one after the other: there are places p, counted from Consumed, with    *)
(* message ms[k] from p[k] to p[k + 1], and a doorbell is one of them.     *)

Total(n) == AlignUpTo(n + Header)

(* Memory r has message m from counter c on. *)
Holds(r, c, m) ==
  /\ \A i \in 0 .. Header - 1 : r[(c + i) % Size] = HeaderOf(m)[i]
  /\ \A i \in 0 .. m.len - 1 : r[(c + Header + i) % Size] = Body(m)[i]

Ordered(n, ms, p) ==
  /\ \A k \in 1 .. n : p[k + 1] = p[k] + Total(ms[k].len)
  /\ \A k \in 1 .. n + 1 : \A j \in 1 .. k : p[j] =< p[k]

Queued(n, ms) ==
  /\ chan \in Seq(Bodies) /\ Len(chan) = n
  /\ \A k \in 1 .. n : chan[k] = Body(ms[k])

Filled(n, ms, p) == \A k \in 1 .. n : Holds(ring, Consumed + p[k], ms[k])

(* A message that was handled is unread until it is released. *)
Handled == IF rpc = "padding" THEN Total(body) ELSE 0

Ends(n, p) ==
  /\ p[1] = Handled
  /\ p[n + 1] = Minus(Produced, Consumed)
  /\ \E k \in 1 .. n + 1 : p[k] = Minus(producedBell, Consumed)

(* The batch of the receiver has the message it is at. *)
Reading(n, ms, p) ==
  /\ rpc \in {"header", "handler"} => n >= 1 /\ p[2] =< rb.taken + Remaining(rb)
  /\ rpc = "handler" => body = ms[1].len
  /\ rpc = "padding" => p[1] =< rb.taken + Remaining(rb)

Layout(n, ms, p) ==
  Ordered(n, ms, p) /\ Queued(n, ms) /\ Filled(n, ms, p) /\ Ends(n, p) /\ Reading(n, ms, p)

Content ==
  \E n \in Nat : \E ms \in [1 .. n -> Messages] : \E p \in [1 .. n + 1 -> Nat] : Layout(n, ms, p)

(* The ring as it will be once the stores under way have landed. *)
Memory == [a \in 0 .. Size - 1 |-> IF a \in DOMAIN writes THEN writes[a] ELSE ring[a]]

(* What Send has stored so far is in it. *)
Written ==
  /\ spc \in {"body", "padding", "commit"} =>
       \A i \in 0 .. Header - 1 : Memory[(produced + i) % Size] = HeaderOf(msg)[i]
  /\ spc \in {"padding", "commit"} =>
       \A i \in 0 .. msg.len - 1 : Memory[(produced + Header + i) % Size] = Body(msg)[i]

-----------------------------------------------------------------------------
(* Messages in the ring *)

LEMMA TotalOK ==
  ASSUME NEW n \in Nat
  PROVE  /\ Total(n) \in Nat /\ PaddingBytes(n) \in Nat
         /\ Total(n) = Header + n + PaddingBytes(n) /\ n + Header =< Total(n)
  <1>1. /\ PaddingBytes(n) \in Nat /\ Header + n + PaddingBytes(n) = Total(n) /\ Total(n) \in Nat
    BY PaddingOK, Zenon DEF Total
  <1> QED  BY <1>1, Sizes, SMTT(30)

LEMMA Appended ==
  ASSUME NEW S, NEW c \in Seq(S), NEW x \in S
  PROVE  /\ Append(c, x) \in Seq(S) /\ Len(Append(c, x)) = Len(c) + 1
         /\ Append(c, x)[Len(c) + 1] = x
         /\ \A k \in 1 .. Len(c) : Append(c, x)[k] = c[k]
  OBVIOUS

(* A reader that consumes t of the bytes up to x has t fewer before it. *)
LEMMA Consumes ==
  ASSUME NEW x \in 0 .. Mod - 1, NEW c \in 0 .. Mod - 1, NEW t \in Nat,
         t =< Minus(x, c), Minus(x, c) \in 0 .. Size
  PROVE  /\ Minus(x, Plus(c, t)) = Minus(x, c) - t
         /\ Plus(c, t) = c + t \/ Plus(c, t) = (c + t) - Mod
  <1>1. Size \in Nat /\ Mod \in Nat /\ Size < Mod  BY Sizes, Zenon
  <1> QED  BY <1>1, SMTT(30) DEF Plus, Minus

LEMMA LenOK == ASSUME NEW m \in Messages PROVE m.len \in Lens /\ m.len \in Nat /\ Body(m) \in Bodies
  BY Sizes DEF Messages, Bodies

(* Counters that differ by a wrap have the same place in the ring. *)
LEMMA Wraps ==
  ASSUME NEW c \in Int, NEW d \in Int, c = d \/ c = d - Mod, NEW x \in Int
  PROVE  (c + x) % Size = (d + x) % Size
  <1>1. CASE c = d  BY <1>1, Zenon
  <1>2. CASE c = d - Mod
    <2> DEFINE y == d + x
    <2>1. y \in Int /\ Mod \in Int /\ Mod % Size = 0 /\ Size \in Nat \ {0} /\ c + x = y - Mod
      BY <1>2, Sizes, SMTT(30)
    <2> HIDE DEF y
    <2>2. (y - Mod) % Size = y % Size  BY <2>1, ModShift, Zenon
    <2> QED  BY <2>1, <2>2, Zenon DEF y
  <1> QED  BY <1>1, <1>2, Zenon

LEMMA HoldsAt ==
  ASSUME NEW r, NEW m \in Messages, NEW c \in Int, NEW d \in Int, c = d \/ c = d - Mod
  PROVE  Holds(r, c, m) <=> Holds(r, d, m)
  <1>1. \A i \in 0 .. Header - 1 : (c + i) % Size = (d + i) % Size
    <2> TAKE i \in 0 .. Header - 1
    <2>1. i \in Int  OBVIOUS
    <2> QED  BY <2>1, Wraps, ZenonT(40)
  <1>2. \A i \in 0 .. m.len - 1 : (c + Header + i) % Size = (d + Header + i) % Size
    <2> TAKE i \in 0 .. m.len - 1
    <2> DEFINE x == Header + i
    <2>1. x \in Int /\ c + Header + i = c + x /\ d + Header + i = d + x  BY Sizes
    <2> HIDE DEF x
    <2>2. (c + x) % Size = (d + x) % Size  BY <2>1, Wraps, ZenonT(40)
    <2> QED  BY <2>1, <2>2, Zenon
  <1> QED  BY <1>1, <1>2, Zenon DEF Holds

(* A message stays as long as its bytes do. *)
LEMMA HoldsKept ==
  ASSUME NEW r, NEW s, NEW m \in Messages, NEW c \in Nat, NEW d \in Int,
         \A q \in 0 .. d - 1 : s[(c + q) % Size] = r[(c + q) % Size],
         NEW q \in Nat, q + Total(m.len) =< d, Holds(r, c + q, m)
  PROVE  Holds(s, c + q, m)
  <1>1. m.len \in Nat /\ Header \in Nat /\ q + Header + m.len =< d
    BY LenOK, TotalOK, Sizes, SMTT(30)
  <1>2. ASSUME NEW i \in 0 .. Header - 1  PROVE s[(c + q + i) % Size] = r[(c + q + i) % Size]
    <2>1. q + i \in 0 .. d - 1 /\ c + q + i = c + (q + i)  BY <1>1
    <2> QED  BY <2>1, Zenon
  <1>3. ASSUME NEW i \in 0 .. m.len - 1
        PROVE  s[(c + q + Header + i) % Size] = r[(c + q + Header + i) % Size]
    <2>1. q + Header + i \in 0 .. d - 1 /\ c + q + Header + i = c + (q + Header + i)  BY <1>1
    <2> QED  BY <2>1, Zenon
  <1> QED  BY <1>2, <1>3, Zenon DEF Holds

(* The messages are in the unread part. *)
LEMMA Inside ==
  ASSUME NEW n \in Nat, NEW ms \in [1 .. n -> Messages], NEW p \in [1 .. n + 1 -> Nat],
         Ordered(n, ms, p), NEW k \in 1 .. n
  PROVE  /\ p[k] \in Nat /\ p[k + 1] \in Nat /\ p[n + 1] \in Nat
         /\ p[k] + Total(ms[k].len) =< p[n + 1]
  <1>1. /\ k \in 1 .. n + 1 /\ k + 1 \in 1 .. n + 1 /\ n + 1 \in 1 .. n + 1 /\ k + 1 \in 1 .. (n + 1)
    OBVIOUS
  <1>2. p[k] \in Nat /\ p[k + 1] \in Nat /\ p[n + 1] \in Nat  BY <1>1, Zenon
  <1>3. p[k + 1] = p[k] + Total(ms[k].len)  BY Zenon DEF Ordered
  <1>4. p[k + 1] =< p[n + 1]  BY <1>1, Zenon DEF Ordered
  <1> QED  BY <1>2, <1>3, <1>4, Zenon

-----------------------------------------------------------------------------
(* Steps that leave the messages where they are *)

LEMMA ContentFrame ==
  ASSUME Content, UNCHANGED <<ring, chan, producedBell>>, Produced' = Produced, Consumed' = Consumed,
         UNCHANGED <<rpc, rb, body>> \/ (rpc \in {"idle", "down"} /\ rpc' \in {"idle", "down"})
  PROVE  Content'
  <1>1. PICK n \in Nat : \E ms \in [1 .. n -> Messages] : \E p \in [1 .. n + 1 -> Nat] : Layout(n, ms, p)
    BY Zenon DEF Content
  <1>2. PICK ms \in [1 .. n -> Messages], p \in [1 .. n + 1 -> Nat] : Layout(n, ms, p)  BY <1>1, Zenon
  <1>3. Ordered(n, ms, p) /\ Queued(n, ms)' /\ Filled(n, ms, p)'
    BY <1>2, ZenonT(40) DEF Layout, Queued, Filled, Holds
  <1>4. Handled' = Handled  BY Zenon DEF Handled
  <1>5. Ends(n, p)'  BY <1>2, <1>4, Zenon DEF Layout, Ends
  <1>6. Reading(n, ms, p)'
    <2>1. CASE UNCHANGED <<rpc, rb, body>>  BY <1>2, <2>1, Zenon DEF Layout, Reading
    <2>2. CASE rpc' \in {"idle", "down"}  BY <2>2 DEF Reading
    <2> QED  BY <2>1, <2>2, Zenon
  <1>7. Layout(n, ms, p)'  BY <1>3, <1>5, <1>6, Zenon DEF Layout, Ordered
  <1> QED  BY <1>7, Zenon DEF Content

LEMMA WrittenFrame ==
  ASSUME Written, UNCHANGED <<ring, writes>>,
         UNCHANGED <<spc, produced, msg>> \/ spc' \notin {"body", "padding", "commit"}
  PROVE  Written'
  <1>1. CASE UNCHANGED <<spc, produced, msg>>
    <2>1. Memory' = Memory  BY Zenon DEF Memory
    <2> QED  BY <1>1, <2>1, Zenon DEF Written
  <1>2. CASE spc' \notin {"body", "padding", "commit"}  BY <1>2, Zenon DEF Written
  <1> QED  BY <1>1, <1>2, Zenon

-----------------------------------------------------------------------------
(* Send *)

(* Append puts the bytes where they belong and spares what it has stored.  *)
LEMMA Stored ==
  ASSUME IInv, spc \in SendSteps, NEW n \in Nat, n =< Remaining(sb), NEW bytes,
         Store(n, bytes), ring' = ring
  PROVE  /\ \A i \in 0 .. n - 1 : Memory'[(produced + sb.taken + i) % Size] = bytes[i]
         /\ \A q \in 0 .. sb.taken - 1 : Memory'[(produced + q) % Size] = Memory[(produced + q) % Size]
  <1> DEFINE at == {Address(sb, i) : i \in 0 .. n - 1}
             from(a) == CHOOSE i \in 0 .. n - 1 : Address(sb, i) = a
             t == sb.taken
             A(x) == (produced + x) % Size
  <1>1. writes' = [a \in DOMAIN writes \cup at |-> IF a \in at THEN bytes[from(a)] ELSE writes[a]]
    BY Zenon DEF Store
  <1>2. /\ produced \in Nat /\ Free \in 0 .. Size /\ t \in Nat /\ Remaining(sb) \in Nat
        /\ t + Remaining(sb) =< Free /\ Size \in Nat \ {0} /\ Covers(sb, produced, Free)
    <2>1. produced \in 0 .. Mod - 1 /\ Free \in 0 .. Size  BY Ranges, Distances, Zenon DEF IInv
    <2>2. sb \in Batches  BY Zenon DEF IInv, TypeOK
    <2>3. t \in Nat /\ Remaining(sb) \in Nat  BY <2>2, BatchType, Zenon
    <2>4. Covers(sb, produced, Free)  BY Zenon DEF IInv, SendBatchOK
    <2>5. t + Remaining(sb) =< Free  BY <2>4, Zenon DEF Covers
    <2>6. produced \in Nat /\ Size \in Nat \ {0}  BY <2>1, Sizes, SMTT(30)
    <2> QED  BY <2>1, <2>3, <2>4, <2>5, <2>6, Zenon
  <1>3. ASSUME NEW i \in 0 .. n - 1
        PROVE  /\ Address(sb, i) = A(t + i) /\ (produced + t + i) % Size = A(t + i)
               /\ t + i \in 0 .. Size - 1
    <2>1. i \in 0 .. Remaining(sb) - 1 /\ produced + t + i = produced + (t + i)
      BY <1>2, SMTT(30)
    <2>2. Address(sb, i) = (produced + t + i) % Size  BY <1>2, <2>1, Zenon DEF Covers
    <2>3. t + i \in 0 .. Size - 1  BY <1>2, SMTT(30)
    <2> QED  BY <2>1, <2>2, <2>3, Zenon
  <1>4. ASSUME NEW x \in 0 .. Size - 1, NEW y \in 0 .. Size - 1, A(x) = A(y)  PROVE x = y
    <2> DEFINE a == produced + x   b == produced + y
    <2>1. a \in Int /\ b \in Int /\ a - b < Size /\ b - a < Size  BY <1>2
    <2>2. a % Size = b % Size  BY <1>4, Zenon
    <2>3. a - b = x - y  BY <1>2
    <2> HIDE DEF a, b
    <2>4. ~(0 < a - b) /\ ~(0 < b - a)  BY <1>2, <2>1, <2>2, ModDistinct, Zenon
    <2> QED  BY <2>1, <2>3, <2>4
  <1>5. ASSUME NEW x \in 0 .. Size - 1  PROVE A(x) \in 0 .. Size - 1
    <2> DEFINE a == produced + x
    <2>1. a \in Int  BY <1>2
    <2> HIDE DEF a
    <2>2. a % Size \in 0 .. Size - 1  BY <1>2, <2>1, DivMod, Zenon
    <2> QED  BY <2>2, Zenon DEF a
  <1> HIDE DEF A, from, at
  <1>6. ASSUME NEW i \in 0 .. n - 1  PROVE Memory'[A(t + i)] = bytes[i]
    <2>1. A(t + i) \in at  BY <1>3, Zenon DEF at
    <2>2. from(A(t + i)) \in 0 .. n - 1 /\ Address(sb, from(A(t + i))) = A(t + i)
      BY <1>3, Zenon DEF from
    <2> DEFINE j == from(A(t + i))
    <2>3. j \in 0 .. n - 1 /\ A(t + j) = A(t + i)  BY <1>3, <2>2, Zenon
    <2> HIDE DEF j
    <2>4. t + j = t + i  BY <1>3, <1>4, <2>3, Zenon
    <2>5. j = i  BY <1>2, <2>3, <2>4, SMTT(30)
    <2>6. A(t + i) \in DOMAIN writes' /\ writes'[A(t + i)] = bytes[i]
      BY <1>1, <2>1, <2>5, Zenon DEF j
    <2> QED  BY <1>3, <1>5, <2>6, Zenon DEF Memory
  <1>7. ASSUME NEW q \in 0 .. t - 1  PROVE Memory'[A(q)] = Memory[A(q)]
    <2>1. q \in 0 .. Size - 1  BY <1>2, SMTT(30)
    <2>2. A(q) \notin at
      <3> SUFFICES ASSUME NEW i \in 0 .. n - 1, Address(sb, i) = A(q) PROVE FALSE  BY Zenon DEF at
      <3>1. t + i = q  BY <1>3, <1>4, <2>1, Zenon
      <3> QED  BY <1>2, <3>1, SMTT(30)
    <2>3. /\ A(q) \in DOMAIN writes' <=> A(q) \in DOMAIN writes
          /\ A(q) \in DOMAIN writes => writes'[A(q)] = writes[A(q)]
      BY <1>1, <2>2, Zenon
    <2> QED  BY <1>5, <2>1, <2>3, Zenon DEF Memory
  <1> QED  BY <1>3, <1>6, <1>7, Zenon DEF A

(* A step of Send before the doorbell. *)
LEMMA SendKeeps ==
  ASSUME IInv, Content, UNCHANGED <<produced, receiver, producedBell, ring, saved, history>>,
         spc \notin {"down", "refused"}, spc' \notin {"down", "refused"}
  PROVE  Content'
  <1>1. Produced' = Produced /\ Consumed' = Consumed /\ UNCHANGED <<ring, chan, producedBell, rpc, rb, body>>
    BY Zenon DEF Produced, Consumed, receiver, history
  <1> QED  BY <1>1, ContentFrame, Zenon

LEMMA AbandonContent ==
  ASSUME IInv, Content, Written, spc \in SendSteps, AbandonSend,
         UNCHANGED <<produced, producedOut, receiver, producedBell, consumedBell, ring, saved, history>>
  PROVE  Content' /\ Written'
  <1>1. spc \notin {"down", "refused"} /\ spc' = "idle" /\ writes' = writes
    BY Zenon DEF SendSteps, AbandonSend
  <1>2. spc' \notin {"down", "refused"} /\ spc' \notin {"body", "padding", "commit"}  BY <1>1, Zenon
  <1>3. Content'  BY <1>1, <1>2, SendKeeps, Zenon
  <1>4. Written'  BY <1>1, <1>2, WrittenFrame, Zenon
  <1> QED  BY <1>3, <1>4, Zenon

LEMMA SendBeginContent ==
  ASSUME IInv, Content, Written, NEW m \in Messages, SendBegin(m)
  PROVE  Content' /\ Written'
  <1>1. /\ spc = "idle" /\ spc' = "header" /\ writes' = writes
        /\ UNCHANGED <<produced, receiver, producedBell, ring, saved, history>>
    BY Zenon DEF SendBegin
  <1>2. /\ spc \notin {"down", "refused"} /\ spc' \notin {"down", "refused"}
        /\ spc' \notin {"body", "padding", "commit"}
    BY <1>1, Zenon
  <1>3. Content'  BY <1>1, <1>2, SendKeeps, Zenon
  <1>4. Written'  BY <1>1, <1>2, WrittenFrame, Zenon
  <1> QED  BY <1>3, <1>4, Zenon

LEMMA AppendHeaderContent ==
  ASSUME IInv, Content, Written, AppendHeader
  PROVE  Content' /\ Written'
  <1>0. /\ spc = "header" /\ spc \in SendSteps /\ spc \notin {"down", "refused"}
        /\ UNCHANGED <<produced, producedOut, receiver, producedBell, consumedBell, ring, saved, history>>
    BY Zenon DEF AppendHeader, SendSteps
  <1>1. CASE Remaining(sb) < Header
    <2>1. AbandonSend  BY <1>1, Zenon DEF AppendHeader
    <2> QED  BY <1>0, <2>1, AbandonContent, Zenon
  <1>2. CASE ~ (Remaining(sb) < Header)
    <2>1. Store(Header, HeaderOf(msg)) /\ spc' = "body" /\ msg' = msg
      BY <1>2, Zenon DEF AppendHeader
    <2>2. sb \in Batches /\ sb.taken = 0  BY <1>0, Zenon DEF IInv, TypeOK, SendBatchOK
    <2>3. Header \in Nat /\ Header =< Remaining(sb)  BY <1>2, <2>2, BatchType, Sizes, SMTT(30)
    <2>4. \A i \in 0 .. Header - 1 : Memory'[(produced + sb.taken + i) % Size] = HeaderOf(msg)[i]
      BY <1>0, <2>1, <2>3, Stored, Zenon
    <2>5. \A i \in 0 .. Header - 1 : produced + sb.taken + i = produced + i
      BY <2>2, Ranges, SMTT(30) DEF IInv
    <2>6. Written'  BY <1>0, <2>1, <2>4, <2>5, Zenon DEF Written
    <2>7. spc' \notin {"down", "refused"}  BY <2>1, Zenon
    <2> QED  BY <1>0, <2>6, <2>7, SendKeeps, Zenon
  <1> QED  BY <1>1, <1>2, Zenon

LEMMA AppendBodyContent ==
  ASSUME IInv, Content, Written, AppendBody
  PROVE  Content' /\ Written'
  <1>0. /\ spc = "body" /\ spc \in SendSteps /\ spc \notin {"down", "refused"}
        /\ UNCHANGED <<produced, producedOut, receiver, producedBell, consumedBell, ring, saved, history>>
    BY Zenon DEF AppendBody, SendSteps
  <1>1. CASE Remaining(sb) < msg.len
    <2>1. AbandonSend  BY <1>1, Zenon DEF AppendBody
    <2> QED  BY <1>0, <2>1, AbandonContent, Zenon
  <1>2. CASE ~ (Remaining(sb) < msg.len)
    <2>1. Store(msg.len, Body(msg)) /\ spc' = "padding" /\ msg' = msg
      BY <1>2, Zenon DEF AppendBody
    <2>2. sb \in Batches /\ sb.taken = Header /\ msg \in Messages
      BY <1>0, Zenon DEF IInv, TypeOK, SendBatchOK
    <2>3. msg.len \in Nat /\ msg.len =< Remaining(sb)  BY <1>2, <2>2, BatchType, LenOK, SMTT(30)
    <2>4. /\ \A i \in 0 .. msg.len - 1 : Memory'[(produced + sb.taken + i) % Size] = Body(msg)[i]
          /\ \A q \in 0 .. sb.taken - 1 : Memory'[(produced + q) % Size] = Memory[(produced + q) % Size]
      BY <1>0, <2>1, <2>3, Stored, Zenon
    <2>5. \A i \in 0 .. Header - 1 : Memory[(produced + i) % Size] = HeaderOf(msg)[i]
      BY <1>0, Zenon DEF Written
    <2>6. Written'  BY <1>0, <2>1, <2>2, <2>4, <2>5, Zenon DEF Written
    <2>7. spc' \notin {"down", "refused"}  BY <2>1, Zenon
    <2> QED  BY <1>0, <2>6, <2>7, SendKeeps, Zenon
  <1> QED  BY <1>1, <1>2, Zenon

LEMMA SkipPaddingContent ==
  ASSUME IInv, Content, Written, SkipPadding
  PROVE  Content' /\ Written'
  <1>0. /\ spc = "padding" /\ spc \in SendSteps /\ spc \notin {"down", "refused"}
        /\ UNCHANGED <<produced, producedOut, receiver, producedBell, consumedBell, ring, saved, history>>
    BY Zenon DEF SkipPadding, SendSteps
  <1>1. CASE Remaining(sb) < PaddingBytes(msg.len)
    <2>1. AbandonSend  BY <1>1, Zenon DEF SkipPadding
    <2> QED  BY <1>0, <2>1, AbandonContent, Zenon
  <1>2. CASE ~ (Remaining(sb) < PaddingBytes(msg.len))
    <2>1. spc' = "commit" /\ msg' = msg /\ writes' = writes  BY <1>2, Zenon DEF SkipPadding
    <2>2. Memory' = Memory  BY <1>0, <2>1, Zenon DEF Memory
    <2>3. Written'  BY <1>0, <2>1, <2>2, Zenon DEF Written
    <2>4. spc' \notin {"down", "refused"}  BY <2>1, Zenon
    <2> QED  BY <1>0, <2>3, <2>4, SendKeeps, Zenon
  <1> QED  BY <1>1, <1>2, Zenon

(* Commit adds the message at the end. *)
LEMMA SendCommitContent ==
  ASSUME IInv, Content, Written, SendCommit
  PROVE  Content' /\ Written'
  <1> DEFINE T == Total(msg.len)   d == Minus(Produced, Consumed)
  <1>0. /\ spc = "commit" /\ spc' = "idle" /\ DOMAIN writes = {} /\ writes' = writes /\ ring' = ring
        /\ produced' = Plus(produced, sb.taken) /\ chan' = Append(chan, Body(msg))
        /\ UNCHANGED <<rpc, rb, body, consumed, saved, producedBell, consumedBell>>
    BY Zenon DEF SendCommit, Barrier, receiver
  <1>1. Written'  BY <1>0, Zenon DEF Written
  <1>2. Produced = produced /\ Produced' = produced' /\ Consumed' = Consumed
    <2>1. spc \notin {"down", "refused"} /\ spc' \notin {"down", "refused"}  BY <1>0, Zenon
    <2> QED  BY <1>0, <2>1, Zenon DEF Produced, Consumed
  <1>3. /\ msg \in Messages /\ msg.len \in Nat /\ sb.taken = T /\ sb \in Batches
        /\ Covers(sb, produced, Free) /\ Body(msg) \in Bodies
    <2>1. msg \in Messages /\ sb.taken = T /\ sb \in Batches /\ Covers(sb, produced, Free)
      BY <1>0, Zenon DEF IInv, TypeOK, SendBatchOK, SendSteps, Total
    <2> QED  BY <2>1, LenOK, Zenon
  <1>4. T \in Nat /\ T >= Header + msg.len  BY <1>3, TotalOK, Sizes, SMTT(30)
  <1>5. T =< Free
    <2>1. T + Remaining(sb) =< Free  BY <1>3, Zenon DEF Covers
    <2> QED  BY <1>3, <1>4, <2>1, BatchType, Distances, SMTT(30) DEF IInv
  <1>6. /\ produced \in 0 .. Mod - 1 /\ Consumed \in 0 .. Mod - 1 /\ producedBell \in 0 .. Mod - 1
        /\ Free \in 0 .. Size /\ d \in 0 .. Size /\ d + Free =< Size
    <2>1. /\ Minus(Produced, consumedBell) \in 0 .. Size /\ d \in 0 .. Size
          /\ d =< Minus(Produced, consumedBell) /\ Free \in 0 .. Size
      BY Distances, Zenon DEF IInv
    <2>2. d + Free =< Size  BY <2>1, Sizes, SMTT(30) DEF Free
    <2> QED  BY <2>1, <2>2, Ranges, Zenon DEF IInv
  <1>7. produced = Consumed + d \/ produced = (Consumed + d) - Mod
    BY <1>2, <1>6, Sizes, SMTT(30) DEF Minus
  <1>8. Minus(Produced, Consumed)' = d + T
    <2> HIDE DEF T
    <2> QED  BY <1>0, <1>2, <1>3, <1>4, <1>5, <1>6, Sizes, SMTT(30) DEF Plus, Minus
  <1>9. Holds(ring, Consumed + d, msg)
    <2>1. Memory = [a \in 0 .. Size - 1 |-> ring[a]]  BY <1>0, Zenon DEF Memory
    <2>2. Memory = ring  BY <2>1, Zenon DEF IInv, TypeOK
    <2>3. Holds(ring, produced, msg)  BY <1>0, <2>2, Zenon DEF Written, Holds
    <2> DEFINE x == Consumed + d
    <2> HIDE DEF d
    <2>4. produced \in Int /\ x \in Int  BY <1>6, SMTT(30)
    <2>5. produced = x \/ produced = x - Mod  BY <1>7, Zenon
    <2> HIDE DEF x
    <2>6. Holds(ring, x, msg)  BY <1>3, <2>3, <2>4, <2>5, HoldsAt, Zenon
    <2> QED  BY <2>6, Zenon DEF x
  <1> HIDE DEF T, d
  <1>10. PICK n \in Nat : \E ms \in [1 .. n -> Messages] : \E p \in [1 .. n + 1 -> Nat] : Layout(n, ms, p)
    BY Zenon DEF Content
  <1>11. PICK ms \in [1 .. n -> Messages], p \in [1 .. n + 1 -> Nat] : Layout(n, ms, p)  BY <1>10, Zenon
  <1> DEFINE N == n + 1
             new == [k \in 1 .. N |-> IF k = N THEN msg ELSE ms[k]]
             place == [k \in 1 .. N + 1 |-> IF k = N + 1 THEN d + T ELSE p[k]]
  <1>12. N \in Nat /\ new \in [1 .. N -> Messages] /\ place \in [1 .. N + 1 -> Nat]
    <2>1. N \in Nat /\ \A k \in 1 .. N : k # N => k \in 1 .. n  OBVIOUS
    <2>2. \A k \in 1 .. N + 1 : k # N + 1 => k \in 1 .. n + 1  OBVIOUS
    <2>3. d + T \in Nat  BY <1>4, <1>6, SMTT(30)
    <2> HIDE DEF N
    <2>4. new \in [1 .. N -> Messages]  BY <1>3, <2>1, Zenon
    <2>5. place \in [1 .. N + 1 -> Nat]  BY <2>2, <2>3, Zenon
    <2> QED  BY <2>1, <2>4, <2>5, Zenon
  <1>13. PICK Ms \in [1 .. N -> Messages], P \in [1 .. N + 1 -> Nat] :
           /\ \A k \in 1 .. n : Ms[k] = ms[k] /\ k \in 1 .. N
           /\ Ms[N] = msg
           /\ \A k \in 1 .. n + 1 : P[k] = p[k] /\ k \in 1 .. N + 1
           /\ P[N + 1] = d + T /\ P[N] = d
    <2>1. /\ \A k \in 1 .. n : k \in 1 .. N /\ k # N
          /\ \A k \in 1 .. n + 1 : k \in 1 .. N + 1 /\ k # N + 1
          /\ N \in 1 .. N /\ N + 1 \in 1 .. N + 1 /\ N \in 1 .. n + 1
      OBVIOUS
    <2>2. p[N] = d  BY <1>11, Zenon DEF Layout, Ends, d
    <2> HIDE DEF N
    <2>3. /\ \A k \in 1 .. n : new[k] = ms[k] /\ k \in 1 .. N
          /\ new[N] = msg
          /\ \A k \in 1 .. n + 1 : place[k] = p[k] /\ k \in 1 .. N + 1
          /\ place[N + 1] = d + T /\ place[N] = d
      BY <2>1, <2>2, Zenon
    <2> HIDE DEF new, place
    <2> QED  BY <1>12, <2>3, Zenon
  <1>14. Ordered(N, Ms, P)
    <2>1. ASSUME NEW k \in 1 .. N  PROVE P[k + 1] = P[k] + Total(Ms[k].len)
      <3>1. CASE k = N  BY <1>13, <3>1, Zenon DEF T
      <3>2. CASE k # N
        <4>1. k \in 1 .. n /\ k \in 1 .. n + 1 /\ k + 1 \in 1 .. n + 1  BY <3>2
        <4>2. p[k + 1] = p[k] + Total(ms[k].len)  BY <1>11, <4>1, Zenon DEF Layout, Ordered
        <4> QED  BY <1>13, <4>1, <4>2, Zenon
      <3> QED  BY <3>1, <3>2, Zenon
    <2>2. ASSUME NEW k \in 1 .. N + 1, NEW j \in 1 .. k  PROVE P[j] =< P[k]
      <3>0. \A i \in 1 .. n + 1 : p[i] \in Nat /\ p[i] =< d
        <4> TAKE i \in 1 .. n + 1
        <4>1. n + 1 \in 1 .. n + 1 /\ i \in 1 .. (n + 1)  OBVIOUS
        <4>2. p[i] =< p[n + 1]  BY <1>11, <4>1, Zenon DEF Layout, Ordered
        <4> QED  BY <1>13, <4>1, <4>2, Zenon
      <3>1. CASE k = N + 1 /\ j = N + 1
        BY <1>4, <1>6, <1>13, <3>1, SMTT(30)
      <3>2. CASE k = N + 1 /\ j # N + 1
        <4>1. j \in 1 .. n + 1  BY <3>2
        <4>2. P[j] = p[j] /\ P[k] = d + T /\ p[j] \in Nat /\ p[j] =< d  BY <1>13, <3>0, <3>2, <4>1, Zenon
        <4> DEFINE x == p[j]   y == P[j]   z == P[k]
        <4>3. y = x /\ z = d + T /\ x \in Nat /\ x =< d /\ d \in 0 .. Size /\ T \in Nat
          BY <1>4, <1>6, <4>2, Zenon
        <4> HIDE DEF x, y, z
        <4>4. y =< z  BY <4>3, Sizes
        <4> QED  BY <4>4, Zenon DEF y, z
      <3>3. CASE k # N + 1
        <4>1. k \in 1 .. n + 1 /\ j \in 1 .. n + 1  BY <3>3
        <4>2. p[j] =< p[k]  BY <1>11, <4>1, Zenon DEF Layout, Ordered
        <4> QED  BY <1>13, <4>1, <4>2, Zenon
      <3> QED  BY <3>1, <3>2, <3>3, Zenon
    <2> QED  BY <2>1, <2>2, Zenon DEF Ordered
  <1>15. Queued(N, Ms)'
    <2>1. chan \in Seq(Bodies) /\ Len(chan) = n /\ \A k \in 1 .. n : chan[k] = Body(ms[k])
      BY <1>11, Zenon DEF Layout, Queued
    <2>2. /\ chan' \in Seq(Bodies) /\ Len(chan') = N /\ chan'[N] = Body(msg)
          /\ \A k \in 1 .. n : chan'[k] = chan[k]
      <3>1. chan' = Append(chan, Body(msg)) /\ Body(msg) \in Bodies  BY <1>0, <1>3, LenOK, Zenon
      <3>2. /\ Append(chan, Body(msg)) \in Seq(Bodies) /\ Len(Append(chan, Body(msg))) = Len(chan) + 1
            /\ Append(chan, Body(msg))[Len(chan) + 1] = Body(msg)
            /\ \A k \in 1 .. Len(chan) : Append(chan, Body(msg))[k] = chan[k]
        <4>1. chan \in Seq(Bodies) /\ Body(msg) \in Bodies  BY <2>1, <3>1, Zenon
        <4> QED  BY <4>1, Appended
      <3> QED  BY <2>1, <3>1, <3>2, Zenon
    <2>3. \A k \in 1 .. N : k = N \/ k \in 1 .. n  OBVIOUS
    <2>4. \A k \in 1 .. N : chan'[k] = Body(Ms[k])  BY <1>13, <2>1, <2>2, <2>3, Zenon
    <2> QED  BY <2>2, <2>4, Zenon DEF Queued
  <1>16. Filled(N, Ms, P)'
    <2> SUFFICES ASSUME NEW k \in 1 .. N PROVE Holds(ring, Consumed + P[k], Ms[k])
      BY <1>0, <1>2, Zenon DEF Filled
    <2>1. CASE k = N  BY <1>9, <1>13, <2>1, Zenon
    <2>2. CASE k # N
      <3>1. k \in 1 .. n /\ k \in 1 .. n + 1  BY <2>2
      <3> QED  BY <1>11, <1>13, <3>1, Zenon DEF Layout, Filled
    <2> QED  BY <2>1, <2>2, Zenon
  <1>17. Ends(N, P)'
    <2>1. 1 \in 1 .. n + 1  OBVIOUS
    <2>2. P[1] = Handled'
      BY <1>0, <1>11, <1>13, <2>1, Zenon DEF Layout, Ends, Handled
    <2>3. PICK k \in 1 .. n + 1 : p[k] = Minus(producedBell, Consumed)  BY <1>11, Zenon DEF Layout, Ends
    <2>4. k \in 1 .. N + 1 /\ P[k] = Minus(producedBell, Consumed)'
      BY <1>0, <1>2, <1>13, <2>3, Zenon
    <2> QED  BY <1>8, <1>13, <2>2, <2>4, Zenon DEF Ends
  <1>18. Reading(N, Ms, P)'
    <2>1. Reading(n, ms, p)  BY <1>11, Zenon DEF Layout
    <2>2. 1 \in 1 .. n + 1 /\ (n >= 1 => N >= 1 /\ 1 \in 1 .. n /\ 2 \in 1 .. n + 1)  OBVIOUS
    <2>3. P[1] = p[1] /\ (n >= 1 => N >= 1 /\ Ms[1] = ms[1] /\ P[2] = p[2])  BY <1>13, <2>2, Zenon
    <2>4. rpc = "handler" => n >= 1  BY <2>1, Zenon DEF Reading
    <2> QED  BY <1>0, <2>1, <2>3, <2>4, Zenon DEF Reading
  <1>19. Layout(N, Ms, P)'  BY <1>14, <1>15, <1>16, <1>17, <1>18, Zenon DEF Layout, Ordered
  <1>20. Content'  BY <1>12, <1>19, Zenon DEF Content
  <1> QED  BY <1>1, <1>20, Zenon

-----------------------------------------------------------------------------
(* The stores arrive *)

LEMMA LandWriteContent ==
  ASSUME IInv, NoOverwrite, Content, Written, NEW a \in 0 .. Size - 1, LandWrite(a)
  PROVE  Content' /\ Written'
  <1> DEFINE d == Minus(Produced, Consumed)
  <1>0. /\ a \in DOMAIN writes /\ ring' = [ring EXCEPT ![a] = writes[a]]
        /\ writes' = [b \in DOMAIN writes \ {a} |-> writes[b]]
        /\ UNCHANGED <<produced, spc, msg, rpc, rb, body, consumed, saved, producedBell, chan>>
    BY Zenon DEF LandWrite, sender, receiver, history
  <1>1. Produced' = Produced /\ Consumed' = Consumed  BY <1>0, Zenon DEF Produced, Consumed
  <1>2. ring \in [0 .. Size - 1 -> Bytes]  BY Zenon DEF IInv, TypeOK
  <1>3. Memory' = Memory
    <2>1. ASSUME NEW b \in 0 .. Size - 1
          PROVE  (IF b \in DOMAIN writes THEN writes[b] ELSE ring[b])'
                   = IF b \in DOMAIN writes THEN writes[b] ELSE ring[b]
      BY <1>0, <1>2, Zenon
    <2> QED  BY <2>1, Zenon DEF Memory
  <1>4. Written'  BY <1>0, <1>3, Zenon DEF Written
  <1>5. \A q \in 0 .. d - 1 : ring'[(Consumed + q) % Size] = ring[(Consumed + q) % Size]
    <2> TAKE q \in 0 .. d - 1
    <2>1. (Consumed + q) % Size # a  BY <1>0, Zenon DEF NoOverwrite, Region
    <2>2. Consumed + q \in Int /\ Size \in Nat \ {0}  BY Ranges, Sizes, SMTT(30) DEF IInv
    <2>3. (Consumed + q) % Size \in 0 .. Size - 1  BY <2>2, DivMod, Zenon
    <2> QED  BY <1>0, <1>2, <2>1, <2>3, Zenon
  <1>6. PICK n \in Nat : \E ms \in [1 .. n -> Messages] : \E p \in [1 .. n + 1 -> Nat] : Layout(n, ms, p)
    BY Zenon DEF Content
  <1>7. PICK ms \in [1 .. n -> Messages], p \in [1 .. n + 1 -> Nat] : Layout(n, ms, p)  BY <1>6, Zenon
  <1>8. Filled(n, ms, p)'
    <2> SUFFICES ASSUME NEW k \in 1 .. n PROVE Holds(ring', Consumed + p[k], ms[k])
      BY <1>1, Zenon DEF Filled
    <2>1. Holds(ring, Consumed + p[k], ms[k])  BY <1>7, Zenon DEF Layout, Filled
    <2>2. p[k] \in Nat /\ p[k] + Total(ms[k].len) =< p[n + 1]  BY <1>7, Inside, Zenon DEF Layout
    <2>3. p[n + 1] = d  BY <1>7, Zenon DEF Layout, Ends
    <2>4. d \in Int /\ Consumed \in Nat  BY Ranges, Distances, SMTT(30) DEF IInv
    <2> HIDE DEF d
    <2> QED  BY <1>5, <2>1, <2>2, <2>3, <2>4, HoldsKept, Zenon
  <1>9. Handled' = Handled  BY <1>0, Zenon DEF Handled
  <1>10. Queued(n, ms)' /\ Ends(n, p)' /\ Reading(n, ms, p)'
    BY <1>0, <1>1, <1>7, <1>9, Zenon DEF Layout, Queued, Ends, Reading
  <1>11. Layout(n, ms, p)'  BY <1>7, <1>8, <1>10, Zenon DEF Layout, Ordered
  <1> QED  BY <1>4, <1>11, Zenon DEF Content

(* The doorbell rings for all messages so far. *)
LEMMA DoorbellContent ==
  ASSUME IInv, Content, Produced' = Produced, Consumed' = Consumed, producedBell' = producedOut,
         UNCHANGED <<ring, chan, rpc, rb, body>>
  PROVE  Content'
  <1>1. PICK n \in Nat : \E ms \in [1 .. n -> Messages] : \E p \in [1 .. n + 1 -> Nat] : Layout(n, ms, p)
    BY Zenon DEF Content
  <1>2. PICK ms \in [1 .. n -> Messages], p \in [1 .. n + 1 -> Nat] : Layout(n, ms, p)  BY <1>1, Zenon
  <1>3. Handled' = Handled /\ producedBell' = Produced /\ n + 1 \in 1 .. n + 1
    <2>1. Handled' = Handled /\ producedBell' = Produced  BY Zenon DEF Handled, IInv, OutsOK
    <2>2. n + 1 \in 1 .. n + 1  OBVIOUS
    <2> QED  BY <2>1, <2>2, Zenon
  <1>4. Ends(n, p)'  BY <1>2, <1>3, Zenon DEF Layout, Ends
  <1>5. Queued(n, ms)' /\ Filled(n, ms, p)' /\ Reading(n, ms, p)'
    BY <1>2, Zenon DEF Layout, Queued, Filled, Holds, Reading
  <1>6. Layout(n, ms, p)'  BY <1>2, <1>4, <1>5, Zenon DEF Layout, Ordered
  <1> QED  BY <1>6, Zenon DEF Content

LEMMA LandProducedContent ==
  ASSUME IInv, Content, Written, LandProduced
  PROVE  Content' /\ Written'
  <1>1. /\ producedBell' = producedOut /\ Produced' = Produced /\ Consumed' = Consumed
        /\ UNCHANGED <<ring, writes, chan, rpc, rb, body, spc, produced, msg>>
    BY Zenon DEF LandProduced, sender, receiver, history, Produced, Consumed
  <1> QED  BY <1>1, DoorbellContent, WrittenFrame, Zenon

LEMMA LandConsumedContent ==
  ASSUME IInv, Content, Written, LandConsumed
  PROVE  Content' /\ Written'
  <1>1. /\ Produced' = Produced /\ Consumed' = Consumed
        /\ UNCHANGED <<ring, writes, chan, producedBell, rpc, rb, body, spc, produced, msg>>
    BY Zenon DEF LandConsumed, sender, receiver, history, Produced, Consumed
  <1> QED  BY <1>1, ContentFrame, WrittenFrame, Zenon

-----------------------------------------------------------------------------
(* Restart.  The counters are those of the invariant IInv, before and after. *)

LEMMA SenderSaveContent ==
  ASSUME IInv, Content, Written, SenderSave
  PROVE  Content' /\ Written'
  <1>1. /\ spc = "idle" /\ spc' = "down" /\ saved' = [saved EXCEPT !.produced = produced]
        /\ UNCHANGED <<ring, writes, chan, producedBell, rpc, rb, body, consumed>>
    BY Zenon DEF SenderSave, receiver, history
  <1>2. saved'.produced = produced /\ saved'.consumed = saved.consumed
    BY <1>1, SMTT(30) DEF IInv, TypeOK
  <1>3. Produced' = Produced /\ Consumed' = Consumed
    <2>1. spc \notin {"down", "refused"} /\ spc' \in {"down", "refused"}  BY <1>1, Zenon
    <2> QED  BY <1>1, <1>2, <2>1, Zenon DEF Produced, Consumed
  <1>4. spc' \notin {"body", "padding", "commit"}  BY <1>1, Zenon
  <1> QED  BY <1>1, <1>3, <1>4, ContentFrame, WrittenFrame, Zenon

LEMMA SenderRestoreContent ==
  ASSUME IInv, IInv', Content, Written, SenderRestore
  PROVE  Content' /\ Written'
  <1>1. /\ spc = "down" /\ producedBell' = producedOut
        /\ UNCHANGED <<producedOut, ring, writes, chan, rpc, rb, body, consumed, consumedOut>>
        /\ spc' \in {"idle", "refused"}
    BY Zenon DEF SenderRestore, receiver, history
  <1>2. Produced' = Produced /\ Consumed' = Consumed  BY <1>1, Zenon DEF IInv, OutsOK
  <1>3. spc' \notin {"body", "padding", "commit"}  BY <1>1, Zenon
  <1> QED  BY <1>1, <1>2, <1>3, DoorbellContent, WrittenFrame, Zenon

LEMMA ReceiverSaveContent ==
  ASSUME IInv, IInv', Content, Written, ReceiverSave
  PROVE  Content' /\ Written'
  <1>1. /\ rpc = "idle" /\ rpc' = "down"
        /\ UNCHANGED <<producedOut, producedBell, ring, writes, chan, rb, body, consumedOut, spc, produced, msg>>
    BY Zenon DEF ReceiverSave, sender, history
  <1>2. Produced' = Produced /\ Consumed' = Consumed  BY <1>1, Zenon DEF IInv, OutsOK
  <1>3. rpc \in {"idle", "down"} /\ rpc' \in {"idle", "down"}  BY <1>1, Zenon
  <1> QED  BY <1>1, <1>2, <1>3, ContentFrame, WrittenFrame, Zenon

LEMMA ReceiverRestoreContent ==
  ASSUME IInv, IInv', Content, Written, ReceiverRestore
  PROVE  Content' /\ Written'
  <1>1. /\ rpc = "down" /\ rpc' \in {"idle", "refused"}
        /\ UNCHANGED <<producedOut, producedBell, ring, writes, chan, rb, body, consumedOut, spc, produced, msg>>
    BY Zenon DEF ReceiverRestore, sender, history
  <1>2. Produced' = Produced /\ Consumed' = Consumed /\ rpc' # "refused"  BY <1>1, Zenon DEF IInv, OutsOK
  <1>3. rpc \in {"idle", "down"} /\ rpc' \in {"idle", "down"}  BY <1>1, <1>2, Zenon
  <1> QED  BY <1>1, <1>2, <1>3, ContentFrame, WrittenFrame, Zenon

-----------------------------------------------------------------------------
(* Receive *)

(* The first message, for a receiver that has released all it handled. *)
LEMMA First ==
  ASSUME NEW n \in Nat, NEW ms \in [1 .. n -> Messages], NEW p \in [1 .. n + 1 -> Nat],
         Layout(n, ms, p), rpc # "padding", n >= 1
  PROVE  /\ p[1] = 0 /\ p[2] = Total(ms[1].len) /\ ms[1] \in Messages /\ ms[1].len \in Nat
         /\ Total(ms[1].len) \in Nat
         /\ Total(ms[1].len) = Header + ms[1].len + PaddingBytes(ms[1].len)
         /\ PaddingBytes(ms[1].len) \in Nat
         /\ Consumed \in Nat => Holds(ring, Consumed, ms[1])
  <1>1. 1 \in 1 .. n /\ 1 \in 1 .. n + 1 /\ 1 + 1 = 2  OBVIOUS
  <1>2. p[1] = 0  BY Zenon DEF Layout, Ends, Handled
  <1>3. ms[1] \in Messages  BY <1>1, Zenon
  <1>4. ms[1].len \in Nat  BY <1>3, LenOK, Zenon
  <1>5. p[1 + 1] = p[1] + Total(ms[1].len)  BY <1>1, Zenon DEF Layout, Ordered
  <1>6. /\ Total(ms[1].len) \in Nat
        /\ Total(ms[1].len) = Header + ms[1].len + PaddingBytes(ms[1].len)
        /\ PaddingBytes(ms[1].len) \in Nat
    BY <1>4, TotalOK, Zenon
  <1>7. p[2] = Total(ms[1].len)
    <2>1. p[2] = 0 + Total(ms[1].len)  BY <1>1, <1>2, <1>5, Zenon
    <2> QED  BY <1>6, <2>1, SMTT(30)
  <1>8. ASSUME Consumed \in Nat PROVE Holds(ring, Consumed, ms[1])
    <2>1. Consumed + 0 = Consumed  BY <1>8
    <2>2. Holds(ring, Consumed + p[1], ms[1])  BY <1>1, Zenon DEF Layout, Filled
    <2> QED  BY <1>2, <2>1, <2>2, Zenon
  <1> QED  BY <1>2, <1>3, <1>4, <1>6, <1>7, <1>8, Zenon

(* What the doorbell announces is whole messages: none or at least the first. *)
LEMMA Announced ==
  ASSUME IInv, NEW n \in Nat, NEW ms \in [1 .. n -> Messages], NEW p \in [1 .. n + 1 -> Nat],
         Layout(n, ms, p), rpc # "padding", Minus(producedBell, Consumed) > 0
  PROVE  n >= 1 /\ p[2] =< Minus(producedBell, Consumed)
  <1>1. PICK k \in 1 .. n + 1 : p[k] = Minus(producedBell, Consumed)  BY Zenon DEF Layout, Ends
  <1>2. p[1] = 0  BY Zenon DEF Layout, Ends, Handled
  <1>3. k # 1
    <2> SUFFICES ASSUME k = 1 PROVE FALSE  BY Zenon
    <2>1. Minus(producedBell, Consumed) = 0  BY <1>1, <1>2, Zenon
    <2> QED  BY <2>1, SMTT(30)
  <1>4. n >= 1 /\ 2 \in 1 .. k  BY <1>3
  <1>5. p[2] =< p[k]  BY <1>1, <1>4, Zenon DEF Layout, Ordered
  <1> QED  BY <1>1, <1>4, <1>5, Zenon

LEMMA ReceiveBeginContent ==
  ASSUME IInv, Content, Written, ReceiveBegin
  PROVE  Content' /\ Written'
  <1> DEFINE v == Minus(producedBell, consumed)
  <1>0. /\ rpc = "idle" /\ rpc' = "header" /\ v \in 1 .. Size /\ rb' = BatchAt(consumed, v)
        /\ UNCHANGED <<consumed, ring, writes, chan, producedBell, body, saved, spc, produced, msg>>
    BY Zenon DEF ReceiveBegin, sender, history
  <1>1. /\ rpc \notin {"down", "refused"} /\ rpc' \notin {"down", "refused"}
        /\ rpc # "padding" /\ rpc' # "padding" /\ rpc' # "handler"
    BY <1>0, Zenon
  <1>2. Produced' = Produced /\ Consumed' = Consumed /\ Consumed = consumed
    BY <1>0, <1>1, Zenon DEF Produced, Consumed
  <1>3. Written'  BY <1>0, WrittenFrame, Zenon
  <1>4. PICK n \in Nat : \E ms \in [1 .. n -> Messages] : \E p \in [1 .. n + 1 -> Nat] : Layout(n, ms, p)
    BY Zenon DEF Content
  <1>5. PICK ms \in [1 .. n -> Messages], p \in [1 .. n + 1 -> Nat] : Layout(n, ms, p)  BY <1>4, Zenon
  <1>6. n >= 1 /\ p[2] =< v
    <2>1. Minus(producedBell, Consumed) > 0  BY <1>0, <1>2, SMTT(30)
    <2> QED  BY <1>1, <1>2, <1>5, <2>1, Announced, Zenon
  <1>7. rb'.taken = 0 /\ Remaining(rb') = v /\ 0 + v = v
    <2>1. consumed \in Nat /\ v \in 0 .. Size /\ 0 + v = v  BY <1>0, Ranges, SMTT(30) DEF IInv
    <2> HIDE DEF v
    <2> QED  BY <1>0, <2>1, BatchAtOK, Zenon
  <1> HIDE DEF v
  <1>8. Reading(n, ms, p)'
    <2>1. p[2] =< rb'.taken + Remaining(rb')  BY <1>6, <1>7, Zenon
    <2>2. Remaining(rb)' = Remaining(rb')  BY Zenon DEF Remaining
    <2> QED  BY <1>1, <1>6, <2>1, <2>2, Zenon DEF Reading
  <1>9. Handled' = Handled  BY <1>1, Zenon DEF Handled
  <1>10. Queued(n, ms)' /\ Filled(n, ms, p)' /\ Ends(n, p)'
    BY <1>0, <1>2, <1>5, <1>9, ZenonT(40) DEF Layout, Queued, Filled, Holds, Ends
  <1>11. Layout(n, ms, p)'  BY <1>5, <1>8, <1>10, Zenon DEF Layout, Ordered
  <1> QED  BY <1>3, <1>11, Zenon DEF Content

(* Receive finds the header of the first message, and all of it behind. *)
LEMMA HeaderRead ==
  ASSUME IInv, NEW n \in Nat, NEW ms \in [1 .. n -> Messages], NEW p \in [1 .. n + 1 -> Nat],
         Layout(n, ms, p), rpc = "header"
  PROVE  /\ n >= 1 /\ ring[Address(rb, 0)].len = ms[1].len
         /\ Remaining(rb) >= Header + ms[1].len + PaddingBytes(ms[1].len)
         /\ Remaining(rb) \in Nat /\ rb \in Batches /\ rb.taken = 0
  <1>0. rpc # "padding" /\ rpc \in {"header", "handler"} /\ rpc \in ReceiveSteps
        /\ rpc \notin {"down", "refused"}
    BY Zenon DEF ReceiveSteps
  <1>1. n >= 1 /\ p[2] =< rb.taken + Remaining(rb)  BY <1>0, Zenon DEF Layout, Reading
  <1>2. /\ rb \in Batches /\ rb.taken = 0 /\ Covers(rb, consumed, Minus(producedBell, consumed))
        /\ Consumed = consumed
    BY <1>0, Zenon DEF IInv, TypeOK, ReceiveBatchOK, Consumed
  <1>3. Remaining(rb) \in Nat  BY <1>2, BatchType, Zenon
  <1>4. consumed \in Nat /\ Consumed \in Nat  BY <1>2, Ranges, SMTT(30) DEF IInv
  <1>5. /\ p[2] = Total(ms[1].len) /\ ms[1] \in Messages /\ ms[1].len \in Nat
        /\ Total(ms[1].len) \in Nat /\ PaddingBytes(ms[1].len) \in Nat
        /\ Total(ms[1].len) = Header + ms[1].len + PaddingBytes(ms[1].len)
        /\ Holds(ring, consumed, ms[1])
    BY <1>0, <1>1, <1>2, <1>4, First, ZenonT(40)
  <1>6. Remaining(rb) >= Header + ms[1].len + PaddingBytes(ms[1].len)
    <2>1. Total(ms[1].len) =< 0 + Remaining(rb)  BY <1>1, <1>2, <1>5, Zenon
    <2> DEFINE t == Total(ms[1].len)   r == Remaining(rb)
    <2>2. t \in Nat /\ r \in Nat /\ t =< 0 + r  BY <1>3, <1>5, <2>1, Zenon
    <2> HIDE DEF t, r
    <2>3. r >= t  BY <2>2
    <2> QED  BY <1>5, <2>3, Zenon DEF t, r
  <1>7. /\ 0 \in 0 .. Remaining(rb) - 1 /\ 0 \in 0 .. Header - 1
        /\ consumed + rb.taken + 0 = consumed + 0
    <2> DEFINE r == Remaining(rb)   l == ms[1].len   q == PaddingBytes(l)   t == rb.taken
    <2>1. /\ r \in Nat /\ l \in Nat /\ q \in Nat /\ Header \in Nat \ {0} /\ t = 0
          /\ r >= Header + l + q
      BY <1>2, <1>3, <1>5, <1>6, Sizes, Zenon
    <2> HIDE DEF r, l, q, t
    <2>2. 0 \in 0 .. r - 1 /\ 0 \in 0 .. Header - 1 /\ consumed + t + 0 = consumed + 0
      BY <1>4, <2>1
    <2> QED  BY <2>2, Zenon DEF r, t
  <1>8. Address(rb, 0) = (consumed + 0) % Size  BY <1>2, <1>7, Zenon DEF Covers
  <1>9. ring[(consumed + 0) % Size] = HeaderOf(ms[1])[0]  BY <1>5, <1>7, Zenon DEF Holds
  <1>10. HeaderOf(ms[1])[0].len = ms[1].len  BY <1>7, SMTT(30) DEF HeaderOf
  <1> QED  BY <1>1, <1>2, <1>3, <1>6, <1>8, <1>9, <1>10, Zenon

LEMMA ReceiveHeaderContent ==
  ASSUME IInv, Content, Written, ReceiveHeader
  PROVE  Content' /\ Written'
  <1> DEFINE v == ring[Address(rb, 0)].len   rest == Take(rb, Header)
  <1>0. /\ rpc = "header"
        /\ UNCHANGED <<consumed, ring, writes, chan, producedBell, saved, spc, produced, msg>>
    BY Zenon DEF ReceiveHeader, sender, history
  <1>1. Written'  BY <1>0, WrittenFrame, Zenon
  <1>2. PICK n \in Nat : \E ms \in [1 .. n -> Messages] : \E p \in [1 .. n + 1 -> Nat] : Layout(n, ms, p)
    BY Zenon DEF Content
  <1>3. PICK ms \in [1 .. n -> Messages], p \in [1 .. n + 1 -> Nat] : Layout(n, ms, p)  BY <1>2, Zenon
  <1>4. /\ n >= 1 /\ v = ms[1].len
        /\ Remaining(rb) >= Header + ms[1].len + PaddingBytes(ms[1].len)
        /\ Remaining(rb) \in Nat /\ rb \in Batches /\ rb.taken = 0
    BY <1>0, <1>3, HeaderRead, Zenon
  <1>5. /\ p[2] = Total(ms[1].len) /\ ms[1].len \in Nat /\ PaddingBytes(ms[1].len) \in Nat
        /\ Total(ms[1].len) = Header + ms[1].len + PaddingBytes(ms[1].len) /\ rpc # "padding"
    <2>1. rpc # "padding"  BY <1>0, Zenon
    <2> QED  BY <1>3, <1>4, <2>1, First, Zenon
  <1>6. /\ Header \in Nat /\ Header =< Remaining(rb)
        /\ ~(Remaining(rb) < Header) /\ ~(Remaining(rb) - Header < ms[1].len)
        /\ p[2] =< (0 + Header) + (Remaining(rb) - Header)
    <2> DEFINE r == Remaining(rb)   l == ms[1].len   q == PaddingBytes(l)   t == p[2]
    <2>1. /\ r \in Nat /\ l \in Nat /\ q \in Nat /\ Header \in Nat
          /\ r >= Header + l + q /\ t = Header + l + q
      BY <1>4, <1>5, Sizes, Zenon
    <2> HIDE DEF r, l, q, t
    <2>2. Header =< r /\ ~(r < Header) /\ ~(r - Header < l) /\ t =< (0 + Header) + (r - Header)
      BY <2>1
    <2> QED  BY <2>1, <2>2, Zenon DEF r, l, t
  <1>7. rest.taken = rb.taken + Header /\ Remaining(rest) = Remaining(rb) - Header
    BY <1>4, <1>6, TakeOK, Zenon
  <1> HIDE DEF v, rest
  <1>8. ~(Remaining(rb) < Header) /\ ~(Remaining(rest) < v)
    BY <1>4, <1>6, <1>7, Zenon
  <1>9. rpc' = "handler" /\ rb' = rest /\ body' = v  BY <1>8, Zenon DEF ReceiveHeader, v, rest
  <1>10. /\ rpc \notin {"down", "refused"} /\ rpc' \notin {"down", "refused"} /\ rpc' # "padding"
    BY <1>0, <1>9, Zenon
  <1>11. Produced' = Produced /\ Consumed' = Consumed /\ Handled' = Handled
    BY <1>0, <1>5, <1>10, Zenon DEF Produced, Consumed, Handled
  <1>12. Reading(n, ms, p)'
    <2>1. p[2] =< rest.taken + Remaining(rest)  BY <1>4, <1>6, <1>7, Zenon
    <2>2. Remaining(rb)' = Remaining(rb')  BY Zenon DEF Remaining
    <2> QED  BY <1>4, <1>9, <1>10, <2>1, <2>2, Zenon DEF Reading
  <1>13. Queued(n, ms)' /\ Filled(n, ms, p)' /\ Ends(n, p)'
    BY <1>0, <1>3, <1>11, Zenon DEF Layout, Queued, Filled, Holds, Ends
  <1>14. Layout(n, ms, p)'  BY <1>3, <1>12, <1>13, Zenon DEF Layout, Ordered
  <1> QED  BY <1>1, <1>14, Zenon DEF Content

(* The handler is given the body of the first message. *)
LEMMA BodyRead ==
  ASSUME IInv, NEW n \in Nat, NEW ms \in [1 .. n -> Messages], NEW p \in [1 .. n + 1 -> Nat],
         Layout(n, ms, p), rpc = "handler"
  PROVE  [i \in 0 .. body - 1 |-> ring[Address(rb, i)]] = Body(ms[1])
  <1>0. /\ rpc # "padding" /\ rpc \in {"header", "handler"} /\ rpc \in ReceiveSteps
        /\ rpc \notin {"down", "refused"}
    BY Zenon DEF ReceiveSteps
  <1>1. n >= 1 /\ body = ms[1].len  BY <1>0, Zenon DEF Layout, Reading
  <1>2. /\ rb \in Batches /\ rb.taken = Header /\ Remaining(rb) >= body
        /\ Covers(rb, consumed, Minus(producedBell, consumed)) /\ Consumed = consumed
    BY <1>0, Zenon DEF IInv, TypeOK, ReceiveBatchOK, Consumed
  <1>3. Remaining(rb) \in Nat  BY <1>2, BatchType, Zenon
  <1>4. consumed \in Nat /\ Consumed \in Nat  BY <1>2, Ranges, SMTT(30) DEF IInv
  <1>5. ms[1].len \in Nat /\ Holds(ring, consumed, ms[1])
    BY <1>0, <1>1, <1>2, <1>4, First, Zenon
  <1>6. ASSUME NEW i \in 0 .. body - 1  PROVE ring[Address(rb, i)] = Body(ms[1])[i]
    <2>1. i \in 0 .. Remaining(rb) - 1  BY <1>1, <1>2, <1>3, <1>5, SMTT(30)
    <2>2. Address(rb, i) = (consumed + Header + i) % Size  BY <1>2, <2>1, Zenon DEF Covers
    <2> QED  BY <1>1, <1>5, <2>2, Zenon DEF Holds
  <1>7. Body(ms[1]) = [i \in 0 .. body - 1 |-> Body(ms[1])[i]]  BY <1>1, Zenon DEF Body
  <1> QED  BY <1>6, <1>7, Zenon

(* The handler has had the first message. *)
LEMMA ReceiveHandlerContent ==
  ASSUME IInv, Content, Written, ReceiveHandler
  PROVE  Content' /\ Written' /\ chan # <<>> /\ out' = Head(chan) /\ chan' = Tail(chan)
  <1>0. /\ rpc = "handler" /\ rpc' = "padding" /\ rb' = Take(rb, body) /\ body' = body
        /\ out' = [i \in 0 .. body - 1 |-> ring[Address(rb, i)]]
        /\ chan' = IF chan = <<>> THEN chan ELSE Tail(chan)
        /\ UNCHANGED <<consumed, ring, writes, producedBell, saved, spc, produced, msg>>
    BY Zenon DEF ReceiveHandler, sender
  <1>1. Written'  BY <1>0, WrittenFrame, Zenon
  <1>2. PICK n \in Nat : \E ms \in [1 .. n -> Messages] : \E p \in [1 .. n + 1 -> Nat] : Layout(n, ms, p)
    BY Zenon DEF Content
  <1>3. PICK ms \in [1 .. n -> Messages], p \in [1 .. n + 1 -> Nat] : Layout(n, ms, p)  BY <1>2, Zenon
  <1>4. /\ rpc # "padding" /\ rpc \in {"header", "handler"} /\ rpc \in ReceiveSteps
        /\ rpc \notin {"down", "refused"} /\ rpc' \notin {"down", "refused"}
    BY <1>0, Zenon DEF ReceiveSteps
  <1>5. Produced' = Produced /\ Consumed' = Consumed /\ Consumed = consumed
    BY <1>0, <1>4, Zenon DEF Produced, Consumed
  <1>6. n >= 1 /\ body = ms[1].len /\ p[2] =< rb.taken + Remaining(rb)
    BY <1>0, <1>4, <1>3, Zenon DEF Layout, Reading
  <1>7. p[2] = Total(body) /\ p[1] = 0 /\ body \in Nat /\ Total(body) \in Nat
    BY <1>3, <1>4, <1>6, First, Zenon
  <1>8. chan \in Seq(Bodies) /\ Len(chan) = n /\ \A k \in 1 .. n : chan[k] = Body(ms[k])
    BY <1>3, Zenon DEF Layout, Queued
  <1>9. chan # <<>> /\ Head(chan) = Body(ms[1])
    <2>1. 1 \in 1 .. n /\ chan # <<>> /\ Head(chan) = chan[1]  BY <1>6, <1>8, SMTT(30)
    <2> QED  BY <1>8, <2>1, Zenon
  <1>10. chan' = Tail(chan) /\ out' = Head(chan)
    BY <1>0, <1>3, <1>9, BodyRead, Zenon
  <1> DEFINE N == n - 1
             Ms == [k \in 1 .. N |-> ms[k + 1]]
             P == [k \in 1 .. N + 1 |-> p[k + 1]]
  <1>11. /\ N \in Nat /\ \A k \in 1 .. N : k + 1 \in 1 .. n /\ k \in 1 .. N + 1 /\ k + 1 \in 1 .. N + 1
         /\ \A k \in 1 .. N + 1 : k + 1 \in 1 .. n + 1
         /\ 1 \in 1 .. N + 1 /\ 1 + 1 = 2 /\ N + 1 \in 1 .. N + 1 /\ (N + 1) + 1 = n + 1
    BY <1>6
  <1> HIDE DEF N
  <1>12. Ms \in [1 .. N -> Messages] /\ P \in [1 .. N + 1 -> Nat]  BY <1>11, Zenon
  <1>13. /\ \A k \in 1 .. N : Ms[k] = ms[k + 1]
         /\ \A k \in 1 .. N + 1 : P[k] = p[k + 1]
         /\ P[1] = p[2] /\ P[N + 1] = p[n + 1]
    BY <1>11, Zenon
  <1> HIDE DEF Ms, P
  <1>14. Ordered(N, Ms, P)
    <2>1. \A k \in 1 .. n : p[k + 1] = p[k] + Total(ms[k].len)  BY <1>3, Zenon DEF Layout, Ordered
    <2>2. \A k \in 1 .. N : P[k + 1] = P[k] + Total(Ms[k].len)  BY <1>11, <1>13, <2>1, ZenonT(40)
    <2>3. ASSUME NEW k \in 1 .. N + 1, NEW j \in 1 .. k  PROVE P[j] =< P[k]
      <3>1. j \in 1 .. N + 1 /\ j + 1 \in 1 .. k + 1 /\ k + 1 \in 1 .. n + 1  BY <1>11
      <3>2. p[j + 1] =< p[k + 1]  BY <1>3, <3>1, Zenon DEF Layout, Ordered
      <3> QED  BY <1>13, <3>1, <3>2, Zenon
    <2> QED  BY <2>2, <2>3, Zenon DEF Ordered
  <1>15. Queued(N, Ms)'
    <2>1. /\ Tail(chan) \in Seq(Bodies) /\ Len(Tail(chan)) = N
          /\ \A k \in 1 .. N : Tail(chan)[k] = chan[k + 1]
      BY <1>6, <1>8, <1>9, SMTT(30) DEF N
    <2>2. ASSUME NEW k \in 1 .. N  PROVE Tail(chan)[k] = Body(Ms[k])
      <3>1. Tail(chan)[k] = chan[k + 1] /\ Ms[k] = ms[k + 1]  BY <1>13, <2>1, Zenon
      <3>2. k + 1 \in 1 .. n  BY <1>11, Zenon
      <3> QED  BY <1>8, <3>1, <3>2, Zenon
    <2> QED  BY <1>10, <2>1, <2>2, Zenon DEF Queued
  <1>16. Filled(N, Ms, P)'
    <2> SUFFICES ASSUME NEW k \in 1 .. N PROVE Holds(ring, Consumed + P[k], Ms[k])
      BY <1>0, <1>5, Zenon DEF Filled
    <2>1. Holds(ring, Consumed + p[k + 1], ms[k + 1])  BY <1>3, <1>11, Zenon DEF Layout, Filled
    <2> QED  BY <1>11, <1>13, <2>1, Zenon
  <1>17. /\ rb \in Batches /\ rb.taken = Header /\ Remaining(rb) >= body
         /\ Covers(rb, consumed, Minus(producedBell, consumed))
    BY <1>0, <1>4, Zenon DEF IInv, TypeOK, ReceiveBatchOK
  <1>18. Remaining(rb) \in Nat /\ body =< Remaining(rb)
    <2>1. Remaining(rb) \in Nat  BY <1>17, BatchType, Zenon
    <2> QED  BY <1>7, <1>17, <2>1, SMTT(30)
  <1>19. Ends(N, P)'
    <2>1. P[1] = Handled'  BY <1>0, <1>7, <1>13, Zenon DEF Handled
    <2>2. P[N + 1] = Minus(Produced, Consumed)'
      BY <1>3, <1>5, <1>13, Zenon DEF Layout, Ends
    <2>3. PICK k \in 1 .. n + 1 : p[k] = Minus(producedBell, Consumed)  BY <1>3, Zenon DEF Layout, Ends
    <2>4. rb.taken + Remaining(rb) =< Minus(producedBell, Consumed)  BY <1>5, <1>17, Zenon DEF Covers
    <2>5. k # 1
      <3> SUFFICES ASSUME k = 1 PROVE FALSE  BY Zenon
      <3>1. Minus(producedBell, Consumed) = 0  BY <1>7, <2>3, Zenon
      <3>2. rb.taken + Remaining(rb) =< 0  BY <2>4, <3>1, Zenon
      <3> QED  BY <1>17, <1>18, <3>2, Sizes, SMTT(30)
    <2>6. k - 1 \in 1 .. N + 1 /\ (k - 1) + 1 = k  BY <1>6, <2>5 DEF N
    <2>7. P[k - 1] = Minus(producedBell, Consumed)  BY <1>13, <2>3, <2>6, Zenon
    <2> QED  BY <1>0, <1>5, <2>1, <2>2, <2>6, <2>7, Zenon DEF Ends
  <1>20. Reading(N, Ms, P)'
    <2>1. rb'.taken = rb.taken + body /\ Remaining(rb') = Remaining(rb) - body
      BY <1>0, <1>7, <1>17, <1>18, TakeOK, Zenon
    <2>2. rb'.taken + Remaining(rb') = rb.taken + Remaining(rb)
      BY <1>7, <1>17, <1>18, <2>1, Sizes, SMTT(30)
    <2>3. P[1] =< rb'.taken + Remaining(rb')  BY <1>6, <1>13, <2>2, Zenon
    <2>4. Remaining(rb)' = Remaining(rb')  BY Zenon DEF Remaining
    <2>5. rpc' \notin {"header", "handler"} /\ rpc' # "handler"  BY <1>0, Zenon
    <2> QED  BY <2>3, <2>4, <2>5, Zenon DEF Reading
  <1>21. Layout(N, Ms, P)'  BY <1>14, <1>15, <1>16, <1>19, <1>20, Zenon DEF Layout, Ordered
  <1>22. Content'  BY <1>11, <1>12, <1>21, Zenon DEF Content
  <1> QED  BY <1>1, <1>9, <1>10, <1>22, Zenon

(* The message that was handled is released. *)
LEMMA ReceiveCommitContent ==
  ASSUME IInv, Content, Written, ReceiveCommit
  PROVE  Content' /\ Written'
  <1> DEFINE pad == PaddingBytes(body)   T == Total(body)   total == Plus(consumed, Take(rb, pad).taken)
             d == Minus(Produced, Consumed)   v == Minus(producedBell, Consumed)
  <1>0. /\ rpc = "padding" /\ rpc' = "idle"
        /\ UNCHANGED <<ring, writes, chan, producedBell, saved, spc, produced, msg>>
        /\ ~(Remaining(rb) < pad) => consumed' = total
    BY Zenon DEF ReceiveCommit, sender, history
  <1>1. Written'  BY <1>0, WrittenFrame, Zenon
  <1>2. PICK n \in Nat : \E ms \in [1 .. n -> Messages] : \E p \in [1 .. n + 1 -> Nat] : Layout(n, ms, p)
    BY Zenon DEF Content
  <1>3. PICK ms \in [1 .. n -> Messages], p \in [1 .. n + 1 -> Nat] : Layout(n, ms, p)  BY <1>2, Zenon
  <1>4. /\ rpc \notin {"down", "refused"} /\ rpc' \notin {"down", "refused"}
        /\ rpc \in ReceiveSteps /\ rpc' \notin {"header", "handler"} /\ rpc' # "handler" /\ rpc' # "padding"
    BY <1>0, Zenon DEF ReceiveSteps
  <1>5. Produced' = Produced /\ Consumed' = consumed' /\ Consumed = consumed
    BY <1>0, <1>4, Zenon DEF Produced, Consumed
  <1>6. /\ rb \in Batches /\ rb.taken = Header + body /\ body \in Lens \cup {0}
    BY <1>0, Zenon DEF IInv, TypeOK, ReceiveBatchOK
  <1>7. body \in Nat  BY <1>6, Sizes, SMTT(30)
  <1>8. T \in Nat /\ pad \in Nat /\ T = Header + body + pad  BY <1>7, TotalOK, Zenon
  <1>9. p[1] = T /\ p[1] =< rb.taken + Remaining(rb) /\ p[n + 1] = d
    BY <1>0, <1>3, Zenon DEF Layout, Ends, Reading, Handled
  <1>10. Remaining(rb) \in Nat  BY <1>6, BatchType, Zenon
  <1>11. pad =< Remaining(rb) /\ ~(Remaining(rb) < pad)
    <2> HIDE DEF pad, T
    <2>1. T =< rb.taken + Remaining(rb)  BY <1>9, Zenon
    <2> QED  BY <1>6, <1>7, <1>8, <1>10, <2>1, Sizes, SMTT(30)
  <1>12. Take(rb, pad).taken = T
    <2>1. Take(rb, pad).taken = rb.taken + pad  BY <1>6, <1>8, <1>11, TakeOK, Zenon
    <2> QED  BY <1>6, <1>8, <2>1, Zenon
  <1>13. consumed' = Plus(consumed, T)  BY <1>0, <1>11, <1>12, Zenon
  <1>14. PICK e \in 1 .. n + 1 : p[e] = v  BY <1>3, Zenon DEF Layout, Ends
  <1>15. \A k \in 1 .. n + 1 : p[k] \in Nat /\ T =< p[k]
    <2> TAKE k \in 1 .. n + 1
    <2>1. 1 \in 1 .. k  OBVIOUS
    <2>2. p[1] =< p[k]  BY <1>3, <2>1, Zenon DEF Layout, Ordered
    <2> QED  BY <1>9, <2>2, Zenon
  <1>16. /\ T =< d /\ T =< v /\ d \in 0 .. Size /\ v \in 0 .. Size
         /\ consumed \in 0 .. Mod - 1 /\ Produced \in 0 .. Mod - 1 /\ producedBell \in 0 .. Mod - 1
    <2>1. n + 1 \in 1 .. n + 1  OBVIOUS
    <2>2. T =< d /\ T =< v  BY <1>9, <1>14, <1>15, <2>1, Zenon
    <2>3. d \in 0 .. Size /\ v \in 0 .. Size  BY Distances, Zenon DEF IInv
    <2> QED  BY <1>5, <2>2, <2>3, Ranges, Zenon DEF IInv
  <1> HIDE DEF T, pad, total
  <1>17. Minus(Produced, Consumed)' = d - T
    BY <1>5, <1>8, <1>13, <1>16, Consumes, Zenon
  <1>18. Minus(producedBell, Consumed)' = v - T
    BY <1>0, <1>5, <1>8, <1>13, <1>16, Consumes, Zenon
  <1>19. consumed' = consumed + T \/ consumed' = (consumed + T) - Mod
    BY <1>5, <1>8, <1>13, <1>16, Consumes, Zenon
  <1> HIDE DEF d, v
  <1>20. PICK P \in [1 .. n + 1 -> Nat] : \A k \in 1 .. n + 1 : P[k] = p[k] - T
    <2> DEFINE f == [k \in 1 .. n + 1 |-> p[k] - T]
    <2>1. \A k \in 1 .. n + 1 : p[k] - T \in Nat  BY <1>8, <1>15, SMTT(30)
    <2>2. f \in [1 .. n + 1 -> Nat] /\ \A k \in 1 .. n + 1 : f[k] = p[k] - T  BY <2>1, Zenon
    <2> HIDE DEF f
    <2> QED  BY <2>2, Zenon
  <1>21. Ordered(n, ms, P)
    <2>1. ASSUME NEW k \in 1 .. n  PROVE P[k + 1] = P[k] + Total(ms[k].len)
      <3>1. k \in 1 .. n + 1 /\ k + 1 \in 1 .. n + 1  OBVIOUS
      <3>2. p[k + 1] = p[k] + Total(ms[k].len)  BY <1>3, Zenon DEF Layout, Ordered
      <3>3. ms[k].len \in Nat  BY LenOK, Zenon
      <3>4. Total(ms[k].len) \in Nat  BY <3>3, TotalOK, Zenon
      <3>5. P[k] = p[k] - T /\ P[k + 1] = p[k + 1] - T /\ p[k] \in Nat  BY <1>15, <1>20, <3>1, Zenon
      <3> DEFINE x == p[k]   t == Total(ms[k].len)   y == P[k]   z == P[k + 1]
      <3>6. x \in Nat /\ t \in Nat /\ T \in Nat /\ y = x - T /\ z = (x + t) - T
        BY <1>8, <3>2, <3>4, <3>5, Zenon
      <3> HIDE DEF x, t, y, z
      <3>7. z = y + t  BY <3>6
      <3> QED  BY <3>7, Zenon DEF t, y, z
    <2>2. ASSUME NEW k \in 1 .. n + 1, NEW j \in 1 .. k  PROVE P[j] =< P[k]
      <3>1. j \in 1 .. n + 1  OBVIOUS
      <3>2. p[j] =< p[k]  BY <1>3, Zenon DEF Layout, Ordered
      <3>3. P[k] = p[k] - T /\ P[j] = p[j] - T /\ p[k] \in Nat /\ p[j] \in Nat  BY <1>15, <1>20, <3>1, Zenon
      <3> DEFINE x == p[j]   y == p[k]   u == P[j]   w == P[k]
      <3>4. x \in Nat /\ y \in Nat /\ x =< y /\ T \in Nat /\ u = x - T /\ w = y - T
        BY <1>8, <3>2, <3>3, Zenon
      <3> HIDE DEF x, y, u, w
      <3>5. u =< w  BY <3>4
      <3> QED  BY <3>5, Zenon DEF u, w
    <2> QED  BY <2>1, <2>2, Zenon DEF Ordered
  <1>22. Filled(n, ms, P)'
    <2> SUFFICES ASSUME NEW k \in 1 .. n PROVE Holds(ring, consumed' + P[k], ms[k])
      BY <1>0, <1>5, Zenon DEF Filled
    <2>1. k \in 1 .. n + 1  OBVIOUS
    <2>2. Holds(ring, consumed + p[k], ms[k])  BY <1>3, <1>5, Zenon DEF Layout, Filled
    <2>3. P[k] = p[k] - T /\ p[k] \in Nat  BY <1>15, <1>20, <2>1, Zenon
    <2> DEFINE x == consumed' + P[k]   y == consumed + p[k]
    <2>4. x \in Int /\ y \in Int /\ (x = y \/ x = y - Mod)
      <3> DEFINE q == p[k]   c == consumed'
      <3>1. q \in Nat /\ x = c + (q - T) /\ y = consumed + q  BY <2>3, Zenon
      <3>2. c = consumed + T \/ c = (consumed + T) - Mod  BY <1>19, Zenon
      <3>3. T \in Int /\ consumed \in Int /\ Mod \in Int  BY <1>8, <1>16, Sizes
      <3> HIDE DEF q, c, x, y
      <3>4. CASE c = consumed + T  BY <3>1, <3>3, <3>4, SMTT(30)
      <3>5. CASE c = (consumed + T) - Mod  BY <3>1, <3>3, <3>5, SMTT(30)
      <3> QED  BY <3>2, <3>4, <3>5, Zenon
    <2>5. Holds(ring, y, ms[k])  BY <2>2, Zenon
    <2> HIDE DEF x, y
    <2>6. Holds(ring, x, ms[k])  BY <2>4, <2>5, HoldsAt, Zenon
    <2> QED  BY <2>6, Zenon DEF x
  <1>23. Ends(n, P)'
    <2>1. 1 \in 1 .. n + 1 /\ n + 1 \in 1 .. n + 1  OBVIOUS
    <2>2. P[1] = T - T /\ P[n + 1] = d - T /\ P[e] = v - T  BY <1>9, <1>14, <1>20, <2>1, Zenon
    <2>3. T - T = 0  BY <1>8, SMTT(30)
    <2>4. P[1] = Handled'  BY <1>4, <2>2, <2>3, Zenon DEF Handled
    <2> QED  BY <1>17, <1>18, <2>2, <2>4, Zenon DEF Ends
  <1>24. Queued(n, ms)' /\ Reading(n, ms, P)'
    BY <1>0, <1>3, <1>4, Zenon DEF Layout, Queued, Reading
  <1>25. Layout(n, ms, P)'  BY <1>21, <1>22, <1>23, <1>24, Zenon DEF Layout, Ordered
  <1>26. Content'  BY <1>25, Zenon DEF Content
  <1> QED  BY <1>1, <1>26, Zenon

-----------------------------------------------------------------------------
(* Every step *)

LEMMA InitialContent == Init => Content /\ Written
  <1> SUFFICES ASSUME Init PROVE Content /\ Written  BY Zenon
  <1> DEFINE ms == [k \in 1 .. 0 |-> CHOOSE m \in Messages : TRUE]   p == [k \in 1 .. 0 + 1 |-> 0]
  <1>0. 0 \in Nat /\ (\A k \in 1 .. 0 : FALSE) /\ (\A k \in 1 .. 0 + 1 : k = 1) /\ 1 \in 1 .. 0 + 1 /\ 0 + 1 = 1
    OBVIOUS
  <1>1. ms \in [1 .. 0 -> Messages] /\ p \in [1 .. 0 + 1 -> Nat] /\ \A k \in 1 .. 0 + 1 : p[k] = 0
    BY <1>0, Zenon
  <1> HIDE DEF ms, p
  <1>2. /\ spc = "idle" /\ rpc = "idle" /\ produced = 0 /\ consumed = 0 /\ producedBell = 0 /\ chan = <<>>
    BY Zenon DEF Init
  <1>3. Produced = 0 /\ Consumed = 0 /\ Handled = 0 /\ Minus(0, 0) = 0
    BY <1>2 DEF Produced, Consumed, Handled, Minus
  <1>4. Ordered(0, ms, p)
    <2>1. \A k \in 1 .. 0 + 1 : \A j \in 1 .. k : p[j] =< p[k]
      <3> TAKE k \in 1 .. 0 + 1
      <3> TAKE j \in 1 .. k
      <3>1. j \in 1 .. 0 + 1 /\ 0 =< 0  OBVIOUS
      <3> QED  BY <1>1, <3>1, Zenon
    <2> QED  BY <1>0, <2>1, Zenon DEF Ordered
  <1>5. Queued(0, ms) /\ Filled(0, ms, p)
    <2>1. chan \in Seq(Bodies) /\ Len(chan) = 0  BY <1>2
    <2> QED  BY <1>0, <2>1, Zenon DEF Queued, Filled
  <1>6. Ends(0, p) /\ Reading(0, ms, p)
    <2>1. Ends(0, p)  BY <1>0, <1>1, <1>2, <1>3, Zenon DEF Ends
    <2>2. Reading(0, ms, p)  BY <1>2, Zenon DEF Reading
    <2> QED  BY <2>1, <2>2, Zenon
  <1>7. Layout(0, ms, p)  BY <1>4, <1>5, <1>6, Zenon DEF Layout
  <1>8. Content  BY <1>0, <1>1, <1>7, Zenon DEF Content
  <1>9. Written  BY <1>2, Zenon DEF Written
  <1> QED  BY <1>8, <1>9, Zenon

LEMMA StutterContent ==
  ASSUME Content, Written, UNCHANGED vars
  PROVE  Content' /\ Written'
  <1>1. /\ Produced' = Produced /\ Consumed' = Consumed
        /\ UNCHANGED <<ring, writes, chan, producedBell, rpc, rb, body, spc, produced, msg>>
    BY Zenon DEF vars, sender, receiver, history, Produced, Consumed
  <1> QED  BY <1>1, ContentFrame, WrittenFrame, Zenon

LEMMA InductiveContent ==
  ASSUME IInv, IInv', NoOverwrite, Content, Written, [Next]_vars
  PROVE  Content' /\ Written'
  <1>1. ASSUME NEW m \in Messages, SendBegin(m) PROVE Content' /\ Written'
    BY <1>1, SendBeginContent, Zenon
  <1>2. CASE SendStep
    BY <1>2, AppendHeaderContent, AppendBodyContent, SkipPaddingContent, SendCommitContent, Zenon
    DEF SendStep
  <1>3. CASE ReceiveStep
    BY <1>3, ReceiveBeginContent, ReceiveHeaderContent, ReceiveHandlerContent, ReceiveCommitContent, Zenon
    DEF ReceiveStep
  <1>4. CASE Land
    BY <1>4, LandWriteContent, LandProducedContent, LandConsumedContent, Zenon DEF Land
  <1>5. CASE SenderSave \/ SenderRestore
    BY <1>5, SenderSaveContent, SenderRestoreContent, Zenon
  <1>6. CASE ReceiverSave \/ ReceiverRestore
    BY <1>6, ReceiverSaveContent, ReceiverRestoreContent, Zenon
  <1>7. CASE UNCHANGED vars  BY <1>7, StutterContent, Zenon
  <1> QED  BY <1>1, <1>2, <1>3, <1>4, <1>5, <1>6, <1>7, Zenon DEF Next

LEMMA ContentInvariant == Spec => [](IInv /\ NoOverwrite /\ Content /\ Written)
  <1>1. IInv /\ IInv' /\ NoOverwrite /\ Content /\ Written /\ [Next]_vars => Content' /\ Written'
    BY InductiveContent, Zenon
  <1> QED  BY <1>1, InitialContent, Invariant, UnreadBytesSafe, PTL DEF Spec

(* "Message received but incomplete" never happens: when Receive is called *)
(* back by a doorbell, the first message is in the ring, padding included, *)
(* whatever stores were late when its sender rang.                         *)
THEOREM NothingIncomplete == Spec => []MessageComplete
  <1>1. IInv /\ Content => MessageComplete
    <2> SUFFICES ASSUME IInv, Content, rpc = "header"
                 PROVE  LET n == ring[Address(rb, 0)].len
                        IN  Remaining(rb) >= Header + n + PaddingBytes(n)
      BY Zenon DEF MessageComplete
    <2>1. PICK n \in Nat : \E ms \in [1 .. n -> Messages] : \E p \in [1 .. n + 1 -> Nat] : Layout(n, ms, p)
      BY Zenon DEF Content
    <2>2. PICK ms \in [1 .. n -> Messages], p \in [1 .. n + 1 -> Nat] : Layout(n, ms, p)  BY <2>1, Zenon
    <2> QED  BY <2>2, HeaderRead, Zenon
  <1> QED  BY <1>1, ContentInvariant, PTL

(* The queue is a FIFO channel of message bodies, for every ring size,     *)
(* alignment, counter width and set of messages: the handler is given the  *)
(* bodies that were committed, byte for byte, once each and in that order, *)
(* although stores and doorbells land late and either end may restart.     *)
THEOREM ReceivedInOrder == Spec => InOrder
  <1>1. Init => Channel!Init  BY Zenon DEF Init, Channel!Init
  <1>2. IInv /\ Content /\ Written /\ [Next]_vars => [Channel!Next]_<<chan, out>>
    <2> SUFFICES ASSUME IInv, Content, Written, [Next]_vars, ~UNCHANGED <<chan, out>>
                 PROVE  Channel!Next
      BY Zenon
    <2>1. CASE SendCommit
      <3>1. chan' = Append(chan, Body(msg)) /\ out' = out /\ spc \in SendSteps
        BY <2>1, Zenon DEF SendCommit, SendSteps
      <3>2. msg \in Messages  BY <3>1, Zenon DEF IInv, TypeOK
      <3>3. Body(msg) \in Bodies  BY <3>2, LenOK, Zenon
      <3> QED  BY <3>1, <3>3, Zenon DEF Channel!Next, Channel!Accept
    <2>2. CASE ReceiveHandler
      <3>1. chan # <<>> /\ out' = Head(chan) /\ chan' = Tail(chan)  BY <2>2, ReceiveHandlerContent, Zenon
      <3> QED  BY <3>1, Zenon DEF Channel!Next, Channel!Deliver
    <2>3. CASE UNCHANGED vars  BY <2>3, Zenon DEF vars, history
    <2>4. ASSUME NEW m \in Messages, SendBegin(m)  PROVE FALSE  BY <2>4, Zenon DEF SendBegin, history
    <2>5. ~(AppendHeader \/ AppendBody \/ SkipPadding)
      BY Zenon DEF AppendHeader, AppendBody, SkipPadding, history
    <2>6. ~(ReceiveBegin \/ ReceiveHeader \/ ReceiveCommit)
      BY Zenon DEF ReceiveBegin, ReceiveHeader, ReceiveCommit, history
    <2>7. ~Land  BY Zenon DEF Land, LandWrite, LandProduced, LandConsumed, history
    <2>8. ~(SenderSave \/ SenderRestore \/ ReceiverSave \/ ReceiverRestore)
      BY Zenon DEF SenderSave, SenderRestore, ReceiverSave, ReceiverRestore, history
    <2> QED  BY <2>1, <2>2, <2>3, <2>4, <2>5, <2>6, <2>7, <2>8, Zenon DEF Next, SendStep, ReceiveStep
  <1> QED  BY <1>1, <1>2, ContentInvariant, PTL DEF Spec, InOrder, Channel!Spec
=============================================================================
