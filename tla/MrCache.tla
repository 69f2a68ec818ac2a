------------------------------ MODULE MrCache ------------------------------
(***************************************************************************)
(* The plugin's cache of registered memory regions (NcclShim::RegMrDmaBuf  *)
(* and DeregMr, tcpdirect_plugin/fastrak_offload/nccl_shim.cc): an array   *)
(* of slots sorted by address, one per NIC, shared by all the comms that   *)
(* use the NIC.  reg_mutex is held across the whole call, the round trip   *)
(* to RxDM included, so a call is one step.                                *)
(*                                                                         *)
(* Addresses are pages; a range is its first page and its length.  RxDM is *)
(* the importer of GpuMemImporter: it answers, or it fails the request and *)
(* drops the connection, and with it every buffer of the process.          *)
(***************************************************************************)
EXTENDS Naturals, FiniteSets, Sequences

CONSTANTS MaxPage,    \* the last page of GPU memory
          MaxHandles, \* bound: registrations RxDM hands out
          Holders,    \* bound: the places where NCCL keeps a memory handle
          MinCapacity, \* the slots of the first array
          None

Handles == [start : Nat, pages : Nat, handle : Nat]

ASSUME MrAssumption ==
  /\ MaxPage \in Nat /\ MaxHandles \in Nat /\ MinCapacity \in Nat \ {0}
  /\ IsFiniteSet(Holders) /\ None \notin Handles

VARIABLES slots,       \* mr_cache.slots, up to population
          capacity,    \* mr_cache.capacity
          lost,        \* mr_cache.slots is null although memory was asked for it
          held,        \* the MemoryHandle of a holder, with the range it asked for
          registered,  \* the handles of this process RxDM has registered: their ranges
          rxdmUp,      \* the connection to RxDM is open
          nextHandle   \* the next handle DXS gives out

mrVars == <<slots, capacity, lost, held, registered, rxdmUp, nextHandle>>

Ranges == {r \in [start : 1 .. MaxPage, pages : 1 .. MaxPage] : r.start + r.pages <= MaxPage + 1}

MrInit ==
  /\ slots = <<>> /\ capacity = 0 /\ lost = FALSE
  /\ held = [m \in Holders |-> None] /\ registered = {} /\ rxdmUp = TRUE /\ nextHandle = 1

CoversOneMore(s, r) ==                                       \* mutant
  r.start >= s.start /\ r.start - s.start + r.pages <= s.pages + 1

\* The slot covers the range.
Covers(s, r) == r.start >= s.start /\ r.start - s.start + r.pages <= s.pages

\* Where the scan of the slots stops: at the end, at the first slot that starts
\* behind the range, or at one that covers it.  (At the end the code has read
\* the address in slots[population], which is stale or outside the array; it
\* looks at the position first, so what it read decides nothing.)
ScanStop(r) ==
  CHOOSE k \in 1 .. Len(slots) + 1 :
    /\ k = Len(slots) + 1 \/ r.start < slots[k].start \/ Covers(slots[k], r)
    /\ \A j \in 1 .. k - 1 : ~(r.start < slots[j].start \/ Covers(slots[j], r))

Hit(r) ==
  LET k == ScanStop(r) IN k <= Len(slots) /\ r.start >= slots[k].start

\* The slots behind k move up to make room for s, or down over slot k.
InsertSlot(seq, k, s) == SubSeq(seq, 1, k - 1) \o <<s>> \o SubSeq(seq, k, Len(seq))
RemoveSlot(seq, k) == SubSeq(seq, 1, k - 1) \o SubSeq(seq, k + 1, Len(seq))

Handle(r, h) == [start |-> r.start, pages |-> r.pages, handle |-> h]
Hold(m, r, h) == held' = [held EXCEPT ![m] = Handle(r, h)]

\* A full array is grown before RegBuf is called.
Grown ==
  IF Len(slots) # capacity THEN capacity
  ELSE IF capacity < MinCapacity THEN MinCapacity ELSE 2 * capacity

\* RegMrDmaBuf of memory some slot covers: the slot's handle is shared.
RegMrHits(m, r) ==
  /\ ~lost /\ held[m] = None /\ Hit(r)
  /\ LET k == ScanStop(r) IN
     /\ slots' = [slots EXCEPT ![k].refs = @ + 1]
     /\ Hold(m, r, slots[k].handle)
  /\ UNCHANGED <<capacity, lost, registered, rxdmUp, nextHandle>>

\* RegMrDmaBuf of other memory: RegBuf, and a slot where the scan stopped.
RegMrMisses(m, r) ==
  /\ ~lost /\ held[m] = None /\ ~Hit(r) /\ rxdmUp /\ nextHandle <= MaxHandles
  /\ capacity' = Grown /\ lost' = lost
  /\ registered' = registered \union {Handle(r, nextHandle)}
  /\ slots' = InsertSlot(slots, ScanStop(r),
                [start |-> r.start, pages |-> r.pages, handle |-> nextHandle, refs |-> 1])
  /\ Hold(m, r, nextHandle)
  /\ nextHandle' = nextHandle + 1
  /\ rxdmUp' = rxdmUp

\* RegBuf fails: RxDM has closed the connection and taken every buffer of the
\* process back.  Neither the slots nor the handles NCCL holds change.
RegMrFails(r) ==
  /\ ~lost /\ ~Hit(r)
  /\ capacity' = Grown
  /\ rxdmUp' = FALSE /\ registered' = {}
  /\ UNCHANGED <<slots, lost, held, nextHandle>>

\* realloc fails: the call returns an error with slots null and population as it
\* was.  Whatever uses the cache next dereferences the null pointer.
GrowFails(r) ==
  /\ ~lost /\ ~Hit(r) /\ Len(slots) = capacity
  /\ capacity' = Grown
  /\ slots' = <<>> /\ lost' = TRUE
  /\ UNCHANGED <<held, registered, rxdmUp, nextHandle>>

\* RxDM deregisters the buffer h, or refuses and takes back all of them.
DeregBuf(h, ok) ==
  /\ rxdmUp' = (rxdmUp /\ ok)
  /\ registered' = IF ok THEN {x \in registered : x.handle # h} ELSE {}

DeregMrDropsReference(m, ok) ==                              \* mutant
  /\ ~lost /\ held[m] # None
  /\ held' = [held EXCEPT ![m] = None]
  /\ \E i \in 1 .. Len(slots) :
       /\ slots[i].handle = held[m].handle
       /\ slots' = RemoveSlot(slots, i) /\ DeregBuf(held[m].handle, ok)
  /\ UNCHANGED <<capacity, lost, nextHandle>>

\* DeregMr: the last reference removes the slot, and the last slot the array,
\* whether or not RxDM then deregisters the buffer.
DeregMr(m, ok) ==
  /\ ~lost /\ held[m] # None
  /\ held' = [held EXCEPT ![m] = None]
  /\ \E i \in 1 .. Len(slots) :
       /\ slots[i].handle = held[m].handle
       /\ \/ /\ slots[i].refs > 1
             /\ slots' = [slots EXCEPT ![i].refs = @ - 1]
             /\ UNCHANGED <<capacity, registered, rxdmUp>>
          \/ /\ slots[i].refs <= 1
             /\ slots' = RemoveSlot(slots, i) /\ DeregBuf(held[m].handle, ok)
             /\ capacity' = IF Len(slots) = 1 THEN 0 ELSE capacity
  /\ UNCHANGED <<lost, nextHandle>>

MrNext ==
  \/ \E r \in Ranges : \E m \in Holders : RegMrHits(m, r) \/ RegMrMisses(m, r)
  \/ \E r \in Ranges : RegMrFails(r) \/ GrowFails(r)
  \/ \E m \in Holders, ok \in BOOLEAN : DeregMr(m, ok)

-----------------------------------------------------------------------------
\* Until a request to RxDM fails, every handle NCCL holds is registered and its
\* registration covers the memory NCCL asked for, however handles of the same
\* memory were shared and given back.
MrUsable ==
  rxdmUp => \A m \in Holders : held[m] # None =>
              \E x \in registered :
                /\ x.handle = held[m].handle
                /\ x.start <= held[m].start
                /\ held[m].start + held[m].pages <= x.start + x.pages

\* The holders of handle h, of the holders' handles f.
HoldersOf(f, h) == {m \in Holders : f[m] # None /\ f[m].handle = h}

\* Unless the array was lost when it was to grow, the cache accounts for every
\* handle: a slot counts exactly the handles NCCL holds on it, no handle is
\* without a slot (DeregMr always finds it), RxDM has exactly the slots' buffers
\* registered, and the slots fit the array.
MrAccounted ==
  ~lost =>
  /\ \A i \in 1 .. Len(slots) : slots[i].refs = Cardinality(HoldersOf(held, slots[i].handle))
  /\ \A m \in Holders : held[m] # None =>
       \E i \in 1 .. Len(slots) : slots[i].handle = held[m].handle
  /\ rxdmUp => {x.handle : x \in registered} = {slots[i].handle : i \in 1 .. Len(slots)}
  /\ Len(slots) <= capacity
=============================================================================
