------------------------------ MODULE DmaPool ------------------------------
(***************************************************************************)
(* The pool of streaming DMA segments (platform/dma-pool/src/lib.rs) and   *)
(* the ownership transfers of StreamingDma it is built on                  *)
(* (hardware-api/src/lib.rs).                                              *)
(*                                                                         *)
(* A segment is divided into Parts; cpu[s] are the parts the CPU owns: it  *)
(* synchronised them for reading, or wrote them and has not handed them    *)
(* over.  Which free segment is handed out is left open (the code pops the *)
(* last), and so is where a page lies.                                     *)
(***************************************************************************)
EXTENDS Naturals, FiniteSets

CONSTANTS
    Segments,        \* segments of all pages that may be allocated
    Parts,           \* parts of a segment, 1..n
    PerPage,         \* page_size / segment_size
    high_watermark,
    MaxGen           \* bound on device resets

ASSUME PoolConstants ==
    /\ PerPage \in Nat \ {0} /\ high_watermark \in Nat /\ MaxGen \in Nat
    /\ IsFiniteSet(Segments) /\ Parts \subseteq Nat

VARIABLES
    free,        \* Inner.free
    lent,        \* segments inside a DmaSegment
    gone,        \* dropped for good
    reusable,    \* DmaSegment.reusable
    cpu,         \* parts owned by the CPU
    issued,      \* generation of the segment's mapping
    generation,  \* of the device
    alive        \* the pool itself is not dropped

vars == <<free, lent, gone, reusable, cpu, issued, generation, alive>>

Init ==
    /\ free = {} /\ lent = {} /\ gone = {}
    /\ reusable = [s \in Segments |-> TRUE]
    /\ cpu = [s \in Segments |-> {}]
    /\ issued = [s \in Segments |-> 0]
    /\ generation = 1 /\ alive = TRUE

Unused == Segments \ (free \cup lent \cup gone)
Prefix(n) == {p \in Parts : p <= n}

(* The current() check of every StreamingDma operation. *)
Current(s) == issued[s] = generation
-----------------------------------------------------------------------------
(* DmaPool::allocate with something free. *)
AllocateFree(s) ==
    /\ alive /\ s \in free
    /\ free' = free \ {s} /\ lent' = lent \cup {s}
    /\ reusable' = [reusable EXCEPT ![s] = TRUE]
    /\ UNCHANGED <<gone, cpu, issued, generation, alive>>

(* refill: a page is split; the segments before the last are kept up to    *)
(* the watermark, the rest dropped.                                        *)
Kept(page, s, kept) ==
    /\ kept \subseteq page \ {s}
    /\ Cardinality(kept) <= high_watermark
    /\ kept # page \ {s} => Cardinality(kept) = high_watermark

AllocateRefill_Overwriting(page, s, kept) ==
    /\ alive
    /\ page \subseteq Unused /\ Cardinality(page) = PerPage /\ s \in page
    /\ kept \subseteq page \ {s}
    /\ Kept(page, s, kept)
    /\ free' = kept /\ lent' = lent \cup {s}
    /\ gone' = gone \cup (page \ (kept \cup {s}))
    /\ reusable' = [reusable EXCEPT ![s] = TRUE]
    /\ issued' = [x \in Segments |-> IF x \in page THEN generation ELSE issued[x]]
    /\ UNCHANGED <<cpu, generation, alive>>

AllocateRefill(page, s, kept) ==
    /\ alive /\ free = {}
    /\ page \subseteq Unused /\ Cardinality(page) = PerPage /\ s \in page
    /\ kept \subseteq page \ {s}
    /\ Kept(page, s, kept)
    /\ free' = kept /\ lent' = lent \cup {s}
    /\ gone' = gone \cup (page \ (kept \cup {s}))
    /\ reusable' = [reusable EXCEPT ![s] = TRUE]
    /\ issued' = [x \in Segments |-> IF x \in page THEN generation ELSE issued[x]]
    /\ UNCHANGED <<cpu, generation, alive>>
-----------------------------------------------------------------------------
(* What the StreamingDma operations do to the CPU's parts. *)
Acquired(s, n) == [cpu EXCEPT ![s] = @ \cup Prefix(n)]
Dirtied(s, n) == [cpu EXCEPT ![s] = @ \cup Prefix(n)]
HandedOver(s, n) == [cpu EXCEPT ![s] = @ \ Prefix(n)]
Prepared(s) == [cpu EXCEPT ![s] = {}]

(* DmaSegment::write: the shadow is changed and not yet handed over. *)
Write(s, n) ==
    /\ s \in lent /\ Current(s)
    /\ cpu' = Dirtied(s, n)
    /\ reusable' = [reusable EXCEPT ![s] = FALSE]
    /\ UNCHANGED <<free, lent, gone, issued, generation, alive>>

(* DmaSegment::sync_for_device.  Every caller hands over at least what it  *)
(* wrote.  When the cache operation fails nothing changes.                 *)
SyncForDevice(s, n) ==
    /\ s \in lent /\ Current(s) /\ cpu[s] \subseteq Prefix(n)
    /\ cpu' = HandedOver(s, n)
    /\ reusable' = [reusable EXCEPT ![s] = TRUE]
    /\ UNCHANGED <<free, lent, gone, issued, generation, alive>>

(* DmaSegment::sync_for_cpu: acquire_for_cpu, then refresh_for_cpu. *)
SyncForCpu_Early(s, n) ==
    /\ s \in lent /\ Current(s)
    /\ cpu' = Acquired(s, n)
    /\ UNCHANGED <<reusable, free, lent, gone, issued, generation, alive>>

SyncForCpu(s, n) ==
    /\ s \in lent /\ Current(s)
    /\ cpu' = Acquired(s, n)
    /\ reusable' = [reusable EXCEPT ![s] = FALSE]
    /\ UNCHANGED <<free, lent, gone, issued, generation, alive>>

(* DmaSegment::prepare_for_device, always the whole segment.  When it      *)
(* fails, reusable keeps its value.                                        *)
PrepareForDevice(s) ==
    /\ s \in lent /\ Current(s)
    /\ cpu' = Prepared(s)
    /\ reusable' = [reusable EXCEPT ![s] = TRUE]
    /\ UNCHANGED <<free, lent, gone, issued, generation, alive>>

(* DmaSegment::drop. *)
Returnable(s) ==
    reusable[s] /\ alive /\ Cardinality(free) < high_watermark

DropSegment(s) ==
    /\ s \in lent
    /\ lent' = lent \ {s}
    /\ IF Returnable(s)
       THEN free' = free \cup {s} /\ gone' = gone
       ELSE free' = free /\ gone' = gone \cup {s}
    /\ UNCHANGED <<reusable, cpu, issued, generation, alive>>

(* The pool is dropped while segments are still lent. *)
DropPool ==
    /\ alive
    /\ alive' = FALSE
    /\ free' = {} /\ gone' = gone \cup free
    /\ UNCHANGED <<lent, reusable, cpu, issued, generation>>

(* Device::reset: every mapping becomes stale; the pool is not told. *)
ResetDevice ==
    /\ generation < MaxGen
    /\ generation' = generation + 1
    /\ UNCHANGED <<free, lent, gone, reusable, cpu, issued, alive>>

Next ==
    \/ \E s \in Segments :
          \/ AllocateFree(s) \/ PrepareForDevice(s) \/ DropSegment(s)
          \/ \E n \in Parts : Write(s, n) \/ SyncForDevice(s, n) \/ SyncForCpu(s, n)
          \/ \E page, kept \in SUBSET Segments : AllocateRefill(page, s, kept)
    \/ DropPool
    \/ ResetDevice

Spec == Init /\ [][Next]_vars
-----------------------------------------------------------------------------
(* Types; a segment is in one place. *)
TypeOK ==
    /\ free \subseteq Segments /\ lent \subseteq Segments /\ gone \subseteq Segments
    /\ free \cap lent = {} /\ gone \cap (free \cup lent) = {}
    /\ reusable \in [Segments -> BOOLEAN]
    /\ cpu \in [Segments -> SUBSET Parts]
    /\ issued \in [Segments -> Nat] /\ generation \in Nat
    /\ alive \in BOOLEAN

(* A segment waiting in the free list belongs to the device in full:       *)
(* whatever was read or written by its last owner was handed back before   *)
(* DmaSegment::drop kept it, so the next owner may post it to a ring.      *)
FreeIsDeviceOwned == \A s \in free : cpu[s] = {}

(* The flag DmaSegment::drop looks at is right: a lent segment marked      *)
(* reusable has nothing the CPU owns.  With it FreeIsDeviceOwned is        *)
(* inductive.                                                              *)
ReusableIsClean ==
    \A s \in Segments : (s \in lent /\ reusable[s]) \/ s \in Unused => cpu[s] = {}

(* The free list never exceeds the watermark, refilled or returned to. *)
FreeBounded == Cardinality(free) <= high_watermark

(* A segment is in one place, a free one is the device's in full, and the  *)
(* pool holds no more than its watermark (DmaPool::allocate, drop).        *)
PoolSafe == TypeOK /\ FreeIsDeviceOwned /\ ReusableIsClean /\ FreeBounded

(* The pool keeps the promise of SegmentOwnership. *)
Touched == {s \in Segments : cpu[s] # {}}
Ownership == INSTANCE SegmentOwnership WITH
    idle <- free, retired <- gone, touched <- Touched
ImplementsOwnership == Ownership!Spec
=============================================================================
