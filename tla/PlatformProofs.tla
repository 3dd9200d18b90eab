--------------------------- MODULE PlatformProofs ---------------------------
(***************************************************************************)
(* The DMA pool keeps only segments the device owns, and so implements     *)
(* SegmentOwnership, for any number of segments, parts and resets; the PCI *)
(* configuration owner reports what the Command register holds; and a VFIO *)
(* session forgets nothing the device can reach or interrupt with.         *)
(***************************************************************************)
EXTENDS DmaPool, PciControl, HardwareSession, FiniteSetTheorems, TLAPS

USE PoolConstants DEF Acquired, Dirtied, HandedOver, Prepared

PoolInv == TypeOK /\ FreeIsDeviceOwned /\ ReusableIsClean

(* The invariant holds of a new pool (DmaPool::new). *)
LEMMA PoolInit == Init => PoolInv
  BY DEF Init, PoolInv, TypeOK, FreeIsDeviceOwned, ReusableIsClean, Unused

(* Every operation of the pool and of its segments keeps it: a segment     *)
(* enters the free list only from a fresh page or with its flag set, and   *)
(* the flag is set only when the CPU owns nothing of the segment.          *)
LEMMA PoolStep == PoolInv /\ [Next]_vars => PoolInv'
<1> SUFFICES ASSUME PoolInv, [Next]_vars PROVE PoolInv'
  OBVIOUS
<1> USE DEF PoolInv
<1>1. ASSUME NEW s \in Segments, AllocateFree(s) PROVE PoolInv'
  <2>1. TypeOK'
    BY <1>1 DEF AllocateFree, TypeOK
  <2>2. FreeIsDeviceOwned' /\ ReusableIsClean'
    BY <1>1 DEF AllocateFree, TypeOK, FreeIsDeviceOwned, ReusableIsClean, Unused
  <2> QED BY <2>1, <2>2
<1>2. ASSUME NEW s \in Segments, NEW page \in SUBSET Segments,
             NEW kept \in SUBSET Segments, AllocateRefill(page, s, kept)
      PROVE PoolInv'
  <2>1. TypeOK'
    BY <1>2 DEF AllocateRefill, TypeOK, Unused
  <2>2. FreeIsDeviceOwned'
    BY <1>2 DEF AllocateRefill, FreeIsDeviceOwned, ReusableIsClean, Unused
  <2>3. ReusableIsClean'
    BY <1>2 DEF AllocateRefill, TypeOK, ReusableIsClean, Unused
  <2> QED BY <2>1, <2>2, <2>3
<1>3. ASSUME NEW s \in Segments, NEW n \in Parts,
             Write(s, n) \/ SyncForCpu(s, n)
      PROVE PoolInv'
  <2>1. TypeOK'
    BY <1>3, Zenon DEF Write, SyncForCpu, TypeOK, Prefix
  <2>2. FreeIsDeviceOwned'
    BY <1>3 DEF Write, SyncForCpu, TypeOK, FreeIsDeviceOwned
  <2>3. ReusableIsClean'
    BY <1>3 DEF Write, SyncForCpu, TypeOK, ReusableIsClean, Unused
  <2> QED BY <2>1, <2>2, <2>3
<1>4. ASSUME NEW s \in Segments, NEW n \in Parts, SyncForDevice(s, n)
      PROVE PoolInv'
  <2>1. TypeOK'
    BY <1>4 DEF SyncForDevice, TypeOK
  <2>2. FreeIsDeviceOwned'
    BY <1>4 DEF SyncForDevice, TypeOK, FreeIsDeviceOwned
  <2>3. ReusableIsClean'
    BY <1>4 DEF SyncForDevice, TypeOK, ReusableIsClean, Unused
  <2> QED BY <2>1, <2>2, <2>3
<1>5. ASSUME NEW s \in Segments, PrepareForDevice(s) PROVE PoolInv'
  <2>1. TypeOK'
    BY <1>5 DEF PrepareForDevice, TypeOK
  <2>2. FreeIsDeviceOwned' /\ ReusableIsClean'
    BY <1>5 DEF PrepareForDevice, TypeOK, FreeIsDeviceOwned, ReusableIsClean, Unused
  <2> QED BY <2>1, <2>2
<1>6. ASSUME NEW s \in Segments, DropSegment(s) PROVE PoolInv'
  <2>1. TypeOK'
    BY <1>6 DEF DropSegment, TypeOK
  <2>2. FreeIsDeviceOwned'
    BY <1>6 DEF DropSegment, Returnable, TypeOK, FreeIsDeviceOwned, ReusableIsClean
  <2>3. ReusableIsClean'
    BY <1>6 DEF DropSegment, TypeOK, ReusableIsClean, Unused
  <2> QED BY <2>1, <2>2, <2>3
<1>7. CASE DropPool
  <2>1. TypeOK'
    BY <1>7, Zenon DEF DropPool, TypeOK
  <2>2. FreeIsDeviceOwned' /\ ReusableIsClean'
    BY <1>7 DEF DropPool, TypeOK, FreeIsDeviceOwned, ReusableIsClean, Unused
  <2> QED BY <2>1, <2>2
<1>8. CASE ResetDevice
  BY <1>8 DEF ResetDevice, TypeOK, FreeIsDeviceOwned, ReusableIsClean, Unused
<1>9. CASE UNCHANGED vars
  BY <1>9 DEF vars, TypeOK, FreeIsDeviceOwned, ReusableIsClean, Unused
<1> QED
  BY <1>1, <1>2, <1>3, <1>4, <1>5, <1>6, <1>7, <1>8, <1>9 DEF Next

(* In every state the free list holds only segments that belong to the     *)
(* device in full, and the flag DmaSegment::drop relies on is right.       *)
THEOREM FreeSegmentsAreDeviceOwned == Spec => []FreeIsDeviceOwned
<1>1. PoolInv => FreeIsDeviceOwned
  BY DEF PoolInv
<1> QED BY PoolInit, PoolStep, <1>1, PTL DEF Spec

(* The invariant itself, for the refinement. *)
LEMMA PoolInvariant == Spec => []PoolInv
  BY PoolInit, PoolStep, PTL DEF Spec

(* Neither a refill, which keeps at most the watermark of a page in an     *)
(* empty list, nor a drop, which returns a segment only below it, exceeds  *)
(* the watermark.                                                          *)
LEMMA BoundStep ==
    ASSUME TypeOK, FreeBounded, [Next]_vars
    PROVE  FreeBounded'
<1> USE DEF FreeBounded
<1>1. IsFiniteSet(free)
  BY FS_Subset DEF TypeOK
<1>2. Cardinality(free) \in Nat
  BY <1>1, FS_CardinalityType
<1>3. CASE \E s \in Segments : AllocateFree(s)
  <2>1. PICK s \in Segments : s \in free /\ free' = free \ {s}
    BY <1>3 DEF AllocateFree
  <2>2. Cardinality(free \ {s}) = Cardinality(free) - 1
    BY <1>1, <2>1, FS_RemoveElement, Zenon
  <2> QED BY <1>2, <2>1, <2>2
<1>4. CASE \E s \in Segments : DropSegment(s)
  <2>1. PICK s \in Segments : DropSegment(s)
    BY <1>4
  <2>2. CASE Returnable(s)
    <3>1. free' = free \cup {s} /\ Cardinality(free) < high_watermark
      BY <2>1, <2>2 DEF DropSegment, Returnable
    <3>2. Cardinality(free \cup {s}) =
             IF s \in free THEN Cardinality(free) ELSE Cardinality(free) + 1
      BY <1>1, FS_AddElement, Zenon
    <3> QED BY <1>2, <3>1, <3>2
  <2>3. CASE ~Returnable(s)
    BY <2>1, <2>3 DEF DropSegment
  <2> QED BY <2>2, <2>3
<1>5. CASE \E s \in Segments, page, kept \in SUBSET Segments :
              AllocateRefill(page, s, kept)
  BY <1>5 DEF AllocateRefill, Kept
<1>6. CASE DropPool
  BY <1>6, FS_EmptySet DEF DropPool
<1>7. CASE \/ \E s \in Segments :
                \/ PrepareForDevice(s)
                \/ \E n \in Parts : Write(s, n) \/ SyncForDevice(s, n) \/ SyncForCpu(s, n)
           \/ ResetDevice \/ UNCHANGED vars
  <2>1. free' = free
    BY <1>7 DEF PrepareForDevice, Write, SyncForDevice, SyncForCpu, ResetDevice, vars
  <2> QED BY <2>1
<1> QED
  BY <1>3, <1>4, <1>5, <1>6, <1>7 DEF Next

(* The pool is safe: its free list holds device-owned segments only, none  *)
(* of them elsewhere, and no more than the watermark.                      *)
THEOREM PoolIsSafe == Spec => []PoolSafe
<1>1. Init => FreeBounded
  BY FS_EmptySet DEF Init, FreeBounded
<1>2. PoolInv => TypeOK
  BY DEF PoolInv
<1>3. PoolInv /\ FreeBounded => PoolSafe
  BY DEF PoolInv, PoolSafe
<1> QED
  BY <1>1, <1>2, <1>3, BoundStep, PoolInvariant, PTL DEF Spec

(* A new pool is an initial state of SegmentOwnership. *)
LEMMA OwnershipInit == Init => Ownership!Init
  BY DEF Init, Ownership!Init, Touched

(* Every operation of the pool is a step of SegmentOwnership, or changes   *)
(* nothing it can see.                                                     *)
LEMMA OwnershipStep ==
    PoolInv /\ PoolInv' /\ [Next]_vars => [Ownership!Next]_(Ownership!svars)
<1> SUFFICES ASSUME PoolInv, PoolInv', [Next]_vars
             PROVE Ownership!Next \/ UNCHANGED Ownership!svars
  OBVIOUS
<1> USE DEF PoolInv
<1>1. ASSUME NEW s \in Segments, AllocateFree(s) PROVE Ownership!Next
  <2>1. Ownership!Lend(s)
    BY <1>1 DEF AllocateFree, Ownership!Lend, Touched
  <2> QED BY <2>1 DEF Ownership!Next
<1>2. ASSUME NEW s \in Segments, NEW page \in SUBSET Segments,
             NEW kept \in SUBSET Segments, AllocateRefill(page, s, kept)
      PROVE Ownership!Next
  <2> DEFINE rest == page \ (kept \cup {s})
  <2>1. s \in Ownership!Unused /\ kept \in SUBSET (Ownership!Unused \ {s})
                               /\ rest \in SUBSET (Ownership!Unused \ {s})
    BY <1>2 DEF AllocateRefill, Unused, Ownership!Unused
  <2>2. kept \cap rest = {}
    BY <1>2 DEF AllocateRefill
  <2>3. lent' = lent \cup {s} /\ free' = free \cup kept /\ gone' = gone \cup rest
        /\ Touched' = Touched
    BY <1>2 DEF AllocateRefill, Touched
  <2>4. \E k, r \in SUBSET (Ownership!Unused \ {s}) :
           k \cap r = {} /\ free' = free \cup k /\ gone' = gone \cup r
    BY <2>1, <2>2, <2>3, Zenon
  <2> HIDE DEF rest
  <2>5. Ownership!Mint
    BY <2>1, <2>3, <2>4, Zenon DEF Ownership!Mint
  <2> QED BY <2>5 DEF Ownership!Next
<1>3. ASSUME NEW s \in Segments, s \in lent,
             UNCHANGED <<free, lent, gone>>,
             \A x \in Segments \ {s} : cpu'[x] = cpu[x]
      PROVE Ownership!Next \/ UNCHANGED Ownership!svars
  <2>1. CASE cpu'[s] = {}
    <3>1. Touched' = Touched \ {s}
      BY <1>3, <2>1 DEF Touched
    <3>2. Ownership!HandOver(s)
      BY <1>3, <3>1 DEF Ownership!HandOver
    <3> QED BY <3>2 DEF Ownership!Next
  <2>2. CASE cpu'[s] # {}
    <3>1. Touched' = Touched \cup {s}
      BY <1>3, <2>2 DEF Touched
    <3>2. Ownership!Touch(s)
      BY <1>3, <3>1 DEF Ownership!Touch
    <3> QED BY <3>2 DEF Ownership!Next
  <2> QED BY <2>1, <2>2
<1>4. ASSUME NEW s \in Segments, NEW n \in Parts,
             Write(s, n) \/ SyncForCpu(s, n) \/ SyncForDevice(s, n)
      PROVE Ownership!Next \/ UNCHANGED Ownership!svars
  <2>1. s \in lent /\ UNCHANGED <<free, lent, gone>>
        /\ \A x \in Segments \ {s} : cpu'[x] = cpu[x]
    BY <1>4 DEF Write, SyncForCpu, SyncForDevice, TypeOK
  <2> QED BY <2>1, <1>3
<1>5. ASSUME NEW s \in Segments, PrepareForDevice(s)
      PROVE Ownership!Next \/ UNCHANGED Ownership!svars
  <2>1. s \in lent /\ UNCHANGED <<free, lent, gone>>
        /\ \A x \in Segments \ {s} : cpu'[x] = cpu[x]
    BY <1>5 DEF PrepareForDevice, TypeOK
  <2> QED BY <2>1, <1>3
<1>6. ASSUME NEW s \in Segments, DropSegment(s) PROVE Ownership!Next
  <2>1. CASE Returnable(s)
    <3>1. cpu[s] = {}
      BY <1>6, <2>1 DEF DropSegment, Returnable, ReusableIsClean
    <3>2. Ownership!Return(s)
      BY <1>6, <2>1, <3>1 DEF DropSegment, Ownership!Return, Touched
    <3> QED BY <3>2 DEF Ownership!Next
  <2>2. CASE ~Returnable(s)
    <3>1. Ownership!Retire(s)
      BY <1>6, <2>2 DEF DropSegment, Ownership!Retire, Touched
    <3> QED BY <3>1 DEF Ownership!Next
  <2> QED BY <2>1, <2>2
<1>7. CASE DropPool
  <2>1. Ownership!GiveUp
    BY <1>7 DEF DropPool, Ownership!GiveUp, Touched
  <2> QED BY <2>1 DEF Ownership!Next
<1>8. CASE ResetDevice
  BY <1>8 DEF ResetDevice, Ownership!svars, Touched
<1>9. CASE UNCHANGED vars
  BY <1>9 DEF vars, Ownership!svars, Touched
<1> QED
  BY <1>1, <1>2, <1>4, <1>5, <1>6, <1>7, <1>8, <1>9 DEF Next

(* The pool implements SegmentOwnership: for every pool size, watermark,   *)
(* interleaving of drops, transfers, refills and device resets.            *)
THEOREM PoolImplementsOwnership == Spec => ImplementsOwnership
  BY PoolInvariant, OwnershipInit, OwnershipStep, PTL
     DEF Spec, ImplementsOwnership, Ownership!Spec
-----------------------------------------------------------------------------
(* The operations of the configuration owner.                              *)
Updates == {"disable_intx", "enable", "disable"}

Flag == BOOLEAN

Calls ==
    [op : Updates \cup {"none", "bind", "expose", "verify"}, bit : Bits, on : Flag,
     rollback : Flag, at : Commands, saved : Commands, result : Results]

(* The arguments each operation passes to update_command. *)
Arguments(c) ==
    /\ c.op \in Updates
    /\ c.op = "disable_intx" => c.bit = "intx_disable" /\ c.on /\ c.rollback
    /\ c.op = "enable" => /\ c.bit = "master" /\ c.on /\ c.rollback
                          /\ "memory" \in c.at /\ "master" \notin c.at
    /\ c.op = "disable" => c.bit = "master" /\ ~c.on /\ ~c.rollback

(* While update_command runs, what it saved is what the register held when *)
(* it began, and it restores only where it was asked to roll back.         *)
ConfigInv ==
    /\ ConfigHonest /\ call \in Calls
    /\ pc # "idle" => Arguments(call)
    /\ pc = "read" => command = call.at
    /\ pc \notin {"idle", "read"} => call.saved = call.at
    /\ pc \in {"restore", "verify"} => call.rollback

(* A call that is over as soon as it is made. *)
LEMMA FinishedCall ==
    ASSUME command \in Commands, NEW op \in {"none", "bind", "expose", "verify", "enable"},
           NEW r \in Results
    PROVE  /\ Finished(op, r) \in Calls /\ Finished(op, r).op = op
           /\ Finished(op, r).result = r /\ Finished(op, r).at = command
<1> DEFINE b == FALSE
<1>1. b \in Flag /\ {} \in Commands /\ "master" \in Bits
  BY DEF Flag, Commands, Bits
<1>2. Finished(op, r) = [[op |-> op, bit |-> "master", on |-> b, rollback |-> b, at |-> command,
                          saved |-> {}, result |-> "running"] EXCEPT !.result = r]
  BY Zenon DEF Finished, Call
<1> HIDE DEF b
<1> QED
  BY <1>1, <1>2 DEF Calls, Updates

(* Every call begins with what the register holds. *)
LEMMA StartedCall ==
    ASSUME command \in Commands, NEW op \in Updates, NEW bit \in Bits, NEW on \in Flag,
           NEW rollback \in Flag, NEW c, c = Call(op, bit, on, rollback)
    PROVE  /\ c \in Calls /\ c.op = op /\ c.bit = bit /\ c.on = on /\ c.rollback = rollback
           /\ c.at = command /\ c.result = "running"
<1>1. {} \in Commands /\ "running" \in Results
  BY DEF Commands, Results
<1> QED
  BY <1>1 DEF Calls, Call

(* What update_command changes of its call: its result ... *)
LEMMA ReturnedCall ==
    ASSUME NEW c \in Calls, NEW r \in Results, NEW d, d = [c EXCEPT !.result = r]
    PROVE  /\ d \in Calls /\ d.result = r
           /\ d.op = c.op /\ d.bit = c.bit /\ d.on = c.on /\ d.rollback = c.rollback
           /\ d.at = c.at
BY DEF Calls

(* ... and what it saved. *)
LEMMA SavedCall ==
    ASSUME NEW c \in Calls, NEW s \in Commands, NEW d, d = [c EXCEPT !.saved = s]
    PROVE  /\ d \in Calls /\ d.saved = s /\ d.result = c.result
           /\ d.op = c.op /\ d.bit = c.bit /\ d.on = c.on /\ d.rollback = c.rollback
           /\ d.at = c.at
BY DEF Calls

(* Binding, exposing and the operations that return at once. *)
LEMMA ActivationStep ==
    ASSUME ConfigInv, Bind \/ Expose \/ VerifyEnabled
    PROVE  ConfigInv'
<1> USE DEF ConfigInv, ConfigHonest, ConfigTypeOK
<1>1. pc = "idle" /\ pc' = "idle"
  BY DEF Bind, Expose, VerifyEnabled
<1>2. /\ command' \in Commands /\ power' \in {"D0", "D3"}
      /\ phase' \in {"closed", "bound", "open", "failed"}
  BY DEF Bind, Expose, VerifyEnabled, Commands, Bits
<1>3. PICK op \in {"bind", "expose", "verify"}, r \in Results \ {"running"} :
         /\ call' = Finished(op, r)
         /\ op = "bind" /\ r = "ok" => "master" \notin command
         /\ op = "expose" /\ r = "ok" =>
               "master" \notin command' /\ "memory" \in command' /\ power' = "D0"
  BY DEF Bind, Expose, VerifyEnabled, BusMasterDisabled, DmaDisabled, Results
<1>4. /\ call' \in Calls /\ call'.op = op /\ call'.result = r /\ call'.at = command
  BY <1>3, FinishedCall
<1>5. ConfigTypeOK'
  BY <1>1, <1>2, <1>3, <1>4 DEF Calls
<1>6. ActivatedWithDmaOff' /\ ReportsCommand'
  BY <1>3, <1>4 DEF ActivatedWithDmaOff, ReportsCommand
<1> QED
  BY <1>1, <1>4, <1>5, <1>6

(* The operations that go through update_command. *)
LEMMA OperationStep ==
    ASSUME ConfigInv, DisableIntx \/ EnableBusMaster \/ DisableBusMaster
    PROVE  ConfigInv'
<1> USE DEF ConfigInv, ConfigHonest, ConfigTypeOK
<1>1. CASE call' = Finished("enable", "unsafe") /\ UNCHANGED <<command, power, phase, pc>>
           /\ pc = "idle"
  <2>1. /\ call' \in Calls /\ call'.op = "enable" /\ call'.result = "unsafe"
    BY <1>1, FinishedCall DEF Results
  <2>2. ConfigTypeOK'
    BY <1>1, <2>1 DEF Calls, Results
  <2>3. ActivatedWithDmaOff' /\ ReportsCommand'
    BY <2>1 DEF ActivatedWithDmaOff, ReportsCommand
  <2> QED
    BY <1>1, <2>1, <2>2, <2>3
<1>2. CASE ~(call' = Finished("enable", "unsafe") /\ UNCHANGED <<command, power, phase, pc>>
             /\ pc = "idle")
  <2>1. /\ phase = "open" /\ pc' = "read" /\ UNCHANGED <<command, power, phase>>
        /\ \/ call' = Call("disable_intx", "intx_disable", TRUE, TRUE)
           \/ call' = Call("enable", "master", TRUE, TRUE) /\ DmaDisabled
           \/ call' = Call("disable", "master", FALSE, FALSE)
    BY <1>2 DEF DisableIntx, EnableBusMaster, DisableBusMaster, Start
  <2>2. /\ call' \in Calls /\ Arguments(call') /\ call'.at = command /\ call'.result = "running"
    <3> DEFINE yes == TRUE
               no == FALSE
    <3>0. yes /\ ~no
      OBVIOUS
    <3>1. yes \in Flag /\ no \in Flag /\ command \in Commands
          /\ "disable_intx" \in Updates /\ "enable" \in Updates /\ "disable" \in Updates
          /\ "intx_disable" \in Bits /\ "master" \in Bits
      BY DEF Flag, Updates, Bits
    <3>2. \/ call' = Call("disable_intx", "intx_disable", yes, yes)
          \/ call' = Call("enable", "master", yes, yes) /\ DmaDisabled
          \/ call' = Call("disable", "master", no, no)
      BY <2>1
    <3> HIDE DEF yes, no
    <3>3. CASE call' = Call("disable_intx", "intx_disable", yes, yes)
      <4>1. /\ call' \in Calls /\ call'.op = "disable_intx" /\ call'.bit = "intx_disable"
            /\ call'.on = yes /\ call'.rollback = yes
            /\ call'.at = command /\ call'.result = "running"
        <5>1. call' = Call("disable_intx", "intx_disable", yes, yes)
          BY <3>3
        <5> QED
          BY <3>1, <5>1, StartedCall
      <4> QED
        BY <3>0, <3>1, <4>1 DEF Arguments
    <3>4. CASE call' = Call("enable", "master", yes, yes) /\ DmaDisabled
      <4>1. /\ call' \in Calls /\ call'.op = "enable" /\ call'.bit = "master"
            /\ call'.on = yes /\ call'.rollback = yes
            /\ call'.at = command /\ call'.result = "running"
        <5>1. call' = Call("enable", "master", yes, yes)
          BY <3>4
        <5> QED
          BY <3>1, <5>1, StartedCall
      <4> QED
        BY <3>0, <3>1, <3>4, <4>1 DEF Arguments, DmaDisabled
    <3>5. CASE call' = Call("disable", "master", no, no)
      <4>1. /\ call' \in Calls /\ call'.op = "disable" /\ call'.bit = "master"
            /\ call'.on = no /\ call'.rollback = no
            /\ call'.at = command /\ call'.result = "running"
        <5>1. call' = Call("disable", "master", no, no)
          BY <3>5
        <5> QED
          BY <3>1, <5>1, StartedCall
      <4> QED
        BY <3>0, <3>1, <4>1 DEF Arguments
    <3> QED
      BY <3>2, <3>3, <3>4, <3>5
  <2>3. ConfigTypeOK'
    BY <2>1, <2>2 DEF Calls
  <2>4. ActivatedWithDmaOff' /\ ReportsCommand'
    BY <2>1, <2>2 DEF ActivatedWithDmaOff, ReportsCommand, Arguments, Updates
  <2> QED
    BY <2>1, <2>2, <2>3, <2>4
<1> QED
  BY <1>1, <1>2

(* update_command returns: what it says of the register is so. *)
LEMMA ReturnStep ==
    ASSUME ConfigInv, pc # "idle", NEW r \in Results, r # "running", r # "none",
           Return(r), command' \in Commands,
           UNCHANGED <<power, phase>>,
           r = "ok" => command' = Requested(call.at),
           r = "did_not_latch" /\ call.op # "disable" => command' = call.at
    PROVE  ConfigInv'
<1> USE DEF ConfigInv, ConfigHonest, ConfigTypeOK
<1>1. pc' = "idle" /\ call' = [call EXCEPT !.result = r]
  BY DEF Return
<1>2. /\ call' \in Calls /\ call'.result = r /\ call'.op = call.op /\ call'.bit = call.bit
      /\ call'.on = call.on /\ call'.rollback = call.rollback /\ call'.at = call.at
  BY <1>1, ReturnedCall
<1>3. ConfigTypeOK'
  BY <1>1, <1>2 DEF Calls
<1>4. call.op \in Updates
  BY DEF Arguments
<1>5. ActivatedWithDmaOff'
  BY <1>2, <1>4 DEF ActivatedWithDmaOff, Updates
<1>6. ReportsCommand'
  BY <1>2 DEF ReportsCommand, Requested
<1> QED
  BY <1>1, <1>2, <1>3, <1>5, <1>6

(* update_command goes on to its next access. *)
LEMMA ContinueStep ==
    ASSUME ConfigInv, pc # "idle", pc' \in {"write", "readback", "restore", "verify"},
           command' \in Commands, UNCHANGED <<power, phase>>,
           call' \in Calls, call'.result = "running", call'.saved = call.at, call'.at = call.at,
           call'.op = call.op, call'.bit = call.bit, call'.on = call.on,
           call'.rollback = call.rollback, pc' \in {"restore", "verify"} => call.rollback
    PROVE  ConfigInv'
<1> USE DEF ConfigInv, ConfigHonest, ConfigTypeOK
<1>1. ConfigTypeOK'
  BY DEF Calls
<1>2. ActivatedWithDmaOff' /\ ReportsCommand'
  BY DEF ActivatedWithDmaOff, ReportsCommand
<1>3. Arguments(call')
  BY DEF Arguments
<1> QED
  BY <1>1, <1>2, <1>3

(* The steps of update_command. *)
LEMMA UpdateStep ==
    ASSUME ConfigInv, ReadSaved \/ WriteRequested \/ ReadBack \/ Restore \/ VerifyRestored
    PROVE  ConfigInv'
<1>1. /\ call \in Calls /\ command \in Commands /\ (call.result = "running" <=> pc # "idle")
      /\ call.at \in Commands /\ call.saved \in Commands /\ call.bit \in Bits
  BY DEF ConfigInv, ConfigHonest, ConfigTypeOK
<1>2. UNCHANGED <<power, phase>> /\ pc # "idle"
  BY DEF ReadSaved, WriteRequested, ReadBack, Restore, VerifyRestored
<1>3. "io" \in Results /\ "ok" \in Results /\ "did_not_latch" \in Results
      /\ "rollback_failed" \in Results
  BY DEF Results
<1>4. Requested(call.saved) \in Commands
  BY <1>1 DEF Requested, Commands
<1>5. CASE ReadSaved
  <2>1. pc = "read" /\ command' = command /\ call.at = command
    BY <1>5 DEF ReadSaved, ConfigInv
  <2>2. CASE Return("io")
    BY <1>1, <1>2, <1>3, <2>1, <2>2, ReturnStep
  <2>3. CASE pc' = "write" /\ call' = [call EXCEPT !.saved = command]
    <3>1. /\ call' \in Calls /\ call'.saved = command /\ call'.op = call.op
          /\ call'.bit = call.bit /\ call'.on = call.on /\ call'.rollback = call.rollback
          /\ call'.at = call.at /\ call'.result = call.result
      BY <1>1, <2>3, SavedCall
    <3> QED
      BY <1>1, <1>2, <2>1, <2>3, <3>1, ContinueStep
  <2> QED
    BY <1>5, <2>2, <2>3 DEF ReadSaved
<1>6. CASE WriteRequested
  <2>1. /\ pc = "write" /\ call.saved = call.at /\ command' \in Commands
    BY <1>1, <1>4, <1>6 DEF WriteRequested, Latches, Commands, ConfigInv
  <2>2. CASE Return("io")
    BY <1>2, <1>3, <2>1, <2>2, ReturnStep
  <2>3. CASE pc' = "readback" /\ UNCHANGED call
    BY <1>1, <1>2, <2>1, <2>3, ContinueStep
  <2> QED
    BY <1>6, <2>2, <2>3 DEF WriteRequested
<1>7. CASE ReadBack
  <2>1. pc = "readback" /\ call.saved = call.at /\ command' = command
    BY <1>7 DEF ReadBack, ConfigInv
  <2>2. CASE Return("io")
    BY <1>1, <1>2, <1>3, <2>1, <2>2, ReturnStep
  <2>3. CASE command = Requested(call.saved) /\ Return("ok")
    BY <1>1, <1>2, <1>3, <2>1, <2>3, ReturnStep
  <2>4. CASE call.rollback /\ pc' = "restore" /\ UNCHANGED call
    BY <1>1, <1>2, <2>1, <2>4, ContinueStep
  <2>5. CASE ~call.rollback /\ Return("did_not_latch")
    <3>1. call.op = "disable"
      BY <1>2, <2>5 DEF ConfigInv, Arguments, Updates
    <3> QED
      BY <1>1, <1>2, <1>3, <2>1, <2>5, <3>1, ReturnStep
  <2> QED
    BY <1>7, <2>2, <2>3, <2>4, <2>5 DEF ReadBack
<1>8. CASE Restore
  <2>1. /\ pc = "restore" /\ call.saved = call.at /\ command' \in Commands /\ call.rollback
    BY <1>1, <1>8 DEF Restore, Latches, Commands, ConfigInv
  <2>2. CASE Return("rollback_failed")
    BY <1>2, <1>3, <2>1, <2>2, ReturnStep
  <2>3. CASE pc' = "verify" /\ UNCHANGED call
    BY <1>1, <1>2, <2>1, <2>3, ContinueStep
  <2> QED
    BY <1>8, <2>2, <2>3 DEF Restore
<1>9. CASE VerifyRestored
  <2>1. /\ pc = "verify" /\ call.saved = call.at /\ command' = command
    BY <1>9 DEF VerifyRestored, ConfigInv
  <2>2. CASE Return("rollback_failed")
    BY <1>1, <1>2, <1>3, <2>1, <2>2, ReturnStep
  <2>3. CASE command = call.saved /\ Return("did_not_latch")
    BY <1>1, <1>2, <1>3, <2>1, <2>3, ReturnStep
  <2> QED
    BY <1>9, <2>2, <2>3 DEF VerifyRestored
<1> QED
  BY <1>5, <1>6, <1>7, <1>8, <1>9

(* The invariant of the configuration owner. *)
LEMMA ConfigInvariant == ConfigSpec => []ConfigInv
<1>1. ConfigInit => ConfigInv
  <2> SUFFICES ASSUME ConfigInit PROVE ConfigInv
    OBVIOUS
  <2>1. /\ command \in Commands /\ power \in {"D0", "D3"} /\ phase = "closed" /\ pc = "idle"
        /\ call = Finished("none", "none") /\ "none" \in Results
    BY DEF ConfigInit, Results
  <2>2. call \in Calls /\ call.op = "none" /\ call.result = "none"
    BY <2>1, FinishedCall
  <2> QED
    BY <2>1, <2>2 DEF ConfigInv, ConfigHonest, ConfigTypeOK, ActivatedWithDmaOff, ReportsCommand,
                      Calls
<1>2. ASSUME ConfigInv, [ConfigNext]_configVars PROVE ConfigInv'
  <2>1. CASE UNCHANGED configVars
    BY <1>2, <2>1 DEF configVars, ConfigInv, ConfigHonest, ConfigTypeOK, ActivatedWithDmaOff,
                      ReportsCommand, Requested
  <2>2. CASE ConfigNext
    BY Zenon, <1>2, <2>2, ActivationStep, OperationStep, UpdateStep DEF ConfigNext
  <2> QED
    BY <1>2, <2>1, <2>2
<1> QED
  BY <1>1, <1>2, PTL DEF ConfigSpec

(* The backend is handed out with DMA off, and every result of             *)
(* update_command is what the Command register holds, whichever accesses   *)
(* failed and whichever bits were lost (initialize_pci_controlled,         *)
(* PciControl::update_command).                                            *)
THEOREM ConfigIsHonest == ConfigSpec => []ConfigHonest
<1>1. ConfigInv => ConfigHonest
  BY DEF ConfigInv
<1> QED
  BY <1>1, ConfigInvariant, PTL

(* Once the function is open only enable_bus_master turns bus mastering    *)
(* on, and on a function with DMA off; a failed disable never does, and    *)
(* masking INTx at most restores it ("Failure never reasserts BME").       *)
THEOREM OnlyEnableStarts == ConfigSpec => OnlyEnableStartsDma
<1> DEFINE Fine == phase = "open" /\ "master" \in command' \ command =>
                     \/ call.op = "enable" /\ "memory" \in call.at /\ "master" \notin call.at
                     \/ call.op = "disable_intx" /\ "master" \in call.at
<1>1. ASSUME ConfigInv, [ConfigNext]_configVars PROVE [Fine]_configVars
  <2> SUFFICES ASSUME ConfigNext, phase = "open", "master" \in command', "master" \notin command
               PROVE  Fine
    BY <1>1
  <2>1. WriteRequested \/ Restore
    BY DEF ConfigNext, Bind, Expose, VerifyEnabled, DisableIntx, EnableBusMaster, DisableBusMaster,
           Start, ReadSaved, ReadBack, VerifyRestored
  <2>2. pc \in {"write", "restore"} /\ Arguments(call) /\ call.saved = call.at
    BY <1>1, <2>1 DEF WriteRequested, Restore, ConfigInv
  <2>3. CASE WriteRequested
    BY <2>2, <2>3 DEF WriteRequested, Latches, Requested, Arguments, Updates
  <2>4. CASE Restore
    BY <1>1, <2>2, <2>4 DEF Restore, Latches, Arguments, Updates, ConfigInv
  <2> QED
    BY <2>1, <2>3, <2>4
<1> QED
  BY <1>1, ConfigInvariant, PTL DEF ConfigSpec, OnlyEnableStartsDma
-----------------------------------------------------------------------------
(* The session of an opened device. *)
HIDE PoolConstants DEF Acquired, Dirtied, HandedOver, Prepared

(* The tokens handed out so far (LinuxVfio::id). *)
Tokens == 1 .. next_id - 1

Ranges ==
    /\ session_generation \in 1..MaxGenerations /\ next_id \in 1..MaxIds + 1
    /\ next_iova \in Nat /\ prepared_irqs \in 0..Eventfds
    /\ faults \in 0..MaxFaults /\ closed \in BOOLEAN

(* A token is spent once, and names one thing. *)
Known ==
    /\ regions \subseteq Tokens /\ DOMAIN dmas \subseteq Tokens
    /\ DOMAIN quarantined \subseteq Tokens /\ DOMAIN interrupts \subseteq Tokens
    /\ DOMAIN handles \subseteq Tokens /\ rejected \subseteq Tokens
    /\ regions \cap DOMAIN interrupts = {} /\ DOMAIN dmas \cap DOMAIN interrupts = {}
    /\ DOMAIN dmas \cap DOMAIN quarantined = {}

(* Where a mapping lies: below the next address to be handed out, or where *)
(* the broker put it.                                                      *)
Placed(d, h, n) ==
    /\ d.first <= d.last
    /\ IF Flavor = "Broker" THEN d.first = h /\ d.last = h ELSE d.last < n

Apart(d, e) == d.last < e.first \/ e.last < d.first

(* The mappings m of the backend over the kernel's k, those refused r.     *)
MappingsSound(m, k, r, n) ==
    /\ \A h \in DOMAIN m : /\ m[h] \in Dma /\ Placed(m[h], h, n)
                           /\ m[h].held => m[h].kind = "coherent" \/ m[h].memory
                           /\ h \in k => m[h].held
    /\ \A a, b \in DOMAIN m : a # b => Apart(m[a], m[b])
    /\ k \subseteq DOMAIN m \cup r
    /\ Flavor # "Broker" => r = {}

Lines == [vector : Vectors, installed : BOOLEAN]

InterruptsSound ==
    /\ \A h \in DOMAIN interrupts : interrupts[h] \in Lines
    /\ kirq \subseteq Vectors /\ IsFiniteSet(ambiguous) /\ InterruptsTracked

(* Whoever waits for an interrupt has a current handle on it. *)
WaitersSound ==
    /\ waiters \subseteq DOMAIN interrupts /\ waiters \subseteq parked /\ woken \subseteq parked
    /\ parked \subseteq DOMAIN handles /\ \A h \in waiters : HandleCurrent(h)
    /\ \A h \in DOMAIN handles : handles[h] \in 1..session_generation
    /\ NoLostWakeup

SessionInv ==
    /\ Ranges /\ Known /\ InterruptsSound /\ WaitersSound
    /\ MappingsSound(Revocable, kdma, rejected, next_iova)

(* The invariant is what the properties need. *)
LEMMA SessionTracked == SessionInv => SessionTracks
<1> SUFFICES ASSUME SessionInv PROVE SessionTracks
  BY Zenon
<1>1. /\ DOMAIN Revocable = DOMAIN dmas \cup DOMAIN quarantined
      /\ \A h \in DOMAIN dmas : Revocable[h] = dmas[h]
      /\ \A h \in DOMAIN quarantined : Revocable[h] = quarantined[h]
  BY Zenon DEF SessionInv, Known, Revocable, Merged
<1>2. MappingsSound(Revocable, kdma, rejected, next_iova)
  BY Zenon DEF SessionInv
<1> HIDE DEF Revocable
<1>3. MappingsTracked /\ MappingsDisjoint /\ MemoryOutlivesMapping
  BY <1>1, <1>2, Zenon DEF MappingsSound, MappingsTracked, MappingsDisjoint, MemoryOutlivesMapping, Apart
<1>4. InterruptsTracked /\ NoLostWakeup
  BY Zenon DEF SessionInv, InterruptsSound, WaitersSound
<1>5. SessionTypeOK
  <2>1. /\ \A h \in DOMAIN dmas : dmas[h] \in Dma
        /\ \A h \in DOMAIN quarantined : quarantined[h] \in Dma
    BY <1>1, <1>2, Zenon DEF MappingsSound
  <2>2. regions \cup waiters \cup parked \cup kdma \subseteq 1..MaxIds
    <3>1. Tokens \subseteq 1..MaxIds
      BY SessionAssumption DEF SessionInv, Ranges, Tokens
    <3>2. kdma \subseteq Tokens
      BY <1>1, <1>2, Zenon DEF MappingsSound, SessionInv, Known
    <3> QED
      BY <3>1, <3>2, Zenon DEF SessionInv, Known, WaitersSound
  <2> QED
    BY <2>1, <2>2, Zenon DEF SessionInv, Ranges, Known, WaitersSound, InterruptsSound, SessionTypeOK, Lines
<1> QED
  BY <1>3, <1>4, <1>5, Zenon DEF SessionTracks

(* A newly opened device (LinuxVfio). *)
LEMMA SessionStart == SessionInit => SessionInv
<1> SUFFICES ASSUME SessionInit PROVE SessionInv
  BY Zenon
<1>1. /\ DOMAIN dmas = {} /\ DOMAIN quarantined = {} /\ DOMAIN interrupts = {}
      /\ DOMAIN handles = {} /\ DOMAIN Revocable = {}
  BY Zenon DEF SessionInit, Revocable, Merged, None
<1>2. Ranges
  <2>1. /\ Eventfds \in Nat /\ MaxIds \in Nat /\ MaxFaults \in Nat
        /\ MaxGenerations \in Nat \ {0}
    BY SessionAssumption, Zenon DEF SessionAssumption
  <2>2. closed \in BOOLEAN
    BY Zenon DEF SessionInit
  <2> QED
    BY <2>1, <2>2 DEF SessionInit, Ranges
<1>5. Known
  BY <1>1, Zenon DEF SessionInit, Known
<1>3. InterruptsSound /\ WaitersSound
  BY <1>1, FS_EmptySet, Zenon DEF SessionInit, InterruptsSound, WaitersSound, InterruptsTracked, NoLostWakeup
<1>4. MappingsSound(Revocable, kdma, rejected, next_iova)
  BY <1>1, Zenon DEF SessionInit, MappingsSound
<1> QED
  BY <1>2, <1>3, <1>4, <1>5, Zenon DEF SessionInv
-----------------------------------------------------------------------------
(* release_dma_resource keeps a mapping where it is, lets go of its memory *)
(* only when the device cannot reach it, and Ok means that it is gone.     *)
LEMMA ReleasedDma ==
    ASSUME NEW d \in Dma, NEW fail \in {"no", "kernel", "memory"}, NEW e,
           e = Released(d, fail).dma, d.held => d.kind = "coherent" \/ d.memory
    PROVE  /\ e \in Dma /\ e.first = d.first /\ e.last = d.last /\ e.kind = d.kind
           /\ e.held => d.held /\ (e.kind = "coherent" \/ e.memory)
           /\ fail = "no" => ~e.held
<1> DEFINE no == FALSE
           released == [d EXCEPT !.held = no, !.memory = no]
           unmapped == [d EXCEPT !.held = no]
           discarded == [d EXCEPT !.memory = no]
<1>1. no \in BOOLEAN /\ ~no
  BY Zenon
<1>2. \/ fail = "no" /\ e = released
      \/ fail # "no" /\ d.kind = "coherent" /\ e = discarded
      \/ fail # "no" /\ d.kind # "coherent" /\ e = unmapped
      \/ fail # "no" /\ e = d
  BY Zenon DEF Released
<1> HIDE DEF no
<1>3. /\ released \in Dma /\ released.first = d.first /\ released.last = d.last /\ released.kind = d.kind
      /\ released.held = no
  BY <1>1, Zenon DEF Dma
<1>4. /\ unmapped \in Dma /\ unmapped.first = d.first /\ unmapped.last = d.last
      /\ unmapped.kind = d.kind /\ unmapped.held = no
  BY <1>1, Zenon DEF Dma
<1>5. /\ discarded \in Dma /\ discarded.first = d.first /\ discarded.last = d.last
      /\ discarded.kind = d.kind /\ discarded.held = d.held
  BY <1>1, Zenon DEF Dma
<1> HIDE DEF released, unmapped, discarded
<1> QED
  BY <1>1, <1>2, <1>3, <1>4, <1>5, Zenon

(* Mappings m, k that become m2, k2 as they are given up, one by one or    *)
(* all together.                                                           *)
Shrunk(m, k, r, m2, k2) ==
    /\ DOMAIN m2 \subseteq DOMAIN m /\ k2 \subseteq k /\ k2 \subseteq DOMAIN m2 \cup r
    /\ \A h \in DOMAIN m2 : /\ m2[h] \in Dma /\ m2[h].first = m[h].first /\ m2[h].last = m[h].last
                            /\ m2[h].held => m2[h].kind = "coherent" \/ m2[h].memory
                            /\ h \in k2 => m2[h].held

(* A mapping of the token t is added where nothing lies. *)
Grown(m, k, n, m2, k2, n2, t) ==
    /\ DOMAIN m2 = DOMAIN m \cup {t} /\ t \notin DOMAIN m /\ \A h \in DOMAIN m : m2[h] = m[h]
    /\ k2 \subseteq k \cup {t} /\ t \notin k /\ (t \in k2 => m2[t].held)
    /\ m2[t] \in Dma /\ Placed(m2[t], t, n2) /\ \A h \in DOMAIN m : Apart(m[h], m2[t])
    /\ m2[t].held => m2[t].kind = "coherent" \/ m2[t].memory
    /\ n \in Nat /\ n2 \in Nat /\ n <= n2

(* What is given up leaves the rest as it was. *)
LEMMA MappingsShrink ==
    ASSUME NEW m, NEW k, NEW r, NEW n, NEW m2, NEW k2,
           MappingsSound(m, k, r, n), Shrunk(m, k, r, m2, k2)
    PROVE  MappingsSound(m2, k2, r, n)
BY Zenon DEF MappingsSound, Placed, Apart, Shrunk

(* What is added lies apart from the rest. *)
LEMMA MappingsGrow ==
    ASSUME NEW m, NEW k, NEW r, NEW n, NEW m2, NEW k2, NEW t, NEW n2,
           MappingsSound(m, k, r, n), Grown(m, k, n, m2, k2, n2, t)
    PROVE  MappingsSound(m2, k2, r, n2)
<1>1. \A h \in DOMAIN m : m[h].last \in Nat /\ (Placed(m[h], h, n) => Placed(m[h], h, n2))
  BY DEF MappingsSound, Placed, Dma, Grown
<1>2. \A h \in DOMAIN m2 : /\ m2[h] \in Dma /\ Placed(m2[h], h, n2)
                           /\ m2[h].held => m2[h].kind = "coherent" \/ m2[h].memory
                           /\ h \in k2 => m2[h].held
  BY <1>1, Zenon DEF MappingsSound, Grown
<1>3. \A x, y \in DOMAIN m2 : x # y => Apart(m2[x], m2[y])
  BY Zenon DEF MappingsSound, Grown, Apart
<1>4. k2 \subseteq DOMAIN m2 \cup r /\ (Flavor # "Broker" => r = {})
  BY Zenon DEF MappingsSound, Grown
<1> QED
  BY <1>2, <1>3, <1>4, Zenon DEF MappingsSound

-----------------------------------------------------------------------------
(* What the steps below keep needing of the invariant. *)
LEMMA SessionFacts ==
    ASSUME SessionInv
    PROVE  /\ MappingsSound(Revocable, kdma, rejected, next_iova)
           /\ next_id \in Nat \ {0} /\ next_iova \in Nat /\ next_id \notin Tokens
           /\ DOMAIN dmas \subseteq Tokens /\ DOMAIN quarantined \subseteq Tokens
           /\ DOMAIN dmas \cap DOMAIN quarantined = {} /\ rejected \subseteq Tokens
           /\ kdma \subseteq Tokens /\ DOMAIN Revocable \subseteq Tokens
           /\ DOMAIN Revocable = DOMAIN dmas \cup DOMAIN quarantined
           /\ \A h \in DOMAIN dmas : Revocable[h] = dmas[h]
           /\ \A h \in DOMAIN quarantined : Revocable[h] = quarantined[h]
<1>1. /\ MappingsSound(Revocable, kdma, rejected, next_iova)
      /\ next_id \in Nat \ {0} /\ next_iova \in Nat
      /\ DOMAIN dmas \subseteq Tokens /\ DOMAIN quarantined \subseteq Tokens
      /\ DOMAIN dmas \cap DOMAIN quarantined = {} /\ rejected \subseteq Tokens
  BY DEF SessionInv, Ranges, Known
<1>2. next_id \notin Tokens
  BY <1>1 DEF Tokens
<1>3. /\ DOMAIN Revocable = DOMAIN dmas \cup DOMAIN quarantined
      /\ \A h \in DOMAIN dmas : Revocable[h] = dmas[h]
      /\ \A h \in DOMAIN quarantined : Revocable[h] = quarantined[h]
  BY <1>1, Zenon DEF Revocable, Merged
<1> QED
  BY <1>1, <1>2, <1>3, Zenon DEF MappingsSound

(* Allocating (alloc_dma_constrained). *)
LEMMA AllocIoasMappings ==
    ASSUME SessionInv, NEW pages \in 1..2, AllocIoas(pages)
    PROVE  MappingsSound(Revocable, kdma, rejected, next_iova)'
<1> DEFINE first == Aligned(next_iova, pages)
           last == first + pages - 1
           d == [kind |-> "ioas", first |-> first, last |-> last, held |-> TRUE, memory |-> TRUE]
<1>1. /\ MappingsSound(Revocable, kdma, rejected, next_iova) /\ next_iova \in Nat
      /\ next_id \notin Tokens /\ kdma \subseteq Tokens /\ DOMAIN Revocable \subseteq Tokens
      /\ DOMAIN dmas \subseteq Tokens /\ DOMAIN quarantined \subseteq Tokens
      /\ DOMAIN dmas \cap DOMAIN quarantined = {}
  BY SessionFacts, Zenon
<1>3. /\ DOMAIN Revocable = DOMAIN dmas \cup DOMAIN quarantined
      /\ \A h \in DOMAIN dmas : Revocable[h] = dmas[h]
      /\ \A h \in DOMAIN quarantined : Revocable[h] = quarantined[h]
  BY SessionFacts, Zenon
<1>4. first \in Nat /\ last \in Nat /\ next_iova <= first /\ first <= last
  <2>1. CASE pages = 1
    BY <1>1, <2>1 DEF Aligned
  <2>2. CASE pages = 2
    BY <1>1, <2>2 DEF Aligned
  <2> QED
    BY <2>1, <2>2
<1>5. d \in Dma /\ d.first = first /\ d.last = last /\ d.held /\ d.memory
  BY <1>4, Zenon DEF Dma
<1>6. \/ UNCHANGED <<next_iova, dmas, quarantined, kdma, rejected>>
      \/ /\ Flavor # "Broker" /\ next_iova' = last + 1 /\ dmas' = Added(dmas, next_id, d)
         /\ kdma' = kdma \cup {next_id} /\ UNCHANGED <<quarantined, rejected>>
  BY Zenon DEF AllocIoas, NextIova
<1> HIDE DEF first, last, d
<1>7. CASE UNCHANGED <<next_iova, dmas, quarantined, kdma, rejected>>
  BY <1>1, <1>7, Zenon DEF Revocable
<1>8. CASE /\ Flavor # "Broker" /\ next_iova' = last + 1 /\ dmas' = Added(dmas, next_id, d)
           /\ kdma' = kdma \cup {next_id} /\ UNCHANGED <<quarantined, rejected>>
  <2>1. /\ DOMAIN dmas' = DOMAIN dmas \cup {next_id} /\ dmas'[next_id] = d
        /\ \A h \in DOMAIN dmas : dmas'[h] = dmas[h]
    BY <1>1, <1>8, Zenon DEF Added
  <2>2. DOMAIN dmas' \cap DOMAIN quarantined' = {}
    BY <1>1, <1>8, <2>1, Zenon
  <2>3. /\ DOMAIN Revocable' = DOMAIN Revocable \cup {next_id} /\ Revocable'[next_id] = d
        /\ \A h \in DOMAIN Revocable : Revocable'[h] = Revocable[h]
    <3>1. /\ DOMAIN Revocable' = DOMAIN dmas' \cup DOMAIN quarantined'
          /\ \A h \in DOMAIN dmas' : Revocable'[h] = dmas'[h]
          /\ \A h \in DOMAIN quarantined' : Revocable'[h] = quarantined'[h]
      BY <2>2, Zenon DEF Revocable, Merged
    <3> QED
      BY <1>3, <1>8, <2>1, <3>1, Zenon
  <2>4. \A h \in DOMAIN Revocable : Apart(Revocable[h], d)
    BY <1>1, <1>4, <1>5, <1>8 DEF MappingsSound, Placed, Apart, Dma
  <2>5. Placed(d, next_id, last + 1)
    BY <1>4, <1>5, <1>8 DEF Placed
  <2>6. next_id \notin DOMAIN Revocable /\ next_id \notin kdma
    BY <1>1, Zenon
  <2> HIDE DEF Revocable
  <2>7. MappingsSound(Revocable', kdma', rejected, last + 1)
    <3>1. next_iova \in Nat /\ last + 1 \in Nat /\ next_iova <= last + 1
      BY <1>1, <1>4
    <3>2. Grown(Revocable, kdma, next_iova, Revocable', kdma', last + 1, next_id)
      BY <1>5, <1>8, <2>3, <2>4, <2>5, <2>6, <3>1, Zenon DEF Grown
    <3>3. MappingsSound(Revocable, kdma, rejected, next_iova)
      BY <1>1, Zenon
    <3> QED
      BY <3>2, <3>3, MappingsGrow, Zenon
  <2> QED
    BY <1>8, <2>7, Zenon DEF MappingsSound
<1> QED
  BY <1>6, <1>7, <1>8, Zenon

(* The same through the broker, whose answer may be refused. *)
LEMMA AllocBrokerMappings ==
    ASSUME SessionInv, NEW kind \in {"coherent", "streaming"}, AllocBroker(kind)
    PROVE  MappingsSound(Revocable, kdma, rejected, next_iova)'
<1> DEFINE d == [kind |-> kind, first |-> next_id, last |-> next_id, held |-> TRUE, memory |-> TRUE]
<1>1. /\ MappingsSound(Revocable, kdma, rejected, next_iova)
      /\ next_id \in Nat \ {0} /\ next_iova \in Nat /\ next_id \notin Tokens
      /\ DOMAIN dmas \subseteq Tokens /\ DOMAIN quarantined \subseteq Tokens
      /\ DOMAIN dmas \cap DOMAIN quarantined = {}
      /\ kdma \subseteq Tokens /\ DOMAIN Revocable \subseteq Tokens
      /\ DOMAIN Revocable = DOMAIN dmas \cup DOMAIN quarantined
      /\ \A h \in DOMAIN dmas : Revocable[h] = dmas[h]
      /\ \A h \in DOMAIN quarantined : Revocable[h] = quarantined[h]
  BY SessionFacts, Zenon
<1>2. d \in Dma /\ d.first = next_id /\ d.last = next_id /\ d.held /\ d.memory
  BY <1>1, Zenon DEF Dma
<1>3. Flavor = "Broker" /\ next_iova' = next_iova
  BY Zenon DEF AllocBroker
<1>4. \A e \in Dma : e.first = next_id /\ e.last = next_id =>
        Placed(e, next_id, next_iova) /\ \A h \in DOMAIN Revocable : Apart(Revocable[h], e)
  <2>1. \A h \in Tokens : h \in Nat /\ h < next_id
    BY <1>1 DEF Tokens
  <2>2. \A h \in DOMAIN Revocable : Revocable[h].first = h /\ Revocable[h].last = h
    BY <1>1, <1>3, Zenon DEF MappingsSound, Placed
  <2> QED
    BY <1>1, <1>3, <2>1, <2>2 DEF Placed, Apart
<1>5. \/ UNCHANGED <<dmas, quarantined, kdma, rejected>>
      \/ /\ kdma' = kdma \cup {next_id} /\ rejected' = rejected \cup {next_id}
         /\ UNCHANGED <<dmas, quarantined>>
      \/ /\ dmas' = Added(dmas, next_id, d) /\ kdma' = kdma \cup {next_id}
         /\ UNCHANGED <<quarantined, rejected>>
      \/ \E fail \in Failures(d) \ {"no"} :
            /\ quarantined' = Added(quarantined, next_id, Released(d, fail).dma)
            /\ kdma' = IF Released(d, fail).dma.held THEN kdma \cup {next_id} ELSE kdma
            /\ UNCHANGED <<dmas, rejected>>
  BY Zenon DEF AllocBroker
<1> HIDE DEF d
<1>6. CASE UNCHANGED <<dmas, quarantined, kdma, rejected>>
  BY <1>1, <1>3, <1>6, Zenon DEF Revocable
<1>7. CASE /\ kdma' = kdma \cup {next_id} /\ rejected' = rejected \cup {next_id}
           /\ UNCHANGED <<dmas, quarantined>>
  <2>1. Revocable' = Revocable /\ next_id \notin DOMAIN Revocable
    BY <1>1, <1>7, Zenon DEF Revocable
  <2> HIDE DEF Revocable
  <2> QED
    BY <1>1, <1>3, <1>7, <2>1, Zenon DEF MappingsSound
<1>8. CASE /\ dmas' = Added(dmas, next_id, d) /\ kdma' = kdma \cup {next_id}
           /\ UNCHANGED <<quarantined, rejected>>
  <2>1. /\ DOMAIN dmas' = DOMAIN dmas \cup {next_id} /\ dmas'[next_id] = d
        /\ \A h \in DOMAIN dmas : dmas'[h] = dmas[h]
    BY <1>1, <1>8, Zenon DEF Added
  <2>2. DOMAIN dmas' \cap DOMAIN quarantined' = {}
    BY <1>1, <1>8, <2>1, Zenon
  <2>3. /\ DOMAIN Revocable' = DOMAIN dmas' \cup DOMAIN quarantined'
        /\ \A h \in DOMAIN dmas' : Revocable'[h] = dmas'[h]
        /\ \A h \in DOMAIN quarantined' : Revocable'[h] = quarantined'[h]
    BY <2>2, Zenon DEF Revocable, Merged
  <2> HIDE DEF Revocable
  <2>4. /\ DOMAIN Revocable' = DOMAIN Revocable \cup {next_id} /\ Revocable'[next_id] = d
        /\ \A h \in DOMAIN Revocable : Revocable'[h] = Revocable[h]
        /\ next_id \notin DOMAIN Revocable /\ next_id \notin kdma
    BY <1>1, <1>8, <2>1, <2>3
  <2>5. MappingsSound(Revocable', kdma', rejected, next_iova)
    <3>1. next_iova \in Nat /\ next_iova <= next_iova
      BY <1>1
    <3>2. Grown(Revocable, kdma, next_iova, Revocable', kdma', next_iova, next_id)
      BY <1>2, <1>4, <1>8, <2>4, <3>1, Zenon DEF Grown
    <3>3. MappingsSound(Revocable, kdma, rejected, next_iova)
      BY <1>1, Zenon
    <3> QED
      BY <3>2, <3>3, MappingsGrow, Zenon
  <2> QED
    BY <1>3, <1>8, <2>5, Zenon DEF MappingsSound
<1>9. ASSUME NEW fail \in Failures(d) \ {"no"},
             quarantined' = Added(quarantined, next_id, Released(d, fail).dma),
             kdma' = IF Released(d, fail).dma.held THEN kdma \cup {next_id} ELSE kdma,
             UNCHANGED <<dmas, rejected>>
      PROVE  MappingsSound(Revocable, kdma, rejected, next_iova)'
  <2> DEFINE e == Released(d, fail).dma
  <2>1. fail \in {"no", "kernel", "memory"}
    BY Zenon DEF Failures
  <2>2. /\ e \in Dma /\ e.first = next_id /\ e.last = next_id
        /\ e.held => e.kind = "coherent" \/ e.memory
    BY <1>2, <2>1, ReleasedDma
  <2>3. /\ quarantined' = Added(quarantined, next_id, e) /\ kdma' \subseteq kdma \cup {next_id}
        /\ next_id \in kdma' => e.held \/ next_id \in kdma
    BY <1>9, Zenon
  <2> HIDE DEF e
  <2>4. /\ DOMAIN quarantined' = DOMAIN quarantined \cup {next_id} /\ quarantined'[next_id] = e
        /\ \A h \in DOMAIN quarantined : quarantined'[h] = quarantined[h]
    BY <1>1, <2>3, Zenon DEF Added
  <2>5. DOMAIN dmas' \cap DOMAIN quarantined' = {}
    BY <1>1, <1>9, <2>4, Zenon
  <2>6. /\ DOMAIN Revocable' = DOMAIN dmas' \cup DOMAIN quarantined'
        /\ \A h \in DOMAIN dmas' : Revocable'[h] = dmas'[h]
        /\ \A h \in DOMAIN quarantined' : Revocable'[h] = quarantined'[h]
    BY <2>5, Zenon DEF Revocable, Merged
  <2> HIDE DEF Revocable
  <2>7. /\ DOMAIN Revocable' = DOMAIN Revocable \cup {next_id} /\ Revocable'[next_id] = e
        /\ \A h \in DOMAIN Revocable : Revocable'[h] = Revocable[h]
        /\ next_id \notin DOMAIN Revocable /\ next_id \notin kdma
    BY <1>1, <1>9, <2>4, <2>6, Zenon
  <2>8. Placed(e, next_id, next_iova) /\ \A h \in DOMAIN Revocable : Apart(Revocable[h], e)
    BY <1>4, <2>2, Zenon
  <2>9. MappingsSound(Revocable', kdma', rejected, next_iova)
    <3>1. next_iova \in Nat /\ next_iova <= next_iova
      BY <1>1
    <3>2. Grown(Revocable, kdma, next_iova, Revocable', kdma', next_iova, next_id)
      BY <2>2, <2>3, <2>7, <2>8, <3>1, Zenon DEF Grown
    <3>3. MappingsSound(Revocable, kdma, rejected, next_iova)
      BY <1>1, Zenon
    <3> QED
      BY <3>2, <3>3, MappingsGrow, Zenon
  <2> QED
    BY <1>3, <1>9, <2>9, Zenon DEF MappingsSound
<1> QED
  BY <1>5, <1>6, <1>7, <1>8, <1>9, Zenon

(* A dropped handle's mapping is released, or quarantined. *)
LEMMA ReleaseDmaMappings ==
    ASSUME SessionInv, NEW h, ReleaseDma(h), UNCHANGED <<rejected, next_iova>>
    PROVE  MappingsSound(Revocable, kdma, rejected, next_iova)'
<1>1. /\ MappingsSound(Revocable, kdma, rejected, next_iova)
      /\ DOMAIN dmas \cap DOMAIN quarantined = {}
      /\ DOMAIN Revocable = DOMAIN dmas \cup DOMAIN quarantined
      /\ \A x \in DOMAIN dmas : Revocable[x] = dmas[x]
      /\ \A x \in DOMAIN quarantined : Revocable[x] = quarantined[x]
  BY SessionFacts, Zenon
<1>2. PICK fail \in Failures(dmas[h]) :
        /\ quarantined' = IF fail = "no" THEN quarantined
                          ELSE Added(quarantined, h, Released(dmas[h], fail).dma)
        /\ kdma' = IF Released(dmas[h], fail).dma.held THEN kdma ELSE kdma \ {h}
  BY Zenon DEF ReleaseDma, Released, Quarantine
<1> DEFINE e == Released(dmas[h], fail).dma
<1>3. h \in DOMAIN dmas /\ dmas' = Without(dmas, {h}) /\ Revocable[h] = dmas[h]
  BY <1>1, Zenon DEF ReleaseDma
<1>4. /\ e \in Dma /\ e.first = dmas[h].first /\ e.last = dmas[h].last
      /\ e.held => e.kind = "coherent" \/ e.memory
      /\ fail = "no" => ~e.held
  <2>1. fail \in {"no", "kernel", "memory"}
    BY <1>2, Zenon DEF Failures
  <2>2. dmas[h] \in Dma /\ (dmas[h].held => dmas[h].kind = "coherent" \/ dmas[h].memory)
    BY <1>1, <1>3, Zenon DEF MappingsSound
  <2> QED
    BY <2>1, <2>2, ReleasedDma
<1>5. /\ quarantined' = IF fail = "no" THEN quarantined ELSE Added(quarantined, h, e)
      /\ kdma' = IF e.held THEN kdma ELSE kdma \ {h}
  BY <1>2, Zenon
<1> HIDE DEF e
<1>6. DOMAIN dmas' = DOMAIN dmas \ {h} /\ \A x \in DOMAIN dmas' : dmas'[x] = dmas[x]
  BY <1>3, Zenon DEF Without
<1>7. CASE fail = "no"
  <2>1. quarantined' = quarantined /\ kdma' = kdma \ {h}
    BY <1>4, <1>5, <1>7, Zenon
  <2>2. DOMAIN dmas' \cap DOMAIN quarantined' = {}
    BY <1>1, <1>6, <2>1, Zenon
  <2>3. /\ DOMAIN Revocable' = DOMAIN dmas' \cup DOMAIN quarantined'
        /\ \A x \in DOMAIN dmas' : Revocable'[x] = dmas'[x]
        /\ \A x \in DOMAIN quarantined' : Revocable'[x] = quarantined'[x]
    BY <2>2, Zenon DEF Revocable, Merged
  <2> HIDE DEF Revocable
  <2>4. /\ DOMAIN Revocable' = DOMAIN Revocable \ {h}
        /\ \A x \in DOMAIN Revocable' : Revocable'[x] = Revocable[x]
    <3>1. h \notin DOMAIN quarantined
      BY <1>1, <1>3, Zenon
    <3>2. DOMAIN Revocable' = DOMAIN Revocable \ {h}
      BY <1>1, <1>6, <2>1, <2>3, <3>1, Zenon
    <3>3. \A x \in DOMAIN dmas' : Revocable'[x] = Revocable[x]
      BY <1>1, <1>6, <2>3, Zenon
    <3>4. \A x \in DOMAIN quarantined' : Revocable'[x] = Revocable[x]
      BY <1>1, <2>1, <2>3, Zenon
    <3> QED
      BY <2>3, <3>2, <3>3, <3>4, Zenon
  <2>5. MappingsSound(Revocable', kdma', rejected, next_iova)
    <3>1. Shrunk(Revocable, kdma, rejected, Revocable', kdma')
      BY <1>1, <2>1, <2>4, Zenon DEF MappingsSound, Shrunk
    <3> QED
      BY <1>1, <3>1, MappingsShrink, Zenon
  <2> QED
    BY <2>5, Zenon
<1>8. CASE fail # "no"
  <2>1. /\ DOMAIN quarantined' = DOMAIN quarantined \cup {h} /\ quarantined'[h] = e
        /\ \A x \in DOMAIN quarantined : quarantined'[x] = quarantined[x]
    BY <1>1, <1>3, <1>5, <1>8, Zenon DEF Added
  <2>2. DOMAIN dmas' \cap DOMAIN quarantined' = {}
    BY <1>1, <1>6, <2>1, Zenon
  <2>3. /\ DOMAIN Revocable' = DOMAIN dmas' \cup DOMAIN quarantined'
        /\ \A x \in DOMAIN dmas' : Revocable'[x] = dmas'[x]
        /\ \A x \in DOMAIN quarantined' : Revocable'[x] = quarantined'[x]
    BY <2>2, Zenon DEF Revocable, Merged
  <2> HIDE DEF Revocable
  <2>4. /\ DOMAIN Revocable' = DOMAIN Revocable /\ Revocable'[h] = e
        /\ \A x \in DOMAIN Revocable : x # h => Revocable'[x] = Revocable[x]
    <3>1. DOMAIN Revocable' = DOMAIN Revocable /\ Revocable'[h] = e
      BY <1>1, <1>3, <1>6, <2>1, <2>3, Zenon
    <3>2. \A x \in DOMAIN dmas : x # h => Revocable'[x] = Revocable[x]
      BY <1>1, <1>6, <2>3, Zenon
    <3>3. \A x \in DOMAIN quarantined : Revocable'[x] = Revocable[x]
      BY <1>1, <2>1, <2>3, Zenon
    <3> QED
      BY <1>1, <3>1, <3>2, <3>3, Zenon
  <2>5. kdma' \subseteq kdma /\ (h \in kdma' => e.held) /\ kdma' \subseteq DOMAIN Revocable' \cup rejected
    BY <1>1, <1>5, <2>4, Zenon DEF MappingsSound
  <2>6. MappingsSound(Revocable', kdma', rejected, next_iova)
    <3>1. \A x \in DOMAIN Revocable' :
            /\ Revocable'[x] \in Dma /\ Revocable'[x].first = Revocable[x].first
            /\ Revocable'[x].last = Revocable[x].last
            /\ Revocable'[x].held => Revocable'[x].kind = "coherent" \/ Revocable'[x].memory
            /\ x \in kdma' => Revocable'[x].held
      <4> SUFFICES ASSUME NEW x \in DOMAIN Revocable'
                   PROVE  /\ Revocable'[x] \in Dma /\ Revocable'[x].first = Revocable[x].first
                          /\ Revocable'[x].last = Revocable[x].last
                          /\ Revocable'[x].held => Revocable'[x].kind = "coherent" \/ Revocable'[x].memory
                          /\ x \in kdma' => Revocable'[x].held
        BY Zenon
      <4>1. CASE x = h
        BY <1>3, <1>4, <2>4, <2>5, <4>1, Zenon
      <4>2. CASE x # h
        BY <1>1, <2>4, <2>5, <4>2, Zenon DEF MappingsSound
      <4> QED
        BY <4>1, <4>2, Zenon
    <3>2. Shrunk(Revocable, kdma, rejected, Revocable', kdma')
      BY <2>4, <2>5, <3>1, Zenon DEF Shrunk
    <3> QED
      BY <1>1, <3>2, MappingsShrink, Zenon
  <2> QED
    BY <2>6, Zenon
<1> QED
  BY <1>7, <1>8, Zenon

(* revoke_dmas: what fails to be released stays quarantined. *)
LEMMA RevokedMappings ==
    ASSUME SessionInv, NEW fail, RevokeDmas(fail), UNCHANGED <<rejected, next_iova>>
    PROVE  /\ MappingsSound(Revocable, kdma, rejected, next_iova)'
           /\ DOMAIN dmas' = {} /\ DOMAIN quarantined' \subseteq DOMAIN Revocable
<1>1. MappingsSound(Revocable, kdma, rejected, next_iova)
  BY SessionFacts, Zenon
<1> DEFINE kept == {x \in DOMAIN Revocable : fail[x] # "no"}
<1>2. /\ \A h \in DOMAIN Revocable : fail[h] \in Failures(Revocable[h])
      /\ dmas' = None
      /\ quarantined' = [h \in kept |-> Released(Revocable[h], fail[h]).dma]
      /\ kdma' = kdma \ {h \in DOMAIN Revocable : ~Released(Revocable[h], fail[h]).dma.held}
  BY Zenon DEF RevokeDmas
<1>3. DOMAIN dmas' = {} /\ DOMAIN quarantined' = kept
  BY <1>2, Zenon DEF None
<1>4. /\ DOMAIN Revocable' = DOMAIN dmas' \cup DOMAIN quarantined'
      /\ \A x \in DOMAIN quarantined' : Revocable'[x] = quarantined'[x]
  BY <1>3, Zenon DEF Revocable, Merged
<1> HIDE DEF Revocable
<1>5. ASSUME NEW h \in DOMAIN Revocable, NEW e, e = Released(Revocable[h], fail[h]).dma
      PROVE  /\ e \in Dma /\ e.first = Revocable[h].first /\ e.last = Revocable[h].last
             /\ e.held => e.kind = "coherent" \/ e.memory
             /\ fail[h] = "no" => ~e.held
  <2>1. fail[h] \in {"no", "kernel", "memory"}
    BY <1>2, Zenon DEF Failures
  <2>2. /\ Revocable[h] \in Dma
        /\ Revocable[h].held => Revocable[h].kind = "coherent" \/ Revocable[h].memory
    BY <1>1, Zenon DEF MappingsSound
  <2> QED
    BY <1>5, <2>1, <2>2, ReleasedDma
<1>6. \A h \in DOMAIN Revocable' :
        /\ h \in DOMAIN Revocable /\ Revocable'[h] = Released(Revocable[h], fail[h]).dma
  BY <1>2, <1>3, <1>4, Zenon
<1>7. kdma' \subseteq kdma /\ kdma' \subseteq DOMAIN Revocable' \cup rejected
  <2>1. \A h \in kdma' : h \in DOMAIN Revocable => fail[h] # "no"
    BY <1>2, <1>5, Zenon
  <2> QED
    BY <1>1, <1>2, <1>3, <1>4, <2>1, Zenon DEF MappingsSound
<1>8. \A h \in DOMAIN Revocable' :
         /\ Revocable'[h] \in Dma /\ Revocable'[h].first = Revocable[h].first
         /\ Revocable'[h].last = Revocable[h].last
         /\ Revocable'[h].held => Revocable'[h].kind = "coherent" \/ Revocable'[h].memory
         /\ h \in kdma' => Revocable'[h].held
  BY <1>2, <1>5, <1>6, Zenon
<1>9. DOMAIN Revocable' \subseteq DOMAIN Revocable
  BY <1>6, Zenon
<1>10. MappingsSound(Revocable', kdma', rejected, next_iova)
  <2>1. Shrunk(Revocable, kdma, rejected, Revocable', kdma')
    BY <1>7, <1>8, <1>9, Zenon DEF Shrunk
  <2> QED
    BY <1>1, <2>1, MappingsShrink, Zenon
<1> QED
  BY <1>3, <1>10, Zenon

(* Nothing is mapped. *)
LEMMA NoMappings ==
    ASSUME SessionInv, dmas' = None, quarantined' = None, kdma' = {}, rejected' = {}
    PROVE  MappingsSound(Revocable, kdma, rejected, next_iova)'
<1>1. DOMAIN Revocable' = {}
  BY Zenon DEF Revocable, Merged, None
<1> QED
  BY <1>1, Zenon DEF MappingsSound

(* Every step leaves the mappings sound. *)
LEMMA MappingsStep ==
    ASSUME SessionInv, SessionNext
    PROVE  MappingsSound(Revocable, kdma, rejected, next_iova)'
<1> DEFINE Same == UNCHANGED <<dmas, quarantined, kdma, rejected, next_iova>>
<1>1. ASSUME Same PROVE MappingsSound(Revocable, kdma, rejected, next_iova)'
  <2>1. MappingsSound(Revocable, kdma, rejected, next_iova)
    BY SessionFacts, Zenon
  <2> QED
    BY <1>1, <2>1, Zenon DEF Revocable
<1>2. CASE \E pages \in 1..2 : AllocIoas(pages)
  BY <1>2, AllocIoasMappings, Zenon
<1>3. CASE \E kind \in {"coherent", "streaming"} : AllocBroker(kind)
  BY <1>3, AllocBrokerMappings, Zenon
<1>4. CASE Close
  BY <1>4, NoMappings, Zenon DEF Close
<1>5. ASSUME NEW h \in DOMAIN handles, DropHandle(h)
      PROVE  MappingsSound(Revocable, kdma, rejected, next_iova)'
  <2>1. CASE ReleaseDma(h)
    BY <1>5, <2>1, ReleaseDmaMappings, Zenon DEF DropHandle
  <2>2. CASE ~ReleaseDma(h)
    BY <1>1, <1>5, <2>2, Zenon DEF DropHandle, ReleaseRegion, ReleaseInterrupt, ReleaseRevoked
  <2> QED
    BY <2>1, <2>2, Zenon
<1>6. CASE Reset
  <2>1. CASE ResetIrqsFail
    BY <1>1, <1>6, <2>1, Zenon DEF Reset, ResetIrqsFail
  <2>2. CASE ResetDmasFail
    BY <1>6, <2>2, RevokedMappings, Zenon DEF Reset, ResetDmasFail
  <2>3. CASE ResetIoctlFails
    BY <1>1, <1>6, <2>3, RevokedMappings, Zenon DEF Reset, ResetIoctlFails
  <2>4. CASE ResetOk
    BY <1>6, <2>4, RevokedMappings, NoMappings, Zenon DEF Reset, ResetOk
  <2> QED
    BY <1>6, <2>1, <2>2, <2>3, <2>4, Zenon DEF Reset
<1>7. CASE OpenRegion \/ \E v \in Vectors : OpenInterrupt(v) \/ DisableVector(v)
  BY <1>1, <1>7, Zenon DEF OpenRegion, OpenInterrupt, DisableVector, kernel
<1>8. CASE \E h \in DOMAIN handles : PollPending(h) \/ PollReady(h) \/ DisableInterrupt(h)
  BY <1>1, <1>8, Zenon DEF PollPending, PollReady, DisableInterrupt, kernel
<1> QED
  BY <1>2, <1>3, <1>4, <1>5, <1>6, <1>7, <1>8, Zenon DEF SessionNext
-----------------------------------------------------------------------------
(* The interrupts: a vector that is installed, disarmed or left in doubt. *)
LEMMA OpenedInterrupts ==
    ASSUME SessionInv, NEW v \in Vectors, OpenInterrupt(v)
    PROVE  InterruptsSound'
<1> DEFINE line == [vector |-> v, installed |-> TRUE]
<1>1. /\ \A h \in DOMAIN interrupts : interrupts[h] \in Lines
      /\ kirq \subseteq Vectors /\ IsFiniteSet(ambiguous) /\ InterruptsTracked
      /\ next_id \notin DOMAIN interrupts
  BY SessionFacts, Zenon DEF SessionInv, InterruptsSound, Known
<1>2. line \in Lines /\ line.vector = v /\ line.installed
  BY Zenon DEF Lines
<1>3. \/ /\ interrupts' = Added(interrupts, next_id, line) /\ ambiguous' = ambiguous \ {IndexOf(v)}
         /\ kirq' = kirq \cup {v}
      \/ /\ interrupts' = interrupts /\ ambiguous' = ambiguous \cup {IndexOf(v)}
         /\ kirq' \subseteq kirq \cup {v}
  BY Zenon DEF OpenInterrupt, Ambiguous
<1> HIDE DEF line
<1>4. IsFiniteSet(ambiguous \ {IndexOf(v)}) /\ IsFiniteSet(ambiguous \cup {IndexOf(v)})
  BY <1>1, FS_AddElement, FS_RemoveElement, Zenon
<1>5. CASE /\ interrupts' = Added(interrupts, next_id, line)
           /\ ambiguous' = ambiguous \ {IndexOf(v)} /\ kirq' = kirq \cup {v}
  <2>1. /\ DOMAIN interrupts' = DOMAIN interrupts \cup {next_id} /\ interrupts'[next_id] = line
        /\ \A h \in DOMAIN interrupts : interrupts'[h] = interrupts[h]
    BY <1>1, <1>5, Zenon DEF Added
  <2>2. InterruptsTracked'
    <3> SUFFICES ASSUME NEW w \in kirq', IndexOf(w) \notin ambiguous'
                 PROVE  \E h \in DOMAIN interrupts' :
                           interrupts'[h].installed /\ interrupts'[h].vector = w
      BY Zenon DEF InterruptsTracked, IndexOf
    <3>1. CASE w = v
      BY <1>2, <2>1, <3>1, Zenon
    <3>2. CASE w # v
      <4>1. w \in kirq /\ w \in Vectors /\ IndexOf(w) # IndexOf(v)
        BY <1>1, <1>5, <3>2, SessionAssumption, Zenon
      <4>2. IndexOf(w) \notin ambiguous
        BY <1>5, <4>1, Zenon
      <4> QED
        BY <1>1, <2>1, <4>1, <4>2, Zenon DEF InterruptsTracked
    <3> QED
      BY <3>1, <3>2, Zenon
  <2> QED
    BY <1>1, <1>2, <1>4, <1>5, <2>1, <2>2, Zenon DEF InterruptsSound
<1>6. CASE /\ interrupts' = interrupts /\ ambiguous' = ambiguous \cup {IndexOf(v)}
           /\ kirq' \subseteq kirq \cup {v}
  BY <1>1, <1>4, <1>6, Zenon DEF InterruptsSound, InterruptsTracked, IndexOf
<1> QED
  BY <1>3, <1>5, <1>6, Zenon

(* A vector is disarmed: fewer are armed, by their interrupt or their index. *)
LEMMA DisarmedInterrupts ==
    ASSUME SessionInv, kirq' \subseteq kirq, IsFiniteSet(ambiguous'),
           \A h \in DOMAIN interrupts' : interrupts'[h] \in Lines,
           \A v \in kirq' : IndexOf(v) \in ambiguous => IndexOf(v) \in ambiguous',
           \A v \in kirq' : \A h \in DOMAIN interrupts :
              interrupts[h].installed /\ interrupts[h].vector = v =>
                 \E x \in DOMAIN interrupts' : interrupts'[x].installed /\ interrupts'[x].vector = v
    PROVE  InterruptsSound'
<1>1. kirq \subseteq Vectors /\ InterruptsTracked
  BY Zenon DEF SessionInv, InterruptsSound
<1>2. InterruptsTracked'
  <2> SUFFICES ASSUME NEW v \in kirq'
               PROVE  \/ IndexOf(v) \in ambiguous'
                      \/ \E x \in DOMAIN interrupts' :
                            interrupts'[x].installed /\ interrupts'[x].vector = v
    BY Zenon DEF InterruptsTracked, IndexOf
  <2> QED
    BY <1>1, Zenon DEF InterruptsTracked
<1> QED
  BY <1>1, <1>2, Zenon DEF InterruptsSound

(* Interrupt::disable (VfioIrq::disable). *)
LEMMA DisabledInterrupt ==
    ASSUME SessionInv, NEW g, DisableInterrupt(g)
    PROVE  InterruptsSound'
<1> DEFINE no == FALSE
           line == [interrupts[g] EXCEPT !.installed = no]
<1>1. /\ \A h \in DOMAIN interrupts : interrupts[h] \in Lines
      /\ IsFiniteSet(ambiguous) /\ g \in DOMAIN interrupts /\ ambiguous' = ambiguous
      /\ no \in BOOLEAN
  BY Zenon DEF SessionInv, InterruptsSound, DisableInterrupt
<1>2. \/ /\ interrupts' = [interrupts EXCEPT ![g] = line]
         /\ kirq' = kirq \ {interrupts[g].vector}
      \/ UNCHANGED <<interrupts, kirq>>
  BY Zenon DEF DisableInterrupt
<1> HIDE DEF no
<1>3. line \in Lines
  BY <1>1, Zenon DEF Lines
<1> HIDE DEF line
<1>4. CASE interrupts' = [interrupts EXCEPT ![g] = line] /\ kirq' = kirq \ {interrupts[g].vector}
  <2>1. /\ DOMAIN interrupts' = DOMAIN interrupts /\ interrupts'[g] = line
        /\ \A h \in DOMAIN interrupts : h # g => interrupts'[h] = interrupts[h]
    BY <1>1, <1>4, Zenon
  <2> QED
    BY <1>1, <1>3, <1>4, <2>1, DisarmedInterrupts, Zenon
<1>5. CASE UNCHANGED <<interrupts, kirq>>
  BY <1>1, <1>5, DisarmedInterrupts, Zenon
<1> QED
  BY <1>2, <1>4, <1>5, Zenon

(* release_interrupt, of an interrupt whose handle is dropped. *)
LEMMA ReleasedInterrupt ==
    ASSUME SessionInv, NEW g, ReleaseInterrupt(g), ambiguous' = ambiguous
    PROVE  InterruptsSound'
<1>1. /\ \A h \in DOMAIN interrupts : interrupts[h] \in Lines
      /\ IsFiniteSet(ambiguous) /\ g \in DOMAIN interrupts
  BY Zenon DEF SessionInv, InterruptsSound, ReleaseInterrupt
<1>2. CASE /\ interrupts' = Without(interrupts, {g})
           /\ kirq' = IF interrupts[g].installed THEN kirq \ {interrupts[g].vector} ELSE kirq
  <2>1. /\ DOMAIN interrupts' = DOMAIN interrupts \ {g}
        /\ \A h \in DOMAIN interrupts' : interrupts'[h] = interrupts[h]
    BY <1>2, Zenon DEF Without
  <2> QED
    BY <1>1, <1>2, <2>1, DisarmedInterrupts, Zenon
<1>3. CASE UNCHANGED <<interrupts, kirq>>
  BY <1>1, <1>3, DisarmedInterrupts, Zenon
<1> QED
  BY <1>2, <1>3, Zenon DEF ReleaseInterrupt

(* revoke_interrupts. *)
LEMMA RevokedInterrupts ==
    ASSUME SessionInv, NEW badIndex, badIndex \subseteq ambiguous, NEW badIrq,
           RevokeInterrupts(badIndex, badIrq)
    PROVE  InterruptsSound' /\ (badIndex = {} /\ badIrq = {} => kirq' = {})
<1>1. /\ \A h \in DOMAIN interrupts : interrupts[h] \in Lines
      /\ IsFiniteSet(ambiguous) /\ InterruptsTracked
  BY Zenon DEF SessionInv, InterruptsSound
<1>2. /\ ambiguous' = badIndex /\ interrupts' = [h \in badIrq |-> interrupts[h]]
      /\ badIrq \subseteq DOMAIN interrupts
  BY Zenon DEF RevokeInterrupts
<1>3. /\ kirq' \subseteq kirq
      /\ \A v \in kirq' : IndexOf(v) \in ambiguous => IndexOf(v) \in badIndex
      /\ \A v \in kirq' : \A h \in DOMAIN interrupts :
            interrupts[h].installed /\ interrupts[h].vector = v => h \in badIrq
  BY Zenon DEF RevokeInterrupts, RevokedIrqs
<1>4. DOMAIN interrupts' = badIrq /\ \A h \in badIrq : interrupts'[h] = interrupts[h]
  BY <1>2, Zenon
<1>5. IsFiniteSet(badIndex)
  BY <1>1, FS_Subset, Zenon
<1>6. InterruptsSound'
  BY <1>1, <1>2, <1>3, <1>4, <1>5, DisarmedInterrupts, Zenon
<1>7. badIndex = {} /\ badIrq = {} => kirq' = {}
  BY <1>1, <1>3, Zenon DEF InterruptsTracked
<1> QED
  BY <1>6, <1>7, Zenon

(* Every step keeps the interrupts sound. *)
LEMMA InterruptsStep ==
    ASSUME SessionInv, SessionNext
    PROVE  InterruptsSound'
<1>1. ASSUME UNCHANGED <<interrupts, kirq, ambiguous>> PROVE InterruptsSound'
  <2>1. InterruptsSound
    BY Zenon DEF SessionInv
  <2> QED
    BY <1>1, <2>1, Zenon DEF InterruptsSound, InterruptsTracked, IndexOf
<1>2. CASE \E v \in Vectors : OpenInterrupt(v)
  BY <1>2, OpenedInterrupts, Zenon
<1>3. CASE \E v \in Vectors : DisableVector(v)
  <2>1. PICK v \in Vectors : DisableVector(v)
    BY <1>3, Zenon
  <2>2. IsFiniteSet(ambiguous \ {IndexOf(v)}) /\ IsFiniteSet(ambiguous \cup {IndexOf(v)})
    BY FS_AddElement, FS_RemoveElement, Zenon DEF SessionInv, InterruptsSound
  <2>3. /\ UNCHANGED interrupts /\ kirq' \subseteq kirq /\ IsFiniteSet(ambiguous')
        /\ \A w \in kirq' : IndexOf(w) \in ambiguous => IndexOf(w) \in ambiguous'
    BY <2>1, <2>2, Zenon DEF DisableVector, Armed
  <2> QED
    BY <2>3, DisarmedInterrupts, Zenon DEF SessionInv, InterruptsSound
<1>4. CASE \E h \in DOMAIN handles : DisableInterrupt(h)
  BY <1>4, DisabledInterrupt, Zenon
<1>5. ASSUME NEW h \in DOMAIN handles, DropHandle(h) PROVE InterruptsSound'
  <2>1. CASE ReleaseInterrupt(h)
    BY <1>5, <2>1, ReleasedInterrupt, Zenon DEF DropHandle
  <2>2. CASE ~ReleaseInterrupt(h)
    BY <1>1, <1>5, <2>2, Zenon DEF DropHandle, ReleaseRegion, ReleaseDma, ReleaseRevoked
  <2> QED
    BY <2>1, <2>2, Zenon
<1>6. CASE Reset
  <2>1. \E badIndex, badIrq : badIndex \subseteq ambiguous /\ RevokeInterrupts(badIndex, badIrq)
    BY <1>6, Zenon DEF Reset, ResetIrqsFail, ResetDmasFail, ResetIoctlFails, ResetOk, ResetRevoking
  <2> QED
    BY <2>1, RevokedInterrupts, Zenon
<1>7. CASE Close
  BY <1>7, FS_EmptySet, Zenon DEF Close, InterruptsSound, InterruptsTracked, None
<1>8. CASE \/ OpenRegion \/ \E pages \in 1..2 : AllocIoas(pages)
           \/ \E kind \in {"coherent", "streaming"} : AllocBroker(kind)
           \/ \E h \in DOMAIN handles : PollPending(h) \/ PollReady(h)
  BY <1>1, <1>8, Zenon DEF OpenRegion, AllocIoas, AllocBroker, PollPending, PollReady, kernel
<1> QED
  BY <1>2, <1>3, <1>4, <1>5, <1>6, <1>7, <1>8 DEF SessionNext
-----------------------------------------------------------------------------
(* Handles and whoever waits on them. *)
LEMMA OpenedWaiters ==
    ASSUME SessionInv, UNCHANGED <<session_generation, waiters, parked, woken>>,
           DOMAIN interrupts \subseteq DOMAIN interrupts',
           handles' = Added(handles, next_id, session_generation)
    PROVE  WaitersSound'
<1>1. WaitersSound /\ DOMAIN handles \subseteq Tokens /\ next_id \notin DOMAIN handles
  BY SessionFacts, Zenon DEF SessionInv, Known
<1>2. /\ DOMAIN handles' = DOMAIN handles \cup {next_id} /\ handles'[next_id] = session_generation
      /\ \A h \in DOMAIN handles : handles'[h] = handles[h]
  BY <1>1, Zenon DEF Added
<1>3. session_generation \in 1..session_generation
  BY DEF SessionInv, Ranges
<1>4. \A h : HandleCurrent(h) => HandleCurrent(h)'
  BY <1>2, Zenon DEF HandleCurrent
<1>5. NoLostWakeup'
  BY <1>1, <1>4, Zenon DEF WaitersSound, NoLostWakeup
<1> QED
  BY <1>1, <1>2, <1>3, <1>4, <1>5, Zenon DEF WaitersSound

(* Nothing about the waiters changes, and no interrupt goes away. *)
LEMMA SameWaiters ==
    ASSUME SessionInv, UNCHANGED <<session_generation, waiters, parked, woken, handles>>,
           DOMAIN interrupts \subseteq DOMAIN interrupts'
    PROVE  WaitersSound'
<1>1. WaitersSound
  BY Zenon DEF SessionInv
<1>2. \A h : HandleCurrent(h) => HandleCurrent(h)'
  BY Zenon DEF HandleCurrent
<1> QED
  BY <1>1, <1>2, Zenon DEF WaitersSound, NoLostWakeup

(* Interrupt::next registers its waker, or is done. *)
LEMMA PolledWaiters ==
    ASSUME SessionInv, NEW g \in DOMAIN handles, PollPending(g) \/ PollReady(g)
    PROVE  WaitersSound'
<1>1. WaitersSound
  BY Zenon DEF SessionInv
<1>2. UNCHANGED <<session_generation, handles, interrupts>>
  BY Zenon DEF PollPending, PollReady
<1>3. \A h : HandleCurrent(h) <=> HandleCurrent(h)'
  BY <1>2, Zenon DEF HandleCurrent
<1>4. CASE PollPending(g)
  BY <1>1, <1>2, <1>3, <1>4, Zenon DEF PollPending, WaitersSound, NoLostWakeup
<1>5. CASE PollReady(g)
  BY <1>1, <1>2, <1>3, <1>5, Zenon DEF PollReady, WaitersSound, NoLostWakeup
<1> QED
  BY <1>4, <1>5, Zenon

(* A dropped handle takes its waiter with it. *)
LEMMA DroppedWaiters ==
    ASSUME SessionInv, NEW g \in DOMAIN handles, DropHandle(g)
    PROVE  WaitersSound'
<1>1. WaitersSound /\ Known
  BY Zenon DEF SessionInv
<1>2. /\ handles' = Without(handles, {g}) /\ parked' = parked \ {g} /\ woken' = woken \ {g}
      /\ UNCHANGED session_generation
  BY Zenon DEF DropHandle
<1>3. DOMAIN handles' = DOMAIN handles \ {g} /\ \A h \in DOMAIN handles' : handles'[h] = handles[h]
  BY <1>2, Zenon DEF Without
<1>4. \A h : HandleCurrent(h) /\ h # g => HandleCurrent(h)'
  BY <1>2, <1>3, Zenon DEF HandleCurrent
<1>5. waiters' = waiters \ {g}
  BY <1>1, Zenon DEF DropHandle, ReleaseRegion, ReleaseDma, ReleaseInterrupt, ReleaseRevoked, WaitersSound,
              Known
<1>6. DOMAIN interrupts \ {g} \subseteq DOMAIN interrupts'
  BY Zenon DEF DropHandle, ReleaseRegion, ReleaseDma, ReleaseInterrupt, ReleaseRevoked, Without
<1>7. NoLostWakeup'
  BY <1>1, <1>2, <1>4, <1>5, Zenon DEF WaitersSound, NoLostWakeup
<1>8. \A h \in waiters' : HandleCurrent(h)'
  BY <1>1, <1>4, <1>5, Zenon DEF WaitersSound
<1> QED
  BY <1>1, <1>2, <1>3, <1>5, <1>6, <1>7, <1>8, Zenon DEF WaitersSound

(* Every step keeps the waiters sound. *)
LEMMA WaitersStep ==
    ASSUME SessionInv, SessionNext
    PROVE  WaitersSound'
<1>1. CASE OpenRegion
  BY <1>1, OpenedWaiters, Zenon DEF OpenRegion
<1>2. CASE \E pages \in 1..2 : AllocIoas(pages)
  BY <1>2, OpenedWaiters, SameWaiters, Zenon DEF AllocIoas
<1>3. CASE \E kind \in {"coherent", "streaming"} : AllocBroker(kind)
  BY <1>3, OpenedWaiters, SameWaiters, Zenon DEF AllocBroker
<1>4. ASSUME NEW v \in Vectors, OpenInterrupt(v) PROVE WaitersSound'
  <2>1. DOMAIN interrupts \subseteq DOMAIN interrupts'
    BY <1>4, Zenon DEF OpenInterrupt, Added
  <2> QED
    BY <1>4, <2>1, OpenedWaiters, SameWaiters, Zenon DEF OpenInterrupt
<1>5. CASE \E v \in Vectors : DisableVector(v)
  BY <1>5, SameWaiters, Zenon DEF DisableVector, driver
<1>6. ASSUME NEW h \in DOMAIN handles, PollPending(h) \/ PollReady(h) PROVE WaitersSound'
  BY <1>6, PolledWaiters, Zenon
<1>7. ASSUME NEW h \in DOMAIN handles, DisableInterrupt(h) PROVE WaitersSound'
  <2>1. DOMAIN interrupts' = DOMAIN interrupts
    BY <1>7, Zenon DEF DisableInterrupt
  <2> QED
    BY <1>7, <2>1, SameWaiters, Zenon DEF DisableInterrupt, driver
<1>8. ASSUME NEW h \in DOMAIN handles, DropHandle(h) PROVE WaitersSound'
  BY <1>8, DroppedWaiters, Zenon
<1>9. CASE Reset
  <2>1. /\ session_generation' = session_generation + 1 /\ waiters' = {}
        /\ woken' = woken \cup waiters /\ UNCHANGED <<handles, parked>>
    BY <1>9, Zenon DEF Reset, ResetIrqsFail, ResetDmasFail, ResetIoctlFails, ResetOk, ResetRevoking
  <2>2. WaitersSound /\ session_generation \in Nat
    BY DEF SessionInv, Ranges
  <2>3. \A h \in DOMAIN handles : handles[h] \in 1..session_generation + 1
    BY <2>2 DEF WaitersSound
  <2> QED
    BY <2>1, <2>2, <2>3, Zenon DEF WaitersSound, NoLostWakeup
<1>10. CASE Close
  <2>1. parked' = {} /\ waiters' = {} /\ woken' = {} /\ DOMAIN handles' = {}
    BY <1>10, Zenon DEF Close, driver, SessionInv, WaitersSound
  <2> QED
    BY <2>1, Zenon DEF WaitersSound, NoLostWakeup
<1> QED
  BY <1>1, <1>2, <1>3, <1>4, <1>5, <1>6, <1>7, <1>8, <1>9, <1>10 DEF SessionNext
-----------------------------------------------------------------------------
(* Tokens: spent in order, and known to one table. *)
LEMMA TokensStep ==
    ASSUME SessionInv, next_id' = next_id \/ next_id' = next_id + 1
    PROVE  Tokens \subseteq Tokens' /\ (next_id' = next_id + 1 => next_id \in Tokens')
<1>1. next_id \in Nat \ {0}
  BY SessionFacts, Zenon
<1> QED
  BY <1>1 DEF Tokens

(* A new token is entered in one table. *)
LEMMA KnownOpened ==
    ASSUME SessionInv, next_id' = next_id + 1,
           regions' \subseteq regions \cup {next_id},
           DOMAIN dmas' \subseteq DOMAIN dmas \cup {next_id},
           DOMAIN quarantined' \subseteq DOMAIN quarantined \cup {next_id},
           DOMAIN interrupts' \subseteq DOMAIN interrupts \cup {next_id},
           DOMAIN handles' \subseteq DOMAIN handles \cup {next_id},
           rejected' \subseteq rejected \cup {next_id},
           next_id \in DOMAIN interrupts' => next_id \notin regions' \cup DOMAIN dmas',
           next_id \in DOMAIN dmas' => next_id \notin DOMAIN quarantined'
    PROVE  Known'
<1>1. Known /\ next_id \notin Tokens
  BY SessionFacts, Zenon DEF SessionInv
<1>2. Tokens \cup {next_id} \subseteq Tokens'
  BY TokensStep, Zenon
<1>3. /\ regions' \subseteq Tokens' /\ DOMAIN dmas' \subseteq Tokens'
      /\ DOMAIN quarantined' \subseteq Tokens' /\ DOMAIN interrupts' \subseteq Tokens'
      /\ DOMAIN handles' \subseteq Tokens' /\ rejected' \subseteq Tokens'
  BY <1>1, <1>2, Zenon DEF Known
<1>4. /\ regions' \cap DOMAIN interrupts' = {} /\ DOMAIN dmas' \cap DOMAIN interrupts' = {}
      /\ DOMAIN dmas' \cap DOMAIN quarantined' = {}
  BY <1>1 DEF Known
<1> QED
  BY <1>3, <1>4, Zenon DEF Known

(* Tokens are only given up. *)
LEMMA KnownReleased ==
    ASSUME SessionInv, next_id' = next_id, regions' \subseteq regions,
           DOMAIN dmas' \subseteq DOMAIN dmas,
           DOMAIN quarantined' \subseteq DOMAIN quarantined \cup DOMAIN dmas,
           DOMAIN interrupts' \subseteq DOMAIN interrupts, DOMAIN handles' \subseteq DOMAIN handles,
           rejected' \subseteq rejected, DOMAIN dmas' \cap DOMAIN quarantined' = {}
    PROVE  Known'
<1>1. Known /\ Tokens' = Tokens
  BY Zenon DEF SessionInv, Tokens
<1> QED
  BY <1>1, Zenon DEF Known

(* A reset gives up tokens only: what was mapped is quarantined. *)
LEMMA KnownReset ==
    ASSUME SessionInv, Reset
    PROVE  Known'
<1>1. /\ DOMAIN Revocable = DOMAIN dmas \cup DOMAIN quarantined
      /\ DOMAIN dmas \cap DOMAIN quarantined = {}
  BY SessionFacts, Zenon
<1>2. UNCHANGED <<next_id, next_iova, handles>>
  BY Zenon DEF Reset
<1>3. \A badIndex, badIrq :
        RevokeInterrupts(badIndex, badIrq) => DOMAIN interrupts' \subseteq DOMAIN interrupts
  BY Zenon DEF RevokeInterrupts
<1>4. DOMAIN interrupts' \subseteq DOMAIN interrupts
  BY <1>3, Zenon DEF Reset, ResetIrqsFail, ResetDmasFail, ResetIoctlFails, ResetOk, ResetRevoking
<1>5. CASE ResetIrqsFail
  BY <1>1, <1>2, <1>4, <1>5, KnownReleased, Zenon DEF ResetIrqsFail
<1>6. \A fail : RevokeDmas(fail) /\ UNCHANGED rejected =>
        DOMAIN dmas' = {} /\ DOMAIN quarantined' \subseteq DOMAIN Revocable
  BY <1>2, RevokedMappings, Zenon
<1>7. CASE ResetDmasFail
  <2>1. DOMAIN dmas' = {} /\ DOMAIN quarantined' \subseteq DOMAIN Revocable
    BY <1>6, <1>7, Zenon DEF ResetDmasFail
  <2> QED
    BY <1>1, <1>2, <1>4, <1>7, <2>1, KnownReleased, Zenon DEF ResetDmasFail
<1>8. CASE ResetIoctlFails
  <2>1. \/ UNCHANGED <<dmas, quarantined>>
        \/ DOMAIN dmas' = {} /\ DOMAIN quarantined' \subseteq DOMAIN Revocable
    BY <1>6, <1>8, Zenon DEF ResetIoctlFails
  <2> QED
    BY <1>1, <1>2, <1>4, <1>8, <2>1, KnownReleased DEF ResetIoctlFails
<1>9. CASE ResetOk
  <2>1. DOMAIN dmas' = {} /\ DOMAIN quarantined' \subseteq DOMAIN Revocable
    BY <1>6, <1>9, Zenon DEF ResetOk, None
  <2>2. regions' \subseteq regions /\ rejected' \subseteq rejected
    BY <1>9, Zenon DEF ResetOk
  <2> QED
    BY <1>1, <1>2, <1>4, <2>1, <2>2, KnownReleased
<1> QED
  BY <1>5, <1>7, <1>8, <1>9, Zenon DEF Reset

(* Dropping a handle forgets its token, or quarantines its mapping. *)
LEMMA KnownDropped ==
    ASSUME SessionInv, NEW g \in DOMAIN handles, DropHandle(g)
    PROVE  Known'
<1>1. /\ DOMAIN dmas \cap DOMAIN quarantined = {}
  BY SessionFacts, Zenon
<1>2. /\ UNCHANGED <<next_id, rejected>> /\ DOMAIN handles' \subseteq DOMAIN handles
  BY Zenon DEF DropHandle, Without
<1>3. CASE ReleaseDma(g)
  <2>1. /\ g \in DOMAIN dmas /\ dmas' = Without(dmas, {g}) /\ UNCHANGED <<regions, interrupts>>
        /\ quarantined' = quarantined \/ \E dma : quarantined' = Added(quarantined, g, dma)
    BY <1>3, Zenon DEF ReleaseDma, Quarantine
  <2>2. /\ DOMAIN dmas' = DOMAIN dmas \ {g}
        /\ DOMAIN quarantined' \subseteq DOMAIN quarantined \cup {g}
    BY <2>1, Zenon DEF Without, Added
  <2> QED
    BY <1>1, <1>2, <2>1, <2>2, KnownReleased, Zenon
<1>4. CASE ReleaseInterrupt(g)
  <2>1. DOMAIN interrupts' \subseteq DOMAIN interrupts
    BY <1>4, Zenon DEF ReleaseInterrupt, Without
  <2> QED
    BY <1>1, <1>2, <1>4, <2>1, KnownReleased, Zenon DEF ReleaseInterrupt
<1>5. CASE ReleaseRegion(g) \/ ReleaseRevoked(g)
  BY <1>1, <1>2, <1>5, KnownReleased, Zenon DEF ReleaseRegion, ReleaseRevoked
<1> QED
  BY <1>3, <1>4, <1>5, Zenon DEF DropHandle

(* Every step keeps a token in one table. *)
LEMMA KnownStep ==
    ASSUME SessionInv, SessionNext
    PROVE  Known'
<1>0. /\ next_id \notin regions /\ next_id \notin DOMAIN dmas /\ next_id \notin DOMAIN quarantined
      /\ next_id \notin DOMAIN interrupts
  BY SessionFacts, Zenon DEF SessionInv, Known
<1>1. ASSUME UNCHANGED <<regions, dmas, quarantined, handles, rejected>>,
             DOMAIN interrupts' = DOMAIN interrupts,
             next_id' = next_id \/ next_id' = next_id + 1
      PROVE  Known'
  <2>1. Known /\ next_id \notin Tokens
    BY SessionFacts, Zenon DEF SessionInv
  <2>2. CASE next_id' = next_id
    BY <1>1, <2>1, <2>2, KnownReleased, Zenon DEF Known
  <2>3. CASE next_id' = next_id + 1
    BY <1>1, <2>1, <2>3, KnownOpened, Zenon DEF Known
  <2> QED
    BY <1>1, <2>2, <2>3, Zenon
<1>2. CASE OpenRegion
  <2>1. DOMAIN handles' = DOMAIN handles \cup {next_id}
    BY <1>2, Zenon DEF OpenRegion, Added
  <2>2. /\ regions' = regions \cup {next_id} /\ next_id' = next_id + 1
        /\ UNCHANGED <<dmas, quarantined, interrupts, rejected>>
    BY <1>2, Zenon DEF OpenRegion, kernel
  <2>3. next_id \in Nat
    BY SessionFacts, Zenon
  <2> QED
    BY <1>0, <2>1, <2>2, <2>3, KnownOpened, Zenon
<1>3. ASSUME NEW pages \in 1..2, AllocIoas(pages) PROVE Known'
  <2>1. /\ UNCHANGED <<regions, quarantined, interrupts, rejected>> /\ next_id' = next_id + 1
        /\ \/ UNCHANGED <<dmas, handles>>
           \/ /\ \E dma : dmas' = Added(dmas, next_id, dma)
              /\ handles' = Added(handles, next_id, session_generation)
    BY <1>3, Zenon DEF AllocIoas
  <2>2. CASE UNCHANGED <<dmas, handles>>
    BY <1>1, <2>1, <2>2, Zenon
  <2>3. CASE /\ \E dma : dmas' = Added(dmas, next_id, dma)
             /\ handles' = Added(handles, next_id, session_generation)
    <3>1. DOMAIN handles' = DOMAIN handles \cup {next_id} /\ DOMAIN dmas' = DOMAIN dmas \cup {next_id}
      BY <2>3, Zenon DEF Added
    <3>2. next_id \in Nat
      BY SessionFacts, Zenon
    <3> QED
      BY <1>0, <2>1, <3>1, <3>2, KnownOpened, Zenon
  <2> QED
    BY <2>1, <2>2, <2>3, Zenon
<1>4. ASSUME NEW kind \in {"coherent", "streaming"}, AllocBroker(kind) PROVE Known'
  <2>1. UNCHANGED <<regions, interrupts>> /\ next_id' = next_id + 1 /\ next_id \in Nat
    BY <1>4, SessionFacts, Zenon DEF AllocBroker
  <2>2. \/ UNCHANGED <<dmas, quarantined, handles, rejected>>
        \/ UNCHANGED <<dmas, quarantined, handles>> /\ rejected' = rejected \cup {next_id}
        \/ /\ \E dma : dmas' = Added(dmas, next_id, dma)
           /\ handles' = Added(handles, next_id, session_generation)
           /\ UNCHANGED <<quarantined, rejected>>
        \/ /\ \E dma : quarantined' = Added(quarantined, next_id, dma)
           /\ UNCHANGED <<dmas, handles, rejected>>
    BY <1>4, Zenon DEF AllocBroker
  <2>3. CASE UNCHANGED <<dmas, quarantined, handles, rejected>>
    BY <1>1, <2>1, <2>3, Zenon
  <2>4. CASE UNCHANGED <<dmas, quarantined, handles>> /\ rejected' = rejected \cup {next_id}
    BY <1>0, <2>1, <2>4, KnownOpened, Zenon
  <2>5. CASE /\ \E dma : dmas' = Added(dmas, next_id, dma)
             /\ handles' = Added(handles, next_id, session_generation)
             /\ UNCHANGED <<quarantined, rejected>>
    <3>1. DOMAIN handles' = DOMAIN handles \cup {next_id} /\ DOMAIN dmas' = DOMAIN dmas \cup {next_id}
      BY <2>5, Zenon DEF Added
    <3> QED
      BY <1>0, <2>1, <2>5, <3>1, KnownOpened, Zenon
  <2>6. CASE /\ \E dma : quarantined' = Added(quarantined, next_id, dma)
             /\ UNCHANGED <<dmas, handles, rejected>>
    <3>1. DOMAIN quarantined' = DOMAIN quarantined \cup {next_id}
      BY <2>6, Zenon DEF Added
    <3> QED
      BY <1>0, <2>1, <2>6, <3>1, KnownOpened, Zenon
  <2> QED
    BY <2>2, <2>3, <2>4, <2>5, <2>6
<1>5. ASSUME NEW v \in Vectors, OpenInterrupt(v) PROVE Known'
  <2>1. UNCHANGED <<regions, dmas, quarantined, rejected>>
    BY <1>5, Zenon DEF OpenInterrupt
  <2>2. \/ UNCHANGED <<interrupts, handles, next_id>>
        \/ /\ \E line : interrupts' = Added(interrupts, next_id, line)
           /\ handles' = Added(handles, next_id, session_generation)
           /\ next_id' = next_id + 1
    BY <1>5, Zenon DEF OpenInterrupt
  <2>3. CASE UNCHANGED <<interrupts, handles, next_id>>
    BY <1>1, <2>1, <2>3, Zenon
  <2>4. CASE /\ \E line : interrupts' = Added(interrupts, next_id, line)
             /\ handles' = Added(handles, next_id, session_generation)
             /\ next_id' = next_id + 1
    <3>1. /\ DOMAIN handles' = DOMAIN handles \cup {next_id} /\ next_id \in Nat
          /\ DOMAIN interrupts' = DOMAIN interrupts \cup {next_id}
      BY <2>4, SessionFacts, Zenon DEF Added
    <3> QED
      BY <1>0, <2>1, <2>4, <3>1, KnownOpened, Zenon
  <2> QED
    BY <2>2, <2>3, <2>4, Zenon
<1>6. CASE \E v \in Vectors : DisableVector(v)
  BY <1>1, <1>6, Zenon DEF DisableVector, driver
<1>7. CASE \E h \in DOMAIN handles : PollPending(h) \/ PollReady(h)
  BY <1>1, <1>7, Zenon DEF PollPending, PollReady, kernel
<1>8. ASSUME NEW h \in DOMAIN handles, DisableInterrupt(h) PROVE Known'
  <2>1. DOMAIN interrupts' = DOMAIN interrupts
    BY <1>8, Zenon DEF DisableInterrupt
  <2> QED
    BY <1>1, <1>8, <2>1 DEF DisableInterrupt, driver
<1>9. CASE Close
  <2>1. /\ DOMAIN dmas' = {} /\ DOMAIN quarantined' = {} /\ DOMAIN interrupts' = {}
        /\ regions' = {} /\ rejected' = {} /\ UNCHANGED <<handles, next_id>>
    BY <1>9, Zenon DEF Close, driver, None
  <2> QED
    BY <2>1, KnownReleased, Zenon
<1> QED
  BY <1>2, <1>3, <1>4, <1>5, <1>6, <1>7, <1>8, <1>9, KnownReset, KnownDropped DEF SessionNext
-----------------------------------------------------------------------------
(* A set of tokens, or of ambiguous indices, is finite: its size counts. *)
LEMMA CountedTokens ==
    ASSUME SessionInv, NEW S
    PROVE  /\ S \subseteq Tokens => Cardinality(S) \in Nat /\ (Cardinality(S) = 0 => S = {})
           /\ S \subseteq ambiguous => Cardinality(S) \in Nat /\ (Cardinality(S) = 0 => S = {})
<1>1. next_id - 1 \in Int /\ IsFiniteSet(ambiguous)
  BY DEF SessionInv, Ranges, InterruptsSound
<1>2. IsFiniteSet(Tokens)
  BY <1>1, FS_Interval DEF Tokens
<1>3. S \subseteq Tokens \/ S \subseteq ambiguous => IsFiniteSet(S)
  BY <1>1, <1>2, FS_Subset, Zenon
<1>4. IsFiniteSet(S) => Cardinality(S) \in Nat /\ (Cardinality(S) = 0 => S = {})
  BY FS_CardinalityType, FS_EmptySet, Zenon
<1> QED
  BY <1>3, <1>4, Zenon

(* A reset that does not finish counts its failures. *)
LEMMA ResetFaults ==
    ASSUME SessionInv, Reset
    PROVE  faults' \in 0..MaxFaults /\ (faults' = faults => ResetOk)
<1>1. faults \in 0..MaxFaults /\ MaxFaults \in Nat
  BY SessionAssumption, Zenon DEF SessionInv, Ranges
<1>2. ASSUME NEW n \in Nat, Fault(n) PROVE faults' \in 0..MaxFaults /\ (faults' = faults => n = 0)
  BY <1>1, <1>2 DEF Fault
<1>3. CASE ResetIrqsFail
  <2>1. PICK badIndex \in SUBSET ambiguous, badIrq \in SUBSET DOMAIN interrupts :
           badIndex \cup badIrq # {} /\ Fault(Cardinality(badIndex) + Cardinality(badIrq))
    BY <1>3, Zenon DEF ResetIrqsFail
  <2>2. Cardinality(badIndex) \in Nat /\ (Cardinality(badIndex) = 0 => badIndex = {})
    BY CountedTokens, Zenon
  <2>3. Cardinality(badIrq) \in Nat /\ (Cardinality(badIrq) = 0 => badIrq = {})
    BY CountedTokens, Zenon DEF SessionInv, Known
  <2> DEFINE n == Cardinality(badIndex) + Cardinality(badIrq)
  <2>4. n \in Nat /\ n # 0
    BY <2>1, <2>2, <2>3
  <2>5. Fault(n)
    BY <2>1, Zenon
  <2> HIDE DEF n
  <2> QED
    BY <1>2, <2>4, <2>5, Zenon
<1>4. CASE ResetDmasFail
  <2>1. PICK fail \in [DOMAIN Revocable -> {"no", "kernel", "memory"}] :
           Failed(fail) > 0 /\ Fault(Failed(fail))
    BY <1>4, Zenon DEF ResetDmasFail
  <2>2. {h \in DOMAIN fail : fail[h] # "no"} \subseteq Tokens
    BY <2>1, SessionFacts, Zenon
  <2>3. Failed(fail) \in Nat
    BY <2>2, CountedTokens, Zenon DEF Failed
  <2> QED
    BY <1>2, <2>1, <2>3
<1>5. CASE ResetIoctlFails
  BY <1>2, <1>5 DEF ResetIoctlFails
<1>6. CASE ResetOk
  BY <1>1, <1>6, Zenon DEF ResetOk
<1> QED
  BY <1>3, <1>4, <1>5, <1>6, Zenon DEF Reset

(* Every step stays within the bounds. *)
LEMMA RangesStep ==
    ASSUME SessionInv, SessionNext
    PROVE  Ranges'
<1>1. Ranges /\ MaxIds \in Nat /\ MaxFaults \in Nat /\ MaxGenerations \in Nat /\ Eventfds \in Nat
  BY SessionAssumption, Zenon DEF SessionInv
<1>2. ASSUME NEW n \in Nat, Fault(n) PROVE faults' \in 0..MaxFaults
  BY <1>1, <1>2 DEF Fault, Ranges
<1>3. CASE OpenRegion
  BY <1>1, <1>3 DEF OpenRegion, Open, Ranges, kernel
<1>4. ASSUME NEW pages \in 1..2, AllocIoas(pages) PROVE Ranges'
  <2>1. faults' \in 0..MaxFaults
    BY <1>1, <1>2, <1>4, Zenon DEF AllocIoas, Ranges
  <2>2. next_iova' \in Nat
    <3>1. Aligned(next_iova, pages) \in Nat
      <4>1. CASE pages = 1
        BY <1>1, <4>1 DEF Aligned, Ranges
      <4>2. CASE pages = 2
        BY <1>1, <4>2 DEF Aligned, Ranges
      <4> QED
        BY <4>1, <4>2
    <3> QED
      BY <1>1, <1>4, <3>1 DEF AllocIoas, NextIova, Ranges
  <2>3. /\ next_id <= MaxIds /\ next_id' = next_id + 1
        /\ UNCHANGED <<session_generation, prepared_irqs, closed>>
    BY <1>4, Zenon DEF AllocIoas, Open
  <2> QED
    BY <1>1, <2>1, <2>2, <2>3 DEF Ranges
<1>5. ASSUME NEW kind \in {"coherent", "streaming"}, AllocBroker(kind) PROVE Ranges'
  <2>1. faults' \in 0..MaxFaults
    BY <1>1, <1>2, <1>5, Zenon DEF AllocBroker, Ranges
  <2>2. /\ next_id <= MaxIds /\ next_id' = next_id + 1
        /\ UNCHANGED <<session_generation, next_iova, prepared_irqs, closed>>
    BY <1>5, Zenon DEF AllocBroker, Open
  <2> QED
    BY <1>1, <2>1, <2>2 DEF Ranges
<1>6. ASSUME NEW v \in Vectors, OpenInterrupt(v) PROVE Ranges'
  <2>1. faults' \in 0..MaxFaults
    BY <1>1, <1>2, <1>6, Zenon DEF OpenInterrupt, Ranges
  <2>2. /\ next_id <= MaxIds /\ next_id' \in {next_id, next_id + 1}
        /\ prepared_irqs > 0 /\ prepared_irqs' = prepared_irqs - 1
        /\ UNCHANGED <<session_generation, next_iova, closed>>
    BY <1>6, Zenon DEF OpenInterrupt, Open
  <2> QED
    BY <1>1, <2>1, <2>2 DEF Ranges
<1>7. ASSUME UNCHANGED <<session_generation, next_id, next_iova, prepared_irqs, closed>>,
             faults' \in 0..MaxFaults
      PROVE  Ranges'
  BY <1>1, <1>7, Zenon DEF Ranges
<1>8. CASE \E v \in Vectors : DisableVector(v)
  <2>1. faults' \in 0..MaxFaults
    BY <1>1, <1>2, <1>8, Zenon DEF DisableVector, Ranges
  <2> QED
    BY <1>7, <1>8, <2>1, Zenon DEF DisableVector
<1>9. CASE \E h \in DOMAIN handles : PollPending(h) \/ PollReady(h)
  BY <1>1, <1>7, <1>9, Zenon DEF PollPending, PollReady, kernel, Ranges
<1>10. ASSUME NEW h \in DOMAIN handles, DisableInterrupt(h) PROVE Ranges'
  <2>1. faults' \in 0..MaxFaults
    BY <1>1, <1>2, <1>10, Zenon DEF DisableInterrupt, Ranges
  <2> QED
    BY <1>7, <1>10, <2>1, Zenon DEF DisableInterrupt
<1>11. ASSUME NEW h \in DOMAIN handles, DropHandle(h) PROVE Ranges'
  <2>1. faults' = faults \/ Fault(1)
    BY <1>11, Zenon DEF DropHandle, ReleaseRegion, ReleaseDma, ReleaseInterrupt, ReleaseRevoked
  <2>2. faults' \in 0..MaxFaults
    BY <1>1, <1>2, <2>1, Zenon DEF Ranges
  <2> QED
    BY <1>7, <1>11, <2>2, Zenon DEF DropHandle
<1>12. CASE Reset
  <2>1. /\ session_generation < MaxGenerations /\ session_generation' = session_generation + 1
        /\ UNCHANGED <<next_id, next_iova, prepared_irqs, closed>>
    BY <1>12, Zenon DEF Reset, ResetIrqsFail, ResetDmasFail, ResetIoctlFails, ResetOk, ResetRevoking
  <2>2. faults' \in 0..MaxFaults
    BY <1>12, ResetFaults, Zenon
  <2> QED
    BY <1>1, <2>1, <2>2 DEF Ranges
<1>13. CASE Close
  BY <1>1, <1>13, Zenon DEF Close, Ranges
<1> QED
  BY <1>3, <1>4, <1>5, <1>6, <1>8, <1>9, <1>10, <1>11, <1>12, <1>13 DEF SessionNext

(* The invariant holds throughout. *)
LEMMA SessionInvariant == SessionSpec => []SessionInv
<1>1. SessionInv /\ [SessionNext]_sessionVars => SessionInv'
  <2> SUFFICES ASSUME SessionInv, [SessionNext]_sessionVars PROVE SessionInv'
    BY Zenon
  <2>1. CASE SessionNext
    BY <2>1, RangesStep, KnownStep, InterruptsStep, WaitersStep, MappingsStep, Zenon DEF SessionInv
  <2>2. CASE UNCHANGED sessionVars
    BY <2>2, Zenon DEF sessionVars, backend, driver, kernel, SessionInv, Ranges, Known, Tokens, InterruptsSound,
                InterruptsTracked, IndexOf, WaitersSound, HandleCurrent, NoLostWakeup, Revocable
  <2> QED
    BY <2>1, <2>2, Zenon
<1> QED
  BY <1>1, SessionStart, PTL DEF SessionSpec

(* For every number of eventfds, addresses, tokens, resets and failed      *)
(* ioctls: nothing the device can reach or interrupt with is forgotten,    *)
(* live mappings are disjoint and outlived by their memory, and no waiter  *)
(* is lost (release_dma_resource, revoke_interrupts, revoke_dmas, reset).  *)
THEOREM SessionIsTracked == SessionSpec => []SessionTracks
BY SessionInvariant, SessionTracked, PTL

(* A reset that returns Ok leaves no mapping and no armed vector, whatever *)
(* failed before it (LinuxVfio::reset).                                    *)
THEOREM ResetsClear == SessionSpec => ResetClears
<1>1. ASSUME SessionInv, Reset, faults' = faults
      PROVE  kdma' = {} /\ kirq' = {} /\ quarantined' = None
  <2>1. ResetOk
    BY <1>1, ResetFaults, Zenon
  <2>2. kirq' = {}
    <3>1. RevokeInterrupts({}, {})
      BY <2>1, Zenon DEF ResetOk, ResetRevoking
    <3> QED
      BY <1>1, <3>1, RevokedInterrupts, Zenon
  <2>3. CASE Flavor = "Broker"
    BY <2>1, <2>2, <2>3, Zenon DEF ResetOk
  <2>4. CASE Flavor # "Broker"
    <3> DEFINE fail == [h \in DOMAIN Revocable |-> "no"]
    <3>1. /\ quarantined' = [h \in {x \in DOMAIN Revocable : fail[x] # "no"} |->
                               Released(Revocable[h], fail[h]).dma]
          /\ kdma' = kdma \ {h \in DOMAIN Revocable : ~Released(Revocable[h], fail[h]).dma.held}
      BY <2>1, <2>4, Zenon DEF ResetOk, RevokeDmas
    <3>2. \A h \in DOMAIN Revocable : fail[h] = "no"
      BY Zenon
    <3> HIDE DEF fail
    <3>3. {x \in DOMAIN Revocable : fail[x] # "no"} = {}
      BY <3>2, Zenon
    <3>4. quarantined' = None
      BY <3>1, <3>3, Zenon DEF None
    <3>5. kdma \subseteq DOMAIN Revocable /\ \A h \in DOMAIN Revocable : Revocable[h] \in Dma
      BY <1>1, <2>4, SessionFacts, Zenon DEF MappingsSound
    <3> HIDE DEF Revocable
    <3>6. \A h \in DOMAIN Revocable : ~Released(Revocable[h], fail[h]).dma.held
      <4> SUFFICES ASSUME NEW h \in DOMAIN Revocable
                   PROVE  ~Released(Revocable[h], fail[h]).dma.held
        BY Zenon
      <4>1. /\ MappingsSound(Revocable, kdma, rejected, next_iova)
        BY <1>1, SessionFacts, Zenon
      <4>2. /\ Revocable[h] \in Dma
            /\ Revocable[h].held => Revocable[h].kind = "coherent" \/ Revocable[h].memory
        BY <4>1, Zenon DEF MappingsSound
      <4> QED
        BY <3>2, <4>2, ReleasedDma
    <3> QED
      BY <2>2, <3>1, <3>4, <3>5, <3>6
  <2> QED
    BY <2>3, <2>4, Zenon
<1>2. ASSUME SessionNext, ~Reset PROVE session_generation' = session_generation
  BY <1>2, Zenon DEF SessionNext, OpenRegion, AllocIoas, AllocBroker, OpenInterrupt, DisableVector,
              PollPending, PollReady, DisableInterrupt, DropHandle, Close
<1>3. SessionInv /\ [SessionNext]_sessionVars => [ResetStep]_sessionVars
  BY <1>1, <1>2, Zenon DEF ResetStep, sessionVars
<1> QED
  BY <1>3, SessionInvariant, PTL DEF SessionSpec, ResetClears
=============================================================================
