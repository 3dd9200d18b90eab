-------------------------- MODULE HardwareSession --------------------------
(***************************************************************************)
(* One opened VFIO device: the LinuxVfio backend                           *)
(* (hardware-backends/src/linux_vfio.rs, over userspace-vfio/src/lib.rs)   *)
(* and the generation-checked handles a driver holds on it                 *)
(* (hardware-api/src/lib.rs).                                              *)
(*                                                                         *)
(* kdma and kirq are the kernel's own state: the mappings the device can   *)
(* reach and the vectors that are armed.  Every ioctl may fail; installing *)
(* an interrupt may fail after it took effect, which is what the code      *)
(* calls an ambiguous index.  Failures are counted by faults, up to        *)
(* MaxFaults.                                                              *)
(***************************************************************************)
EXTENDS Integers, FiniteSets

CONSTANTS
    Flavor,     \* "Pci", "Platform" (both IOAS) or "Broker"
    Vectors,    \* interrupt vectors the driver may open
    Eventfds,   \* eventfds made before lockdown
    MaxIova,    \* max_device_address, in pages
    MaxIds,     \* bound on backend tokens
    MaxGenerations, \* bound on resets
    MaxFaults   \* bound on failed ioctls

VARIABLES
    session_generation, next_id, next_iova, prepared_irqs,
    regions,            \* tokens of mapped regions
    dmas, quarantined,  \* token -> [kind, first, last, held, memory]
    interrupts,         \* token -> [vector, installed]
    ambiguous,          \* ambiguous_irq_indices
    waiters,            \* tokens with a registered waker
    handles,            \* token -> generation, of every handle alive
    parked,             \* tokens with a suspended Interrupt::next
    woken,              \* those of them that were woken
    kdma, kirq,         \* kernel: reachable mappings, armed vectors
    rejected,           \* kernel mappings refused by alloc_dma_constrained
    faults, closed

backend == <<session_generation, next_id, next_iova, prepared_irqs, regions,
             dmas, quarantined, interrupts, ambiguous, waiters>>
driver == <<handles, parked, woken>>
kernel == <<kdma, kirq, rejected, faults>>
sessionVars == <<backend, driver, kernel, closed>>

None == [h \in {} |-> {}]
Without(f, S) == [x \in DOMAIN f \ S |-> f[x]]
Added(f, h, v) == [x \in DOMAIN f \cup {h} |-> IF x = h THEN v ELSE f[x]]
Merged(f, g) ==
    [x \in DOMAIN f \cup DOMAIN g |-> IF x \in DOMAIN f THEN f[x] ELSE g[x]]

SessionInit ==
    /\ session_generation = 1 /\ next_id = 1 /\ next_iova = 1
    /\ prepared_irqs = Eventfds
    /\ regions = {} /\ dmas = None /\ quarantined = None
    /\ interrupts = None /\ ambiguous = {} /\ waiters = {}
    /\ handles = None /\ parked = {} /\ woken = {}
    /\ kdma = {} /\ kirq = {} /\ rejected = {} /\ faults = 0
    /\ closed = FALSE

(* The VFIO index of a vector: one MSI-X index for all vectors of a PCI    *)
(* device, an index per line on a platform device.                         *)
IndexOf(v) == IF Flavor = "Pci" THEN 0 ELSE v
Armed(index) == {v \in kirq : IndexOf(v) = index}

(* A driver opens one vector of an index: mt7921 the first MSI vector of   *)
(* its PCI function, ath11k the lines of its platform device.              *)
ASSUME SessionAssumption ==
    /\ Flavor \in {"Pci", "Platform", "Broker"}
    /\ \A v, w \in Vectors : IndexOf(v) = IndexOf(w) => v = w
    /\ Eventfds \in Nat /\ MaxIova \in Nat /\ MaxIds \in Nat
    /\ MaxFaults \in Nat
    /\ MaxGenerations \in Nat \ {0}

(* The current() check that every handle operation starts with. *)
HandleCurrent(h) == h \in DOMAIN handles /\ handles[h] = session_generation

Open == ~closed /\ next_id <= MaxIds
Fault(n) == faults + n <= MaxFaults /\ faults' = faults + n
-----------------------------------------------------------------------------
(* Device::open_region. *)
OpenRegion ==
    /\ Open
    /\ regions' = regions \cup {next_id}
    /\ handles' = Added(handles, next_id, session_generation)
    /\ next_id' = next_id + 1
    /\ UNCHANGED <<session_generation, next_iova, prepared_irqs, dmas,
                   quarantined, interrupts, ambiguous, waiters, parked,
                   woken, kernel, closed>>

(* aligned(next_iova, alignment), and the last page of the mapping. *)
Aligned(value, alignment) == ((value + alignment - 1) \div alignment) * alignment

(* What a resource is after release_dma_resource, and whether it returned  *)
(* Ok, for each place it may fail.  "held" is mapping.mapped (IOAS) or     *)
(* broker_handle (broker); "memory" is the userspace mapping.  A shared    *)
(* coherent mapping goes before FREE, streaming memory after UNMAP.        *)
Released(dma, fail) ==
    [ok |-> fail = "no",
     dma |-> CASE fail = "no" -> [dma EXCEPT !.held = FALSE, !.memory = FALSE]
               [] fail = "kernel" /\ dma.kind = "coherent" ->
                    [dma EXCEPT !.memory = FALSE]
               [] fail = "memory" /\ dma.kind # "coherent" ->
                    [dma EXCEPT !.held = FALSE]
               [] OTHER -> dma]

(* Where a release can fail: DmaMapping::teardown is Ok once unmapped, a   *)
(* broker handle or a mapping already gone is not touched again.           *)
Failures(dma) ==
    {"no"} \cup (IF dma.held THEN {"kernel"} ELSE {})
           \cup (IF dma.memory /\ (dma.kind # "ioas" \/ dma.held)
                 THEN {"memory"} ELSE {})

(* Device::alloc_coherent / alloc_streaming: DmaBuffer::allocate over      *)
(* alloc_dma_constrained with an IOAS.  The token is spent even on error.  *)
NextIova(last) == last + 1

AllocIoas(pages) ==
    /\ Open /\ Flavor # "Broker"
    /\ next_id' = next_id + 1
    /\ LET first == Aligned(next_iova, pages)
           last == first + pages - 1
       IN  \/ /\ last <= MaxIova
              /\ next_iova' = NextIova(last)
              /\ dmas' = Added(dmas, next_id,
                   [kind |-> "ioas", first |-> first, last |-> last,
                    held |-> TRUE, memory |-> TRUE])
              /\ kdma' = kdma \cup {next_id}
              /\ handles' = Added(handles, next_id, session_generation)
              /\ UNCHANGED faults
           \/ /\ UNCHANGED <<next_iova, dmas, kdma, handles>>
              /\ IF last > MaxIova THEN UNCHANGED faults ELSE Fault(1)
    /\ UNCHANGED <<session_generation, prepared_irqs, regions, quarantined,
                   interrupts, ambiguous, waiters, parked, woken, kirq,
                   rejected, closed>>

(* The same through the DMA broker: an answer that is out of bounds, or    *)
(* whose memory cannot be mapped, is given back, whether or not that       *)
(* succeeds; a failed first sync_for_device releases the allocation.       *)
AllocBroker(kind) ==
    /\ Open /\ Flavor = "Broker"
    /\ next_id' = next_id + 1
    /\ LET dma == [kind |-> kind, first |-> next_id, last |-> next_id,
                   held |-> TRUE, memory |-> TRUE]
       IN  \/ /\ dmas' = Added(dmas, next_id, dma)
              /\ kdma' = kdma \cup {next_id}
              /\ handles' = Added(handles, next_id, session_generation)
              /\ UNCHANGED <<quarantined, rejected, faults>>
           \/ Fault(1) /\ UNCHANGED <<dmas, kdma, handles, quarantined, rejected>>
           \/ /\ Fault(2)
              /\ kdma' = kdma \cup {next_id}
              /\ rejected' = rejected \cup {next_id}
              /\ UNCHANGED <<dmas, handles, quarantined>>
           \/ \E fail \in Failures(dma) \ {"no"} :
                /\ kind = "streaming" /\ Fault(2)
                /\ quarantined' =
                     Added(quarantined, next_id, Released(dma, fail).dma)
                /\ kdma' = IF Released(dma, fail).dma.held
                           THEN kdma \cup {next_id} ELSE kdma
                /\ UNCHANGED <<dmas, handles, rejected>>
    /\ UNCHANGED <<session_generation, next_iova, prepared_irqs, regions,
                   interrupts, ambiguous, waiters, parked, woken, kirq,
                   closed>>
-----------------------------------------------------------------------------
(* Device::open_interrupt.  The index is ambiguous from before the install *)
(* until the interrupt is recorded; a failed install may have armed it.    *)
Ambiguous_AfterInstall(index) == ambiguous

Ambiguous(index) == ambiguous \cup {index}

OpenInterrupt(v) ==
    /\ Open /\ prepared_irqs > 0
    /\ prepared_irqs' = prepared_irqs - 1
    /\ \/ /\ interrupts' =
               Added(interrupts, next_id, [vector |-> v, installed |-> TRUE])
          /\ ambiguous' = ambiguous \ {IndexOf(v)}
          /\ kirq' = kirq \cup {v}
          /\ handles' = Added(handles, next_id, session_generation)
          /\ next_id' = next_id + 1
          /\ UNCHANGED faults
       \/ /\ Fault(1)
          /\ ambiguous' = Ambiguous(IndexOf(v))
          /\ kirq' \in {kirq, kirq \cup {v}}
          /\ UNCHANGED <<interrupts, handles, next_id>>
    /\ UNCHANGED <<session_generation, next_iova, regions, dmas, quarantined,
                   waiters, parked, woken, kdma, rejected, closed>>

(* Interrupt::next, suspended because the eventfd has nothing. *)
PollPending(h) ==
    /\ HandleCurrent(h) /\ h \in DOMAIN interrupts
    /\ parked' = parked \cup {h}
    /\ woken' = woken \ {h}
    /\ waiters' = waiters \cup {h}
    /\ UNCHANGED <<session_generation, next_id, next_iova, prepared_irqs,
                   regions, dmas, quarantined, interrupts, ambiguous,
                   handles, kernel, closed>>

(* Interrupt::next completes: the eventfd fired, or the handle is stale.   *)
PollReady(h) ==
    /\ h \in parked
    /\ HandleCurrent(h) => h \in DOMAIN interrupts /\ interrupts[h].vector \in kirq
    /\ parked' = parked \ {h} /\ woken' = woken \ {h}
    /\ waiters' = IF HandleCurrent(h) THEN waiters \ {h} ELSE waiters
    /\ UNCHANGED <<session_generation, next_id, next_iova, prepared_irqs,
                   regions, dmas, quarantined, interrupts, ambiguous,
                   handles, kernel, closed>>

(* Interrupt::disable and disable_interrupt: VfioIrq::disable disarms its  *)
(* own vector and only once.                                               *)
DisableInterrupt(h) ==
    /\ HandleCurrent(h) /\ h \in DOMAIN interrupts /\ interrupts[h].installed
    /\ \/ /\ interrupts' = [interrupts EXCEPT ![h].installed = FALSE]
          /\ kirq' = kirq \ {interrupts[h].vector}
          /\ UNCHANGED faults
       \/ Fault(1) /\ UNCHANGED <<interrupts, kirq>>
    /\ UNCHANGED <<session_generation, next_id, next_iova, prepared_irqs,
                   regions, dmas, quarantined, ambiguous, waiters, driver,
                   kdma, rejected, closed>>

(* Device::disable_interrupt_vector: by index, whoever holds it. *)
DisableVector(v) ==
    /\ ~closed
    /\ \/ /\ kirq' = kirq \ Armed(IndexOf(v))
          /\ ambiguous' = ambiguous \ {IndexOf(v)}
          /\ UNCHANGED faults
       \/ /\ Fault(1)
          /\ ambiguous' = ambiguous \cup {IndexOf(v)}
          /\ UNCHANGED kirq
    /\ UNCHANGED <<session_generation, next_id, next_iova, prepared_irqs,
                   regions, dmas, quarantined, interrupts, waiters, driver,
                   kdma, rejected, closed>>
-----------------------------------------------------------------------------
(* Dropping a handle: the backend releases the token, quarantining a       *)
(* mapping and keeping an interrupt that could not be released.            *)
ReleaseRegion(h) ==
    /\ h \in regions
    /\ regions' = regions \ {h}
    /\ UNCHANGED <<dmas, quarantined, interrupts, waiters, kdma, kirq,
                   faults>>

Quarantine(h, dma) == Added(quarantined, h, dma)

ReleaseDma(h) ==
    /\ h \in DOMAIN dmas
    /\ dmas' = Without(dmas, {h})
    /\ \E fail \in Failures(dmas[h]) :
         LET r == Released(dmas[h], fail)
         IN  /\ quarantined' = IF r.ok THEN quarantined
                               ELSE Quarantine(h, r.dma)
             /\ kdma' = IF r.dma.held THEN kdma ELSE kdma \ {h}
             /\ IF r.ok THEN UNCHANGED faults ELSE Fault(1)
    /\ UNCHANGED <<regions, interrupts, waiters, kirq>>

ReleaseInterrupt(h) ==
    /\ h \in DOMAIN interrupts
    /\ waiters' = waiters \ {h}
    /\ \/ /\ interrupts' = Without(interrupts, {h})
          /\ kirq' = IF interrupts[h].installed
                     THEN kirq \ {interrupts[h].vector} ELSE kirq
          /\ UNCHANGED faults
       \/ interrupts[h].installed /\ Fault(1) /\ UNCHANGED <<interrupts, kirq>>
    /\ UNCHANGED <<regions, dmas, quarantined, kdma>>

(* A token revoked by a reset is no longer known: nothing to release. *)
ReleaseRevoked(h) ==
    /\ h \notin regions \cup DOMAIN dmas \cup DOMAIN interrupts
    /\ waiters' = waiters \ {h}
    /\ UNCHANGED <<regions, dmas, quarantined, interrupts, kdma, kirq,
                   faults>>

DropHandle(h) ==
    /\ h \in DOMAIN handles
    /\ handles' = Without(handles, {h})
    /\ parked' = parked \ {h} /\ woken' = woken \ {h}
    /\ \/ ReleaseRegion(h) \/ ReleaseDma(h)
       \/ ReleaseInterrupt(h) \/ ReleaseRevoked(h)
    /\ UNCHANGED <<session_generation, next_id, next_iova, prepared_irqs,
                   ambiguous, rejected, closed>>
-----------------------------------------------------------------------------
(* revoke_interrupts: every ambiguous index, then every interrupt; the     *)
(* ones in badIndex and badIrq fail and are kept.  VfioIrq::disable of one *)
(* already disabled cannot fail.                                           *)
RevokedIrqs(badIndex, badIrq) ==
    {v \in kirq : /\ IndexOf(v) \notin ambiguous \ badIndex
                  /\ \A h \in DOMAIN interrupts \ badIrq :
                        ~(interrupts[h].installed /\ interrupts[h].vector = v)}

RevokeInterrupts(badIndex, badIrq) ==
    /\ badIrq \subseteq {h \in DOMAIN interrupts : interrupts[h].installed}
    /\ ambiguous' = badIndex
    /\ interrupts' = [h \in badIrq |-> interrupts[h]]
    /\ kirq' = RevokedIrqs(badIndex, badIrq)

(* revoke_dmas: everything is quarantined, then released one by one. *)
Revocable == Merged(dmas, quarantined)

RevokeDmas(fail) ==
    /\ \A h \in DOMAIN Revocable : fail[h] \in Failures(Revocable[h])
    /\ dmas' = None
    /\ quarantined' = [h \in {x \in DOMAIN Revocable : fail[x] # "no"} |->
                         Released(Revocable[h], fail[h]).dma]
    /\ kdma' = kdma \ {h \in DOMAIN Revocable :
                         ~Released(Revocable[h], fail[h]).dma.held}

Failed(fail) == Cardinality({h \in DOMAIN fail : fail[h] # "no"})

(* reset, from the generation bump on: the early returns after it leave    *)
(* the rest undone.                                                        *)
ResetRevoking(badIndex, badIrq) ==
    /\ session_generation' = session_generation + 1
    /\ waiters' = {} /\ woken' = woken \cup waiters
    /\ RevokeInterrupts(badIndex, badIrq)

ResetIrqsFail ==
    \E badIndex \in SUBSET ambiguous, badIrq \in SUBSET DOMAIN interrupts :
        /\ badIndex \cup badIrq # {}
        /\ Fault(Cardinality(badIndex) + Cardinality(badIrq))
        /\ ResetRevoking(badIndex, badIrq)
        /\ UNCHANGED <<regions, dmas, quarantined, kdma, rejected>>

ResetDmasFail ==
    /\ Flavor # "Broker"
    /\ ResetRevoking({}, {})
    /\ regions' = {}
    /\ \E fail \in [DOMAIN Revocable -> {"no", "kernel", "memory"}] :
         Failed(fail) > 0 /\ RevokeDmas(fail) /\ Fault(Failed(fail))
    /\ UNCHANGED rejected

ResetIoctlFails ==
    /\ ResetRevoking({}, {})
    /\ regions' = {}
    /\ Fault(1)
    /\ IF Flavor = "Broker" THEN UNCHANGED <<dmas, quarantined, kdma>>
       ELSE RevokeDmas([h \in DOMAIN Revocable |-> "no"])
    /\ UNCHANGED rejected

ResetOk_Quarantining ==
    /\ ResetRevoking({}, {})
    /\ regions' = {}
    /\ dmas' = None /\ quarantined' = Revocable
    /\ UNCHANGED <<kdma, rejected, faults>>

(* A broker reset revokes every handle in the kernel; only then are the    *)
(* userspace mappings discarded.                                           *)
ResetOk ==
    /\ ResetRevoking({}, {})
    /\ regions' = {}
    /\ IF Flavor = "Broker"
       THEN dmas' = None /\ quarantined' = None /\ kdma' = {} /\ rejected' = {}
       ELSE RevokeDmas([h \in DOMAIN Revocable |-> "no"]) /\ UNCHANGED rejected
    /\ UNCHANGED faults

Reset ==
    /\ ~closed /\ session_generation < MaxGenerations
    /\ ResetIrqsFail \/ ResetDmasFail \/ ResetIoctlFails \/ ResetOk
    /\ UNCHANGED <<next_id, next_iova, prepared_irqs, handles, parked,
                   closed>>

(* LinuxVfio::drop, once the last handle is gone: best effort, and the     *)
(* kernel takes back everything when the descriptors close.                *)
Close ==
    /\ ~closed /\ DOMAIN handles = {}
    /\ closed' = TRUE
    /\ regions' = {} /\ dmas' = None /\ quarantined' = None
    /\ interrupts' = None /\ ambiguous' = {} /\ waiters' = {}
    /\ kdma' = {} /\ kirq' = {} /\ rejected' = {}
    /\ UNCHANGED <<session_generation, next_id, next_iova, prepared_irqs,
                   driver, faults>>

SessionNext ==
    \/ OpenRegion
    \/ \E pages \in 1..2 : AllocIoas(pages)
    \/ \E kind \in {"coherent", "streaming"} : AllocBroker(kind)
    \/ \E v \in Vectors : OpenInterrupt(v) \/ DisableVector(v)
    \/ \E h \in DOMAIN handles :
          PollPending(h) \/ PollReady(h) \/ DisableInterrupt(h) \/ DropHandle(h)
    \/ Reset
    \/ Close

SessionSpec == SessionInit /\ [][SessionNext]_sessionVars
-----------------------------------------------------------------------------
Dma == [kind : {"ioas", "coherent", "streaming"}, first : Nat, last : Nat,
        held : BOOLEAN, memory : BOOLEAN]

(* Types of the backend, handle and kernel state; a token is live or       *)
(* quarantined, never both.                                                *)
SessionTypeOK ==
    /\ session_generation \in 1..MaxGenerations /\ next_id \in 1..MaxIds + 1
    /\ next_iova \in Nat /\ prepared_irqs \in 0..Eventfds
    /\ \A h \in DOMAIN dmas : dmas[h] \in Dma
    /\ \A h \in DOMAIN quarantined : quarantined[h] \in Dma
    /\ DOMAIN dmas \cap DOMAIN quarantined = {}
    /\ \A h \in DOMAIN interrupts :
          interrupts[h] \in [vector : Vectors, installed : BOOLEAN]
    /\ \A h \in DOMAIN handles : handles[h] \in 1..session_generation
    /\ regions \cup waiters \cup parked \cup kdma \subseteq 1..MaxIds
    /\ woken \subseteq parked /\ kirq \subseteq Vectors
    /\ faults \in 0..MaxFaults /\ closed \in BOOLEAN

(* Nothing the device can still reach is forgotten: a mapping alive in the *)
(* kernel is one the backend will try to release again (dmas or            *)
(* quarantined_dmas), after any sequence of failed releases and resets.    *)
(* The exceptions are the broker answers alloc_dma_constrained refused.    *)
MappingsTracked ==
    kdma \subseteq DOMAIN dmas \cup DOMAIN quarantined \cup rejected

(* Nothing that can still interrupt is forgotten: an armed vector has an   *)
(* installed interrupt in the table, or its index is ambiguous, so that    *)
(* revoke_interrupts disarms it; also when the install ioctl failed after  *)
(* it took effect.                                                         *)
InterruptsTracked ==
    \A v \in kirq :
        \/ IndexOf(v) \in ambiguous
        \/ \E h \in DOMAIN interrupts :
              interrupts[h].installed /\ interrupts[h].vector = v

(* An IOVA is never shared: mappings alive at the same time are disjoint,  *)
(* quarantined leftovers of earlier generations included.                  *)
MappingsDisjoint ==
    \A a, b \in kdma \ rejected :
        a # b => \/ Revocable[a].last < Revocable[b].first
                 \/ Revocable[b].last < Revocable[a].first

(* release_dma_resource unmaps streaming and IOAS memory from the device   *)
(* before giving the pages back, so the device never holds an address of   *)
(* memory the process has unmapped.                                        *)
MemoryOutlivesMapping ==
    \A h \in kdma \ rejected : Revocable[h].kind = "coherent" \/ Revocable[h].memory

(* A suspended Interrupt::next is never forgotten: it has been woken, or   *)
(* its waker is registered and its handle current; also when reset fails   *)
(* half way.                                                               *)
NoLostWakeup ==
    \A h \in parked : h \in woken \/ (h \in waiters /\ HandleCurrent(h))

(* Nothing the device can still reach or interrupt with is forgotten by    *)
(* failed releases, failed installs and resets; live mappings are          *)
(* disjoint, their pages outlive them, and a suspended Interrupt::next is  *)
(* woken (release_dma_resource, revoke_interrupts, alloc_dma_constrained). *)
SessionTracks ==
    /\ SessionTypeOK
    /\ MappingsTracked
    /\ InterruptsTracked
    /\ MappingsDisjoint
    /\ MemoryOutlivesMapping
    /\ NoLostWakeup

(* A reset that returns Ok leaves no mapping and no armed vector of an     *)
(* earlier generation, whatever failed before it.                          *)
ResetStep ==
    session_generation' # session_generation /\ faults' = faults =>
        kdma' = {} /\ kirq' = {} /\ quarantined' = None
ResetClears == [][ResetStep]_sessionVars

=============================================================================
