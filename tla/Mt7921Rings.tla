---- MODULE Mt7921Rings ----
(***************************************************************************)
(* The MT7921 probe and ring procedures that run while DMA is disabled.  Each *)
(* is a list of register accesses: some only look, and must leave the chip as *)
(* they found it (a transaction: save, body, undo); some check every ring, then *)
(* program them all and keep the result.  A procedure is written as data - its *)
(* checks, its body and its undo - and one action interprets the next access, *)
(* which can fail, or find a register that ignored what was written to it.  *)
(***************************************************************************)
EXTENDS Integers, Sequences, FiniteSets

CONSTANTS
    RxRings,    \* receive rings (MT7921_RX_RING_SLOTS; ring 0 is the MCU's)
    TxRings,    \* transmit rings (MT7921_TX_RING_SLOTS; 0 band0, last two FWDL and MCU)
    Addresses,  \* the addresses a procedure may be called with
    Page, BufferBytes, RxCount, Limit   \* page size, buffer size, ring length, last 32-bit address

VARIABLES
    proc,    \* the procedure running
    args,    \* the addresses it is given
    seg, pc, \* where it is: "args", "check", "body", "undo", "done" and the next access
    regs,    \* the chip's registers; each register is a record of fields
    stuck,   \* fields that ignore writes
    start,   \* the registers when the procedure began (history)
    saved,   \* the procedure's own snapshot
    res      \* "Ok" or the error to return

vars == <<proc, args, seg, pc, regs, stuck, start, saved, res>>

(***************************************************************************)
(* Accesses                                                                *)
(***************************************************************************)
Read(r) == [t |-> "read", r |-> r]
Save(r) == [t |-> "save", r |-> r]
Write(r, patch) == [t |-> "write", r |-> r, patch |-> patch]
Restore(r, fields) == [t |-> "restore", r |-> r, fields |-> fields]
\* Read r and go on only when its value satisfies a test; otherwise fail with err.
Expect(r, test, err) == [t |-> "expect", r |-> r, test |-> test, err |-> err]

Merge(old, patch) == [f \in DOMAIN old |-> IF f \in DOMAIN patch THEN patch[f] ELSE old[f]]
Apply(r, patch) ==
    [regs EXCEPT ![r] = [f \in DOMAIN @ |-> IF <<r, f>> \in stuck THEN @[f]
                                            ELSE Merge(@, patch)[f]]]

\* The registers, and the addresses a ring can point at; Ones is a register gone from the bus.
L1 == <<"l1", 0>>
Chip == <<"chip", 0>>
Top == <<"top", 0>>
IntMask == <<"int", 0>>
Dma == <<"dma", 0>>
Status == <<"status", 0>>
Stage == <<"page", 0>>
Wfsys == <<"wfsys", 0>>
Mac == <<"mac", 0>>
Irq == <<"irq", 0>>
Function == <<"function", 0>>
Iommu == <<"iommu", 0>>
Slot == <<"slot", 0>>
Rx(i) == <<"rx", i>>
Tx(i) == <<"tx", i>>
Ones == 0 - 1
Old == 1
Mcu == 2
Guard == 3
FwdlPage == 4
Band0 == 5
Ring(base, count, cpu, dma) == [base |-> base, count |-> count, cpu |-> cpu, dma |-> dma]

Fwdl == TxRings - 2
McuTx == TxRings - 1

\* What prepare_global_rx_rings and prepare_global_tx_rings give each ring: every ring that
\* is not used points at the guard page and has published nothing.
RxOwned(i) == IF i = 0 THEN Ring(Mcu, 8, 7, 0) ELSE Ring(Guard, 8, 0, 0)
TxOwned(i) ==
    CASE i = 0     -> Ring(Band0, 2048, 0, 0)
      [] i = Fwdl  -> Ring(FwdlPage, 128, 0, 0)
      [] i = McuTx -> Ring(Mcu, 256, 0, 0)
      [] OTHER     -> Ring(Guard, 128, 0, 0)

\* The tests of the reads that decide.  IdleDma looks at the two enable bits, QuietDma
\* also at the two busy bits of the global configuration.
Test(name, v) ==
    CASE name = "IdleDma"  -> v.cfg \in {"off", "busy"}
      [] name = "QuietDma" -> v.cfg = "off"
      [] name = "Masked"   -> v.enable = 0
      [] name = "Sel7001"  -> v.sel = "7001"
      [] name = "Sel1806"  -> v.sel = "1806"
      [] name = "Acked"    -> v.fwdl = 0
      [] name = "Armed"    -> v.desc = "armed"
      [] name = "Programmed" -> v = Ring(FwdlPage, 128, 0, start[Tx(Fwdl)].dma)
      [] name = "Even"     -> v.cpu = v.dma
      [] name = "Readable" -> \A f \in DOMAIN v : v[f] # Ones
      [] name = "Fresh"    -> v.cpu = 0 /\ v.dma = 0
      [] name = "McuInitial" -> v = Ring(Mcu, 8, 0, 0)
      [] name = "McuOwned" -> v = RxOwned(0)
      [] OTHER -> FALSE

Each(n, op(_)) == [i \in 1 .. n |-> op(i - 1)]

(***************************************************************************)
(* Address arithmetic, scaled: one page is Page units, a buffer BufferBytes. *)
(***************************************************************************)
Overlap(a, na, b, nb) == a < b + nb /\ b < a + na

PageAligned(a) == a % Page = 0

\* The address check of prepare_mcu_rx_ring and prepare_data_rx_ring.
RxArenaValid(ring, buffers, bytes) ==
    /\ PageAligned(ring) /\ PageAligned(buffers)
    /\ ring + Page - 1 <= Limit
    /\ buffers + bytes - 1 <= Limit
    /\ ~(ring < buffers + bytes /\ buffers <= ring + Page - 1)

\* The descriptors they prepare, or {} for InvalidArena.  The last slot has no buffer.
prepare_rx_ring(ring, buffers) ==
    IF ~RxArenaValid(ring, buffers, RxCount * BufferBytes) THEN {}
    ELSE {<<i, buffers + i * BufferBytes>> : i \in 0 .. RxCount - 2}

\* The guard, FWDL, MCU and band-0 arenas of prepare_global_tx_rings; the last is longer.
TxArenas == [i \in 1 .. 4 |-> <<args[i], IF i = 4 THEN 2 * Page ELSE Page>>]

\* The arena loop of prepare_global_tx_rings over the arenas <<base, bytes>>.
TxArenasValid(arenas) ==
    \A i \in 1 .. Len(arenas) :
        /\ PageAligned(arenas[i][1]) /\ arenas[i][1] + arenas[i][2] - 1 <= Limit
        /\ \A j \in 1 .. i - 1 :
              ~(/\ arenas[i][1] <= arenas[j][1] + arenas[j][2] - 1
                /\ arenas[j][1] <= arenas[i][1] + arenas[i][2] - 1)

\* The argument checks of the procedures.
ArgsValid(p) ==
    CASE p = "fwdl"      -> PageAligned(args[1]) /\ args[1] + Page - 1 <= Limit
      [] p = "stage"     -> args[1] + BufferBytes - 1 <= Limit
      [] p = "mcu_rx"    -> RxArenaValid(args[1], args[2], RxCount * BufferBytes)
      [] p = "global_rx" -> /\ \A i \in 1 .. 2 : PageAligned(args[i]) /\ args[i] + Page - 1 <= Limit
                            /\ args[1] - args[2] >= Page \/ args[2] - args[1] >= Page
      [] p = "global_tx" -> TxArenasValid(TxArenas)
      [] p = "irq_boundary" -> args[4] # 0        \* the interrupt vectors offered
      [] OTHER           -> TRUE

(***************************************************************************)
(* The procedures                                                          *)
(***************************************************************************)
\* go: the undo accesses whose failure does not stop the ones after them.
Lenient(check, body, undo, go) == [check |-> check, body |-> body, undo |-> undo, go |-> go]
Procedure(check, body, undo) == Lenient(check, body, undo, {})

SelectL1(base, test) == <<Write(L1, [sel |-> base]), Expect(L1, test, "SelectorMismatch")>>

read_dynamic_identity_status ==
    Procedure(<<Save(L1)>>,
              SelectL1("7001", "Sel7001") \o <<Read(Chip), Read(Chip), Read(Chip)>>
                  \o SelectL1("1806", "Sel1806") \o <<Read(Chip)>>,
              <<Restore(L1, {"sel"})>>)

acquire_top_driver_ownership ==
    Procedure(<<Save(L1), [t |-> "clock"]>>,
              SelectL1("1806", "Sel1806")
                  \o <<Write(Top, [request |-> TRUE]), [t |-> "poll", r |-> Top]>>,
              <<Restore(L1, {"sel"})>>)

program_disabled_fwdl_ring ==
    Procedure(<<Read(IntMask), Expect(Dma, "IdleDma", "Active"),
                Expect(IntMask, "Masked", "Active"), Save(Tx(Fwdl))>>,
              <<Write(Tx(Fwdl), [base |-> FwdlPage]), Write(Tx(Fwdl), [count |-> 128]),
                Write(Tx(Fwdl), [cpu |-> 0]), Expect(Tx(Fwdl), "Programmed", "Readback")>>,
              <<Restore(Tx(Fwdl), {"cpu"}), Restore(Tx(Fwdl), {"count"}),
                Restore(Tx(Fwdl), {"base"})>>)

\* The interrupt mask is written once more before the undo part begins.
mask_ack_disabled_fwdl_interrupt ==
    Procedure(<<Expect(Dma, "IdleDma", "Active"), Expect(IntMask, "Masked", "Active"),
                Save(IntMask), Read(Status), Write(IntMask, [enable |-> 0])>>,
              <<Expect(IntMask, "Masked", "MaskReadback"), Write(Status, [fwdl |-> 0]),
                Expect(Status, "Acked", "AckDidNotClear")>>,
              <<Restore(IntMask, {"enable"})>>)

stage_disabled_firmware_chunk ==
    Lenient(<<>>,
              <<Write(Stage, [payload |-> "chunk"]), Write(Slot, [desc |-> "armed"]),
                Expect(Slot, "Armed", "DescriptorReadback")>>,
              <<Write(Slot, [desc |-> "reset"]), Write(Stage, [payload |-> "zero"])>>,
              {1, 2})

\* Assert, release, then wait for the init-done bit.
reset_wfsys ==
    <<Read(Wfsys), Write(Wfsys, [reset |-> "asserted"]), Write(Wfsys, [reset |-> "released"]),
      [t |-> "poll", r |-> Wfsys]>>

\* The interrupt is installed last, and every cleanup step is tried even after an install
\* that failed.
exercise_irq_reset_boundary ==
    Lenient(<<>>,
            reset_wfsys \o <<Write(IntMask, [enable |-> 0]), Write(Mac, [gate |-> "on"]),
                             Write(Irq, [fd |-> "installed"])>>,
            <<Write(IntMask, [enable |-> 0]), Write(Mac, [gate |-> "off"]),
              Write(Irq, [fd |-> "none"]), Write(Function, [state |-> "contained"]),
              [t |-> "contained", r |-> Function]>>,
            1 .. 5)

\* Masking, disabling and waiting are best effort; a mapping that cannot be released stops
\* before the function reset.
teardown_dma ==
    Lenient(<<>>, <<>>,
            <<Write(IntMask, [enable |-> 0]), Write(Dma, [cfg |-> "busy"]),
              [t |-> "quiesce", r |-> Dma], Write(Iommu, [mapped |-> FALSE]),
              Write(Function, [state |-> "reset"])>>,
            1 .. 3)

QuietChip == <<Read(Dma), Expect(IntMask, "Masked", "Active"), Expect(Dma, "QuietDma", "Active")>>

program_disabled_mcu_rx_ring ==
    Procedure(QuietChip \o <<Expect(Rx(0), "Even", "DirtyRing")>>,
              <<Write(Rx(0), Ring(Mcu, 8, 0, 0)), Expect(Rx(0), "McuInitial", "Readback"),
                Write(Rx(0), [cpu |-> 7]), Expect(Rx(0), "McuOwned", "Readback")>>,
              <<>>)

CheckRx(i) == <<Expect(Rx(i), "Readable", "InvalidMmio"), Expect(Rx(i), "Even", "DirtyRing")>>
InitRx(i) == Write(Rx(i), Ring(RxOwned(i).base, RxOwned(i).count, 0, 0))
PublishRx(i) == <<Write(Rx(i), [cpu |-> RxOwned(i).cpu]),
                  [t |-> "owned", r |-> Rx(i), err |-> "Readback", want |-> RxOwned(i)]>>

Flat(n, op(_)) ==
    LET parts == Each(n, op)
        F[k \in 0 .. n] == IF k = 0 THEN <<>> ELSE F[k - 1] \o parts[k]
    IN  F[n]

prepare_global_rx_rings ==
    Procedure(QuietChip \o Flat(RxRings, CheckRx),
              Each(RxRings, InitRx) \o Flat(RxRings, PublishRx),
              <<>>)

CheckTx(i) == <<Expect(Tx(i), "Readable", "InvalidMmio"), Expect(Tx(i), "Fresh", "DirtyRing")>>
WriteTx(i) == Write(Tx(i), [base |-> TxOwned(i).base, count |-> TxOwned(i).count, cpu |-> 0])
VerifyTx(i) == [t |-> "owned", r |-> Tx(i), err |-> "Readback", want |-> TxOwned(i)]

\* Mutant: the read-back loop is dropped.
prepare_global_tx_rings_Unverified ==
    Procedure(QuietChip \o Flat(TxRings, CheckTx),
              Each(TxRings, WriteTx) \o <<[t |-> "reset"]>>,
              <<>>)
prepare_global_tx_rings ==
    Procedure(QuietChip \o Flat(TxRings, CheckTx),
              Each(TxRings, WriteTx) \o <<[t |-> "reset"]>> \o Each(TxRings, VerifyTx),
              <<>>)

Procedures ==
    [identity |-> read_dynamic_identity_status, top |-> acquire_top_driver_ownership,
     fwdl |-> program_disabled_fwdl_ring, mask |-> mask_ack_disabled_fwdl_interrupt,
     stage |-> stage_disabled_firmware_chunk, mcu_rx |-> program_disabled_mcu_rx_ring,
     global_rx |-> prepare_global_rx_rings, global_tx |-> prepare_global_tx_rings,
     irq_boundary |-> exercise_irq_reset_boundary, teardown |-> teardown_dma]

P == Procedures[proc]

RingStates == {Ring(Old, 8, 0, 0), Ring(Old, 8, 1, 1), Ring(Old, 8, 1, 0),
               Ring(Ones, Ones, Ones, Ones)}
Names == {Rx(i) : i \in 0 .. RxRings - 1} \cup {Tx(i) : i \in 0 .. TxRings - 1}
         \cup {L1, Chip, Top, IntMask, Dma, Status, Stage, Slot,
               Wfsys, Mac, Irq, Function, Iommu}
\* Fields that can ignore a write.
StuckFields == {<<L1, "sel">>, <<Slot, "desc">>, <<Status, "fwdl">>}
               \cup ({Rx(0), Tx(Fwdl)} \X {"base", "cpu"})

\* The chip as a previous owner may have left it: one ring in an odd state.
ChipAt(cfg, enable, odd, state) ==
    [r \in Names |->
       CASE r = L1 -> [sel |-> "host"]
         [] r = Chip -> [id |-> "mt7921"]
         [] r = Top -> [request |-> FALSE]
         [] r = IntMask -> [enable |-> enable]
         [] r = Dma -> [cfg |-> cfg]
         [] r = Status -> [fwdl |-> 1]
         [] r = Stage -> [payload |-> "zero"]
         [] r = Slot -> [desc |-> "reset"]
         [] r = Wfsys -> [reset |-> "released"]
         [] r = Mac -> [gate |-> "off"]
         [] r = Irq -> [fd |-> "none"]
         [] r = Function -> [state |-> "used"]
         [] r = Iommu -> [mapped |-> TRUE]
         [] OTHER -> IF r = odd THEN state ELSE Ring(Old, 8, 0, 0)]
PlainChip == ChipAt("off", 0, Rx(0), Ring(Old, 8, 0, 0))
GoodArgs == [i \in 1 .. 4 |-> CASE i = 1 -> 0 [] i = 2 -> Page [] i = 3 -> 2 * Page [] OTHER -> 3 * Page]

Init ==
    /\ proc \in DOMAIN Procedures
    /\ seg = "args" /\ pc = 1 /\ res = "Ok"
    /\ saved = [r \in {} |-> {}]
    /\ \/ /\ args = GoodArgs
          /\ stuck \in {{}} \cup {{x} : x \in StuckFields}
          /\ \E cfg \in {"off", "busy", "on"}, enable \in {0, 1},
                odd \in {Rx(0), Rx(1), Tx(1), Tx(Fwdl)}, state \in RingStates :
                start = ChipAt(cfg, enable, odd, state)
       \/ /\ proc \in {"fwdl", "stage", "mcu_rx", "global_rx", "global_tx", "irq_boundary"}
          /\ args \in [1 .. 4 -> Addresses]
          /\ stuck = {}
          /\ start = PlainChip
    /\ regs = start

(***************************************************************************)
(* The interpreter                                                         *)
(***************************************************************************)
\* Where a procedure goes when the access list of its segment is used up.
After(s, err) ==
    /\ res' = err
    /\ pc' = 1
    /\ seg' = IF s = "check" /\ err = "Ok" /\ P.body # <<>> THEN "body"
              ELSE IF s = "body" /\ P.undo # <<>> THEN "undo"
              ELSE "done"

\* The argument checks come first and touch nothing.
CheckArguments ==
    /\ seg = "args"
    /\ IF ArgsValid(proc)
       THEN /\ seg' = IF P.check # <<>> THEN "check" ELSE IF P.body # <<>> THEN "body" ELSE "undo"
            /\ UNCHANGED res
       ELSE seg' = "done" /\ res' = "InvalidArena"
    /\ UNCHANGED <<proc, args, pc, regs, stuck, start, saved>>

Ops == IF seg = "check" THEN P.check ELSE IF seg = "body" THEN P.body ELSE P.undo
Op == Ops[pc]

Advance(s) ==
    IF pc < Len(Ops) THEN pc' = pc + 1 /\ UNCHANGED <<seg, res>> ELSE After(s, res)

Keep == UNCHANGED <<proc, args, stuck, start>>

\* A read, or a read that tests what it finds.
ReadStep ==
    /\ seg \in {"check", "body"}
    /\ Op.t \in {"read", "save", "expect", "owned"}
    /\ LET passes == CASE Op.t = "expect" -> Test(Op.test, regs[Op.r])
                       [] Op.t = "owned"  -> regs[Op.r] = Op.want
                       [] OTHER           -> TRUE
       IN  IF passes THEN Advance(seg) ELSE After(seg, Op.err)
    /\ saved' = IF Op.t = "save"
                THEN [r \in DOMAIN saved \cup {Op.r} |->
                        IF r = Op.r THEN regs[r] ELSE saved[r]]
                ELSE saved
    /\ UNCHANGED regs
    /\ Keep

\* The deadline of acquire_top_driver_ownership must be representable: this early return
\* comes after the selector was read and before it is written.
ClockStep ==
    /\ seg = "check" /\ Op.t = "clock"
    /\ Advance(seg) \/ After(seg, "ClockOverflow")
    /\ UNCHANGED <<regs, saved>>
    /\ Keep

\* The poll of the top low-power register: granted, refused or timed out.
PollStep ==
    /\ seg = "body" /\ Op.t = "poll"
    /\ Advance(seg) \/ After(seg, "UnexpectedState") \/ After(seg, "Timeout")
    /\ UNCHANGED <<regs, saved>>
    /\ Keep

\* A write of the body; reset_tx_indices is one write that clears every DMA index.
WriteStep ==
    /\ seg \in {"check", "body"}
    /\ Op.t \in {"write", "reset"}
    /\ regs' = IF Op.t = "write" THEN Apply(Op.r, Op.patch)
               ELSE [r \in Names |-> IF \E i \in 0 .. TxRings - 1 : r = Tx(i)
                                     THEN [regs[r] EXCEPT !.cpu = 0, !.dma = 0] ELSE regs[r]]
    /\ Advance(seg)
    /\ UNCHANGED saved
    /\ Keep

\* Any access of the checks or the body can fail; a failed write may have landed.
Fail ==
    /\ seg \in {"check", "body"} /\ Op.t # "clock"
    /\ \/ UNCHANGED regs
       \/ Op.t = "write" /\ regs' = Apply(Op.r, Op.patch)
    /\ After(seg, "Transport")
    /\ UNCHANGED saved
    /\ Keep

\* What an undo access does to the chip; waiting for DMA to stop, and looking whether the
\* function is contained, change nothing themselves.
Undone ==
    CASE Op.t = "restore"   -> Apply(Op.r, [f \in Op.fields |-> saved[Op.r][f]])
      [] Op.t = "write"     -> Apply(Op.r, Op.patch)
      [] Op.t = "quiesce"   -> IF regs[Dma].cfg = "busy" THEN Apply(Dma, [cfg |-> "off"]) ELSE regs
      [] OTHER              -> regs

UndoStep ==
    /\ seg = "undo"
    /\ Op.t = "contained" => regs[Function].state = "contained"
    /\ regs' = Undone
    /\ Advance(seg)
    /\ UNCHANGED saved
    /\ Keep

\* teardown_dma's wait ends at its deadline with DMA still busy.
StillBusy ==
    /\ seg = "undo" /\ Op.t = "quiesce"
    /\ pc' = pc + 1
    /\ res' = IF res = "Ok" THEN "BusyTimedOut" ELSE res
    /\ UNCHANGED <<regs, saved, seg>>
    /\ Keep

\* Where a failed undo access leads: on to the next one, or out with an error that hides
\* the body's result.
UndoFailed ==
    /\ res' = IF proc = "teardown" /\ pc = 4 THEN "Unmap" ELSE "Restore"
    /\ IF pc \in P.go /\ pc < Len(Ops) THEN pc' = pc + 1 /\ UNCHANGED seg
                                       ELSE seg' = "done" /\ pc' = 1

\* An undo access fails, whether or not it reached the chip; so does the check that the
\* function is contained when it is not.
UndoFails ==
    /\ seg = "undo"
    /\ UNCHANGED regs \/ regs' = Undone
    /\ UndoFailed
    /\ UNCHANGED saved
    /\ Keep

Next ==
    \/ CheckArguments \/ ReadStep \/ ClockStep \/ PollStep \/ WriteStep \/ Fail
    \/ UndoStep \/ StillBusy \/ UndoFails

Spec == Init /\ [][Next]_vars

----------------------------------------------------------------------------
\* The interpreter stays inside its lists and its results.
RingsTypeOK ==
    /\ seg \in {"args", "check", "body", "undo", "done"}
    /\ seg \in {"check", "body", "undo"} => pc \in 1 .. Len(Ops)

Transactions == {"identity", "top", "fwdl", "mask", "stage"}

\* A probe that reports anything but a restore error left the chip as it found it: the
\* remap selector, the firmware-download ring registers, the interrupt mask, and the staged
\* descriptor and payload are back, whichever access failed on the way.
TransactionRestores ==
    seg = "done" /\ proc \in Transactions /\ res # "Restore" =>
        \A r \in {L1, Tx(Fwdl), IntMask, Slot, Stage} : regs[r] = start[r]

\* Teardown and the interrupt boundary end contained: success means masked, stopped, idle,
\* unmapped and reset (or, for the boundary, gated, uninstalled and contained), and whatever
\* failed, a function is reset only after its mappings were released.
EndsContained ==
    seg = "done" =>
        /\ proc = "teardown" =>
              /\ res = "Ok" => /\ regs[IntMask].enable = 0
                              /\ regs[Dma].cfg = "off"
                              /\ ~regs[Iommu].mapped
                              /\ regs[Function].state = "reset"
              /\ regs[Function].state = "reset" => ~regs[Iommu].mapped
        /\ proc = "irq_boundary" /\ res \notin {"Restore", "InvalidArena"} =>
              /\ regs[Mac].gate = "off"
              /\ regs[Irq].fd = "none"
              /\ regs[Function].state = "contained"

\* A chip that is refused (DMA or interrupts active, a ring in use, a register reading all
\* ones, bad addresses) has not been written at all: the ring procedures check every ring
\* before they program the first.
RefusalWritesNothing ==
    seg = "done" /\ res \in {"InvalidArena", "Active", "DirtyRing", "InvalidMmio",
                             "ClockOverflow"} => regs = start

\* When a global ring procedure reports success, every ring really has its own base, length
\* and indices, a register that ignored its write included, and a guard ring has published no buffer.
RingsOwned ==
    seg = "done" /\ res = "Ok" =>
        /\ proc = "global_rx" => \A i \in 0 .. RxRings - 1 : regs[Rx(i)] = RxOwned(i)
        /\ proc = "global_tx" => \A i \in 0 .. TxRings - 1 : regs[Tx(i)] = TxOwned(i)
        /\ proc = "mcu_rx" => regs[Rx(0)] = RxOwned(0)

\* The addresses a procedure goes on with are sound: no receive buffer reaches into the ring
\* page, into another buffer or beyond 32 bits, the slot before the ring wraps stays empty,
\* and the transmit arenas are pairwise disjoint.
DmaLayoutSound ==
    seg # "args" /\ res # "InvalidArena" =>
        /\ proc = "mcu_rx" =>
              LET slots == prepare_rx_ring(args[1], args[2])
              IN  \A d \in slots :
                     /\ d[1] < RxCount - 1
                     /\ d[2] + BufferBytes - 1 <= Limit
                     /\ ~Overlap(args[1], Page, d[2], BufferBytes)
                     /\ \A e \in slots \ {d} : ~Overlap(e[2], BufferBytes, d[2], BufferBytes)
        /\ proc = "global_tx" =>
              \A i, j \in 1 .. 4 : i # j =>
                  ~Overlap(TxArenas[i][1], TxArenas[i][2], TxArenas[j][1], TxArenas[j][2])
====
