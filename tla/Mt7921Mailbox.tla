---- MODULE Mt7921Mailbox ----
(***************************************************************************)
(* The MCU mailbox of the MT7921 driver (LoaderMechanics): one command ring, *)
(* one firmware-download ring and two receive rings shared with the device. *)
(* A command is published into a slot, answered through a receive ring and  *)
(* its slot reclaimed once the device has consumed it.                      *)
(*                                                                         *)
(* The device and its firmware are external: they consume what the doorbell *)
(* announced, write the answer into either receive ring, may repeat it, and *)
(* may write events and packets that do not parse.  Any transport call may  *)
(* fail.  A caller stops using the mailbox after an error for which         *)
(* requires_containment holds.                                             *)
(***************************************************************************)
EXTENDS Integers, FiniteSets

CONSTANTS
    TxCount,      \* MT7921_MCU_TX_RING_COUNT, and the download ring's count
    RxCount,      \* MT7921_MCU_RX_RING_COUNT
    SeqCount,     \* sequence numbers go round 1 .. SeqCount (15 in the code)
    MaxCommands,  \* bound: commands and chunks issued
    MaxExtra      \* bound: repeated answers and unsolicited packets

VARIABLES
    mech,       \* the fields of LoaderMechanics
    call,       \* the call in progress and where it stands
    contained,  \* an error that requires containment was returned
    tx,         \* per command slot, what its descriptor and payload hold
    sc,         \* per download slot, whether the device wrote the descriptor back
    dev,        \* device cursors: consumed and announced index of both rings
    rx,         \* per receive ring and slot: "empty", "posted" or a packet
    rxdma,      \* the slot of each receive ring the device fills next
    rxcpu,      \* the slot of each receive ring the device must not pass
    irq,        \* a receive interrupt is latched
    masked,     \* the response interrupts are masked
    owed,       \* answers the firmware has still to write
    answered,   \* answers it has written (and may write again)
    issued,     \* commands and chunks so far; identifies each of them
    extra,      \* repeated answers and unsolicited packets so far
    done        \* the last command reported complete: itself and its answer

vars == <<mech, call, contained, tx, sc, dev, rx, rxdma, rxcpu, irq, masked, owed, answered,
          issued, extra, done>>

Rings == {1, 2}
None == 0 - 1
Slots == 0 .. TxCount - 1
RxSlots == 0 .. RxCount - 1
Packet(tag, seq) == [tag |-> tag, seq |-> seq]
Event == Packet(0, 0)
Garbage == Packet(None, 0)
Empty == Packet(None - 1, 0)
Posted == Packet(None - 2, 0)
Filled(p) == p \notin {Empty, Posted}

TxNext(i) == (i + 1) % TxCount
RxNext(i) == (i + 1) % RxCount
NextSequence == (mech.sequence % SeqCount) + 1

Idle == [op |-> "none", at |-> "idle", want |-> 0, tag |-> 0, got |-> 0, ring |-> 1, left |-> 0,
         err |-> FALSE]
NoDeferred == [slot |-> None, seq |-> 0, tag |-> 0, resp |-> FALSE, got |-> 0, failed |-> FALSE]
NoWord == [tag |-> 0, seq |-> 0, resp |-> FALSE, done |-> FALSE]

RxFresh == [r \in Rings |-> [s \in RxSlots |-> IF s = RxCount - 1 THEN Empty ELSE Posted]]

Init ==
    /\ mech = [sequence |-> 0, producer |-> 0, pending |-> None, deferred |-> NoDeferred,
               head |-> [r \in Rings |-> 0], fwdl |-> 0, scatter |-> None]
    /\ call = Idle
    /\ contained = FALSE
    /\ tx = [s \in Slots |-> NoWord]
    /\ sc = [s \in Slots |-> FALSE]
    /\ dev = [didx |-> 0, bell |-> 0, sdidx |-> 0, sbell |-> 0]
    /\ rx = RxFresh
    /\ rxdma = [r \in Rings |-> 0]
    /\ rxcpu = [r \in Rings |-> RxCount - 1]
    /\ irq = FALSE
    /\ masked = FALSE
    /\ owed = {}
    /\ answered = {}
    /\ issued = 0
    /\ extra = 0
    /\ done = [tag |-> 0, got |-> 0, resp |-> FALSE]

\* active_command_slot: a published command, or a deferred one not yet retired.
Active == mech.pending # None \/ mech.deferred # NoDeferred

Ready == call = Idle /\ ~contained /\ issued < MaxCommands

(***************************************************************************)
(* publish_reserved_template, for slot m.producer.  The slot is recorded as *)
(* pending before the doorbell is rung.                                    *)
(***************************************************************************)
Publish(m, resp, outcome) ==
    LET slot == m.producer
        word == [tag |-> issued + 1, seq |-> m.sequence, resp |-> resp, done |-> FALSE]
    IN  /\ issued' = issued + 1
        /\ IF outcome = "early" THEN UNCHANGED <<tx, dev>>
           ELSE /\ tx' = [tx EXCEPT ![slot] = word]
                /\ dev' = IF outcome \in {"ok", "bell_reached"} THEN [dev EXCEPT !.bell = TxNext(slot)] ELSE dev
        /\ mech' = IF outcome \in {"ok", "bell_reached", "bell_lost"}
                   THEN [m EXCEPT !.producer = TxNext(slot), !.pending = slot] ELSE m

\* "early": the payload or descriptor was not written; "unmask": the response
\* interrupts could not be enabled; "bell_...": the doorbell write failed.
Outcomes == {"ok", "early", "unmask", "bell_reached", "bell_lost"}
Contains(outcome) == outcome \in {"bell_reached", "bell_lost"}

(***************************************************************************)
(* Calls of the driver.  begin_command stores the deferred record as failed *)
(* until the publication has succeeded; the blocking execute_* calls keep   *)
(* nothing but the pending slot.                                           *)
(***************************************************************************)
BeginCommand(resp, outcome) ==
    LET d == [slot |-> mech.producer, seq |-> NextSequence, tag |-> issued + 1, resp |-> resp,
              got |-> IF resp THEN 0 ELSE None, failed |-> outcome # "ok"]
    IN  /\ Ready
        /\ mech.scatter = None /\ ~Active
        /\ outcome = "unmask" => resp
        /\ Publish([mech EXCEPT !.sequence = NextSequence, !.deferred = d], resp, outcome)
        /\ masked' = IF resp /\ outcome \notin {"early", "unmask"} THEN FALSE ELSE masked
        /\ contained' = Contains(outcome)
        /\ UNCHANGED <<call, sc, rx, rxdma, rxcpu, irq, owed, answered, extra, done>>

\* execute_download, execute_template and execute_reserved_template; a download
\* command that cannot be encoded has still used up its sequence number.
Execute(resp, outcome) ==
    /\ Ready
    /\ ~Active
    /\ outcome = "unmask" => resp
    /\ IF outcome = "encode"
       THEN /\ mech' = [mech EXCEPT !.sequence = NextSequence]
            /\ issued' = issued + 1
            /\ UNCHANGED <<tx, dev>>
       ELSE Publish([mech EXCEPT !.sequence = NextSequence], resp, outcome)
    /\ masked' = IF resp /\ outcome \in {"ok", "bell_reached", "bell_lost"} THEN FALSE ELSE masked
    /\ contained' = Contains(outcome)
    /\ call' = IF outcome # "ok" THEN call
               ELSE [Idle EXCEPT !.op = "execute", !.at = IF resp THEN "wait" ELSE "reclaim",
                                 !.want = NextSequence, !.tag = issued + 1,
                                 !.got = IF resp THEN 0 ELSE None]
    /\ UNCHANGED <<sc, rx, rxdma, rxcpu, irq, owed, answered, extra, done>>

\* wait_response: an interrupt starts a poll without a budget; the deadline
\* ends the wait with an error, and the slot is still waited for.
WaitResponse ==
    /\ call.op = "execute" /\ call.at = "wait"
    /\ \/ irq /\ ~masked /\ call' = [call EXCEPT !.at = "mask", !.left = None]
       \/ call' = [call EXCEPT !.at = "reclaim", !.err = TRUE]
    /\ UNCHANGED <<mech, contained, tx, sc, dev, rx, rxdma, rxcpu, irq, masked, owed, answered,
                   issued, extra, done>>

\* poll_command and poll_events: one turn of at most RxCount - 1 packets a ring.
\* A command that already failed is refused with CommandFailed.
PollCommand ==
    /\ call = Idle /\ ~contained
    /\ mech.deferred # NoDeferred
    /\ IF mech.deferred.failed
       THEN contained' = TRUE /\ UNCHANGED call
       ELSE /\ call' = [Idle EXCEPT !.op = "deferred", !.at = "mask", !.left = RxCount - 1,
                                    !.want = IF mech.deferred.resp THEN mech.deferred.seq ELSE 0]
            /\ UNCHANGED contained
    /\ UNCHANGED <<mech, tx, sc, dev, rx, rxdma, rxcpu, irq, masked, owed, answered, issued, extra,
                   done>>

PollEvents ==
    /\ call = Idle /\ ~contained /\ ~Active
    /\ call' = [Idle EXCEPT !.op = "events", !.at = "mask", !.left = RxCount - 1]
    /\ UNCHANGED <<mech, contained, tx, sc, dev, rx, rxdma, rxcpu, irq, masked, owed, answered,
                   issued, extra, done>>

(***************************************************************************)
(* poll_response: mask, acknowledge, drain both rings, unmask.             *)
(***************************************************************************)
PollFails(c) ==
    /\ call' = IF c.op = "execute" THEN [c EXCEPT !.at = "reclaim", !.err = TRUE] ELSE Idle
    /\ contained' = (c.op # "execute")

Poisoned(m, c) == IF c.op = "deferred" THEN [m EXCEPT !.deferred.failed = TRUE] ELSE m

MaskAndAcknowledge(ok) ==
    /\ call.at = "mask"
    /\ masked' = TRUE
    /\ irq' = IF ok THEN FALSE ELSE irq
    /\ IF ok
       THEN /\ call' = [call EXCEPT !.at = "drain", !.ring = 1]
            /\ UNCHANGED <<mech, contained>>
       ELSE PollFails(call) /\ mech' = Poisoned(mech, call)
    /\ UNCHANGED <<tx, sc, dev, rx, rxdma, rxcpu, owed, answered, issued, extra, done>>

\* classify_firmware_rx: an answer matches when it carries the awaited number.
Matched(p) == p.tag > 0 /\ call.want # 0 /\ p.seq = call.want

\* drain_rx, one packet: the slot before it, empty until now, is given back to
\* the device and the packet's own slot becomes the empty one.
DrainOne(r, fault) ==
    LET h == mech.head[r]
        prev == (h + RxCount - 1) % RxCount
        p == rx[r][h]
        advanced == [mech EXCEPT !.head[r] = RxNext(h)]
        bad == fault # "none" \/ p = Garbage \/ (Matched(p) /\ call.got # 0)
    IN  /\ call.at = "drain" /\ call.ring = r
        /\ call.left # 0 /\ Filled(p)
        /\ rx' = IF fault = "early" THEN rx
                 ELSE [rx EXCEPT ![r][prev] = Posted, ![r][h] = Empty]
        /\ rxcpu' = IF fault \in {"early", "bell_lost"} THEN rxcpu ELSE [rxcpu EXCEPT ![r] = h]
        /\ LET m == IF fault = "early" THEN mech ELSE advanced
           IN  IF bad THEN call' = [call EXCEPT !.at = "abort"] /\ mech' = m
               ELSE /\ mech' = m
                    /\ call' = [call EXCEPT !.left = IF @ = None THEN None ELSE @ - 1,
                                            !.got = IF Matched(p) THEN p.tag ELSE @]
        /\ UNCHANGED <<contained, tx, sc, dev, rxdma, irq, masked, owed, answered, issued, extra,
                       done>>

DrainNextRing_FirstOnly ==
    /\ call.at = "drain"
    /\ call.left = 0 \/ ~Filled(rx[call.ring][mech.head[call.ring]])
    /\ call' = [call EXCEPT !.at = "unmask"]
    /\ UNCHANGED <<mech, contained, tx, sc, dev, rx, rxdma, rxcpu, irq, masked, owed, answered,
                   issued, extra, done>>

DrainNextRing ==
    /\ call.at = "drain"
    /\ call.left = 0 \/ ~Filled(rx[call.ring][mech.head[call.ring]])
    /\ call' = IF call.ring = 1
               THEN [call EXCEPT !.ring = 2, !.left = IF @ = None THEN None ELSE RxCount - 1]
               ELSE [call EXCEPT !.at = "unmask"]
    /\ UNCHANGED <<mech, contained, tx, sc, dev, rx, rxdma, rxcpu, irq, masked, owed, answered,
                   issued, extra, done>>

\* Every way out of the drain unmasks; an answer already stored makes a second
\* one found by a later poll an error.
Unmask(ok) ==
    /\ call.at \in {"unmask", "abort"}
    /\ masked' = ~ok
    /\ LET dup == call.op = "deferred" /\ call.got # 0 /\ mech.deferred.got # 0
           stored == IF call.op = "deferred" /\ call.got # 0
                     THEN [mech EXCEPT !.deferred.got = call.got] ELSE mech
       IN  IF ~ok \/ call.at = "abort" \/ dup
           THEN PollFails(call) /\ mech' = Poisoned(mech, call)
           ELSE /\ mech' = stored
                /\ call' = CASE call.op = "execute" ->
                                   [call EXCEPT !.at = IF call.got # 0 THEN "reclaim" ELSE "wait"]
                             [] call.op = "deferred" -> [call EXCEPT !.at = "reclaim"]
                             [] call.op = "events" -> Idle
                /\ UNCHANGED contained
    /\ UNCHANGED <<tx, sc, dev, rx, rxdma, rxcpu, irq, owed, answered, issued, extra, done>>

(***************************************************************************)
(* Reclaiming: the device's index has reached the producer and it has       *)
(* written the descriptor back.  The deadline gives one last look.         *)
(***************************************************************************)
Consumed == dev.didx = mech.producer

Reclaimable_Announced == IF mech.pending = None THEN TRUE ELSE dev.bell = mech.producer

Reclaimable == IF mech.pending = None THEN TRUE ELSE Consumed /\ tx[mech.pending].done

Finish(m) ==
    LET complete == (call.op = "execute" /\ ~call.err) \/ (call.op = "deferred" /\ m.deferred.got # 0)
        retired == IF call.op = "deferred" /\ complete THEN [m EXCEPT !.deferred = NoDeferred] ELSE m
    IN  /\ mech' = retired
        /\ call' = Idle
        /\ contained' = (call.op = "execute" /\ call.err)
        /\ done' = IF ~complete THEN done
                   ELSE IF call.op = "execute"
                        THEN [tag |-> call.tag, got |-> call.got, resp |-> call.got # None]
                        ELSE [tag |-> m.deferred.tag, got |-> m.deferred.got, resp |-> m.deferred.resp]

TryReclaim ==
    /\ call.at = "reclaim"
    /\ \/ /\ Reclaimable
          /\ Finish([mech EXCEPT !.pending = None])
          /\ tx' = IF mech.pending = None THEN tx ELSE [tx EXCEPT ![mech.pending] = NoWord]
       \/ /\ call.op = "deferred" /\ mech.pending # None /\ ~Consumed
          /\ call' = Idle
          /\ UNCHANGED <<mech, contained, tx, done>>
       \* A deadline, an index or a descriptor that makes no sense, a failed access.
       \/ /\ mech.pending # None
          /\ call' = Idle
          /\ contained' = TRUE
          /\ mech' = Poisoned(mech, call)
          /\ UNCHANGED <<tx, done>>
    /\ UNCHANGED <<sc, dev, rx, rxdma, rxcpu, irq, masked, owed, answered, issued, extra>>

(***************************************************************************)
(* Firmware chunks: publish_scatter records the chunk only after a          *)
(* successful doorbell; complete_scatter waits for it and reclaims.        *)
(***************************************************************************)
PublishScatter(outcome) ==
    LET slot == mech.fwdl
    IN  /\ Ready
        /\ mech.deferred = NoDeferred /\ mech.scatter = None
        /\ issued' = issued + 1
        /\ sc' = IF outcome = "early" THEN sc ELSE [sc EXCEPT ![slot] = FALSE]
        /\ dev' = IF outcome \in {"ok", "bell_reached"} THEN [dev EXCEPT !.sbell = TxNext(slot)] ELSE dev
        /\ mech' = [mech EXCEPT !.sequence = NextSequence,
                                !.fwdl = IF outcome = "ok" THEN TxNext(slot) ELSE @,
                                !.scatter = IF outcome = "ok" THEN slot ELSE @]
        /\ contained' = Contains(outcome)
        /\ UNCHANGED <<call, tx, rx, rxdma, rxcpu, irq, masked, owed, answered, extra, done>>

ChunkConsumed == dev.sdidx = mech.fwdl /\ sc[mech.scatter]

CompleteScatter ==
    /\ call = Idle /\ ~contained
    /\ mech.scatter # None
    /\ \/ /\ ChunkConsumed
          /\ mech' = [mech EXCEPT !.scatter = None]
          /\ UNCHANGED contained
       \/ contained' = TRUE /\ UNCHANGED mech
    /\ UNCHANGED <<call, tx, sc, dev, rx, rxdma, rxcpu, irq, masked, owed, answered, issued, extra,
                   done>>

(***************************************************************************)
(* rebase_after_wpdma_reset, after the rings were reset: refused while      *)
(* anything published is unresolved; the sequence number is kept.          *)
(***************************************************************************)
Rebased == [mech EXCEPT !.producer = 0, !.head = [r \in Rings |-> 0], !.fwdl = 0]

Rebase ==
    /\ call = Idle /\ ~contained
    /\ ~Active /\ mech.scatter = None
    /\ mech' = Rebased
    /\ dev' = [didx |-> 0, bell |-> 0, sdidx |-> 0, sbell |-> 0]
    /\ tx' = [s \in Slots |-> NoWord]
    /\ rx' = RxFresh
    /\ rxdma' = [r \in Rings |-> 0]
    /\ rxcpu' = [r \in Rings |-> RxCount - 1]
    /\ irq' = FALSE
    /\ UNCHANGED <<call, contained, sc, masked, owed, answered, issued, extra, done>>

(***************************************************************************)
(* The device and its firmware.                                            *)
(***************************************************************************)
DeviceConsumes ==
    /\ dev.didx # dev.bell
    /\ \E late \in BOOLEAN : tx' = [tx EXCEPT ![dev.didx].done = ~late]
    /\ owed' = IF tx[dev.didx].resp
               THEN owed \cup {Packet(tx[dev.didx].tag, tx[dev.didx].seq)} ELSE owed
    /\ dev' = [dev EXCEPT !.didx = TxNext(@)]
    /\ UNCHANGED <<mech, call, contained, sc, rx, rxdma, rxcpu, irq, masked, answered, issued,
                   extra, done>>

DeviceWritesBack ==
    LET s == (dev.didx + TxCount - 1) % TxCount
    IN  /\ tx[s].tag # 0 /\ ~tx[s].done
        /\ tx' = [tx EXCEPT ![s].done = TRUE]
        /\ UNCHANGED <<mech, call, contained, sc, dev, rx, rxdma, rxcpu, irq, masked, owed, answered,
                       issued, extra, done>>

DeviceTakesChunk ==
    /\ dev.sdidx # dev.sbell
    /\ sc' = [sc EXCEPT ![dev.sdidx] = TRUE]
    /\ dev' = [dev EXCEPT !.sdidx = TxNext(@)]
    /\ UNCHANGED <<mech, call, contained, tx, rx, rxdma, rxcpu, irq, masked, owed, answered, issued,
                   extra, done>>

Delivered(r, p) ==
    /\ rxdma[r] # rxcpu[r]
    /\ rx' = [rx EXCEPT ![r][rxdma[r]] = p]
    /\ rxdma' = [rxdma EXCEPT ![r] = RxNext(@)]
    /\ irq' = TRUE
    /\ UNCHANGED <<mech, call, contained, tx, sc, dev, rxcpu, masked, issued, done>>

FirmwareAnswers(r) ==
    \E o \in owed : /\ Delivered(r, o)
                    /\ owed' = owed \ {o}
                    /\ answered' = answered \cup {o}
                    /\ UNCHANGED extra

FirmwareAdds(r) ==
    /\ extra < MaxExtra
    /\ extra' = extra + 1
    /\ \E o \in answered \cup {Event, Garbage} : Delivered(r, o)
    /\ UNCHANGED <<owed, answered>>

Next ==
    \/ \E resp \in BOOLEAN, outcome \in Outcomes : BeginCommand(resp, outcome)
    \/ \E resp \in BOOLEAN, outcome \in Outcomes \cup {"encode"} : Execute(resp, outcome)
    \/ WaitResponse
    \/ PollCommand
    \/ PollEvents
    \/ \E ok \in BOOLEAN : MaskAndAcknowledge(ok)
    \/ \E r \in Rings, fault \in {"none", "early", "bell_lost", "late"} : DrainOne(r, fault)
    \/ DrainNextRing
    \/ \E ok \in BOOLEAN : Unmask(ok)
    \/ TryReclaim
    \/ \E outcome \in Outcomes \ {"unmask"} : PublishScatter(outcome)
    \/ CompleteScatter
    \/ Rebase
    \/ DeviceConsumes
    \/ DeviceWritesBack
    \/ DeviceTakesChunk
    \/ \E r \in Rings : FirmwareAnswers(r)
    \/ \E r \in Rings : FirmwareAdds(r)

Spec == Init /\ [][Next]_vars

(***************************************************************************)
(* Properties.                                                             *)
(***************************************************************************)
Before(h) == (h + RxCount - 1) % RxCount
Sound == ~contained /\ ~call.err /\ call.at # "abort"

\* Cursors stay inside their rings and sequence numbers inside 0 .. SeqCount.
MailboxTypeOK ==
    /\ mech.sequence \in 0 .. SeqCount
    /\ mech.producer \in Slots /\ mech.fwdl \in Slots
    /\ mech.pending \in Slots \cup {None} /\ mech.scatter \in Slots \cup {None}
    /\ mech.head \in [Rings -> RxSlots] /\ rxdma \in [Rings -> RxSlots]
    /\ call.op \in {"none", "execute", "deferred", "events"}

\* A command slot the device may still read is recorded as pending, whatever
\* failed: a doorbell whose write was reported as failed may have reached the
\* device (publish_reserved_template records the slot first).  The same holds
\* for a firmware chunk until an error asks for containment.
OwnershipRetained ==
    /\ dev.didx # dev.bell => mech.pending = dev.didx
    /\ ~contained /\ dev.sdidx # dev.sbell => mech.scatter = dev.sdidx

\* While no error has been returned, every receive ring has exactly one slot the
\* device must not fill, the one before the next slot to be read, and the packets
\* not yet read are the slots from there to the device's cursor (drain_rx reposts
\* the previous slot and announces the consumed one).
RxRingShape ==
    Sound => \A r \in Rings :
        /\ rxcpu[r] = Before(mech.head[r])
        /\ \A s \in RxSlots : rx[r][s] = Empty <=> s = rxcpu[r]
        /\ \A s \in RxSlots : Filled(rx[r][s]) =>
              (s - mech.head[r] + RxCount) % RxCount < (rxdma[r] - mech.head[r] + RxCount) % RxCount

\* The answer a completed command reports is its own, unless the packet is a
\* repetition that outlived a whole round of sequence numbers: commands that
\* failed to encode, chunks and ring resets never let a number be used again early
\* (reserve_sequence_unchecked, rebase_after_wpdma_reset).
AnswerIsOwn ==
    done.resp => done.got = done.tag \/ done.tag - done.got >= SeqCount

\* A command is reported complete only once the device has consumed it and its
\* slot was reclaimed; a deadline or an answer alone is no evidence of that.
CompleteMeansReclaimed ==
    [][done' # done => /\ mech'.pending = None
                       /\ dev.didx = dev.bell
                       /\ done'.resp => done'.got > 0]_vars

\* A caller blocked in wait_response is never left with a packet in a ring, or a
\* masked interrupt, that no wake-up announces: poll_response acknowledges before
\* it drains and unmasks on every way out.
NoLostWakeup ==
    call.at = "wait" => /\ ~masked
                        /\ (\E r \in Rings : Filled(rx[r][mech.head[r]])) => irq

\* Between calls the software cursors equal the device's, also after a ring reset.
IdleCursorsAgree ==
    call = Idle /\ ~contained /\ ~Active =>
        /\ dev.didx = mech.producer /\ dev.bell = mech.producer
        /\ mech.scatter = None => dev.sdidx = mech.fwdl /\ dev.sbell = mech.fwdl
=============================================================================
