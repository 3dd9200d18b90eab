-------------------------- MODULE Ath11kCopyEngine --------------------------
(***************************************************************************)
(* The copy-engine pipes of the ath11k driver (ath11k-ce/src/lib.rs) over  *)
(* the HAL rings (ath11k-hal/src/srng.rs): a source ring the host sends    *)
(* on, and a destination ring of empty buffers with the status ring that   *)
(* reports them filled.  The host thread runs send_htc, receive_htc or     *)
(* per_engine_service; the device runs beside it.                          *)
(*                                                                         *)
(* A step of the host is one call of CePipes.  Each refreshes the device's *)
(* pointer first (access_begin_remote), so the cached pointer is the one   *)
(* the device last wrote back: "rdp".  The device works ahead of it.  Any  *)
(* transport operation may fail, and then has no effect.                   *)
(***************************************************************************)
EXTENDS Naturals, Sequences, FiniteSets

CONSTANTS
    Entries,    \* entries of each ring
    MaxTx,      \* bound: frames accepted for sending
    MaxRx,      \* bound: frames the device receives
    MaxFaults,  \* bound: failing transport operations
    Bad         \* the device may report a length that is zero or too large

ASSUME RingAssumption == Entries \in Nat /\ Entries > 1

VARIABLES
    pc,       \* what the host thread is doing
    src,      \* source ring and source_slots
    dst,      \* destination ring and destination_slots
    sts,      \* status ring
    soft,     \* destination_software_index
    pending,  \* pending_receive
    needed,   \* rx_buffers_needed
    batch,    \* frames completed and not yet returned to the caller
    got,      \* frames returned to the caller
    taken,    \* frames completed, in order
    seen,     \* frames the device sent, in order
    filled,   \* frames the device has received
    spoilt,   \* the device reported a length that is out of range
    error,    \* the last call's error
    faults

host == <<pc, soft, pending, needed, batch, got, taken, error, faults>>
vars == <<pc, src, dst, sts, soft, pending, needed, batch, got, taken, seen,
          filled, spoilt, error, faults>>

Slots == 0 .. Entries - 1
Next1(i) == (i + 1) % Entries
Empty == [frame |-> 0, cpu |-> FALSE, live |-> FALSE]
Posted == [Empty EXCEPT !.live = TRUE]
Loaded(n) == [Posted EXCEPT !.frame = n]
NoPending == [at |-> 0, frame |-> 0, cleared |-> FALSE, some |-> FALSE]

(* A ring after Srng::setup; slots after init_pipes. *)
NewRing ==
    [head |-> 0, reap |-> Entries - 1, pub |-> 0, tail |-> 0, rdp |-> 0,
     desc |-> [i \in Slots |-> 0], slots |-> [i \in Slots |-> Empty]]

Init ==
    /\ pc = "idle"
    /\ src = NewRing /\ dst = NewRing
    /\ sts = [head |-> 0, tail |-> 0, pub |-> 0, length |-> [i \in Slots |-> "zero"]]
    /\ soft = 0 /\ pending = NoPending
    /\ needed = Entries - 2
    /\ batch = <<>> /\ got = {} /\ taken = <<>> /\ seen = <<>>
    /\ filled = 0 /\ spoilt = FALSE /\ error = "none" /\ faults = 0

Fault == faults < MaxFaults /\ faults' = faults + 1
NoFault == faults' = faults
Accepted == Len(seen) + Cardinality({i \in Slots : src.slots[i].live /\ src.slots[i].frame > Len(seen)})
-----------------------------------------------------------------------------
(* Srng::source_reap_next, source_next_reaped and source_next: the slot    *)
(* they return and the cursor they leave, when there is one.               *)
ReapNext(r) == Next1(r.reap)
CanReap(r) == ReapNext(r) # r.rdp
CanSend(r) == r.head # r.reap
CanPost(r) == Next1(r.head) # r.rdp

(* A descriptor written at the head, its buffer kept, the head published.  *)
(* A failure after the descriptor was written restores the cursor and      *)
(* takes the buffer out again.  (reap_head of the destination ring, which  *)
(* source_next also moves, is read by nothing.)                            *)
Published(r, buffer) ==
    [r EXCEPT !.desc[r.head] = buffer.frame, !.slots[r.head] = buffer,
              !.head = Next1(r.head), !.pub = Next1(r.head)]
Withdrawn_HeadKept(r, buffer) ==
    [r EXCEPT !.desc[r.head] = buffer.frame, !.head = Next1(r.head)]

Withdrawn(r, buffer) ==
    [r EXCEPT !.desc[r.head] = buffer.frame, !.slots[r.head] = Empty]
Attempted(room, r, buffer) == IF room THEN Withdrawn(r, buffer) ELSE r

(* CePipes::completed_send_next. *)
Reaped(r) == [r EXCEPT !.reap = ReapNext(r), !.slots[ReapNext(r)] = Empty]

Reap(done) ==
    \/ /\ NoFault /\ CanReap(src)
       /\ src' = Reaped(src)
       /\ pc' = (IF src.slots[ReapNext(src)].live THEN pc ELSE done)
       /\ UNCHANGED error
    \/ /\ NoFault /\ ~CanReap(src)
       /\ pc' = done
       /\ UNCHANGED <<src, error>>

(* send_htc: reclaim what the device consumed, then CePipes::send. *)
SendHtc ==
    /\ pc = "idle" /\ Accepted < MaxTx
    /\ pc' = "reap" /\ error' = "none"
    /\ UNCHANGED <<src, dst, sts, soft, pending, needed, batch, got, taken, seen,
                   filled, spoilt, faults>>

SendReap ==
    /\ pc = "reap"
    /\ \/ Reap("send")
       \/ /\ Fault /\ pc' = "idle" /\ error' = "fault" /\ UNCHANGED src
    /\ UNCHANGED <<dst, sts, soft, pending, needed, batch, got, taken, seen,
                   filled, spoilt>>

Send ==
    /\ pc = "send" /\ pc' = "idle"
    /\ \/ /\ NoFault /\ CanSend(src)
          /\ src' = Published(src, Loaded(Accepted + 1)) /\ error' = "none"
       \/ /\ NoFault /\ ~CanSend(src)
          /\ src' = [src EXCEPT !.pub = src.head] /\ error' = "credits"
       \/ /\ Fault /\ error' = "fault"
          /\ src' \in {src, Attempted(CanSend(src), src, Loaded(Accepted + 1))}
    /\ UNCHANGED <<dst, sts, soft, pending, needed, batch, got, taken, seen,
                   filled, spoilt>>
-----------------------------------------------------------------------------
(* CePipes::completed_recv_next, once it has found a status entry.  The    *)
(* payload and the cleared word are kept in pending_receive, so that a     *)
(* retry neither reads the cleared length nor the buffer again.            *)
Slot == dst.slots[soft]
Reported == sts.length[sts.tail]

InvalidEntry == ~pending.some /\ Reported # "ok"
Misplaced == pending.some /\ pending.at # sts.tail

(* What a failed attempt leaves: nothing; the buffer acquired for the CPU; *)
(* the payload kept; the payload kept and the length cleared.              *)
Acquired == [dst EXCEPT !.slots[soft].cpu = TRUE]
Keeping(cleared) ==
    IF pending.some THEN [pending EXCEPT !.cleared = @ \/ cleared]
    ELSE [at |-> sts.tail, frame |-> Slot.frame, cleared |-> cleared, some |-> TRUE]
Cleared == [sts EXCEPT !.length[sts.tail] = "zero"]

FailedReceive ==
    \/ UNCHANGED <<dst, sts, pending>>
    \/ dst' = Acquired /\ UNCHANGED <<sts, pending>>
    \/ dst' = Acquired /\ pending' = Keeping(FALSE) /\ UNCHANGED sts
    \/ dst' = Acquired /\ pending' = Keeping(TRUE) /\ sts' = Cleared

CompletedRecvNext(found, none, failed) ==
    \/ /\ sts.tail = sts.head /\ NoFault
       /\ pc' = none
       /\ UNCHANGED <<dst, sts, soft, pending, needed, batch, taken, error>>
    \/ /\ sts.tail # sts.head /\ NoFault
       /\ IF Misplaced \/ InvalidEntry \/ ~Slot.live
          THEN /\ pc' = failed
               /\ error' = (IF InvalidEntry /\ Slot.live THEN "invalid" ELSE "fault")
               /\ UNCHANGED <<dst, sts, soft, pending, needed, batch, taken>>
          ELSE /\ pc' = found
               /\ batch' = Append(batch, Keeping(TRUE).frame)
               /\ taken' = Append(taken, Keeping(TRUE).frame)
               /\ sts' = [Cleared EXCEPT !.tail = Next1(sts.tail), !.pub = Next1(sts.tail)]
               /\ dst' = [dst EXCEPT !.slots[soft] = Empty]
               /\ soft' = Next1(soft) /\ needed' = needed + 1
               /\ pending' = NoPending /\ UNCHANGED error
    \/ /\ Fault /\ pc' = failed /\ error' = "fault"
       /\ IF sts.tail = sts.head \/ Misplaced \/ InvalidEntry \/ ~Slot.live
          THEN UNCHANGED <<dst, sts, pending>>
          ELSE FailedReceive
       /\ UNCHANGED <<soft, needed, batch, taken>>

(* receive_htc: the pipes are polled until one has a frame or a wait found *)
(* the deadline passed; after the deadline they are polled once more.      *)
ReceiveHtc ==
    /\ pc = "idle"
    /\ pc' = "poll" /\ error' = "none"
    /\ UNCHANGED <<src, dst, sts, soft, pending, needed, batch, got, taken, seen,
                   filled, spoilt, faults>>

Poll ==
    /\ \/ pc = "poll" /\ CompletedRecvNext("refill", "wait", "idle")
       \/ pc = "last" /\ CompletedRecvNext("refill", "idle", "idle")
    /\ UNCHANGED <<src, got, seen, filled, spoilt>>

Wait ==
    /\ pc = "wait"
    /\ \/ pc' \in {"poll", "last"} /\ NoFault /\ UNCHANGED error
       \/ Fault /\ pc' = "idle" /\ error' = "fault"
    /\ UNCHANGED <<src, dst, sts, soft, pending, needed, batch, got, taken, seen,
                   filled, spoilt>>

(* rx_post_pipe: one round of the loop around post_receive. *)
Refilled == dst' = Published(dst, Posted) /\ needed' = needed - 1

RxPost(enough, failed) ==
    \/ /\ needed = 0 /\ NoFault /\ pc' = enough
       /\ UNCHANGED <<dst, needed, error>>
    \/ /\ needed # 0 /\ CanPost(dst) /\ NoFault
       /\ Refilled
       /\ UNCHANGED <<pc, error>>
    \/ /\ needed # 0 /\ ~CanPost(dst) /\ NoFault
       /\ pc' = failed /\ error' = "credits"
       /\ UNCHANGED <<dst, needed>>
    \/ /\ needed # 0 /\ Fault
       /\ pc' = failed /\ error' = "fault"
       /\ UNCHANGED needed
       /\ dst' \in {dst, Attempted(CanPost(dst), dst, Posted)}

(* The frame is returned only when every pipe was refilled; an error takes *)
(* its place.                                                              *)
Refill ==
    /\ pc = "refill"
    /\ RxPost("idle", "idle")
    /\ IF pc' = "idle" THEN batch' = <<>> ELSE UNCHANGED batch
    /\ got' = (IF pc' = "idle" /\ error' = "none" THEN got \cup {batch[1]} ELSE got)
    /\ UNCHANGED <<src, sts, soft, pending, taken, seen, filled, spoilt>>

(* HifStart: rx_post_buf before anything is received. *)
RxPostBuf ==
    /\ pc = "idle" /\ needed = Entries - 2
    /\ pc' = "start" /\ error' = "none"
    /\ UNCHANGED <<src, dst, sts, soft, pending, needed, batch, got, taken, seen,
                   filled, spoilt, faults>>

Start ==
    /\ pc = "start"
    /\ RxPost("idle", "idle")
    /\ UNCHANGED <<src, sts, soft, pending, batch, got, taken, seen, filled, spoilt>>
-----------------------------------------------------------------------------
(* per_engine_service: completions of both rings, then replenishment; what *)
(* was completed is returned whatever fails later.                         *)
PerEngineService ==
    /\ pc = "idle"
    /\ pc' = "service_tx" /\ error' = "none"
    /\ UNCHANGED <<src, dst, sts, soft, pending, needed, batch, got, taken, seen,
                   filled, spoilt, faults>>

ServiceTx ==
    /\ pc = "service_tx"
    /\ \/ Reap("service_rx")
       \/ Fault /\ pc' = "service_rx" /\ error' = "fault" /\ UNCHANGED src
    /\ UNCHANGED <<dst, sts, soft, pending, needed, batch, got, taken, seen,
                   filled, spoilt>>

ServiceRx ==
    /\ pc = "service_rx"
    /\ CompletedRecvNext("service_rx", "service_post", "service_post")
    /\ UNCHANGED <<src, got, seen, filled, spoilt>>

ServicePost ==
    /\ pc = "service_post"
    /\ RxPost("idle", "idle")
    /\ IF pc' = "idle"
       THEN batch' = <<>> /\ got' = got \cup {batch[i] : i \in 1 .. Len(batch)}
       ELSE UNCHANGED <<batch, got>>
    /\ UNCHANGED <<src, sts, soft, pending, taken, seen, filled, spoilt>>
-----------------------------------------------------------------------------
(* The device (external): it reads what the host published, and writes its *)
(* own pointers back some time after.                                      *)
Transmit ==
    /\ src.tail # src.pub
    /\ seen' = Append(seen, IF src.slots[src.tail].live THEN src.desc[src.tail] ELSE 0)
    /\ src' = [src EXCEPT !.tail = Next1(src.tail)]
    /\ UNCHANGED <<host, dst, sts, filled, spoilt>>

Fill ==
    /\ filled < MaxRx
    /\ dst.tail # dst.pub /\ Next1(sts.head) # sts.pub
    /\ filled' = filled + 1
    /\ dst' = [dst EXCEPT !.tail = Next1(dst.tail),
                          !.slots[dst.tail].frame = filled + 1]
    /\ \E length \in {"ok"} \cup (IF Bad THEN {"bad"} ELSE {}) :
          /\ sts' = [sts EXCEPT !.head = Next1(sts.head), !.length[sts.head] = length]
          /\ spoilt' = (spoilt \/ length = "bad")
    /\ UNCHANGED <<host, src, seen>>

WriteBack ==
    /\ \/ src.rdp # src.tail /\ src' = [src EXCEPT !.rdp = src.tail] /\ UNCHANGED dst
       \/ dst.rdp # dst.tail /\ dst' = [dst EXCEPT !.rdp = dst.tail] /\ UNCHANGED src
    /\ UNCHANGED <<host, sts, seen, filled, spoilt>>

Host ==
    \/ SendHtc \/ SendReap \/ Send
    \/ ReceiveHtc \/ Poll \/ Wait \/ Refill
    \/ RxPostBuf \/ Start
    \/ PerEngineService \/ ServiceTx \/ ServiceRx \/ ServicePost

Device == Transmit \/ Fill \/ WriteBack

Next == Host \/ Device

Spec == Init /\ [][Next]_vars
-----------------------------------------------------------------------------
(* What each field may hold. *)
CeTypeOK ==
    /\ \A r \in {src, dst} : {r.head, r.reap, r.pub, r.tail, r.rdp} \subseteq Slots
    /\ {sts.head, sts.tail, sts.pub, soft} \subseteq Slots
    /\ needed \in 0 .. Entries - 2

Between(from, to) == {i \in Slots : (i + Entries - from) % Entries < (to + Entries - from) % Entries}
InOrder(s) == \A i \in 1 .. Len(s) : s[i] = i

(* Whatever the device can still reach is alive and as published: a buffer *)
(* between the device's pointer and the published head is in its slot, the *)
(* one the descriptor names, and a receive buffer is not the CPU's.        *)
ReachableIsLive ==
    /\ \A i \in Between(src.tail, src.pub) :
          src.slots[i].live /\ src.slots[i].frame = src.desc[i]
    /\ \A i \in Between(dst.tail, dst.pub) : dst.slots[i].live /\ ~dst.slots[i].cpu

(* send: "On Err, the frame has not been made visible to firmware and may  *)
(* be retried": the device sends exactly the frames accepted, once each    *)
(* and in order, through failures at every step and full rings.            *)
SentOnce == InOrder(seen)

(* completed_recv_next: a completion that failed half way is retried with  *)
(* the same payload: every frame is taken once, in order, the retry never  *)
(* finds the slot empty, its entry moved or the length it cleared itself.  *)
TakenOnce ==
    /\ InOrder(taken)
    /\ pending.some => pending.at = sts.tail /\ sts.tail # sts.head
    /\ sts.tail # sts.head => Slot.live
    /\ error = "invalid" => spoilt

(* The buffers posted and those still to be posted are as many as at the   *)
(* start, and a slot is free when a buffer is put into it.                 *)
BuffersConserved ==
    needed + Cardinality({i \in Slots : dst.slots[i].live}) = Entries - 2

(* The pipes are sound in all of these respects. *)
CeSafe == CeTypeOK /\ ReachableIsLive /\ SentOnce /\ TakenOnce /\ BuffersConserved

(* A frame that was completed and is not returned is replaced by an error. *)
LossReported ==
    [][batch # <<>> /\ batch' = <<>> =>
          error' # "none" \/ \A i \in 1 .. Len(batch) : batch[i] \in got']_vars
=============================================================================
