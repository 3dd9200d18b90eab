---- MODULE Mt7921Ownership ----
(***************************************************************************)
(* Who owns the MT7921 chip's low-power control: the firmware (HOST_OWN_SYNC *)
(* set) or the driver (clear).  Two users of the same register are modelled: *)
(* the blocking probe that takes ownership and gives it back                *)
(* (round_trip_driver_ownership), and the polled state machines of runtime  *)
(* power management (DriverOwnershipWake, FirmwareOwnershipSleep).           *)
(*                                                                         *)
(* The chip is external: it takes the last command written and obeys it at *)
(* some later moment, or never.  Every transport call may fail, and a write *)
(* that fails may or may not have reached the chip.                        *)
(***************************************************************************)
EXTENDS Integers, FiniteSets

CONSTANTS
    DRIVER_OWN_ATTEMPTS,    \* commands tried before giving up
    DRIVER_OWN_ATTEMPT_MS,  \* how long one command is given
    DRIVER_OWN_POLL_MS,     \* pause between two reads of the register
    ASPM_DELAY_MS,          \* settling time after a wake command
    MaxDeadline             \* latest deadline an authority carries

ASSUME OwnershipAssumption ==
    /\ DRIVER_OWN_ATTEMPTS \in Nat \ {0} /\ DRIVER_OWN_ATTEMPT_MS \in Nat
    /\ DRIVER_OWN_POLL_MS \in Nat /\ ASPM_DELAY_MS \in Nat
    /\ MaxDeadline \in Nat

VARIABLES
    user,      \* which user of the register runs: "round_trip", "wake" or "sleep"
    sync,      \* HOST_OWN_SYNC: TRUE when the firmware owns the chip
    command,   \* the ownership command the chip has not yet obeyed
    odd,       \* the register reads with command bits set (or all ones)
    now,       \* the monotonic clock, in milliseconds
    epoch,     \* the owner epoch the poller is called with
    trip,      \* the blocking round trip
    poll,      \* the polled machine
    lastWrite  \* when the polled machine last wrote a command (history)

ownershipVars == <<user, sync, command, odd, now, epoch, trip, poll, lastWrite>>

Never == 0 - 1
Min2(a, b) == IF a <= b THEN a ELSE b

\* What a read of the low power register can return.
Raw == {[fw |-> sync, cmd |-> FALSE]} \cup (IF odd THEN {[fw |-> sync, cmd |-> TRUE]} ELSE {})

\* A write of command c that is reported as failed may still have landed.
WriteCommand(c, ok) ==
    \/ command' = c
    \/ ~ok /\ UNCHANGED command

OwnershipInit ==
    /\ user \in {"round_trip", "wake", "sleep"}
    /\ sync \in BOOLEAN
    /\ odd \in BOOLEAN
    /\ command = "none"
    /\ now = 0
    /\ epoch = 1
    /\ trip = [phase |-> "snapshot", at |-> "write", attempt |-> 1, deadline |-> 0,
               initial |-> "none", acquire |-> "none", restore |-> "none", err |-> FALSE,
               aspm |-> FALSE]
    /\ poll = [status |-> "none", epoch |-> 1, deadline |-> 0, attempts |-> 0,
               attempt_deadline |-> 0, next_poll |-> 0]
    /\ lastWrite = Never

(***************************************************************************)
(* The chip                                                                *)
(***************************************************************************)
\* External: the chip obeys the pending command.
ChipObeys ==
    /\ command # "none"
    /\ sync' = (command = "set")
    /\ command' = "none"
    /\ UNCHANGED <<user, odd, now, epoch, trip, poll, lastWrite>>

(***************************************************************************)
(* round_trip_driver_ownership                                             *)
(***************************************************************************)
TripRest == UNCHANGED <<user, odd, epoch, poll, lastWrite>>

\* The first read decides what has to be put back; a register that reads all
\* ones, or with a command bit still set, is refused before anything is written.
Snapshot ==
    /\ user = "round_trip"
    /\ trip.phase = "snapshot"
    /\ \/ trip' = [trip EXCEPT !.phase = "done", !.acquire = "snapshot"]
       \/ \E raw \in Raw, aspm \in BOOLEAN :
             trip' = IF raw.cmd
                     THEN [trip EXCEPT !.phase = "done", !.acquire = "snapshot"]
                     ELSE [trip EXCEPT !.phase = "acquire", !.aspm = aspm,
                                       !.initial = IF raw.fw THEN "firmware" ELSE "driver"]
    /\ UNCHANGED <<sync, command, now>>
    /\ TripRest

\* How acquire_driver_ownership_with_aspm ends: a chip the driver owned before
\* needs no restoring, any other is given back whatever the outcome.
AcquireEnds(result) ==
    trip' = [trip EXCEPT !.acquire = result, !.at = "write", !.attempt = 1,
                         !.phase = IF trip.initial = "driver" THEN "done" ELSE "restore"]

\* One CLR_OWN write with the ASPM pause, which is kept even after a failure.
AcquireWrite ==
    /\ trip.phase = "acquire" /\ trip.at = "write"
    /\ now' = now + (IF trip.aspm THEN ASPM_DELAY_MS ELSE 0)
    /\ \E ok \in BOOLEAN :
          /\ WriteCommand("clr", ok)
          /\ IF ok THEN trip' = [trip EXCEPT !.at = "read",
                                             !.deadline = now' + DRIVER_OWN_ATTEMPT_MS]
                   ELSE AcquireEnds("transport")
    /\ UNCHANGED sync
    /\ TripRest

\* What follows a read that did not show the wanted owner: sleep, the next
\* attempt, or the end of the last one.
RetryOr(ends) ==
    IF now < trip.deadline
    THEN now' = now + Min2(DRIVER_OWN_POLL_MS, trip.deadline - now) /\ UNCHANGED trip
    ELSE /\ UNCHANGED now
         /\ IF trip.attempt < DRIVER_OWN_ATTEMPTS
            THEN trip' = [trip EXCEPT !.attempt = @ + 1, !.at = "write"]
            ELSE ends

AcquireRead ==
    /\ trip.phase = "acquire" /\ trip.at = "read"
    /\ \/ AcquireEnds("transport") /\ UNCHANGED now
       \/ \E raw \in Raw :
             IF ~raw.fw THEN AcquireEnds("ok") /\ UNCHANGED now
                        ELSE RetryOr(AcquireEnds("timeout"))
    /\ UNCHANGED <<sync, command>>
    /\ TripRest

\* A failed write is forgotten once the next read shows the firmware's ownership.
RestoreWrite_Forgetful ==
    /\ trip.phase = "restore" /\ trip.at = "write"
    /\ \E ok \in BOOLEAN :
          /\ WriteCommand("set", ok)
          /\ trip' = [trip EXCEPT !.at = "read", !.deadline = now + DRIVER_OWN_ATTEMPT_MS]
    /\ UNCHANGED <<sync, now>>
    /\ TripRest

\* restore_firmware_ownership remembers a transport error and keeps trying.
RestoreWrite ==
    /\ trip.phase = "restore" /\ trip.at = "write"
    /\ \E ok \in BOOLEAN :
          /\ WriteCommand("set", ok)
          /\ trip' = [trip EXCEPT !.at = "read", !.err = @ \/ ~ok,
                                  !.deadline = now + DRIVER_OWN_ATTEMPT_MS]
    /\ UNCHANGED <<sync, now>>
    /\ TripRest

\* The outcome, with the remembered error.
RestoreEnds(seen, err) ==
    trip' = [trip EXCEPT !.phase = "done", !.err = err,
                         !.restore = IF ~seen THEN IF err THEN "transport_timeout" ELSE "timeout"
                                     ELSE IF err THEN "transport" ELSE "ok"]

RestoreRead ==
    /\ trip.phase = "restore" /\ trip.at = "read"
    /\ \/ IF now < trip.deadline
          THEN /\ now' = now + Min2(DRIVER_OWN_POLL_MS, trip.deadline - now)
               /\ trip' = [trip EXCEPT !.err = TRUE]
          ELSE /\ UNCHANGED now
               /\ IF trip.attempt < DRIVER_OWN_ATTEMPTS
                  THEN trip' = [trip EXCEPT !.attempt = @ + 1, !.at = "write", !.err = TRUE]
                  ELSE RestoreEnds(FALSE, TRUE)
       \/ \E raw \in Raw :
             IF raw.fw THEN RestoreEnds(TRUE, trip.err) /\ UNCHANGED now
                       ELSE RetryOr(RestoreEnds(FALSE, trip.err))
    /\ UNCHANGED <<sync, command>>
    /\ TripRest

\* The value the function returns.
TripResult ==
    IF trip.acquire = "snapshot" THEN "refused"
    ELSE IF trip.acquire = "ok" THEN IF trip.restore \in {"ok", "none"} THEN "ok" ELSE "restore"
    ELSE IF trip.restore \in {"ok", "none"} THEN "acquire" ELSE "acquire_and_restore"

(***************************************************************************)
(* DriverOwnershipWake and FirmwareOwnershipSleep                          *)
(***************************************************************************)
PollRest == UNCHANGED <<user, sync, odd, epoch, trip>>

\* `new` refuses a deadline that has passed.
NewPoll(deadline) ==
    /\ user \in {"wake", "sleep"}
    /\ poll.status = "none"
    /\ poll' = IF now >= deadline THEN [poll EXCEPT !.status = "deadline"]
               ELSE [poll EXCEPT !.status = "pending", !.deadline = deadline,
                                 !.attempt_deadline = now, !.next_poll = now]
    /\ UNCHANGED <<command, now, lastWrite>>
    /\ PollRest

StartDue(p) == p.attempts = 0 \/ now >= p.attempt_deadline

\* The machine after a wake command was written: the chip is given the ASPM
\* settling time before the first read.
WakeStarted(p) ==
    LET first == Min2(now + ASPM_DELAY_MS, p.deadline)
    IN  [p EXCEPT !.attempts = @ + 1, !.next_poll = first,
                  !.attempt_deadline = Min2(first + DRIVER_OWN_ATTEMPT_MS, p.deadline)]

\* After a sleep command the first read is immediate.
SleepStarted(p) ==
    [p EXCEPT !.attempts = @ + 1, !.next_poll = now,
              !.attempt_deadline = Min2(now + DRIVER_OWN_ATTEMPT_MS, p.deadline)]

\* The read half of a poll, on machine p; wanted is the owner waited for.
ReadOwner(p, wanted) ==
    IF now < p.next_poll THEN poll' = p
    ELSE \/ poll' = [p EXCEPT !.status = "transport"]
         \/ \E raw \in Raw :
               poll' = IF raw.cmd THEN [p EXCEPT !.status = "unexpected"]
                       ELSE IF raw.fw = wanted THEN [p EXCEPT !.status = "acquired"]
                       ELSE [p EXCEPT !.next_poll = Min2(Min2(now + DRIVER_OWN_POLL_MS,
                                                              p.attempt_deadline), p.deadline)]

\* One call of poll: the epoch, then the deadline, then (if an attempt is due) a
\* command, after which the machine is as started says, then the register.
PollOwnership(c, started, wanted) ==
    /\ poll.status = "pending"
    /\ IF epoch # poll.epoch
       THEN poll' = [poll EXCEPT !.status = "revoked"] /\ UNCHANGED <<command, lastWrite>>
       ELSE IF now >= poll.deadline
       THEN poll' = [poll EXCEPT !.status = "deadline"] /\ UNCHANGED <<command, lastWrite>>
       ELSE IF ~StartDue(poll)
       THEN ReadOwner(poll, wanted) /\ UNCHANGED <<command, lastWrite>>
       ELSE IF poll.attempts = DRIVER_OWN_ATTEMPTS
       THEN poll' = [poll EXCEPT !.status = "deadline"] /\ UNCHANGED <<command, lastWrite>>
       ELSE \E ok \in BOOLEAN :
               /\ WriteCommand(c, ok)
               /\ lastWrite' = now
               /\ IF ok THEN ReadOwner(started, wanted)
                        ELSE poll' = [poll EXCEPT !.status = "transport"]
    /\ UNCHANGED now
    /\ PollRest

PollWake == user = "wake" /\ PollOwnership("clr", WakeStarted(poll), FALSE)
PollSleep == user = "sleep" /\ PollOwnership("set", SleepStarted(poll), TRUE)

\* Time passes; the owner may poll later than it was told to.
Tick ==
    /\ poll.status = "pending"
    /\ now < MaxDeadline
    /\ now' = now + 1
    /\ UNCHANGED <<user, sync, command, odd, epoch, trip, poll, lastWrite>>

\* The runtime revokes the authority the machine was made with.
Revoke ==
    /\ poll.status = "pending" /\ epoch = 1
    /\ epoch' = 2
    /\ UNCHANGED <<user, sync, command, odd, now, trip, poll, lastWrite>>

OwnershipNext ==
    \/ ChipObeys
    \/ Snapshot \/ AcquireWrite \/ AcquireRead \/ RestoreWrite \/ RestoreRead
    \/ \E d \in 0 .. MaxDeadline : NewPoll(d)
    \/ PollWake \/ PollSleep \/ Tick \/ Revoke

OwnershipSpec == OwnershipInit /\ [][OwnershipNext]_ownershipVars

----------------------------------------------------------------------------
\* The clock and the machines stay inside their bounds.
OwnershipTypeOK ==
    /\ now \in Nat
    /\ command \in {"none", "set", "clr"}
    /\ trip.attempt \in 1 .. DRIVER_OWN_ATTEMPTS
    /\ poll.attempts \in 0 .. DRIVER_OWN_ATTEMPTS

\* A chip the firmware owned before the probe is the firmware's again when
\* round_trip_driver_ownership returns anything but a restore error, also when taking
\* ownership failed half way: no command that would take it away is still pending.
RoundTripGivesBack ==
    trip.phase = "done" /\ trip.initial = "firmware" /\ TripResult \in {"ok", "acquire"}
        => sync /\ command # "clr"

\* A round trip reported as completed met no transport error on the way back, even one that
\* a later attempt made good: restore_firmware_ownership remembers the first.
RoundTripHonest == trip.phase = "done" /\ TripResult = "ok" => ~trip.err

\* The time a pending poll asks to be called again is never past the authority's deadline,
\* so an owner that sleeps until then notices the deadline when it passes.
NextPollWithinDeadline == poll.status = "pending" => poll.next_poll <= poll.deadline

\* round_trip_driver_ownership gives back what it took and is honest about it, and a
\* polled machine notices its deadline.
OwnershipSafe ==
    OwnershipTypeOK /\ RoundTripGivesBack /\ RoundTripHonest /\ NextPollWithinDeadline

\* The polled machines never write two ownership commands closer together than one attempt
\* lasts, and never write one after their deadline or their revocation.
CommandsSpaced ==
    [][lastWrite' # lastWrite =>
         /\ lastWrite = Never \/ now - lastWrite >= DRIVER_OWN_ATTEMPT_MS
         /\ now < poll.deadline
         /\ epoch = poll.epoch]_ownershipVars
====
