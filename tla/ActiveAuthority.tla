---- MODULE ActiveAuthority ----
(***************************************************************************)
(* The authority model of active transmission in the MT7921 core            *)
(* (active_authority::AuthorityModel).  Ten generation counters say how     *)
(* fresh each piece of evidence is; invalidating one cause advances its     *)
(* counters and revokes what depended on them.  An attempt to transmit may  *)
(* be reserved only while a sealed final observation, power evidence and a  *)
(* current target stand, and ends in exactly one terminal result.          *)
(***************************************************************************)
EXTENDS Integers, FiniteSets

CONSTANTS
    MaxAxis,         \* u64::MAX: a counter that stands here cannot advance
    MaxLineage,      \* u64::MAX for the counters of targets and attempts
    MaxObservation,  \* u64::MAX for observation numbers
    Fingerprints     \* what a beacon of a target looks like

ASSUME AuthorityAssumption ==
    MaxAxis \in Nat /\ MaxLineage \in Nat /\ MaxObservation \in Nat \ {0}

VARIABLES
    gen,         \* generations
    axis,        \* axis_states
    discovery,   \* the observation that found the target
    final,       \* the observation made for this target
    evidence,    \* the flags beacon_evidence, power_evidence, lease, attempt_authorized
    target,      \* TargetState
    attempt,     \* AttemptState
    terminal,    \* the terminal result selected for the attempt
    nextObs,     \* next_observation
    faulted,
    published    \* attempts whose commit was decided (history)

authorityVars ==
    <<gen, axis, discovery, final, evidence, target, attempt, terminal, nextObs, faulted, published>>

ObservedAxes == {"Device", "Reset", "Firmware", "Ownership", "Domain", "Channel", "Scan"}
Axes == ObservedAxes \cup {"Power", "Target", "Attempt"}
Kinds == {"discovery", "final", "beacon", "power", "lease", "attempt"}
Last(a) == IF a \in {"Target", "Attempt"} THEN MaxLineage ELSE MaxAxis

\* INVALIDATION_RULES: the axes a cause advances and the evidence it clears.
Rules == [
    Device    |-> [axes |-> Axes \ {"Attempt"}, clears |-> Kinds],
    Reset     |-> [axes |-> {"Reset", "Firmware", "Ownership", "Power", "Scan", "Target"},
                   clears |-> Kinds],
    Firmware  |-> [axes |-> {"Firmware"}, clears |-> Kinds],
    Ownership |-> [axes |-> {"Ownership"}, clears |-> Kinds],
    Domain    |-> [axes |-> {"Domain", "Power", "Scan", "Target"}, clears |-> Kinds],
    Channel   |-> [axes |-> {"Channel", "Power", "Scan"}, clears |-> Kinds \ {"discovery"}],
    Power     |-> [axes |-> {"Power"}, clears |-> {"power", "lease", "attempt"}],
    Scan      |-> [axes |-> {"Scan"}, clears |-> {"final", "beacon", "lease", "attempt"}],
    Target    |-> [axes |-> {"Target"}, clears |-> Kinds \ {"discovery"}]]

NoObservation == [id |-> 0, fingerprint |-> 0, at |-> [a \in ObservedAxes |-> 0], target |-> 0,
                  sealed |-> FALSE]
NoTarget == [is |-> "None", generation |-> 0, discovery |-> 0, fingerprint |-> 0, final |-> 0]
NoAttempt == [is |-> "None", generation |-> 0, abort |-> FALSE, sent |-> FALSE]
NoEvidence == [beacon |-> FALSE, power |-> FALSE, lease |-> FALSE, authorized |-> FALSE]

AuthorityInit ==
    /\ gen = [a \in Axes |-> 0]
    /\ axis = [a \in Axes |-> "Current"]
    /\ discovery = NoObservation
    /\ final = NoObservation
    /\ evidence = NoEvidence
    /\ target = NoTarget
    /\ attempt = NoAttempt
    /\ terminal = "none"
    /\ nextObs = 1
    /\ faulted = FALSE
    /\ published = {}

\* revoke_attempt: what was committed may have been transmitted.
RevokedAttempt(a) ==
    IF a.is \in {"Live", "Staged", "Committing", "InFlight"}
    THEN [a EXCEPT !.is = "Revoked", !.abort = FALSE, !.sent = a.is \in {"Committing", "InFlight"}]
    ELSE a

\* clear: evidence goes, an attempt is revoked, and all of it takes the target too.
Cleared(kinds) ==
    /\ discovery' = IF "discovery" \in kinds THEN NoObservation ELSE discovery
    /\ final' = IF "final" \in kinds THEN NoObservation ELSE final
    /\ evidence' = [beacon |-> evidence.beacon /\ "beacon" \notin kinds,
                    power |-> evidence.power /\ "power" \notin kinds,
                    lease |-> evidence.lease /\ "lease" \notin kinds /\ "attempt" \notin kinds,
                    authorized |-> evidence.authorized /\ "lease" \notin kinds]
    /\ attempt' = IF "attempt" \in kinds THEN RevokedAttempt(attempt) ELSE attempt

Fault ==
    /\ Cleared(Kinds)
    /\ target' = NoTarget
    /\ axis' = [a \in Axes |-> "Unknown"]
    /\ faulted' = TRUE
    /\ UNCHANGED <<gen, terminal, nextObs, published>>

\* begin_invalidation: a counter that cannot advance faults everything before
\* anything is changed; otherwise evidence is revoked and every axis left pending.
Invalidated(cause, newTarget, newAxis) ==
    LET rule == Rules[cause]
    IN  IF \E a \in rule.axes : gen[a] = Last(a) THEN Fault
        ELSE /\ Cleared(rule.clears)
             /\ gen' = [a \in Axes |-> IF a \in rule.axes THEN gen[a] + 1 ELSE gen[a]]
             /\ axis' = [a \in Axes |-> IF a \in rule.axes THEN newAxis ELSE axis[a]]
             /\ target' = newTarget
             /\ UNCHANGED <<terminal, nextObs, faulted, published>>

BeginInvalidation(cause) ==
    /\ ~faulted
    /\ Invalidated(cause, IF Rules[cause].clears = Kinds THEN NoTarget ELSE target, "Pending")

Confirm(a) ==
    /\ ~faulted /\ a # "Target" /\ axis[a] = "Pending"
    /\ axis' = [axis EXCEPT ![a] = "Current"]
    /\ UNCHANGED <<gen, discovery, final, evidence, target, attempt, terminal, nextObs, faulted,
                   published>>

FailAxis(a) ==
    /\ ~faulted /\ axis[a] = "Pending"
    /\ Fault

(***************************************************************************)
(* Observations.                                                           *)
(***************************************************************************)
CurrentForObservation == \A a \in ObservedAxes : axis[a] = "Current"

ObservationIsCurrent(o) ==
    /\ \A a \in ObservedAxes : o.at[a] = gen[a]
    /\ CurrentForObservation

\* make_observation: running out of numbers is a fault.
Observes(fingerprint, forTarget, isFinal) ==
    LET o == [id |-> nextObs, fingerprint |-> fingerprint, at |-> [a \in ObservedAxes |-> gen[a]],
              target |-> forTarget, sealed |-> FALSE]
    IN  /\ CurrentForObservation
        /\ IF nextObs = MaxObservation THEN Fault
           ELSE /\ nextObs' = nextObs + 1
                /\ final' = IF isFinal THEN o ELSE final
                /\ discovery' = IF isFinal THEN discovery ELSE o
                /\ UNCHANGED <<gen, axis, evidence, target, attempt, terminal, faulted, published>>

RecordDiscovery(fingerprint) == Observes(fingerprint, 0, FALSE)

BeginFinalTarget ==
    /\ discovery # NoObservation /\ ~faulted
    /\ Invalidated("Target",
                   [is |-> "Pending", generation |-> gen["Target"] + 1, discovery |-> discovery.id,
                    fingerprint |-> discovery.fingerprint, final |-> 0], "Pending")

RecordFinalObservation(fingerprint) ==
    /\ target.is = "Pending"
    /\ discovery.id = target.discovery /\ discovery # NoObservation
    /\ evidence.power
    /\ gen["Scan"] > discovery.at["Scan"]
    /\ Observes(fingerprint, target.generation, TRUE)

SealFinalObservation ==
    /\ final # NoObservation
    /\ final.target = gen["Target"] /\ ObservationIsCurrent(final)
    /\ final' = [final EXCEPT !.sealed = TRUE]
    /\ UNCHANGED <<gen, axis, discovery, evidence, target, attempt, terminal, nextObs, faulted,
                   published>>

\* matching_join: the observation named is the final one, sealed, of this target and
\* still current; if not, the target is rejected and its state unknown.
JoinMatches_AnySeal == final.fingerprint = target.fingerprint /\ final.target = target.generation

JoinMatches ==
    /\ final # NoObservation /\ final.sealed
    /\ final.fingerprint = target.fingerprint /\ final.target = target.generation
    /\ ObservationIsCurrent(final)

MatchingJoin(named) ==
    /\ target.is = "Pending"
    /\ IF named /\ JoinMatches
       THEN /\ evidence' = [evidence EXCEPT !.beacon = TRUE]
            /\ target' = [target EXCEPT !.is = "Current", !.final = final.id]
            /\ axis' = [axis EXCEPT !["Target"] = "Current"]
            /\ UNCHANGED <<gen, discovery, final, attempt, terminal, nextObs, faulted, published>>
       ELSE /\ ~faulted
            /\ Invalidated("Target", [NoTarget EXCEPT !.is = "Unknown",
                                                      !.generation = gen["Target"] + 1], "Unknown")

InstallPowerEvidence ==
    /\ axis["Power"] = "Current" /\ target.is \in {"Pending", "Current"}
    /\ evidence' = [evidence EXCEPT !.power = TRUE]
    /\ UNCHANGED <<gen, axis, discovery, final, target, attempt, terminal, nextObs, faulted,
                   published>>

(***************************************************************************)
(* Attempts.                                                               *)
(***************************************************************************)
Evident == ~faulted /\ evidence.beacon /\ evidence.power /\ target.is = "Current"

LineageClosed_AnyRevoked == attempt.is \in {"None", "Spent", "Revoked"}

LineageClosed == attempt.is \in {"None", "Spent"} \/ (attempt.is = "Revoked" /\ terminal # "none")

AuthorizeAttempt ==
    /\ Evident /\ ~evidence.authorized /\ LineageClosed
    /\ evidence' = [evidence EXCEPT !.authorized = TRUE]
    /\ UNCHANGED <<gen, axis, discovery, final, target, attempt, terminal, nextObs, faulted,
                   published>>

ReserveAttempt ==
    /\ Evident /\ evidence.authorized
    /\ attempt.is \in {"None", "Spent", "Revoked"}
    /\ IF gen["Attempt"] = Last("Attempt") THEN Fault
       ELSE /\ gen' = [gen EXCEPT !["Attempt"] = @ + 1]
            /\ axis' = [axis EXCEPT !["Attempt"] = "Current"]
            /\ evidence' = [evidence EXCEPT !.authorized = FALSE, !.lease = TRUE]
            /\ terminal' = "none"
            /\ attempt' = [NoAttempt EXCEPT !.is = "Live", !.generation = gen["Attempt"] + 1]
            /\ UNCHANGED <<discovery, final, target, nextObs, faulted, published>>

Moves(from, to) ==
    /\ attempt.is = from
    /\ attempt' = [attempt EXCEPT !.is = to]
    /\ evidence' = [evidence EXCEPT !.lease = @ /\ to = "Staged"]
    /\ published' = IF to = "Committing" THEN published \cup {attempt.generation} ELSE published
    /\ UNCHANGED <<gen, axis, discovery, final, target, terminal, nextObs, faulted>>

StageAttempt == Moves("Live", "Staged")
Commit == Moves("Staged", "Committing")
Submitted == Moves("Committing", "InFlight")

\* cancel: before the commit it is final, after it only an abort is requested.
Cancel ==
    /\ \/ /\ attempt.is \in {"Live", "Staged"} /\ terminal = "none"
          /\ attempt' = [attempt EXCEPT !.is = "Revoked", !.sent = FALSE]
          /\ evidence' = [evidence EXCEPT !.lease = FALSE]
          /\ terminal' = "CancelledBeforePublish"
       \/ /\ attempt.is \in {"Committing", "InFlight"}
          /\ attempt' = [attempt EXCEPT !.abort = TRUE]
          /\ UNCHANGED <<evidence, terminal>>
    /\ UNCHANGED <<gen, axis, discovery, final, target, nextObs, faulted, published>>

FinishAttempt(result) ==
    /\ \/ attempt.is = "Committing" /\ result \in {"MayHaveTransmitted", "Contained"}
       \/ attempt.is = "InFlight"
    /\ terminal = "none"
    /\ terminal' = result
    /\ attempt' = [attempt EXCEPT !.is = "Spent"]
    /\ evidence' = [evidence EXCEPT !.lease = FALSE]
    /\ UNCHANGED <<gen, axis, discovery, final, target, nextObs, faulted, published>>

FinishRevokedAttempt ==
    /\ attempt.is = "Revoked" /\ terminal = "none"
    /\ terminal' = IF attempt.sent THEN "MayHaveTransmitted" ELSE "Contained"
    /\ attempt' = [attempt EXCEPT !.is = "Spent"]
    /\ UNCHANGED <<gen, axis, discovery, final, evidence, target, nextObs, faulted, published>>

AuthorityNext ==
    \/ \E cause \in DOMAIN Rules : BeginInvalidation(cause)
    \/ \E a \in Axes : Confirm(a)
    \/ \E a \in Axes : FailAxis(a)
    \/ \E f \in Fingerprints : RecordDiscovery(f)
    \/ BeginFinalTarget
    \/ \E f \in Fingerprints : RecordFinalObservation(f)
    \/ SealFinalObservation
    \/ \E named \in BOOLEAN : MatchingJoin(named)  \* the caller names the final observation
    \/ InstallPowerEvidence
    \/ AuthorizeAttempt
    \/ ReserveAttempt
    \/ StageAttempt
    \/ Commit
    \/ Submitted
    \/ Cancel
    \/ \E result \in {"Completed", "MayHaveTransmitted", "Contained"} : FinishAttempt(result)
    \/ FinishRevokedAttempt

AuthoritySpec == AuthorityInit /\ [][AuthorityNext]_authorityVars

(***************************************************************************)
(* Properties.                                                             *)
(***************************************************************************)

\* Counters never pass their maximum: exhaustion is a fault, not a wrap.
AuthorityTypeOK ==
    /\ \A a \in Axes : gen[a] \in 0 .. Last(a)
    /\ axis \in [Axes -> {"Current", "Pending", "Unknown"}]
    /\ nextObs \in 1 .. MaxObservation

\* An attempt that can still be committed stands on evidence that is current at
\* this moment: a sealed observation of this very target made under the present
\* generations, with power evidence.  No sequence of invalidations leaves a lease
\* or an authorisation behind.
AttemptOnFreshEvidence ==
    evidence.lease \/ evidence.authorized \/ attempt.is \in {"Live", "Staged"} =>
        /\ Evident
        /\ final.id = target.final /\ final.sealed /\ ObservationIsCurrent(final)
        /\ final.target = gen["Target"] /\ target.generation = gen["Target"]
        /\ axis["Power"] = "Current" /\ axis["Target"] = "Current"

\* Nobody is told that an attempt had no effect after its commit was decided:
\* neither a cancellation nor the end of a revoked attempt denies a publication.
PublicationNotDenied ==
    /\ terminal = "CancelledBeforePublish" => attempt.generation \notin published
    /\ attempt.is = "Revoked" /\ attempt.generation \in published => attempt.sent

\* Every attempt ends in one terminal result, selected once, before the next one is
\* reserved.
OneTerminalPerAttempt ==
    [][/\ terminal # "none" /\ terminal' # terminal => gen'["Attempt"] > gen["Attempt"]
       /\ gen'["Attempt"] > gen["Attempt"] /\ gen["Attempt"] > 0 => terminal # "none"]_authorityVars

\* A fault is final: nothing can be authorised, observed or committed any more.
FaultIsFinal ==
    faulted => /\ evidence = NoEvidence /\ attempt.is \notin {"Live", "Staged", "Committing", "InFlight"}
               /\ target = NoTarget /\ \A a \in Axes : axis[a] = "Unknown"

\* An attempt to transmit stands on current evidence, a published transmission is
\* never reported as denied, and a fault is final.
AuthoritySafe ==
    /\ AuthorityTypeOK /\ AttemptOnFreshEvidence /\ PublicationNotDenied /\ FaultIsFinal
=============================================================================
