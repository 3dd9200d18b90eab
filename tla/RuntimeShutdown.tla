--------------------------- MODULE RuntimeShutdown ---------------------------
(***************************************************************************)
(* Containment and certified shutdown of the client runtime                *)
(* (wlan-softmac-host/src/runtime.rs: request_stop, shutdown, check_tasks, *)
(* contain_error, Drop; driver.rs: HardwareOwner), composed with the       *)
(* driver actor it owns.                                                   *)
(*                                                                         *)
(* shutdown is an async fn over &mut self: "waiter" is the await it is     *)
(* suspended at, and while there is one nothing else touches the runtime.  *)
(* Dropping the future (CancelShutdown) may happen at each of its awaits.  *)
(***************************************************************************)
EXTENDS DriverActor

VARIABLES
    owner,            \* HardwareOwner: "running", "returned", "lost", or
                      \* "dropped" with the runtime
    revoked,          \* ClientRuntime.revoked
    reset_requested,  \* ClientRuntime.reset_requested
    protocol,         \* the protocol task: "running", its "ok" or "error"
                      \* outcome, "none" once the outcome was taken
    protocol_result,  \* ClientRuntime.protocol_result
    waiter,           \* "none", or where shutdown awaits: "join",
                      \* "protocol", "abort"
    was_running,      \* local of shutdown
    verdict           \* what the last completed shutdown returned

runtime == <<owner, revoked, reset_requested, protocol, protocol_result,
             waiter, was_running, verdict>>
allvars == <<vars, runtime>>

ShutdownInit ==
    /\ Init
    /\ owner = "running"
    /\ revoked = FALSE /\ reset_requested = FALSE
    /\ protocol = "running" /\ protocol_result = "none"
    /\ waiter = "none" /\ was_running = FALSE
    /\ verdict = "none"

(* A method of the runtime can be called. *)
Callable == task # "new" /\ owner # "dropped" /\ waiter = "none"
-----------------------------------------------------------------------------
(* ClientRuntime::request_stop, with the reset_requested it reads. *)
Revoking(reset) ==
    /\ revoked' = TRUE
    /\ reset_requested' = reset
    /\ RequestStop(IF reset THEN "Reset" ELSE "Stop", Epochs)

StopRequested ==
    /\ Callable
    /\ Revoking(reset_requested)
    /\ UNCHANGED <<owner, protocol, protocol_result, waiter, was_running,
                   verdict>>

(* contain_error: reached from check_tasks (overflow) and the attempt      *)
(* drivers, none of which run once revoked.                                *)
ContainError ==
    /\ Callable /\ ~revoked
    /\ Revoking(TRUE)
    /\ UNCHANGED <<owner, protocol, protocol_result, waiter, was_running,
                   verdict>>

(* check_tasks finds the hardware task finished (HardwareOwner::observe). *)
ObserveHardware ==
    /\ Callable /\ ~revoked
    /\ owner = "running" /\ task \in {"returned", "lost"}
    /\ owner' = task
    /\ Revoking(TRUE)
    /\ UNCHANGED <<protocol, protocol_result, waiter, was_running, verdict>>

(* check_tasks finds the protocol task finished. *)
ObserveProtocol ==
    /\ Callable /\ ~revoked
    /\ task = "serving"
    /\ protocol \in {"ok", "error"}
    /\ protocol_result' = protocol /\ protocol' = "none"
    /\ Revoking(TRUE)
    /\ UNCHANGED <<owner, waiter, was_running, verdict>>

BeginShutdown ==
    /\ Callable
    /\ was_running' = (owner = "running")
    /\ waiter' = "join"
    /\ Revoking(reset_requested)
    /\ UNCHANGED <<owner, protocol, protocol_result, verdict>>

Join_NotWaiting ==
    /\ waiter = "join"
    /\ owner' = IF owner = "running" THEN task ELSE owner
    /\ waiter' = "protocol"
    /\ UNCHANGED <<vars, revoked, reset_requested, protocol, protocol_result,
                   was_running, verdict>>

(* HardwareOwner::join: waits for the task only while the owner runs. *)
Join ==
    /\ waiter = "join"
    /\ owner = "running" => task \in {"returned", "lost"}
    /\ owner' = IF owner = "running" THEN task ELSE owner
    /\ waiter' = "protocol"
    /\ UNCHANGED <<vars, revoked, reset_requested, protocol, protocol_result,
                   was_running, verdict>>

(* The protocol task did not end in its three seconds and is aborted. *)
ProtocolTimeout ==
    /\ waiter = "protocol" /\ protocol = "running"
    /\ protocol' = "error" /\ waiter' = "abort"
    /\ UNCHANGED <<vars, owner, revoked, reset_requested, protocol_result,
                   was_running, verdict>>

(* The outcome shutdown stores: the one already stored, the task's, or     *)
(* TIMED_OUT.                                                              *)
ProtocolSettles(outcome) ==
    \/ waiter = "protocol" /\ protocol = "none" /\ outcome = protocol_result
    \/ waiter = "protocol" /\ protocol \in {"ok", "error"} /\ outcome = protocol
    \/ waiter = "abort" /\ outcome = "error"

Observed_EvenForReset == was_running

(* shutdown trusts what the task itself returned only if no reset is owed  *)
(* and the task was still running when shutdown began.                     *)
Observed == was_running /\ ~reset_requested

(* The hardware half of the verdict: observe, or certify. *)
HardwareSettles(status) ==
    \/ /\ Observed
       /\ status = IF owner = "returned" THEN result ELSE "error"
       /\ UNCHANGED vars
    \/ /\ ~Observed /\ owner = "returned"
       /\ Certify(reset_requested)
       /\ status = result'
    \/ /\ ~Observed /\ owner = "lost"
       /\ status = "error"
       /\ UNCHANGED vars

Finish ==
    /\ \E outcome, status \in {"none", "ok", "error"} :
          /\ ProtocolSettles(outcome)
          /\ HardwareSettles(status)
          /\ protocol_result' = outcome
          /\ verdict' = IF status = "ok" /\ outcome = "ok" THEN "ok"
                                                          ELSE "error"
    /\ protocol' = "none"
    /\ waiter' = "none"
    /\ UNCHANGED <<owner, revoked, reset_requested, was_running>>

CancelShutdown_TakenTask ==
    /\ waiter # "none"
    /\ waiter' = "none"
    /\ protocol' = IF waiter \in {"protocol", "abort"} THEN "none" ELSE protocol
    /\ UNCHANGED <<vars, owner, revoked, reset_requested, protocol_result,
                   was_running, verdict>>

(* The caller drops the shutdown future at one of its awaits. *)
CancelShutdown ==
    /\ waiter # "none"
    /\ waiter' = "none"
    /\ UNCHANGED <<vars, owner, revoked, reset_requested, protocol,
                   protocol_result, was_running, verdict>>

DropRuntime ==
    /\ Callable
    /\ DropOwner(IF reset_requested THEN "Reset" ELSE "Stop", Epochs)
    /\ owner' = "dropped"
    /\ revoked' = TRUE
    /\ UNCHANGED <<reset_requested, protocol, protocol_result, waiter,
                   was_running, verdict>>
-----------------------------------------------------------------------------
(* The protocol task ends: when the callbacks are told to stop, or early.  *)
ProtocolEnds ==
    /\ protocol = "running"
    /\ protocol' \in {"ok", "error"}
    /\ UNCHANGED <<vars, owner, revoked, reset_requested, protocol_result,
                   waiter, was_running, verdict>>

(* The runtime sends owner commands only from methods that passed          *)
(* check_tasks; a returned actor is lost only when its owner is dropped.   *)
HardwareStep ==
    /\ \/ Tick \/ Protocol \/ Start
       \/ \E id \in Ids : DeviceComplete(id)
       \/ Serve \/ Poll
       \/ (task = "serving" \/ owner = "dropped") /\ TaskLost
       \/ /\ Callable /\ ~revoked /\ owner = "running"
          /\ \/ \E command \in {"Link", "FinishAttempt"} :
                   OwnerSend(command, NoContext)
             \/ \E context \in ChildContexts : OwnerSend("PowerSave", context)
    /\ UNCHANGED runtime

Shutdown == Join \/ ProtocolTimeout \/ Finish

ShutdownNext ==
    \/ StopRequested \/ ContainError \/ ObserveHardware \/ ObserveProtocol
    \/ BeginShutdown \/ Shutdown \/ CancelShutdown \/ DropRuntime
    \/ ProtocolEnds
    \/ HardwareStep

ShutdownSpec == ShutdownInit /\ [][ShutdownNext]_allvars

-----------------------------------------------------------------------------
(* Every variable stays in its range: the owner holds only what a finished *)
(* hardware task left.                                                     *)
ShutdownTypeOK ==
    /\ TypeOK
    /\ owner \in {"running", "returned", "lost", "dropped"}
    /\ revoked \in BOOLEAN /\ reset_requested \in BOOLEAN
    /\ protocol \in {"running", "ok", "error", "none"}
    /\ protocol_result \in {"none", "ok", "error"}
    /\ waiter \in {"none", "join", "protocol", "abort"}
    /\ was_running \in BOOLEAN
    /\ verdict \in {"none", "ok", "error"}

Contained ==
    Finish /\ verdict' = "ok" =>
        /\ device' = "reset" \/ (~reset_requested /\ device' = "stopped")
        /\ outstanding' = {} /\ queue' = {}
        /\ live' \cap Epochs = {}

(* shutdown returns Ok only for hardware that is contained: stopped, or    *)
(* reset when containment was demanded, with nothing outstanding, nothing  *)
(* queued and no authority left.  "The caller retains reset escalation     *)
(* even if closing the full control channel can initially request only a   *)
(* stop" (driver.rs, HardwareOwner::request_stop).                         *)
OkMeansContained == [][Contained]_allvars

(* A stop or a reset is on its way to the actor, which reads a closed      *)
(* channel as a stop.                                                      *)
StopAdmitted ==
    \/ control_closed
    \/ \E i \in 1 .. Len(control) : control[i].command \in {"Stop", "Reset"}

StillOwned ==
    /\ owner \in {"returned", "lost"} => task = owner
    /\ revoked /\ task = "serving" => StopAdmitted
    /\ protocol = "none" => protocol_result # "none"

OkLasts ==
    verdict = "ok" => /\ verdict' = "ok"
                      /\ device' = device /\ outstanding' = outstanding

(* "Ownership survives canceled shutdown waiters and failed containment    *)
(* attempts" (driver.rs, HardwareOwner), "cancellation retains ownership   *)
(* and terminal intent" (runtime.rs, shutdown).  Wherever the future was   *)
(* dropped, the owner still holds what the hardware task left, the stop    *)
(* still reaches the actor and the outcome of the protocol task is still   *)
(* there for the next call; and once a call returned Ok every later one    *)
(* does, and the device stays as it was certified.                         *)
OwnershipSurvives == [][StillOwned' /\ OkLasts]_allvars

(* Once the runtime is revoked the hardware task ends and every caller is  *)
(* released, even if the control channel was full and all waiters left.    *)
RevokedQuiesces ==
    revoked ~> /\ task \in {"returned", "lost"}
               /\ \A i \in Ids : reply[i] # "waiting"

(* A shutdown that is not abandoned returns, although the protocol task    *)
(* may hang and the device may refuse to stop.                             *)
ShutdownReturns == waiter # "none" ~> waiter = "none"
=============================================================================
