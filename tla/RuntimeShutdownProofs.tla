------------------------ MODULE RuntimeShutdownProofs ------------------------
(***************************************************************************)
(* A shutdown that returns Ok has contained the hardware, once and for     *)
(* all, and a dropped one loses nothing the next needs, for every value of *)
(* the constants.                                                          *)
(***************************************************************************)
EXTENDS RuntimeShutdown, DriverActorProofs

(* The owner knows what became of the task it adopted, a shutdown in       *)
(* progress has revoked every epoch, and past its join the task has ended. *)
OwnerInv ==
    /\ reset_requested \in BOOLEAN
    /\ owner \in {"running", "returned", "lost", "dropped"}
    /\ owner \in {"returned", "lost"} => task = owner
    /\ revoked => live \cap Epochs = {}
    /\ waiter # "none" => revoked /\ owner # "dropped"
    /\ waiter \in {"protocol", "abort"} => owner # "running"

(* Every step of the runtime is a step of the actor or leaves it alone. *)
LEMMA ShutdownStep ==
    ASSUME OwnerInv, [ShutdownNext]_allvars
    PROVE  [Next]_vars
<1>1. ASSUME NEW reset \in BOOLEAN, Revoking(reset) PROVE Next
  BY <1>1 DEF Revoking, Next, Owner
<1>2. CASE \/ StopRequested \/ ContainError \/ ObserveHardware
           \/ ObserveProtocol \/ BeginShutdown
  BY <1>1, <1>2, Zenon DEF StopRequested, ContainError, ObserveHardware,
                    ObserveProtocol, BeginShutdown, OwnerInv
<1>3. CASE Join \/ ProtocolTimeout \/ CancelShutdown \/ ProtocolEnds
  BY <1>3 DEF Join, ProtocolTimeout, CancelShutdown, ProtocolEnds
<1>4. CASE Finish
  BY <1>4 DEF Finish, HardwareSettles, Next, OwnerInv
<1>5. CASE DropRuntime
  BY <1>5 DEF DropRuntime, Next, Owner
<1>6. CASE HardwareStep
  BY <1>6 DEF HardwareStep, Next, Owner
<1>7. CASE UNCHANGED allvars
  BY <1>7 DEF allvars
<1> QED
  BY <1>2, <1>3, <1>4, <1>5, <1>6, <1>7 DEF ShutdownNext, Shutdown

(* What HardwareStep may do to what OwnerInv speaks of. *)
LEMMA HardwareOwned ==
    ASSUME TypeOK, EndInv, OwnerInv, HardwareStep
    PROVE  /\ live' = live
           /\ owner \in {"returned", "lost"} => task' = task
<1> USE DEF authority, exit
<1>1. CASE Tick \/ Protocol
  BY <1>1, Zenon DEF Tick, Protocol, Send
<1>2. CASE Start
  BY <1>2 DEF Start, OwnerInv
<1>3. CASE \E id \in Ids : DeviceComplete(id)
  BY <1>3 DEF DeviceComplete
<1>4. CASE Serve
  BY <1>4, Zenon DEF Serve, ServeLink, ServeFinishAttempt, ServePowerSave, ServeStop,
              ServeReset, Command, Answer, OwnerInv
<1>5. CASE Poll
  BY <1>5, ZenonT(30) DEF Poll, PollFault, PollIdle, PollReject, PollSync, PollAsync,
              PollTransmit, PollRetain, PollTransmitFault, Polling, Pop,
              OwnerInv
<1>6. CASE (task = "serving" \/ owner = "dropped") /\ TaskLost
  BY <1>6 DEF TaskLost, OwnerInv
<1>7. ASSUME NEW n, NEW c, OwnerSend(n, c)
      PROVE  live' = live /\ task' = task
  BY <1>7 DEF OwnerSend
<1> QED
  BY <1>1, <1>2, <1>3, <1>4, <1>5, <1>6, <1>7 DEF HardwareStep

(* Every step keeps OwnerInv. *)
LEMMA OwnerStep ==
    ASSUME TypeOK, EndInv, OwnerInv, [ShutdownNext]_allvars
    PROVE  OwnerInv'
<1> USE DEF OwnerInv
<1>1. ASSUME NEW reset \in BOOLEAN, Revoking(reset)
      PROVE  /\ revoked' /\ live' \cap Epochs = {} /\ task' = task
             /\ reset_requested' \in BOOLEAN
  BY <1>1 DEF Revoking, RequestStop, exit
<1>2. CASE \/ StopRequested \/ ContainError \/ ObserveHardware
           \/ ObserveProtocol \/ BeginShutdown
  BY <1>1, <1>2, Zenon DEF StopRequested, ContainError, ObserveHardware,
                    ObserveProtocol, BeginShutdown, Callable
<1>3. CASE Join \/ ProtocolTimeout \/ CancelShutdown \/ ProtocolEnds
  BY <1>3 DEF Join, ProtocolTimeout, CancelShutdown, ProtocolEnds, vars,
              authority, exit
<1>4. CASE Finish
  <2>1. live' = live /\ task' = task
    BY <1>4 DEF Finish, HardwareSettles, Certify, vars, authority, exit
  <2> QED
    BY <1>4, <2>1 DEF Finish
<1>5. CASE DropRuntime
  BY <1>5 DEF DropRuntime, DropOwner, Callable
<1>6. CASE HardwareStep
  BY <1>6, HardwareOwned DEF HardwareStep, runtime
<1>7. CASE UNCHANGED allvars
  BY <1>7 DEF allvars, vars, runtime, authority, exit
<1> QED
  BY <1>2, <1>3, <1>4, <1>5, <1>6, <1>7 DEF ShutdownNext, Shutdown

(* OwnerInv always holds, together with what is known of the actor. *)
LEMMA OwnerAlways == ShutdownSpec => [](TypeOK /\ StopOwed /\ EndInv /\ OwnerInv)
<1> DEFINE I == TypeOK /\ DeviceInv /\ EndInv /\ OwnerInv
<1>1. ShutdownInit => I
  <2>1. Init => TypeOK /\ DeviceInv /\ EndInv
    BY InitType
       DEF Init, DeviceInv, OneOperationAtATime, StopOwed, EndInv
  <2> QED
    BY <2>1, Zenon DEF ShutdownInit, OwnerInv
<1>2. I /\ [ShutdownNext]_allvars => I'
  <2>1. DeviceInv => StopOwed
    BY DEF DeviceInv
  <2> QED
    BY <2>1, ShutdownStep, OwnerStep, NextType, DeviceStep, EndStep
<1>3. I => TypeOK /\ StopOwed /\ EndInv /\ OwnerInv
  BY DEF DeviceInv
<1> QED
  BY <1>1, <1>2, <1>3, PTL DEF ShutdownSpec

(* Runtime and actor together implement the actor's specification, so      *)
(* every theorem about DriverActor holds of them.                          *)
LEMMA RuntimeImplementsActor == ShutdownSpec => Spec
<1>1. ShutdownInit => Init
  BY DEF ShutdownInit
<1>2. OwnerInv /\ [ShutdownNext]_allvars => [Next]_vars
  BY ShutdownStep
<1> QED
  BY <1>1, <1>2, OwnerAlways, PTL DEF ShutdownSpec, Spec

(* shutdown returns Ok only for contained hardware: the stop or the reset  *)
(* owed has succeeded, nothing is outstanding or queued and no epoch is    *)
(* live, whichever waiters were abandoned before.                          *)
THEOREM ShutdownCertifies == ShutdownSpec => OkMeansContained
<1>1. TypeOK /\ StopOwed /\ EndInv /\ OwnerInv => [Contained]_allvars
  <2> SUFFICES ASSUME TypeOK, StopOwed, EndInv, OwnerInv, Finish, verdict' = "ok"
               PROVE  /\ \/ device' = "reset"
                         \/ ~reset_requested /\ device' = "stopped"
                      /\ outstanding' = {} /\ queue' = {}
                      /\ live' \cap Epochs = {}
    BY DEF Contained
  <2>1. waiter \in {"protocol", "abort"}
    BY DEF Finish, ProtocolSettles
  <2>2. task = owner /\ live \cap Epochs = {} /\ revoked
    BY <2>1 DEF OwnerInv
  <2>3. HardwareSettles("ok")
    BY DEF Finish
  <2>4. CASE Observed /\ owner = "returned" /\ result = "ok" /\ UNCHANGED vars
    BY <2>2, <2>4 DEF Observed, EndInv, vars, authority, mailbox, hardware
  <2>5. CASE owner = "returned" /\ Certify(reset_requested) /\ result' = "ok"
    <3>1. queue' = {} /\ live' = live
      BY <2>5 DEF Certify, Close, authority
    <3>2. CASE reset_requested
      BY <2>2, <2>5, <3>1, <3>2 DEF Certify, ResetDevice, EndInv
    <3>3. CASE ~reset_requested
      BY <2>2, <2>5, <3>1, <3>3 DEF Certify, StopDevice, EndInv, StopOwed, TypeOK
    <3> QED
      BY <3>2, <3>3
  <2> QED
    BY <2>3, <2>4, <2>5 DEF HardwareSettles
<1> QED
  BY <1>1, OwnerAlways, PTL DEF OkMeansContained

(* Once revoked, the serving actor has a stop or a reset ahead of it. *)
TerminalInv == revoked /\ task = "serving" => StopAdmitted

(* What shutdown reports of the protocol task is stored before the task is *)
(* given up; and past an Ok nothing is left that a later call could find   *)
(* otherwise: no stop or reset is owed and the outcomes stored are Ok.     *)
OutcomeInv ==
    /\ task = "new" => ~revoked
    /\ protocol \in {"running", "ok", "error", "none"}
    /\ protocol = "none" => protocol_result \in {"ok", "error"}
    /\ waiter = "abort" => protocol = "error"
    /\ verdict = "ok" =>
          /\ revoked /\ owner \in {"returned", "dropped"}
          /\ protocol = "none" /\ protocol_result = "ok"
          /\ task \in {"returned", "lost"}
          /\ owner = "returned" => result = "ok"
          /\ device \in {"stopped", "reset"}
          /\ reset_requested => reset_completed

(* A stop admitted stays admitted: appending keeps every command, and the  *)
(* actor takes any other command from the front.                           *)
LEMMA AppendAdmitted ==
    ASSUME TypeOK, StopAdmitted, NEW c \in OwnerCommands,
           control' = Append(control, c), control_closed' = control_closed
    PROVE  StopAdmitted'
<1>1. CASE control_closed
  BY <1>1 DEF StopAdmitted
<1>2. CASE ~control_closed
  <2>1. PICK i \in 1 .. Len(control) : control[i].command \in {"Stop", "Reset"}
    BY <1>2 DEF StopAdmitted
  <2>2. control \in Seq(OwnerCommands)
    BY DEF TypeOK
  <2>3. i \in 1 .. Len(control') /\ control'[i] = control[i]
    BY <2>1, <2>2
  <2> QED
    BY <2>1, <2>3 DEF StopAdmitted
<1> QED
  BY <1>1, <1>2

LEMMA TailAdmitted ==
    ASSUME TypeOK, StopAdmitted, control # <<>>,
           Head(control).command \notin {"Stop", "Reset"},
           control' = Tail(control), control_closed' = control_closed
    PROVE  StopAdmitted'
<1>1. CASE control_closed
  BY <1>1 DEF StopAdmitted
<1>2. CASE ~control_closed
  <2>1. PICK i \in 1 .. Len(control) : control[i].command \in {"Stop", "Reset"}
    BY <1>2 DEF StopAdmitted
  <2>2. control \in Seq(OwnerCommands)
    BY DEF TypeOK
  <2>3. i # 1
    BY <2>1, <2>2
  <2>4. i - 1 \in 1 .. Len(control') /\ control'[i - 1] = control[i]
    BY <2>1, <2>2, <2>3
  <2> QED
    BY <2>1, <2>4 DEF StopAdmitted
<1> QED
  BY <1>1, <1>2

(* Revoking admits the stop: into the channel, or by closing it. *)
LEMMA RevokingAdmits ==
    ASSUME TypeOK, NEW command \in {"Stop", "Reset"},
           control' = WithTerminal(command),
           control_closed' \/ control_closed' = (control' = control)
    PROVE  StopAdmitted'
<1> DEFINE terminal == [command |-> command, id |-> NoOp, context |-> NoContext]
<1>1. control \in Seq(OwnerCommands)
  BY DEF TypeOK
<1>2. CASE control_closed'
  BY <1>2 DEF StopAdmitted
<1>3. CASE ~control_closed'
  <2>1. control' # control
    BY <1>3
  <2>2. control' = Append(control, terminal)
    BY <2>1 DEF WithTerminal
  <2>3. terminal \in OwnerCommands
    BY DEF OwnerCommands
  <2>4. /\ Len(control') = Len(control) + 1
        /\ control'[Len(control) + 1] = terminal
    BY <1>1, <2>2, <2>3
  <2>5. Len(control) + 1 \in 1 .. Len(control')
    BY <1>1, <2>4
  <2> QED
    BY <2>4, <2>5 DEF StopAdmitted
<1> QED
  BY <1>2, <1>3

(* Every step keeps TerminalInv. *)
LEMMA TerminalStep ==
    ASSUME TypeOK, OwnerInv, OutcomeInv, TerminalInv, [ShutdownNext]_allvars
    PROVE  TerminalInv'
<1> USE DEF TerminalInv, exit, channel
<1>1. ASSUME NEW reset \in BOOLEAN, Revoking(reset)
      PROVE  StopAdmitted'
  BY <1>1, RevokingAdmits DEF Revoking, RequestStop
<1>2. CASE \/ StopRequested \/ ContainError \/ ObserveHardware
           \/ ObserveProtocol \/ BeginShutdown
  BY <1>1, <1>2, Zenon DEF StopRequested, ContainError, ObserveHardware,
                    ObserveProtocol, BeginShutdown, OwnerInv
<1>3. ASSUME UNCHANGED <<control, control_closed>>, StopAdmitted
      PROVE  StopAdmitted'
  BY <1>3 DEF StopAdmitted
<1>4. CASE Join \/ ProtocolTimeout \/ CancelShutdown \/ ProtocolEnds
  <2>1. UNCHANGED <<control, control_closed, task, revoked>>
    BY <1>4, Zenon DEF Join, ProtocolTimeout, CancelShutdown, ProtocolEnds, vars
  <2> QED
    BY <1>3, <2>1, Zenon
<1>5. CASE Finish
  BY <1>3, <1>5 DEF Finish, HardwareSettles, Certify, vars
<1>6. CASE DropRuntime
  BY <1>6 DEF DropRuntime, DropOwner, StopAdmitted
<1>7. CASE HardwareStep
  <2>1. revoked' = revoked
    BY <1>7 DEF HardwareStep, runtime
  <2> SUFFICES ASSUME revoked, task' = "serving"
               PROVE  StopAdmitted'
    BY <2>1
  <2>2. CASE Tick \/ Protocol \/ \E id \in Ids : DeviceComplete(id)
    BY <1>3, <2>2, Zenon DEF Tick, Protocol, Send, DeviceComplete
  <2>3. CASE Start
    BY <2>3 DEF Start, OutcomeInv
  <2>4. CASE ServeLink \/ ServeFinishAttempt \/ ServePowerSave
    <3>1. /\ control # <<>> /\ Head(control).command \notin {"Stop", "Reset"}
          /\ control' = Tail(control) /\ control_closed' = control_closed
          /\ task = "serving"
      <4>1. \E name \in {"Link", "FinishAttempt", "PowerSave"} : Command(name)
        BY <2>4, Zenon DEF ServeLink, ServeFinishAttempt, ServePowerSave
      <4>2. \E outcome : Answer(outcome)
        BY <2>4, Zenon DEF ServeLink, ServeFinishAttempt, ServePowerSave
      <4> QED
        BY <4>1, <4>2 DEF Command, Answer
    <3> QED
      BY <3>1, TailAdmitted
  <2>5. CASE ServeStop \/ ServeReset \/ TaskLost
    BY <2>5 DEF ServeStop, ServeReset, TaskLost
  <2>6. CASE Poll
    BY <1>3, <2>6, ZenonT(30) DEF Poll, PollFault, PollIdle, PollReject, PollSync,
              PollAsync, PollTransmit, PollRetain, PollTransmitFault, Polling, Pop
  <2> QED
    BY <1>7, <2>2, <2>3, <2>4, <2>5, <2>6 DEF HardwareStep, Serve
<1>8. CASE UNCHANGED allvars
  BY <1>3, <1>8 DEF allvars, vars, runtime
<1> QED
  BY <1>2, <1>4, <1>5, <1>6, <1>7, <1>8 DEF ShutdownNext, Shutdown

(* The hardware task is spawned once. *)
LEMMA TaskStays ==
    ASSUME HardwareStep, task' = "new"
    PROVE  task = "new"
<1> USE DEF exit
<1>1. CASE Tick \/ Protocol \/ Start
  BY <1>1, Zenon DEF Tick, Protocol, Send, Start
<1>2. CASE \E id \in Ids : DeviceComplete(id)
  BY <1>2 DEF DeviceComplete
<1>3. CASE Serve
  BY <1>3, Zenon DEF Serve, ServeLink, ServeFinishAttempt, ServePowerSave, ServeStop,
              ServeReset, Answer
<1>4. CASE Poll
  BY <1>4, ZenonT(30) DEF Poll, PollFault, PollIdle, PollReject, PollSync, PollAsync,
              PollTransmit, PollRetain, PollTransmitFault, Pop
<1>5. CASE TaskLost
  BY <1>5 DEF TaskLost
<1>6. ASSUME NEW n, NEW c, OwnerSend(n, c)
      PROVE  task' = task
  BY <1>6 DEF OwnerSend
<1> QED
  BY <1>1, <1>2, <1>3, <1>4, <1>5, <1>6 DEF HardwareStep

(* What the hardware does of itself once shutdown returned Ok: nothing to  *)
(* the device, and at most the task of a dropped runtime is lost.          *)
LEMMA QuietHardware ==
    ASSUME TypeOK, StopOwed, EndInv, OwnerInv, OutcomeInv, HardwareStep,
           verdict = "ok"
    PROVE  /\ UNCHANGED <<device, outstanding, reset_completed>>
           /\ task' \in {"returned", "lost"}
           /\ owner = "returned" => result' = result
<1> USE DEF authority, exit, hardware, actor
<1>1. /\ closed /\ ~stop_pending /\ outstanding = {} /\ task \in {"returned", "lost"}
      /\ revoked /\ owner \in {"returned", "dropped"}
  BY DEF EndInv, StopOwed, OutcomeInv
<1>2. CASE Tick \/ Protocol
  BY <1>1, <1>2, Zenon DEF Tick, Protocol, Send
<1>3. CASE Start \/ Serve \/ Poll
  BY <1>1, <1>3, Zenon DEF Start, Serve, ServeLink, ServeFinishAttempt,
              ServePowerSave, ServeStop, ServeReset, Command, Poll, PollFault,
              PollIdle, PollReject, PollSync, PollAsync, PollTransmit, PollRetain,
              PollTransmitFault, Polling
<1>4. CASE \E id \in Ids : DeviceComplete(id)
  BY <1>1, <1>4 DEF DeviceComplete
<1>5. CASE (task = "serving" \/ owner = "dropped") /\ TaskLost
  <2>1. task' = "lost" /\ owner # "returned"
    BY <1>1, <1>5, Zenon DEF TaskLost
  <2>2. \E status \in {"ok", "error"} : StopDevice(status)
    BY <1>5, Zenon DEF TaskLost
  <2>3. UNCHANGED <<device, outstanding, reset_completed>>
    BY <1>1, <2>2, Zenon DEF StopDevice
  <2> QED
    BY <2>1, <2>3
<1> QED
  BY <1>1, <1>2, <1>3, <1>4, <1>5 DEF HardwareStep

(* Every step keeps OutcomeInv, and what an Ok said stays true. *)
LEMMA OutcomeStep ==
    ASSUME TypeOK, StopOwed, EndInv, EndInv', OwnerInv, OutcomeInv,
           [ShutdownNext]_allvars
    PROVE  OutcomeInv' /\ OkLasts
<1> USE DEF OutcomeInv, OkLasts, vars, exit, hardware, actor
<1>1. ASSUME NEW reset \in BOOLEAN, Revoking(reset)
      PROVE  /\ revoked' /\ reset_requested' = reset /\ task # "new"
             /\ UNCHANGED <<task, result, device, outstanding, reset_completed>>
  BY <1>1 DEF Revoking, RequestStop
<1>2. CASE StopRequested \/ BeginShutdown
  BY <1>1, <1>2 DEF StopRequested, BeginShutdown, OwnerInv
<1>3. CASE ContainError \/ ObserveHardware \/ ObserveProtocol
  <2>1. revoked' /\ task # "new" /\ task' = task
    BY <1>1, <1>3, Zenon DEF ContainError, ObserveHardware, ObserveProtocol
  <2>2. ~revoked /\ waiter' = "none" /\ verdict' = verdict
    BY <1>3, Zenon DEF ContainError, ObserveHardware, ObserveProtocol, Callable
  <2>3. \/ UNCHANGED <<protocol, protocol_result>>
        \/ protocol' = "none" /\ protocol_result' \in {"ok", "error"}
    BY <1>3, Zenon DEF ContainError, ObserveHardware, ObserveProtocol
  <2> QED
    BY <2>1, <2>2, <2>3
<1>4. CASE Join \/ ProtocolTimeout \/ CancelShutdown \/ ProtocolEnds
  BY <1>4 DEF Join, ProtocolTimeout, CancelShutdown, ProtocolEnds
<1>5. CASE Finish
  <2>1. PICK outcome, status \in {"none", "ok", "error"} :
           /\ ProtocolSettles(outcome)
           /\ HardwareSettles(status)
           /\ protocol_result' = outcome
           /\ verdict' = IF status = "ok" /\ outcome = "ok" THEN "ok" ELSE "error"
    BY <1>5 DEF Finish
  <2>2. /\ waiter \in {"protocol", "abort"} /\ waiter' = "none"
        /\ protocol' = "none" /\ outcome \in {"ok", "error"}
        /\ UNCHANGED <<owner, revoked, reset_requested>>
    BY <1>5, <2>1 DEF Finish, ProtocolSettles
  <2>3. revoked /\ task = owner /\ owner \in {"returned", "lost"} /\ task' = task
    BY <2>1, <2>2 DEF OwnerInv, HardwareSettles, Certify
  <2>4. ASSUME status = "ok"
        PROVE  /\ owner = "returned" /\ result' = "ok"
               /\ reset_requested => reset_completed'
    BY <2>1, <2>4 DEF HardwareSettles, Observed, Certify, ResetDevice
  <2>5. ASSUME status = "ok"
        PROVE  device' \in {"stopped", "reset"}
    BY <2>4, <2>5 DEF EndInv
  <2>6. ASSUME verdict = "ok"
        PROVE  /\ status = "ok" /\ outcome = "ok"
               /\ UNCHANGED <<device, outstanding>>
    <3>1. owner = "returned" /\ result = "ok" /\ outcome = "ok" /\ ~stop_pending
      BY <2>1, <2>2, <2>3, <2>6 DEF ProtocolSettles, StopOwed
    <3>2. CASE Observed
      BY <2>1, <3>1, <3>2 DEF HardwareSettles
    <3>3. CASE ~Observed /\ reset_requested
      BY <2>1, <2>6, <3>1, <3>3 DEF HardwareSettles, Certify, ResetDevice
    <3>4. CASE ~Observed /\ ~reset_requested
      BY <2>1, <2>6, <3>1, <3>4 DEF HardwareSettles, Certify, StopDevice
    <3> QED
      BY <3>1, <3>2, <3>3, <3>4
  <2> QED
    BY <2>1, <2>2, <2>3, <2>4, <2>5, <2>6
<1>6. CASE DropRuntime
  BY <1>6 DEF DropRuntime, DropOwner, Callable
<1>7. CASE HardwareStep
  <2>1. UNCHANGED <<owner, revoked, reset_requested, protocol, protocol_result,
                    waiter, verdict>>
    BY <1>7 DEF HardwareStep, runtime
  <2>2. CASE verdict = "ok"
    BY <1>7, <2>1, <2>2, QuietHardware
  <2>3. CASE verdict # "ok"
    <3>1. task' = "new" => task = "new"
      BY <1>7, TaskStays
    <3> QED
      BY <2>1, <2>3, <3>1
  <2> QED
    BY <2>2, <2>3
<1>8. CASE UNCHANGED allvars
  BY <1>8 DEF allvars, runtime
<1> QED
  BY <1>2, <1>3, <1>4, <1>5, <1>6, <1>7, <1>8 DEF ShutdownNext, Shutdown

(* Whatever the caller dropped, the owner holds what the hardware task     *)
(* left, a revoked actor has its stop ahead and the protocol task's        *)
(* outcome is stored; and an Ok is final for verdict and device.           *)
THEOREM OwnershipIsKept == ShutdownSpec => OwnershipSurvives
<1> DEFINE I == TypeOK /\ DeviceInv /\ EndInv /\ OwnerInv /\ OutcomeInv /\ TerminalInv
<1>1. ShutdownInit => I
  <2>1. Init => TypeOK /\ DeviceInv /\ EndInv
    BY InitType
       DEF Init, DeviceInv, OneOperationAtATime, StopOwed, EndInv
  <2> QED
    BY <2>1, Zenon DEF ShutdownInit, OwnerInv, OutcomeInv, TerminalInv
<1>2. I /\ [ShutdownNext]_allvars => I' /\ OkLasts
  <2> SUFFICES ASSUME I, [ShutdownNext]_allvars PROVE I' /\ OkLasts
    OBVIOUS
  <2>1. StopOwed
    BY DEF DeviceInv
  <2>2. TypeOK' /\ DeviceInv' /\ EndInv' /\ OwnerInv'
    BY <2>1, ShutdownStep, OwnerStep, NextType, DeviceStep, EndStep
  <2>3. OutcomeInv' /\ OkLasts
    BY <2>1, <2>2, OutcomeStep
  <2> QED
    BY <2>2, <2>3, TerminalStep
<1>3. I => StillOwned
  BY DEF OwnerInv, OutcomeInv, TerminalInv, StillOwned
<1>4. I' => StillOwned'
  BY <1>3, PTL
<1> QED
  BY <1>1, <1>2, <1>4, PTL DEF ShutdownSpec, OwnershipSurvives

(* Every step keeps the runtime's own variables in their ranges. *)
LEMMA ShutdownTypeStep ==
    ASSUME ShutdownTypeOK, TypeOK', [ShutdownNext]_allvars
    PROVE  ShutdownTypeOK'
<1> USE DEF ShutdownTypeOK, Callable
<1>1. ASSUME NEW reset \in BOOLEAN, Revoking(reset)
      PROVE  revoked' \in BOOLEAN /\ reset_requested' \in BOOLEAN
  BY <1>1 DEF Revoking
<1>2. CASE \/ StopRequested \/ ContainError \/ ObserveHardware
           \/ ObserveProtocol \/ BeginShutdown
  BY <1>1, <1>2, Zenon DEF StopRequested, ContainError, ObserveHardware,
                    ObserveProtocol, BeginShutdown
<1>3. CASE Join \/ ProtocolTimeout \/ CancelShutdown \/ ProtocolEnds
  BY <1>3 DEF Join, ProtocolTimeout, CancelShutdown, ProtocolEnds
<1>4. CASE Finish
  BY <1>4 DEF Finish
<1>5. CASE DropRuntime
  BY <1>5 DEF DropRuntime
<1>6. CASE HardwareStep \/ UNCHANGED allvars
  BY <1>6 DEF HardwareStep, runtime, allvars
<1> QED
  BY <1>2, <1>3, <1>4, <1>5, <1>6 DEF ShutdownNext, Shutdown

(* The owner holds only what a finished hardware task left, and every      *)
(* variable of runtime and actor stays in its range.                       *)
THEOREM ShutdownTypeCorrect == ShutdownSpec => []ShutdownTypeOK
<1>1. ShutdownInit => ShutdownTypeOK
  BY InitType, Zenon DEF ShutdownInit, ShutdownTypeOK
<1>2. ShutdownTypeOK /\ TypeOK' /\ [ShutdownNext]_allvars => ShutdownTypeOK'
  BY ShutdownTypeStep
<1> QED
  BY <1>1, <1>2, OwnerAlways, PTL DEF ShutdownSpec

(* What is proved of the actor carries over to the runtime that owns it:   *)
(* whatever stops, aborts and certifications it interleaves, the device    *)
(* gets one operation at a time in admission order, no reply is lost and   *)
(* every call is authorised.                                               *)
THEOREM RuntimeKeepsActorPromises ==
    ShutdownSpec => []ActorSafe /\ []RepliesConserved /\ CallsSound
  BY RuntimeImplementsActor, ActorIsSafe, RepliesAreConserved, CallsAreSound
=============================================================================
