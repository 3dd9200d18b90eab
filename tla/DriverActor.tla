---------------------------- MODULE DriverActor ----------------------------
(***************************************************************************)
(* The exclusive hardware owner and its bounded protocol mailbox           *)
(* (wlan-softmac-host/src/driver.rs: DriverHandle::send, DriverActor).     *)
(*                                                                         *)
(* The MLME task sends commands through a DriverHandle; the runtime sends  *)
(* owner commands over a bounded control channel; one task, DriverActor::  *)
(* serve, is the only caller of the device.  Every handler runs to its     *)
(* next await without interruption, so each is one action here.            *)
(*                                                                         *)
(* A VecDeque<Message> is the set of its messages, each with its position; *)
(* the front is the message with the least position.  Every request has an *)
(* id (its admission number), "reply" is what became of its oneshot        *)
(* sender: a "dropped" sender is what the caller observes as CANCELED.  A  *)
(* Transmit has no sender; its entry records what became of the frame.     *)
(***************************************************************************)
EXTENDS OperationAuthority, Sequences, FiniteSets

CONSTANTS
    COMMAND_CAPACITY,   \* bound of the mailbox (256 in the code)
    CONTROL_CAPACITY,   \* bound of the owner's control channel
    Kinds,              \* the kinds of command the MLME issues
    MaxRequests         \* bound of the model: requests ever sent

(* Command, by what the actor does with it: the five queries; Link; the    *)
(* operations that carry a context and complete later; CancelScan and Wmm, *)
(* which complete later and carry none; Transmit.                          *)
CommandKinds ==
    {"query", "link_up", "link_down", "operation", "bare", "transmit"}

ASSUME DriverAssumption ==
    /\ Kinds \subseteq CommandKinds
    /\ COMMAND_CAPACITY \in Nat \ {0}
    /\ CONTROL_CAPACITY \in Nat \ {0}
    /\ MaxRequests \in Nat

VARIABLES
    live,             \* lifetimes not revoked
    now,              \* monotonic clock
    queue,            \* Mailbox.queue
    closed,           \* Mailbox.closed
    control,          \* buffered OwnerCommands
    control_closed,   \* the control channel was closed, or its receiver dropped
    pending,          \* DriverActor.pending: id of the awaited completion
    stop_pending,     \* DriverActor.stop_pending
    reset_completed,  \* DriverActor.reset_completed
    task,             \* the serve task: "new", "serving", "returned", "lost"
    result,           \* what serve (or a later certification) returned
    device,           \* device: "fresh", "started", "stopped", "reset"
    outstanding,      \* device: submitted operations not yet complete
    link,             \* device: the last link state it accepted
    sent,             \* number of requests sent so far
    reply,            \* fate of every request
    called,           \* history: mailbox requests handed to the device
    barrier           \* history: "sent" when finish_failed_connect_attempt ran

authority == <<live, now>>
mailbox   == <<queue, closed>>
channel   == <<control, control_closed>>
actor     == <<pending, stop_pending, reset_completed>>
exit      == <<task, result>>
hardware  == <<device, outstanding, link>>
requests  == <<sent, reply>>
history   == <<called, barrier>>
vars      == <<authority, mailbox, channel, actor, exit, hardware,
               requests, history>>

Ids  == 1 .. MaxRequests
NoOp == 0

(* Command::operation_context is Some for these. *)
ContextKinds == {"operation", "transmit"}

AsyncKinds == {"operation", "bare"}

(* The MLME sends under its current epoch with that epoch's operation      *)
(* context, or with the context of the scan in progress.                   *)
CommandContexts(epoch, kind) ==
    IF kind \in ContextKinds THEN EpochContexts(epoch) \cup ChildContexts
                             ELSE {NoContext}

Messages ==
    [id : Ids, position : Nat, epoch : Epochs, kind : Kinds,
     context : Contexts \cup {NoContext}]

OwnerCommands ==
    [command : {"Link", "FinishAttempt"}, id : Ids, context : {NoContext}]
        \cup [command : {"PowerSave"}, id : Ids, context : ChildContexts]
        \cup [command : {"Stop", "Reset"}, id : {NoOp}, context : {NoContext}]

Outcomes == {"unsent", "waiting", "replied", "rejected", "dropped"}
-----------------------------------------------------------------------------
(* The senders a set of messages or the control buffer holds. *)
IdsOf(messages) == {m.id : m \in messages}
ControlIds == {control[i].id : i \in 1 .. Len(control)} \ {NoOp}

Dropped(replies, ids) ==
    [i \in Ids |-> IF i \in ids THEN "dropped" ELSE replies[i]]

(* DriverHandle::send keeps a queued message while epoch and context live. *)
Unrevoked(m) ==
    /\ m.epoch \in live
    /\ m.context = NoContext \/ IsLive(m.context, live)

Authorised_IgnoringDeadline(m) == Unrevoked(m)

(* poll's validation immediately before the device call. *)
Authorised(m) ==
    /\ m.epoch \in live
    /\ m.context = NoContext \/ Check(m.context, live, now)

Front(m) == m \in queue /\ \A n \in queue : m.position <= n.position

Full(messages) == Cardinality(messages) = COMMAND_CAPACITY

CompletionReady_Unchecked == TRUE

(* No completion is awaited, or the awaited one has arrived. *)
CompletionReady == pending \notin outstanding

(* The reply sent when the awaited completion is found ready. *)
Settled(replies) ==
    IF pending = NoOp THEN replies ELSE [replies EXCEPT ![pending] = "replied"]
-----------------------------------------------------------------------------
Init ==
    /\ live = Lifetimes
    /\ now = 0
    /\ queue = {} /\ closed = FALSE
    /\ control = <<>> /\ control_closed = FALSE
    /\ pending = NoOp
    /\ stop_pending = FALSE
    /\ reset_completed = FALSE
    /\ task = "new" /\ result = "none"
    /\ device = "fresh" /\ outstanding = {} /\ link = FALSE
    /\ sent = 0 /\ reply = [i \in Ids |-> "unsent"]
    /\ called = {} /\ barrier = 0

(* OperationEpoch::revoke: the runtime ends an attempt, a scan, the service. *)
Revoke(lifetime) ==
    /\ lifetime \in live
    /\ live' = live \ {lifetime}
    /\ UNCHANGED <<now, mailbox, channel, actor, exit, hardware, requests,
                   history>>

Tick ==
    /\ now < MaxTime
    /\ now' = now + 1
    /\ UNCHANGED <<live, mailbox, channel, actor, exit, hardware, requests,
                   history>>

(* DriverHandle::send.  The refusals before "retain" change nothing; the   *)
(* one after it, NO_RESOURCES, has already discarded revoked messages.     *)
Send(epoch, kind, context) ==
    LET kept     == {m \in queue : Unrevoked(m)}
        replies  == Dropped(reply, IdsOf(queue \ kept))
        admitted == [id |-> sent + 1, position |-> sent + 1, epoch |-> epoch,
                     kind |-> kind, context |-> context]
    IN  /\ task # "new" /\ ~closed
        /\ epoch \in live
        /\ context = NoContext \/ Check(context, live, now)
        /\ \/ /\ Full(kept)
              /\ queue' = kept
              /\ reply' = replies
              /\ sent' = sent
           \/ /\ ~Full(kept)
              /\ sent < MaxRequests
              /\ queue' = kept \cup {admitted}
              /\ reply' = [replies EXCEPT ![sent + 1] = "waiting"]
              /\ sent' = sent + 1
        /\ UNCHANGED <<authority, closed, channel, actor, exit, hardware,
                       history>>

(* HardwareOwner::send: try_send on the control channel while the task is  *)
(* running.  A full or disconnected channel refuses and changes nothing.   *)
OwnerSend(command, context) ==
    /\ task \in {"serving", "returned"} /\ ~control_closed
    /\ Len(control) < CONTROL_CAPACITY
    /\ sent < MaxRequests
    /\ control' = Append(control, [command |-> command, id |-> sent + 1,
                                   context |-> context])
    /\ sent' = sent + 1
    /\ reply' = [reply EXCEPT ![sent + 1] = "waiting"]
    /\ UNCHANGED <<authority, mailbox, control_closed, actor, exit, hardware,
                   history>>

(* The terminal command as try_send leaves it in the control buffer. *)
WithTerminal(command) ==
    IF ~control_closed /\ Len(control) < CONTROL_CAPACITY
    THEN Append(control, [command |-> command, id |-> NoOp,
                          context |-> NoContext])
    ELSE control

(* ClientRuntime::request_stop revokes its epochs, then HardwareOwner::    *)
(* request_stop: admission only.  A channel that cannot take the command   *)
(* is closed, which the actor reads as a stop.                             *)
RequestStop(command, ended) ==
    /\ task # "new"
    /\ live' = live \ ended
    /\ control' = WithTerminal(command)
    /\ control_closed' = (control' = control)
    /\ UNCHANGED <<now, mailbox, actor, exit, hardware, requests, history>>

(* Drop of the runtime: request_stop, then HardwareOwner::drop closes the  *)
(* channel; the aborted task is lost in a step of its own.                 *)
DropOwner(command, ended) ==
    /\ task # "new"
    /\ live' = live \ ended
    /\ control' = WithTerminal(command)
    /\ control_closed' = TRUE
    /\ UNCHANGED <<now, mailbox, actor, exit, hardware, requests, history>>
-----------------------------------------------------------------------------
(* DriverActor::close, and the end of the task: the messages, the waiter   *)
(* and the buffered owner commands still held lose their reply senders.    *)
Close(replies, held) ==
    /\ closed' = TRUE
    /\ queue' = {}
    /\ pending' = NoOp
    /\ control' = <<>> /\ control_closed' = TRUE
    /\ reply' = Dropped(replies, held)

Held == IdsOf(queue) \cup {pending} \cup ControlIds

(* DriverActor::start, then the serve task is spawned. *)
Start ==
    /\ task = "new"
    /\ device' = "started" /\ stop_pending' = TRUE /\ task' = "serving"
    /\ UNCHANGED <<authority, mailbox, channel, pending, reset_completed,
                   result, outstanding, link, requests, history>>

(* The device refuses to start: the constructor drops the actor, whose     *)
(* Drop closes the mailbox and has nothing to stop.                        *)
StartFailed ==
    /\ task = "new"
    /\ Close(reply, Held)
    /\ task' = "lost"
    /\ UNCHANGED <<authority, stop_pending, reset_completed, result, hardware,
                   sent, history>>

(* The firmware completes a submitted operation. *)
DeviceComplete(id) ==
    /\ id \in outstanding
    /\ outstanding' = outstanding \ {id}
    /\ UNCHANGED <<authority, mailbox, channel, actor, exit, device, link,
                   requests, history>>

(* DriverActor::stop after close. *)
StopDevice(status) ==
    /\ \/ /\ stop_pending /\ status = "ok"
          /\ device' = "stopped" /\ outstanding' = {}
          /\ stop_pending' = FALSE
       \/ /\ stop_pending /\ status = "error"
          /\ UNCHANGED <<device, outstanding, stop_pending>>
       \/ /\ ~stop_pending /\ status = "ok"
          /\ UNCHANGED <<device, outstanding, stop_pending>>
    /\ UNCHANGED reset_completed

(* DriverActor::reset after close. *)
ResetDevice(status) ==
    \/ /\ ~reset_completed /\ status = "ok"
       /\ device' = "reset" /\ outstanding' = {}
       /\ reset_completed' = TRUE /\ stop_pending' = FALSE
    \/ /\ ~reset_completed /\ status = "error"
       /\ UNCHANGED <<device, outstanding, reset_completed, stop_pending>>
    \/ /\ reset_completed /\ status = "ok"
       /\ UNCHANGED <<device, outstanding, reset_completed, stop_pending>>
-----------------------------------------------------------------------------
(* serve polls the control channel before the mailbox (select_biased). *)
Command(name) ==
    /\ task = "serving"
    /\ control # <<>>
    /\ Head(control).command = name

Answer(outcome) ==
    /\ control' = Tail(control)
    /\ reply' = [reply EXCEPT ![Head(control).id] = outcome]
    /\ UNCHANGED <<authority, mailbox, control_closed, stop_pending,
                   reset_completed, exit, device, sent, called>>

(* OwnerCommand::Link(false); the device may refuse. *)
ServeLink ==
    /\ Command("Link")
    /\ Answer("replied")
    /\ link' \in {link, FALSE}
    /\ UNCHANGED <<pending, outstanding, barrier>>

(* OwnerCommand::FinishAttempt: SHOULD_WAIT while a completion is awaited  *)
(* or a message of a live epoch is queued.                                 *)
FinishBlocked == pending # NoOp \/ \E m \in queue : m.epoch \in live

ServeFinishAttempt ==
    /\ Command("FinishAttempt")
    /\ \/ FinishBlocked /\ Answer("rejected") /\ barrier' = barrier
       \/ ~FinishBlocked /\ Answer("replied") /\ barrier' = sent
    /\ UNCHANGED <<pending, outstanding, link>>

PowerSaveRefused_IgnoringPending(context) == ~Check(context, live, now)

PowerSaveRefused(context) == pending # NoOp \/ ~Check(context, live, now)

(* OwnerCommand::PowerSave: the completion becomes the awaited one. *)
ServePowerSave ==
    LET request == Head(control)
    IN  /\ Command("PowerSave")
        /\ \/ /\ PowerSaveRefused(request.context)
              /\ Answer("rejected")
              /\ UNCHANGED <<pending, outstanding>>
           \/ /\ ~PowerSaveRefused(request.context)
              /\ Answer("waiting")
              /\ pending' = request.id
              /\ outstanding' = outstanding \cup {request.id}
        /\ UNCHANGED <<link, barrier>>

(* OwnerCommand::Stop, or a closed and drained control channel. *)
ServeStop ==
    /\ task = "serving"
    /\ \/ control # <<>> /\ Head(control).command = "Stop"
       \/ control = <<>> /\ control_closed
    /\ Close(reply, Held)
    /\ \E status \in {"ok", "error"} : StopDevice(status) /\ result' = status
    /\ task' = "returned"
    /\ UNCHANGED <<authority, link, sent, history>>

ServeReset ==
    /\ Command("Reset")
    /\ Close(reply, Held)
    /\ \E status \in {"ok", "error"} : ResetDevice(status) /\ result' = status
    /\ task' = "returned"
    /\ UNCHANGED <<authority, link, sent, history>>

(* The task panics or is aborted, or the owner drops the actor it has      *)
(* returned: Drop makes one last stop attempt and ignores its status.      *)
TaskLost ==
    /\ task \in {"serving", "returned"}
    /\ Close(reply, Held)
    /\ \E status \in {"ok", "error"} : StopDevice(status)
    /\ task' = "lost" /\ result' = "none"
    /\ UNCHANGED <<authority, link, sent, history>>

(* HardwareOwner::certify on the returned actor: the stop or the reset is  *)
(* attempted again and its status becomes the result.                      *)
Certify(reset) ==
    /\ task = "returned"
    /\ Close(reply, Held)
    /\ \E status \in {"ok", "error"} :
          /\ IF reset THEN ResetDevice(status) ELSE StopDevice(status)
          /\ result' = status
    /\ UNCHANGED <<authority, task, link, sent, history>>
-----------------------------------------------------------------------------
(* DriverActor::poll, reached only when no owner command is ready.  A      *)
(* completion still outstanding ends the turn; a ready one is answered and *)
(* the turn goes on to the front message.                                  *)
Polling ==
    /\ task = "serving"
    /\ control = <<>> /\ ~control_closed
    /\ CompletionReady

(* The device reports a fatal error from poll_drive. *)
PollFault ==
    /\ task = "serving" /\ stop_pending
    /\ control = <<>> /\ ~control_closed
    /\ Close(reply, Held)
    /\ task' = "returned" /\ result' = "error"
    /\ UNCHANGED <<authority, stop_pending, reset_completed, hardware, sent,
                   history>>

PollIdle ==
    /\ Polling
    /\ queue = {} /\ pending # NoOp
    /\ pending' = NoOp
    /\ reply' = Settled(reply)
    /\ UNCHANGED <<authority, mailbox, channel, stop_pending, reset_completed,
                   exit, hardware, sent, history>>

(* Pop the front message; "outcome" is what becomes of its sender. *)
Pop(m, outcome) ==
    /\ queue' = queue \ {m}
    /\ reply' = [Settled(reply) EXCEPT ![m.id] = outcome]
    /\ UNCHANGED <<authority, closed, channel, stop_pending, reset_completed,
                   exit, device, sent, barrier>>

PollReject(m) ==
    /\ Polling /\ Front(m)
    /\ ~Authorised(m)
    /\ Pop(m, "rejected")
    /\ pending' = NoOp
    /\ UNCHANGED <<outstanding, link, called>>

(* The queries and Link answer at once; the device may refuse the link. *)
PollSync(m) ==
    /\ Polling /\ Front(m)
    /\ Authorised(m)
    /\ m.kind \in {"query", "link_up", "link_down"}
    /\ Pop(m, "replied")
    /\ pending' = NoOp
    /\ link' \in {link} \cup {up \in BOOLEAN :
                                 m.kind = (IF up THEN "link_up" ELSE "link_down")}
    /\ called' = called \cup {m.id}
    /\ UNCHANGED outstanding

(* The device accepts an operation; its completion is polled once. *)
PollAsync(m) ==
    /\ Polling /\ Front(m)
    /\ Authorised(m)
    /\ m.kind \in AsyncKinds
    /\ \/ /\ Pop(m, "waiting")
          /\ pending' = m.id /\ outstanding' = outstanding \cup {m.id}
       \/ /\ Pop(m, "replied")
          /\ pending' = NoOp /\ outstanding' = outstanding
    /\ called' = called \cup {m.id}
    /\ UNCHANGED link

PollTransmit(m) ==
    /\ Polling /\ Front(m)
    /\ Authorised(m)
    /\ m.kind = "transmit"
    /\ Pop(m, "replied")
    /\ pending' = NoOp
    /\ called' = called \cup {m.id}
    /\ UNCHANGED <<outstanding, link>>

(* queue_tx returned NO_RESOURCES: push_front of the message just popped,  *)
(* with its authority and its original deadline.                           *)
Retained(m) == m

PollRetain(m) ==
    /\ Polling /\ Front(m)
    /\ Authorised(m)
    /\ m.kind = "transmit"
    /\ queue' = (queue \ {m}) \cup {Retained(m)}
    /\ reply' = Settled(reply)
    /\ pending' = NoOp
    /\ UNCHANGED <<authority, closed, channel, stop_pending, reset_completed,
                   exit, hardware, sent, history>>

(* Any other queue_tx error ends the task. *)
PollTransmitFault(m) ==
    /\ Polling /\ Front(m)
    /\ Authorised(m)
    /\ m.kind = "transmit"
    /\ Close([Settled(reply) EXCEPT ![m.id] = "rejected"],
             IdsOf(queue \ {m}) \cup ControlIds)
    /\ called' = called \cup {m.id}
    /\ task' = "returned" /\ result' = "error"
    /\ UNCHANGED <<authority, stop_pending, reset_completed, hardware, sent,
                   barrier>>
-----------------------------------------------------------------------------
Serve ==
    ServeLink \/ ServeFinishAttempt \/ ServePowerSave \/ ServeStop \/ ServeReset

Poll ==
    \/ PollFault
    \/ PollIdle
    \/ \E m \in queue : \/ PollReject(m)
                        \/ PollSync(m)
                        \/ PollAsync(m)
                        \/ PollTransmit(m)
                        \/ PollRetain(m)
                        \/ PollTransmitFault(m)

Protocol ==
    \E epoch \in Epochs, kind \in Kinds :
        \E context \in CommandContexts(epoch, kind) : Send(epoch, kind, context)

Owner ==
    \/ \E command \in {"Link", "FinishAttempt"} : OwnerSend(command, NoContext)
    \/ \E context \in ChildContexts : OwnerSend("PowerSave", context)
    \/ \E command \in {"Stop", "Reset"}, ended \in SUBSET Epochs :
          RequestStop(command, ended) \/ DropOwner(command, ended)

Next ==
    \/ \E lifetime \in Lifetimes : Revoke(lifetime)
    \/ Tick
    \/ Protocol
    \/ Owner
    \/ Start \/ StartFailed
    \/ \E id \in Ids : DeviceComplete(id)
    \/ Serve
    \/ Poll
    \/ TaskLost
    \/ \E reset \in BOOLEAN : Certify(reset)

(* The serve task is scheduled whenever it is ready, the clock advances and *)
(* the firmware completes what it accepted.  No fairness is asked of the    *)
(* device's transmit path: it may answer NO_RESOURCES for ever.             *)
Turn ==
    \/ Serve
    \/ PollIdle
    \/ \E m \in queue : PollReject(m) \/ PollSync(m) \/ PollAsync(m)

Spec == Init /\ [][Next]_vars

FairSpec ==
    /\ Spec
    /\ WF_vars(Turn)
    /\ WF_vars(Tick)
    /\ WF_vars(\E id \in Ids : DeviceComplete(id))
-----------------------------------------------------------------------------
(* Every variable stays in its range: in particular a frame put back keeps *)
(* the deadline it was sent with.                                          *)
TypeOK ==
    /\ live \subseteq Lifetimes
    /\ now \in 0 .. MaxTime
    /\ queue \subseteq Messages
    /\ closed \in BOOLEAN
    /\ control \in Seq(OwnerCommands)
    /\ control_closed \in BOOLEAN
    /\ pending \in Ids \cup {NoOp}
    /\ stop_pending \in BOOLEAN /\ reset_completed \in BOOLEAN
    /\ task \in {"new", "serving", "returned", "lost"}
    /\ result \in {"none", "ok", "error"}
    /\ device \in {"fresh", "started", "stopped", "reset"}
    /\ outstanding \subseteq Ids
    /\ link \in BOOLEAN
    /\ sent \in 0 .. MaxRequests
    /\ reply \in [Ids -> Outcomes]
    /\ called \subseteq Ids
    /\ barrier \in 0 .. MaxRequests

(* The mailbox and the control channel never exceed their bounds: a frame  *)
(* put back after NO_RESOURCES takes the place it was popped from.         *)
Bounded ==
    /\ Cardinality(queue) <= COMMAND_CAPACITY
    /\ Len(control) <= CONTROL_CAPACITY

(* No caller waits on a sender nobody holds: a request is unanswered       *)
(* exactly while the mailbox, the control channel or the awaited           *)
(* completion holds it, whatever was revoked, retained, closed or lost.    *)
NoReplyLost == {i \in Ids : reply[i] = "waiting"} = Held \ {NoOp}

(* "Only this owner can invoke the device": while the mailbox is open the  *)
(* device has at most the one operation the actor awaits, although power   *)
(* save arrives on the control channel and the rest through the mailbox.   *)
OneOperationAtATime == ~closed => outstanding \subseteq {pending}

(* Commands reach the device in admission order: nothing still queued was  *)
(* overtaken, even after a frame was put back at the front.                *)
NoOvertaking == \A m \in queue, i \in called : i < m.id

(* A device that was started stays owed a stop until stop or reset has     *)
(* succeeded: a failed attempt, a fault or an abort never clears the debt, *)
(* and nothing is stopped twice.                                           *)
StopOwed == stop_pending <=> device = "started"

(* What keeps the device in step with the actor: one operation at a time,  *)
(* in admission order, and a stop owed as long as the device runs.         *)
ActorSafe == TypeOK /\ OneOperationAtATime /\ NoOvertaking /\ StopOwed

(* Every reply is owed by exactly one holder, and the queues keep their    *)
(* bounds.                                                                 *)
RepliesConserved == NoReplyLost /\ Bounded

CallsAfterBarrier == \A i \in called' \ called : i > barrier

(* A successful FinishAttempt is a barrier: no mailbox command admitted    *)
(* before device.finish_failed_connect_attempt reaches the device after.   *)
FinishIsBarrier == [][CallsAfterBarrier]_vars

CallsAuthorised ==
    \A i \in called' \ called :
        \E m \in queue : /\ m.id = i
                        /\ m.epoch \in live
                        /\ \/ m.context = NoContext
                           \/ Check(m.context, live, now)

(* poll: "No await between authority validation and the device call".      *)
(* Whatever was revoked or expired since admission, the device is only     *)
(* handed a command whose epoch and context are valid at that very step.   *)
CalledWithAuthority == [][CallsAuthorised]_vars

(* A command reaches the device with its authority valid at the call and   *)
(* never behind the finish barrier it was admitted before.                 *)
CallsSound == FinishIsBarrier /\ CalledWithAuthority

(* Every request is eventually answered, rejected or dropped, even when    *)
(* the device refuses to take a frame until its deadline.                  *)
EveryRequestEnds ==
    \A i \in Ids : reply[i] = "waiting" ~> reply[i] # "waiting"
=============================================================================
