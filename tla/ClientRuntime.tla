---------------------------- MODULE ClientRuntime ----------------------------
(***************************************************************************)
(* Connect, scan, power save and cleanup of the client runtime             *)
(* (wlan-softmac-host/src/runtime.rs), with the tasks it coordinates: the  *)
(* SME server (sme/client.rs, sme/mod.rs), the MLME loop (mlme.rs), the    *)
(* callback bridge (serve.rs) and the driver actor (driver.rs).            *)
(*                                                                         *)
(* All tasks share one thread: each runs without interruption to its next  *)
(* await, and that is one action.  A oneshot reply is the field of the     *)
(* waiting operation it will be read from.  The pinned SME and MLME state  *)
(* machines are external and kept to what the hosting code observes: the   *)
(* SME status, the requests and events they exchange, the device requests  *)
(* the MLME awaits.  An attempt, a cleanup and a disconnected scan each    *)
(* make a new epoch; only the newest can be live.                          *)
(*                                                                         *)
(* The DriverActor module has the mailbox in full; here it is the one      *)
(* request the MLME loop can be awaiting.                                  *)
(***************************************************************************)
EXTENDS Integers, Sequences

CONSTANTS
    MaxEpoch,     \* bound of the model: epochs ever made
    MaxScans,     \* bound of the model: scans ever begun
    MaxUpcalls,   \* bound of the model: callbacks the device ever makes
    Faulty        \* whether the device may refuse link, finish and power

VARIABLES
    epoch, live,      \* ClientRuntime.epoch, and whether it is unrevoked
    upcall_epoch,     \* UpcallQueue.epoch
    contained,        \* "no", or why contain_error ran
    connect_attempt, connection, cleanup, scan_attempt, power_save,
    requests,         \* the SME's request stream
    transaction,      \* connect transaction: events not received, and closed
    sme,              \* status, epoch of its connect, current and next scan
    mlme_requests,    \* SME to MLME
    mlme_events,      \* MLME to SME
    upcalls,          \* UpcallQueue.queue
    driver_events,    \* bridge to MLME
    mlme,             \* MlmeExecution, and what the loop is awaiting
    command,          \* the mailbox request of the MLME loop
    pending,          \* DriverActor.pending: "none", "command", "power"
    control,          \* buffered OwnerCommands
    link,             \* device: accepted link state
    scanning,         \* device: the scan it runs (0: none)
    io,               \* HostIo: the driver's Ethernet port and its host half
    scans, calls      \* counters of the model

authority == <<epoch, live, upcall_epoch>>
attempts  == <<connect_attempt, connection, cleanup, scan_attempt, power_save>>
toSme     == <<requests, mlme_events>>
toMlme    == <<mlme_requests, upcalls, driver_events>>
driver    == <<command, pending, control, link, scanning>>
bounds    == <<scans, calls>>
vars      == <<authority, contained, attempts, toSme, toMlme, transaction,
               sme, mlme, driver, io, bounds>>

EpochIds == 0 .. MaxEpoch
ScanIds  == 0 .. MaxScans
PortIds  == 0 .. MaxEpoch + 1

Live(e) == live /\ e = epoch

NoAttempt == [admission |-> "none", result |-> "none"]
NoScan    == [id |-> 0, admission |-> "none"]
NoPower   == [epoch |-> 0, reply |-> "none"]
NoCleanup == [active |-> FALSE, admitted |-> FALSE, link |-> "none",
              finish |-> "none", terminal |-> "none", failed |-> FALSE]
NoCommand == [kind |-> "none", epoch |-> 0, status |-> "none"]
NoTransaction == [events |-> <<>>, closed |-> FALSE]
-----------------------------------------------------------------------------
(* The port whose link was set down: its descriptor is closed. *)
LinkDown(port) == [port EXCEPT !.open = FALSE, !.up = FALSE]

(* protocol_idle: nothing is queued for the MLME loop and it awaits        *)
(* nothing.  The counter does not cover events queued for the SME.         *)
ProtocolIdle ==
    mlme_requests = <<>> /\ driver_events = <<>> /\ mlme.handler = "idle"

Init ==
    /\ epoch = 0 /\ live = TRUE /\ upcall_epoch = 0
    /\ contained = "no"
    /\ connect_attempt = NoAttempt /\ connection = "none"
    /\ cleanup = NoCleanup /\ scan_attempt = NoScan /\ power_save = NoPower
    /\ requests = <<>> /\ transaction = NoTransaction
    /\ sme = [state |-> "Idle", epoch |-> 0, scan |-> 0, next |-> 0]
    /\ mlme_requests = <<>> /\ mlme_events = <<>>
    /\ upcalls = <<>> /\ driver_events = <<>>
    /\ mlme = [handler |-> "idle", epoch |-> 0, scan |-> 0,
               station |-> "none", joined |-> 0, host |-> 0]
    /\ command = NoCommand /\ pending = "none" /\ control = <<>>
    /\ link = FALSE /\ scanning = 0
    /\ io = [port |-> 1, open |-> TRUE, up |-> FALSE,
             unpublished |-> 1, offered |-> 0, taken |-> 0]
    /\ scans = 0 /\ calls = 0
-----------------------------------------------------------------------------
(* contain_error: shutdown has its own module; here the runtime is over. *)
Contain(cause) ==
    /\ contained = "no"
    /\ contained' = cause
    /\ live' = FALSE
    /\ upcalls' = <<>>
    /\ io' = LinkDown(io)
    /\ UNCHANGED <<epoch, upcall_epoch, attempts, toSme, mlme_requests,
                   driver_events, transaction, sme, mlme, driver, bounds>>

(* begin_epoch. *)
BeginEpoch ==
    /\ epoch' = epoch + 1 /\ live' = TRUE /\ upcall_epoch' = epoch'
    /\ upcalls' = <<>>

BeginConnect ==
    /\ contained = "no" /\ epoch + 1 < MaxEpoch
    /\ connection = "none" /\ connect_attempt = NoAttempt
    /\ ~cleanup.active /\ scan_attempt = NoScan
    /\ BeginEpoch
    /\ requests' = Append(requests,
                          [kind |-> "Connect", epoch |-> epoch', scan |-> 0])
    /\ connect_attempt' = [admission |-> "pending", result |-> "none"]
    /\ transaction' = NoTransaction
    /\ UNCHANGED <<contained, connection, cleanup, scan_attempt, power_save,
                   mlme_events, mlme_requests, driver_events, sme, mlme,
                   driver, io, bounds>>

(* begin_cleanup; its caller says what becomes of the attempt. *)
BeginCleanup(terminal, failed) ==
    /\ epoch < MaxEpoch
    /\ epoch' = epoch + 1 /\ live' = TRUE /\ UNCHANGED upcall_epoch
    /\ io' = LinkDown(io)
    /\ control' = Append(control, [kind |-> "Link", epoch |-> 0])
    /\ requests' = Append(requests,
                          [kind |-> "Disconnect", epoch |-> epoch',
                           scan |-> 0])
    /\ cleanup' = [active |-> TRUE, admitted |-> FALSE, link |-> "waiting",
                   finish |-> "none", terminal |-> terminal,
                   failed |-> failed]

(* What drive_connect_once has received of its transaction. *)
Received ==
    IF connect_attempt.result = "none" /\ transaction.events # <<>>
    THEN Head(transaction.events) ELSE connect_attempt.result

Unreceived ==
    IF connect_attempt.result = "none" /\ transaction.events # <<>>
    THEN Tail(transaction.events) ELSE transaction.events

DrivingConnect ==
    /\ contained = "no" /\ ~cleanup.active
    /\ connect_attempt # NoAttempt /\ connect_attempt.admission # "pending"

ConnectWaits ==
    /\ DrivingConnect /\ connect_attempt.admission = "active"
    /\ connect_attempt.result # Received /\ ~ProtocolIdle
    /\ connect_attempt' = [connect_attempt EXCEPT !.result = Received]
    /\ transaction' = [transaction EXCEPT !.events = Unreceived]
    /\ UNCHANGED <<authority, contained, connection, cleanup, scan_attempt,
                   power_save, toSme, toMlme, sme, mlme, driver, io, bounds>>

(* The failed attempt is cleaned up before its result is returned. *)
ConnectFailed ==
    /\ DrivingConnect /\ Received = "failure" /\ ProtocolIdle
    /\ BeginCleanup("failure", TRUE)
    /\ connect_attempt' = [connect_attempt EXCEPT !.result = "none"]
    /\ transaction' = [transaction EXCEPT !.events = Unreceived]
    /\ UNCHANGED <<contained, connection, scan_attempt, power_save,
                   mlme_events, toMlme, sme, mlme, command, pending, link,
                   scanning, bounds>>

ConnectSucceeded ==
    /\ DrivingConnect /\ Received = "success" /\ ProtocolIdle
    /\ sme.state = "Connected" /\ io.up
    /\ connect_attempt' = NoAttempt
    /\ connection' = "active"
    /\ transaction' = [transaction EXCEPT !.events = Unreceived]
    /\ UNCHANGED <<authority, contained, cleanup, scan_attempt, power_save,
                   toSme, toMlme, sme, mlme, driver, io, bounds>>

(* ConnectStateMismatch. *)
ConnectMismatch ==
    /\ DrivingConnect /\ Received = "success" /\ ProtocolIdle
    /\ ~(sme.state = "Connected" /\ io.up)
    /\ Contain("mismatch")
-----------------------------------------------------------------------------
NothingToDisconnect ==
    /\ connect_attempt = NoAttempt /\ connection = "none" /\ ~cleanup.active
    /\ sme.state = "Idle" /\ ProtocolIdle

(* begin_disconnect, where something is left to clean up. *)
BeginDisconnect ==
    /\ contained = "no" /\ ~cleanup.active /\ ~NothingToDisconnect
    /\ BeginCleanup(connect_attempt.result, FALSE)
    /\ connect_attempt' = [connect_attempt EXCEPT !.result = "none"]
    /\ UNCHANGED <<contained, connection, scan_attempt, power_save,
                   transaction, mlme_events, toMlme, sme, mlme, command,
                   pending, link, scanning, bounds>>

(* The result of the attempt under cleanup, once its stream has one. *)
Terminal ==
    LET results == {i \in 1 .. Len(transaction.events) :
                        transaction.events[i] # "disconnect"}
    IN  IF connect_attempt.admission = "active" /\ results # {}
        THEN transaction.events[CHOOSE i \in results :
                                    \A j \in results : j <= i]
        ELSE cleanup.terminal

Settled ==
    \/ connect_attempt.admission \in {"none", "canceled"}
    \/ connect_attempt.admission = "active"
         /\ (Terminal # "none" \/ transaction.closed)

Quiet_IgnoringSme ==
    /\ contained = "no" /\ cleanup.active
    /\ cleanup.admitted /\ cleanup.link = "ok"
    /\ Settled /\ ProtocolIdle

(* drive_disconnect_once has passed all its waits up to the finish barrier. *)
Quiet ==
    /\ contained = "no" /\ cleanup.active
    /\ cleanup.admitted /\ cleanup.link = "ok"
    /\ Settled /\ sme.state = "Idle" /\ ProtocolIdle

(* FinishAttempt is sent; it is sent again after SHOULD_WAIT. *)
SendFinish ==
    /\ Quiet /\ cleanup.finish = "none"
    /\ cleanup' = [cleanup EXCEPT !.finish = "waiting"]
    /\ control' = Append(control, [kind |-> "Finish", epoch |-> 0])
    /\ UNCHANGED <<authority, contained, connect_attempt, connection,
                   scan_attempt, power_save, toSme, toMlme, transaction, sme,
                   mlme, command, pending, link, scanning, io, bounds>>

RetryFinish ==
    /\ Quiet /\ cleanup.finish = "busy"
    /\ cleanup' = [cleanup EXCEPT !.finish = "none"]
    /\ UNCHANGED <<authority, contained, connect_attempt, connection,
                   scan_attempt, power_save, toSme, toMlme, transaction, sme,
                   mlme, driver, io, bounds>>

CleanupComplete ==
    /\ Quiet /\ cleanup.finish = "ok"
    /\ upcalls' = <<>>
    /\ cleanup' = NoCleanup /\ connect_attempt' = NoAttempt
    /\ scan_attempt' = NoScan /\ connection' = "none"
    /\ transaction' = NoTransaction
    /\ live' = FALSE
    /\ UNCHANGED <<epoch, upcall_epoch, contained, power_save, toSme,
                   mlme_requests, driver_events, sme, mlme, driver, io,
                   bounds>>

(* RetryCleanup: the device refused the link or the finish command. *)
CleanupRefused ==
    /\ contained = "no" /\ cleanup.active /\ cleanup.admitted
    /\ \/ cleanup.link = "error"
       \/ Quiet /\ cleanup.finish = "error"
    /\ Contain("device")

(* The terminal event of the active connection (drain_connection_events). *)
ConnectionEnded ==
    /\ contained = "no" /\ connection = "active" /\ ~cleanup.active
    /\ transaction.events # <<>> /\ Head(transaction.events) = "disconnect"
    /\ connection' = "ended"
    /\ BeginCleanup("none", FALSE)
    /\ transaction' = NoTransaction
    /\ UNCHANGED <<contained, connect_attempt, scan_attempt, power_save,
                   mlme_events, toMlme, sme, mlme, command, pending, link,
                   scanning, bounds>>
-----------------------------------------------------------------------------
(* begin_scan, with no connection event left to drain: a terminal event    *)
(* would first be cleaned up.                                              *)
BeginScan ==
    /\ contained = "no" /\ scans < MaxScans
    /\ scan_attempt = NoScan /\ connect_attempt = NoAttempt
    /\ ~cleanup.active
    /\ IF connection = "none"
       THEN epoch + 1 < MaxEpoch /\ BeginEpoch
       ELSE /\ transaction = NoTransaction
            /\ UNCHANGED <<authority, upcalls>>
    /\ scans' = scans + 1
    /\ requests' = Append(requests, [kind |-> "Scan", epoch |-> epoch',
                                     scan |-> scans'])
    /\ scan_attempt' = [id |-> scans', admission |-> "pending"]
    /\ UNCHANGED <<contained, connect_attempt, connection, cleanup,
                   power_save, mlme_events, mlme_requests, driver_events,
                   transaction, sme, mlme, driver, io, calls>>

ScanDone ==
    /\ contained = "no" /\ scan_attempt.admission = "done"
    /\ scan_attempt' = NoScan
    /\ UNCHANGED <<authority, contained, connect_attempt, connection,
                   cleanup, power_save, toSme, toMlme, transaction, sme,
                   mlme, driver, io, bounds>>

(* ScanTransactionClosed, or NoScanInProgress when the caller asks for a   *)
(* scan that a cleanup has ended.                                          *)
ScanLost ==
    /\ contained = "no" /\ scan_attempt.admission = "closed"
    /\ Contain("scan")

ScanAbsent ==
    /\ contained = "no" /\ scan_attempt = NoScan
    /\ Contain("scan")

BeginPowerSave ==
    /\ contained = "no" /\ power_save = NoPower
    /\ connection = "active" /\ ~cleanup.active
    /\ power_save' = [epoch |-> epoch, reply |-> "waiting"]
    /\ control' = Append(control, [kind |-> "Power", epoch |-> epoch])
    /\ UNCHANGED <<authority, contained, connect_attempt, connection,
                   cleanup, scan_attempt, toSme, toMlme, transaction, sme,
                   mlme, command, pending, link, scanning, io, bounds>>

(* drive_power_save_once takes the reply; whether it reports success also  *)
(* depends on the authority the request was made under.                    *)
DrivePowerSave ==
    /\ contained = "no" /\ power_save.reply \notin {"none", "waiting"}
    /\ power_save' = NoPower
    /\ UNCHANGED <<authority, contained, connect_attempt, connection,
                   cleanup, scan_attempt, toSme, toMlme, transaction, sme,
                   mlme, driver, io, bounds>>

(* A deadline passes before its operation is complete. *)
Timeout ==
    /\ connect_attempt # NoAttempt \/ cleanup.active \/ scan_attempt # NoScan
    /\ Contain("timeout")

TakeEthernetDevice ==
    /\ contained = "no" /\ io.offered # 0
    /\ io' = [io EXCEPT !.taken = io.offered, !.offered = 0]
    /\ UNCHANGED <<authority, contained, attempts, toSme, toMlme,
                   transaction, sme, mlme, driver, bounds>>
-----------------------------------------------------------------------------
(* The SME server.  A transaction event is lost once its receiver is gone. *)
Deliver(events, close) ==
    transaction' =
        IF connect_attempt # NoAttempt \/ connection = "active"
        THEN [events |-> transaction.events \o events,
              closed |-> transaction.closed \/ close]
        ELSE transaction

ToMlme(kind, e, scan) ==
    mlme_requests' = Append(mlme_requests,
                            [kind |-> kind, epoch |-> e, scan |-> scan])

(* on_connect_command takes the request to the MLME or fails it at once. *)
SmeConnect ==
    /\ requests # <<>> /\ Head(requests).kind = "Connect"
    /\ requests' = Tail(requests)
    /\ LET e == Head(requests).epoch IN
       IF ~Live(e)
       THEN /\ connect_attempt' = [connect_attempt EXCEPT
                                     !.admission = "canceled"]
            /\ UNCHANGED <<transaction, sme, mlme_requests>>
       ELSE /\ connect_attempt' = [connect_attempt EXCEPT
                                     !.admission = "active"]
            /\ \/ /\ sme' = [sme EXCEPT !.state = "Connecting", !.epoch = e]
                  /\ ToMlme("connect", e, 0)
                  /\ UNCHANGED transaction
               \/ /\ Deliver(<<"failure">>, TRUE)
                  /\ UNCHANGED <<sme, mlme_requests>>
    /\ UNCHANGED <<authority, contained, connection, cleanup, scan_attempt,
                   power_save, mlme_events, upcalls, driver_events, mlme,
                   driver, io, bounds>>

(* A scan goes to the MLME, waits for the SME's current one, or is         *)
(* answered at once.  A revoked request is dropped with its reply.         *)
SmeScan ==
    /\ requests # <<>> /\ Head(requests).kind = "Scan"
    /\ requests' = Tail(requests)
    /\ LET r == Head(requests)
           Reply(admission) ==
               scan_attempt' = IF scan_attempt.id = r.scan
                               THEN [scan_attempt EXCEPT
                                       !.admission = admission]
                               ELSE scan_attempt
       IN  \/ ~Live(r.epoch) /\ Reply("closed")
                 /\ UNCHANGED <<sme, mlme_requests>>
           \/ Live(r.epoch) /\ Reply("done")
                 /\ UNCHANGED <<sme, mlme_requests>>
           \/ Live(r.epoch) /\ Reply("active") /\ sme.scan = 0
                 /\ sme' = [sme EXCEPT !.scan = r.scan]
                 /\ ToMlme("scan", r.epoch, r.scan)
           \/ Live(r.epoch) /\ Reply("active") /\ sme.scan # 0
                 /\ sme' = [sme EXCEPT !.next = r.scan]
                 /\ UNCHANGED mlme_requests
    /\ UNCHANGED <<authority, contained, connect_attempt, connection,
                   cleanup, power_save, mlme_events, upcalls, driver_events,
                   transaction, mlme, driver, io, bounds>>

(* on_disconnect_command; the reply says it was admitted, no more. *)
SmeDisconnect ==
    /\ requests # <<>> /\ Head(requests).kind = "Disconnect"
    /\ requests' = Tail(requests)
    /\ LET e == Head(requests).epoch IN
       /\ cleanup' = [cleanup EXCEPT !.admitted = Live(e)]
       /\ IF Live(e) /\ sme.state \in {"Connecting", "Connected"}
          THEN /\ sme' = [sme EXCEPT !.state = "Disconnecting"]
               /\ ToMlme("deauth", e, 0)
               /\ Deliver(IF sme.state = "Connecting" THEN <<"failure">>
                                                      ELSE <<"disconnect">>,
                          TRUE)
          ELSE UNCHANGED <<sme, mlme_requests, transaction>>
    /\ UNCHANGED <<authority, contained, connect_attempt, connection,
                   scan_attempt, power_save, mlme_events, upcalls,
                   driver_events, mlme, driver, io, bounds>>

(* on_mlme_event, for an event whose epoch is live when it is served. *)
SmeOnEvent(event) ==
    \/ /\ event.kind = "associated" /\ sme.state = "Connecting"
       /\ sme' = [sme EXCEPT !.state = "Connected"]
       /\ Deliver(<<"success">>, FALSE)
       /\ ToMlme("port", event.epoch, 0)
       /\ UNCHANGED scan_attempt
    \/ /\ event.kind \in {"refused", "deauthenticated"}
       /\ sme.state = "Connecting"
       /\ sme' = [sme EXCEPT !.state = "Idle"]
       /\ Deliver(<<"failure">>, TRUE)
       /\ UNCHANGED <<mlme_requests, scan_attempt>>
    \/ /\ event.kind = "deauthenticated" /\ sme.state = "Connected"
       /\ sme' = [sme EXCEPT !.state = "Idle"]
       /\ Deliver(<<"disconnect">>, TRUE)
       /\ UNCHANGED <<mlme_requests, scan_attempt>>
    \/ /\ event.kind = "deauth_conf" /\ sme.state = "Disconnecting"
       /\ sme' = [sme EXCEPT !.state = "Idle"]
       /\ UNCHANGED <<mlme_requests, transaction, scan_attempt>>
    \/ /\ event.kind = "scan_end" /\ sme.scan = event.scan
       /\ sme' = [sme EXCEPT !.scan = sme.next, !.next = 0]
       /\ scan_attempt' = IF scan_attempt.id = event.scan
                          THEN [scan_attempt EXCEPT !.admission = "done"]
                          ELSE scan_attempt
       /\ IF sme.next = 0 THEN UNCHANGED mlme_requests
                          ELSE ToMlme("scan", event.epoch, sme.next)
       /\ UNCHANGED transaction

SmeIgnores(event) ==
    \/ event.kind \in {"associated", "refused"} /\ sme.state # "Connecting"
    \/ event.kind = "deauthenticated"
         /\ sme.state \notin {"Connecting", "Connected"}
    \/ event.kind = "deauth_conf" /\ sme.state # "Disconnecting"
    \/ event.kind = "scan_end" /\ sme.scan # event.scan

SmeEvent ==
    /\ mlme_events # <<>>
    /\ mlme_events' = Tail(mlme_events)
    /\ LET event == Head(mlme_events) IN
       IF Live(event.epoch) /\ ~SmeIgnores(event)
       THEN SmeOnEvent(event)
       ELSE UNCHANGED <<sme, mlme_requests, transaction, scan_attempt>>
    /\ UNCHANGED <<authority, contained, connect_attempt, connection,
                   cleanup, power_save, requests, upcalls, driver_events,
                   mlme, driver, io, bounds>>

(* on_timeout of a connect still waiting for the MLME. *)
SmeTimeout ==
    /\ sme.state = "Connecting" /\ Live(sme.epoch)
    /\ sme' = [sme EXCEPT !.state = "Idle"]
    /\ Deliver(<<"failure">>, TRUE)
    /\ UNCHANGED <<authority, contained, attempts, toSme, toMlme, mlme,
                   driver, io, bounds>>
-----------------------------------------------------------------------------
(* The MLME loop serves one request or event at a time; where its handler  *)
(* awaits the driver it is suspended with a command in the mailbox.        *)
Await(kind) ==
    command' = [kind |-> kind, epoch |-> mlme'.epoch, status |-> "queued"]

(* send_mlme_event: nothing is sent under a revoked epoch. *)
Emit(kind, scan) ==
    mlme_events' =
        IF Live(mlme'.epoch)
        THEN Append(mlme_events, [kind |-> kind, epoch |-> mlme'.epoch,
                                  scan |-> scan])
        ELSE mlme_events

(* set_ethernet_status(UP) before its await: a closed port is replaced. *)
Raise(e) ==
    IF io.open
    THEN /\ io' = [io EXCEPT !.unpublished = 0]
         /\ mlme' = [mlme EXCEPT !.handler = "up", !.epoch = e,
                                 !.host = io.unpublished]
    ELSE /\ io' = [io EXCEPT !.port = io.port + 1, !.open = TRUE,
                             !.offered = 0]
         /\ mlme' = [mlme EXCEPT !.handler = "up", !.epoch = e,
                                 !.host = io.port + 1]

(* set_ethernet_status(DOWN) before its await; "handler" is who asked. *)
Lower(handler, e) ==
    /\ io' = [LinkDown(io) EXCEPT !.unpublished = 0, !.offered = 0]
    /\ mlme' = [mlme EXCEPT !.handler = handler, !.epoch = e,
                            !.station = "none"]
    /\ Await("link_down")

(* handle_mlme_request up to its first await.  The port of a station that  *)
(* is not associated stays closed; a second scan ends the loop.            *)
Handle(r) ==
    LET idle == [mlme EXCEPT !.epoch = r.epoch] IN
    \/ /\ r.kind = "connect"
       /\ mlme' = [idle EXCEPT !.handler = "join", !.station = "none"]
       /\ Await("join")
       /\ UNCHANGED <<mlme_events, io>>
    \/ /\ r.kind = "port" /\ mlme.station = "associated"
       /\ Raise(r.epoch)
       /\ Await("link_up")
       /\ UNCHANGED mlme_events
    \/ /\ r.kind = "port" /\ mlme.station # "associated"
       /\ mlme' = idle
       /\ UNCHANGED <<mlme_events, command, io>>
    \/ /\ r.kind = "deauth" /\ mlme.station = "associated"
       /\ Lower("down", r.epoch)
       /\ UNCHANGED mlme_events
    \/ /\ r.kind = "deauth" /\ mlme.station # "associated"
       /\ mlme' = [idle EXCEPT !.station = "none"]
       /\ Emit("deauth_conf", 0)
       /\ UNCHANGED <<command, io>>
    \/ /\ r.kind = "scan"
       /\ IF mlme.scan = 0
          THEN /\ mlme' = [idle EXCEPT !.handler = "scan", !.scan = r.scan]
               /\ Await("scan")
          ELSE /\ mlme' = [idle EXCEPT !.handler = "failed"]
               /\ UNCHANGED command
       /\ UNCHANGED <<mlme_events, io>>

MlmeRequest ==
    /\ mlme.handler = "idle" /\ mlme_requests # <<>>
    /\ mlme_requests' = Tail(mlme_requests)
    /\ IF Live(Head(mlme_requests).epoch)
       THEN Handle(Head(mlme_requests))
       ELSE UNCHANGED <<mlme, mlme_events, command, io>>
    /\ UNCHANGED <<authority, contained, attempts, requests, upcalls,
                   driver_events, transaction, sme, pending, control, link,
                   scanning, bounds>>

(* A received frame or a lost connection, under a live epoch; the end of a *)
(* scan, under any.                                                        *)
OnDriverEvent(event) ==
    LET idle == [mlme EXCEPT !.epoch = event.epoch] IN
    \/ /\ event.kind = "frame" /\ mlme.station = "joining"
       /\ \E kind \in {"associated", "refused"} :
            /\ mlme' = [idle EXCEPT !.station =
                          IF kind = "associated" THEN kind ELSE "none"]
            /\ Emit(kind, 0)
       /\ UNCHANGED <<command, io>>
    \/ /\ event.kind \in {"frame", "loss"} /\ mlme.station = "associated"
       /\ Lower("loss", event.epoch)
       /\ UNCHANGED mlme_events
    \/ /\ event.kind = "frame" \/ mlme.station # "associated"
       /\ event.kind \in {"frame", "loss"}
       /\ mlme' = idle
       /\ UNCHANGED <<mlme_events, command, io>>
    \/ /\ event.kind = "scan_complete"
       /\ IF mlme.scan = event.scan
          THEN mlme' = [idle EXCEPT !.scan = 0] /\ Emit("scan_end", mlme.scan)
          ELSE mlme' = idle /\ UNCHANGED mlme_events
       /\ UNCHANGED <<command, io>>

MlmeEvent ==
    /\ mlme.handler = "idle" /\ driver_events # <<>>
    /\ driver_events' = Tail(driver_events)
    /\ LET event == Head(driver_events) IN
       IF Live(event.epoch) \/ event.kind = "scan_complete"
       THEN OnDriverEvent(event)
       ELSE UNCHANGED <<mlme, mlme_events, command, io>>
    /\ UNCHANGED <<authority, contained, attempts, requests, mlme_requests,
                   upcalls, transaction, sme, pending, control, link,
                   scanning, bounds>>

(* handle_timeout while joining; the timer carries the epoch of the join. *)
MlmeTimeout ==
    /\ mlme.handler = "idle" /\ mlme.station = "joining" /\ Live(mlme.joined)
    /\ mlme' = [mlme EXCEPT !.epoch = mlme.joined, !.station = "none"]
    /\ Emit("refused", 0)
    /\ UNCHANGED <<authority, contained, attempts, requests, toMlme,
                   transaction, sme, driver, io, bounds>>

(* set_ethernet_status(UP) after its await. *)
(* set_ethernet_status(UP) after its await: authority is checked again. *)
Raised ==
    /\ IF command.status = "error"
       THEN io' = [LinkDown(io) EXCEPT !.unpublished = 0, !.offered = 0]
       ELSE IF ~Live(mlme.epoch) THEN UNCHANGED io
       ELSE io' = [io EXCEPT !.up = TRUE,
                             !.offered = IF mlme.host # 0 THEN mlme.host
                                                          ELSE io.offered]
    /\ mlme' = [mlme EXCEPT !.handler = "idle", !.host = 0]

(* The awaited reply arrives and the handler runs to its end. *)
Resume ==
    /\ command.status \in {"ok", "error"}
    /\ command' = NoCommand
    /\ LET idle == [mlme EXCEPT !.handler = "idle"]
           ok == command.status = "ok"
       IN  \/ /\ mlme.handler = "join" /\ ok
              /\ mlme' = [idle EXCEPT !.station = "joining",
                                      !.joined = mlme.epoch]
              /\ UNCHANGED <<mlme_events, io>>
           \/ /\ mlme.handler = "join" /\ ~ok
              /\ mlme' = idle /\ Emit("refused", 0)
              /\ UNCHANGED io
           \/ /\ mlme.handler = "up" /\ Raised
              /\ UNCHANGED mlme_events
           \/ /\ mlme.handler = "down"
              /\ mlme' = idle /\ Emit("deauth_conf", 0)
              /\ UNCHANGED io
           \/ /\ mlme.handler = "loss"
              /\ mlme' = idle /\ Emit("deauthenticated", 0)
              /\ UNCHANGED io
           \/ /\ mlme.handler = "scan" /\ ok
              /\ mlme' = idle
              /\ UNCHANGED <<mlme_events, io>>
           \/ /\ mlme.handler = "scan" /\ ~ok
              /\ mlme' = [idle EXCEPT !.scan = 0]
              /\ Emit("scan_end", mlme.scan)
              /\ UNCHANGED io
    /\ UNCHANGED <<authority, contained, attempts, requests, toMlme,
                   transaction, sme, pending, control, link, scanning,
                   bounds>>

(* The bridge hands one callback to the MLME loop, under the epoch the     *)
(* callback queue has at that moment.                                      *)
Bridge ==
    /\ upcalls # <<>>
    /\ upcalls' = Tail(upcalls)
    /\ driver_events' = Append(driver_events,
                               [kind |-> Head(upcalls).kind,
                                epoch |-> upcall_epoch,
                                scan |-> Head(upcalls).scan])
    /\ UNCHANGED <<authority, contained, attempts, toSme, mlme_requests,
                   transaction, sme, mlme, driver, io, bounds>>
-----------------------------------------------------------------------------
(* The driver actor takes an owner command before any mailbox work. *)
OwnerLink ==
    /\ control # <<>> /\ Head(control).kind = "Link"
    /\ control' = Tail(control)
    /\ \/ link' = FALSE /\ cleanup' = [cleanup EXCEPT !.link = "ok"]
       \/ /\ Faulty /\ UNCHANGED link
          /\ cleanup' = [cleanup EXCEPT !.link = "error"]
    /\ UNCHANGED <<authority, contained, connect_attempt, connection,
                   scan_attempt, power_save, toSme, toMlme, transaction, sme,
                   mlme, command, pending, scanning, io, bounds>>

FinishBlocked_Never == FALSE

(* finish_failed_connect_attempt answers SHOULD_WAIT. *)
FinishBlocked ==
    pending # "none" \/ (command.status = "queued" /\ Live(command.epoch))

OwnerFinish ==
    /\ control # <<>> /\ Head(control).kind = "Finish"
    /\ control' = Tail(control)
    /\ \/ FinishBlocked /\ cleanup' = [cleanup EXCEPT !.finish = "busy"]
          /\ UNCHANGED scanning
       \/ ~FinishBlocked /\ cleanup' = [cleanup EXCEPT !.finish = "ok"]
          /\ scanning' \in {0, scanning}
       \/ ~FinishBlocked /\ cleanup' = [cleanup EXCEPT !.finish = "error"]
          /\ Faulty /\ UNCHANGED scanning
    /\ UNCHANGED <<authority, contained, connect_attempt, connection,
                   scan_attempt, power_save, toSme, toMlme, transaction, sme,
                   mlme, command, pending, link, io, bounds>>

OwnerPower ==
    /\ control # <<>> /\ Head(control).kind = "Power"
    /\ control' = Tail(control)
    /\ IF pending = "none" /\ Live(Head(control).epoch)
       THEN pending' = "power" /\ UNCHANGED power_save
       ELSE /\ power_save' = [power_save EXCEPT !.reply =
                                IF pending # "none" THEN "busy" ELSE "canceled"]
            /\ UNCHANGED pending
    /\ UNCHANGED <<authority, contained, connect_attempt, connection,
                   cleanup, scan_attempt, toSme, toMlme, transaction, sme,
                   mlme, command, link, scanning, io, bounds>>

(* The request's epoch was revoked while it was queued. *)
PollRejects == ~Live(command.epoch)

(* poll pops the mailbox: reject, call synchronously, or start and await. *)
DriverPoll ==
    /\ control = <<>> /\ pending = "none" /\ command.status = "queued"
    /\ \/ /\ PollRejects
          /\ command' = [command EXCEPT !.status = "error"]
          /\ UNCHANGED <<pending, link>>
       \/ /\ ~PollRejects /\ command.kind \in {"link_up", "link_down"}
          /\ link' = (command.kind = "link_up")
          /\ command' = [command EXCEPT !.status = "ok"]
          /\ UNCHANGED pending
       \/ /\ ~PollRejects /\ command.kind \in {"link_up", "link_down"}
          /\ Faulty
          /\ command' = [command EXCEPT !.status = "error"]
          /\ UNCHANGED <<pending, link>>
       \/ /\ ~PollRejects /\ command.kind \in {"join", "scan"}
          /\ command' = [command EXCEPT !.status = "called"]
          /\ pending' = "command"
          /\ UNCHANGED link
    /\ UNCHANGED <<authority, contained, attempts, toSme, toMlme,
                   transaction, sme, mlme, control, scanning, io, bounds>>

(* The device completes the operation the actor awaits. *)
DeviceComplete ==
    /\ pending # "none"
    /\ pending' = "none"
    /\ \E status \in {"ok", "error"} :
         IF pending = "power"
         THEN /\ Faulty \/ status = "ok"
              /\ power_save' = [power_save EXCEPT !.reply = status]
              /\ UNCHANGED <<command, scanning>>
         ELSE /\ command' = [command EXCEPT !.status = status]
              /\ scanning' = IF command.kind = "scan" /\ status = "ok"
                             THEN mlme.scan ELSE scanning
              /\ UNCHANGED power_save
    /\ UNCHANGED <<authority, contained, connect_attempt, connection,
                   cleanup, scan_attempt, toSme, toMlme, transaction, sme,
                   mlme, control, link, io, bounds>>

(* The device calls back: a frame, a loss of the connection it monitors. *)
DeviceUpcall ==
    /\ calls < MaxUpcalls
    /\ calls' = calls + 1
    /\ \E kind \in {"frame", "loss"} :
         /\ kind = "frame" \/ link
         /\ upcalls' = Append(upcalls, [kind |-> kind, scan |-> 0])
    /\ UNCHANGED <<authority, contained, attempts, toSme, mlme_requests,
                   driver_events, transaction, sme, mlme, driver, io, scans>>

DeviceScanComplete ==
    /\ scanning # 0
    /\ scanning' = 0
    /\ upcalls' = Append(upcalls, [kind |-> "scan_complete",
                                   scan |-> scanning])
    /\ UNCHANGED <<authority, contained, attempts, toSme, mlme_requests,
                   driver_events, transaction, sme, mlme, command, pending,
                   control, link, io, bounds>>
-----------------------------------------------------------------------------
Begin == BeginConnect \/ BeginDisconnect \/ BeginScan \/ BeginPowerSave

DriveConnect == \/ ConnectWaits \/ ConnectFailed \/ ConnectSucceeded
                \/ ConnectMismatch

DriveDisconnect == \/ SendFinish \/ RetryFinish \/ CleanupComplete
                   \/ CleanupRefused

DriveScan == ScanDone \/ ScanLost

Sme == SmeConnect \/ SmeScan \/ SmeDisconnect \/ SmeEvent

Mlme == MlmeRequest \/ MlmeEvent \/ Resume

Actor == OwnerLink \/ OwnerFinish \/ OwnerPower \/ DriverPoll

Next ==
    /\ contained = "no"
    /\ \/ Begin \/ DriveConnect \/ DriveDisconnect \/ DriveScan \/ ScanAbsent
       \/ DrivePowerSave \/ ConnectionEnded \/ Timeout
       \/ TakeEthernetDevice
       \/ Sme \/ SmeTimeout \/ Mlme \/ MlmeTimeout \/ Bridge
       \/ Actor \/ DeviceComplete \/ DeviceUpcall \/ DeviceScanComplete

Spec == Init /\ [][Next]_vars

(* The tasks of one executor are polled in turn, the caller keeps driving, *)
(* timers fire, and the firmware completes what it accepted.               *)
Running(A) == contained = "no" /\ A

FairSpec ==
    /\ Spec
    /\ WF_vars(Running(Sme)) /\ WF_vars(Running(SmeTimeout))
    /\ WF_vars(Running(Mlme)) /\ WF_vars(Running(MlmeTimeout))
    /\ WF_vars(Running(Bridge)) /\ WF_vars(Running(Actor))
    /\ WF_vars(Running(DeviceComplete))
    /\ WF_vars(Running(DriveConnect)) /\ WF_vars(Running(DriveDisconnect))
-----------------------------------------------------------------------------
(* Every variable stays in its range. *)
TypeOK ==
    /\ epoch \in EpochIds /\ live \in BOOLEAN /\ upcall_epoch \in EpochIds
    /\ contained \in {"no", "timeout", "device", "mismatch", "scan"}
    /\ connect_attempt \in
         [admission : {"none", "pending", "active", "canceled"},
          result : {"none", "success", "failure"}]
    /\ connection \in {"none", "active", "ended"}
    /\ cleanup \in
         [active : BOOLEAN, admitted : BOOLEAN,
          link : {"none", "waiting", "ok", "error"},
          finish : {"none", "waiting", "busy", "ok", "error"},
          terminal : {"none", "success", "failure"}, failed : BOOLEAN]
    /\ scan_attempt \in
         [id : ScanIds,
          admission : {"none", "pending", "active", "done", "closed"}]
    /\ power_save \in [epoch : EpochIds,
                       reply : {"none", "waiting", "ok", "busy", "canceled",
                                "error"}]
    /\ sme \in [state : {"Idle", "Connecting", "Connected", "Disconnecting"},
                epoch : EpochIds, scan : ScanIds, next : ScanIds]
    /\ mlme \in [handler : {"idle", "join", "up", "down", "loss", "scan",
                            "failed"},
                 epoch : EpochIds, scan : ScanIds, joined : EpochIds,
                 station : {"none", "joining", "associated"},
                 host : PortIds]
    /\ command \in [kind : {"none", "join", "scan", "link_up", "link_down"},
                    epoch : EpochIds,
                    status : {"none", "queued", "called", "ok", "error"}]
    /\ pending \in {"none", "command", "power"}
    /\ link \in BOOLEAN /\ scanning \in ScanIds
    /\ io \in [port : PortIds, open : BOOLEAN, up : BOOLEAN,
               unpublished : PortIds, offered : PortIds, taken : PortIds]

(* From the moment a cleanup begins the Ethernet port is down, whatever    *)
(* handlers were suspended on the device then, and outside an attempt, a   *)
(* connection and a cleanup the device was told "down" as well: what       *)
(* drive_disconnect_once certifies stays true until the next attempt.      *)
DisconnectedMeansDown ==
    contained = "no" =>
        /\ cleanup.active => ~io.up
        /\ (/\ connect_attempt = NoAttempt /\ connection = "none"
            /\ ~cleanup.active) => ~link /\ ~io.up

(* A connect the SME will accept finds it Idle: no association of an       *)
(* earlier attempt is left for on_connect_command to tear down.            *)
ConnectFindsSmeIdle ==
    \A i \in 1 .. Len(requests) :
        requests[i].kind = "Connect" /\ Live(requests[i].epoch)
            => sme.state = "Idle"

(* While the driver's Ethernet port is open its host half is held by       *)
(* somebody who can still publish it: kept from construction, in the       *)
(* suspended set_ethernet_status, offered to the service or taken by it.   *)
PortHasHost ==
    io.open => \/ io.port \in {io.unpublished, io.offered, io.taken}
               \/ mlme.handler = "up" /\ mlme.host = io.port

(* Once a connect result is "success", the protocol is idle and the peer   *)
(* has not ended the association, a device that refuses no link has the    *)
(* Ethernet link up (checked with Faulty = FALSE): drive_connect_once does *)
(* not mistake a link still on its way for a fault.                        *)
SuccessMeansLinkUp ==
    (/\ DrivingConnect /\ Received = "success" /\ ProtocolIdle
     /\ mlme.station = "associated")
        => sme.state = "Connected" /\ io.up

(* The error returns that contain_error would make terminal are dead code: *)
(* a transaction closes only after its result, and an active connection's  *)
(* only after its disconnect event (ConnectTransactionClosed); a scan      *)
(* reaches the MLME only when it has none ("Scan already in progress",     *)
(* which would end the protocol task).                                     *)
NoOrphanedTransaction ==
    /\ DrivingConnect => /\ connect_attempt.admission # "canceled"
                         /\ Received = "none" => ~transaction.closed
    /\ connection = "active" /\ transaction.events = <<>>
         => ~transaction.closed
    /\ mlme.handler # "failed"

(* The bounded channels are never full when the runtime sends: at most one *)
(* request of each kind waits for the SME (capacity 64), at most one Link, *)
(* Finish and PowerSave for the actor (capacity 4), so begin_cleanup is    *)
(* never refused for want of a slot.                                       *)
ChannelsSuffice ==
    /\ \A i, j \in 1 .. Len(requests) :
         requests[i].kind = requests[j].kind => i = j
    /\ \A i, j \in 1 .. Len(control) :
         control[i].kind = control[j].kind => i = j

(* A cleanup completes only when nothing of the old attempt is left to     *)
(* act: no device operation is running, no handler waits for one, no       *)
(* request for the SME or the MLME is queued under live authority.         *)
Quiesced ==
    /\ pending = "none" /\ command = NoCommand /\ ~link
    /\ \A i \in 1 .. Len(requests) : ~Live(requests[i].epoch)
    /\ \A i \in 1 .. Len(mlme_requests) : ~Live(mlme_requests[i].epoch)

CleanupQuiesces == [][cleanup.active /\ ~cleanup'.active => Quiesced]_vars

=============================================================================
