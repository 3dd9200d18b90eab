---------------------------- MODULE SoftmacBridge ----------------------------
(***************************************************************************)
(* What lies between the device's callbacks, the MLME and the netstack in  *)
(* wlan-softmac-host: the bounded callback queue (runtime.rs, UpcallQueue),*)
(* the bridge task that feeds the MLME (serve.rs), and the Ethernet port   *)
(* that appears and disappears with the link (ethernet.rs,                 *)
(* HostMlmeDevice::set_ethernet_status).                                   *)
(*                                                                         *)
(* The runtime's connect and cleanup steps are reduced to what they do to  *)
(* these parts; ClientRuntime models them.                                 *)
(***************************************************************************)
EXTENDS Integers, Sequences, FiniteSets

CONSTANTS
    Capacity,   \* UPCALL_QUEUE_CAPACITY of the callback queue
    EventCap,   \* capacity of the MLME event channel
    MaxEpoch,   \* bound: operation epochs
    MaxGen,     \* bound: Ethernet ports created
    MaxCalls    \* bound: control callbacks of one epoch

ASSUME BridgeAssumption ==
    /\ Capacity \in Nat /\ EventCap \in Nat /\ MaxCalls \in Nat
    /\ MaxEpoch \in Nat \ {0} /\ MaxGen \in Nat \ {0}

VARIABLES
    epoch,    \* the runtime's current epoch
    unrevoked, \* the epochs that are not revoked
    conn,     \* "none", "active", "cleanup" or "stopped"
    up,       \* UpcallQueue: queue, live, overflowed, raw, epoch, permit
    calls,    \* control callbacks of this epoch: [pushed, taken]
    bridge,   \* the bridge task: "poll", "wait", "failed" or the event it sends
    events,   \* the MLME event channel
    mlme_pending, \* `pending`, the counter behind protocol_idle
    mlme,     \* the MLME task: idle, or in set_ethernet_status
    port,     \* HostIo.ethernet: the driver's half of the current port
    tx,       \* frames the netstack has written to the current port
    devices   \* the netstack's halves: unpublished, published, held

bridgeVars == <<epoch, unrevoked, conn, up, calls, bridge, events, mlme_pending, mlme, port, tx,
          devices>>

None == 0
Idle == [op |-> "idle", epoch |-> 0, host |-> None, open |-> FALSE]

BridgeInit ==
    /\ epoch = 1 /\ unrevoked = {1} /\ conn = "none"
    /\ up = [queue |-> <<>>, live |-> TRUE, overflowed |-> FALSE, raw |-> 0,
             epoch |-> 1, permit |-> FALSE]
    /\ calls = [pushed |-> 0, taken |-> 0]
    /\ bridge = [at |-> "poll"] /\ events = <<>> /\ mlme_pending = 0
    /\ mlme = Idle
    /\ port = [gen |-> 1, fd |-> TRUE, link |-> FALSE, alive |-> TRUE]
    /\ tx = <<>>
    /\ devices = [unpublished |-> 1, published |-> None, held |-> None]
-----------------------------------------------------------------------------
(* The callback queue. *)
IsRaw(c) == c.kind = "raw"

Callback(kind) == [kind |-> kind, born |-> up.epoch]

PushRaw(q) ==
    IF q.live /\ Len(q.queue) < Capacity
    THEN [q EXCEPT !.queue = Append(@, Callback("raw")), !.raw = @ + 1, !.permit = TRUE]
    ELSE q

Recv ==
    /\ conn # "stopped" /\ up' = PushRaw(up)
    /\ UNCHANGED <<epoch, unrevoked, conn, calls, bridge, events, mlme_pending, mlme, port, tx, devices>>

Cleared(q) == [q EXCEPT !.queue = <<>>, !.raw = 0]

(* VecDeque::remove. *)
Removed(s, i) == SubSeq(s, 1, i - 1) \o SubSeq(s, i + 1, Len(s))

(* push_control: at capacity the oldest raw frame makes room, and a queue  *)
(* of control callbacks alone latches the overflow.                        *)
PushControl(q, c) ==
    IF ~q.live THEN q
    ELSE IF Len(q.queue) < Capacity
    THEN [q EXCEPT !.queue = Append(@, c), !.permit = TRUE]
    ELSE LET raws == {i \in 1..Len(q.queue) : IsRaw(q.queue[i])}
         IN  IF raws = {}
             THEN [Cleared(q) EXCEPT !.live = FALSE, !.overflowed = TRUE, !.permit = TRUE]
             ELSE [q EXCEPT !.queue = Append(Removed(@, CHOOSE i \in raws :
                                                 \A j \in raws : i <= j), c),
                            !.raw = @ - 1, !.permit = TRUE]

(* notify_connection_loss, report_tx_result and notify_scan_complete. *)
Control(kind) ==
    /\ conn # "stopped" /\ calls.pushed < MaxCalls
    /\ up' = PushControl(up, Callback(kind))
    /\ calls' = IF up.live THEN [calls EXCEPT !.pushed = @ + 1] ELSE calls
    /\ UNCHANGED <<epoch, unrevoked, conn, bridge, events, mlme_pending, mlme, port, tx, devices>>

NoCalls == [pushed |-> 0, taken |-> 0]
-----------------------------------------------------------------------------
(* The bridge. Its pending counter is raised before the channel has room.  *)
Sending(kind, e, born) == [at |-> "send", kind |-> kind, epoch |-> e, born |-> born]

TakeCallback_Unlatched ==
    /\ bridge.at = "poll" /\ conn # "stopped"
    /\ IF up.queue = <<>>
       THEN bridge' = [at |-> "wait"] /\ UNCHANGED <<up, calls, mlme_pending>>
       ELSE LET c == Head(up.queue)
            IN  /\ up' = [up EXCEPT !.queue = Tail(@), !.raw = IF IsRaw(c) THEN @ - 1 ELSE @]
                /\ calls' = IF IsRaw(c) THEN calls ELSE [calls EXCEPT !.taken = @ + 1]
                /\ bridge' = Sending(c.kind, up.epoch, c.born) /\ mlme_pending' = mlme_pending + 1
    /\ UNCHANGED <<epoch, unrevoked, conn, events, mlme, port, tx, devices>>

TakeCallback ==
    /\ bridge.at = "poll" /\ conn # "stopped"
    /\ \/ /\ up.overflowed /\ bridge' = [at |-> "failed"]
          /\ UNCHANGED <<up, calls, mlme_pending>>
       \/ /\ ~up.overflowed /\ up.queue = <<>>
          /\ bridge' = [at |-> "wait"] /\ UNCHANGED <<up, calls, mlme_pending>>
       \/ /\ ~up.overflowed /\ up.queue # <<>>
          /\ LET c == Head(up.queue)
             IN  /\ up' = [up EXCEPT !.queue = Tail(@), !.raw = IF IsRaw(c) THEN @ - 1 ELSE @]
                 /\ calls' = IF IsRaw(c) THEN calls ELSE [calls EXCEPT !.taken = @ + 1]
                 /\ bridge' = Sending(c.kind, up.epoch, c.born) /\ mlme_pending' = mlme_pending + 1
    /\ UNCHANGED <<epoch, unrevoked, conn, events, mlme, port, tx, devices>>

(* notify.notified(): a stored permit is consumed. *)
Wake ==
    /\ bridge.at = "wait" /\ up.permit /\ conn # "stopped"
    /\ bridge' = [at |-> "poll"] /\ up' = [up EXCEPT !.permit = FALSE]
    /\ UNCHANGED <<epoch, unrevoked, conn, calls, events, mlme_pending, mlme, port, tx, devices>>

(* poll_transmit: nothing while the link is down; a socket whose other end *)
(* is gone is an error.                                                    *)
LinkUp == port.alive /\ port.link

PeerGone == port.gen \notin {devices.unpublished, devices.published, devices.held,
                             mlme.host}

TakeFrame ==
    /\ bridge.at \in {"poll", "wait"} /\ conn # "stopped" /\ LinkUp /\ port.fd
    /\ \/ /\ tx # <<>> /\ tx' = Tail(tx)
          /\ bridge' = Sending("frame", up.epoch, Head(tx)) /\ mlme_pending' = mlme_pending + 1
       \/ /\ tx = <<>> /\ PeerGone /\ bridge' = [at |-> "failed"]
          /\ UNCHANGED <<tx, mlme_pending>>
    /\ UNCHANGED <<epoch, unrevoked, conn, up, calls, events, mlme, port, devices>>

SendEvent ==
    /\ bridge.at = "send" /\ Len(events) < EventCap /\ conn # "stopped"
    /\ events' = Append(events, bridge) /\ bridge' = [at |-> "poll"]
    /\ UNCHANGED <<epoch, unrevoked, conn, up, calls, mlme_pending, mlme, port, tx, devices>>
-----------------------------------------------------------------------------
(* The Ethernet port. *)
SetLinkDown == IF port.alive THEN [port EXCEPT !.link = FALSE, !.fd = FALSE] ELSE port

SetLinkUp == IF port.alive THEN [port EXCEPT !.link = TRUE] ELSE port

Teardown == [port EXCEPT !.link = FALSE, !.alive = FALSE, !.fd = FALSE]

NewPort == [gen |-> port.gen + 1, fd |-> TRUE, link |-> FALSE, alive |-> TRUE]

Replaced(d) == [d EXCEPT !.published = None]

Withdrawn_UnpublishedOnly(d) == [d EXCEPT !.unpublished = None]

Withdrawn(d) == [d EXCEPT !.unpublished = None, !.published = None]

(* set_ethernet_status(DOWN), up to its request to the driver. *)
StartDown(e) ==
    /\ port' = SetLinkDown /\ tx' = <<>> /\ devices' = Withdrawn(devices)
    /\ mlme' = [op |-> "down", epoch |-> e, host |-> None, open |-> FALSE]

(* set_ethernet_status(UP), up to its request to the driver: a closed port *)
(* is replaced, and the first port's device is taken.                      *)
StartUp ==
    /\ mlme.op = "idle" /\ ~mlme.open /\ up.epoch \in unrevoked
    /\ conn \in {"active", "cleanup"}
    /\ IF port.fd
       THEN /\ mlme' = [op |-> "up", epoch |-> up.epoch, host |-> devices.unpublished,
                        open |-> TRUE]
            /\ devices' = [devices EXCEPT !.unpublished = None]
            /\ UNCHANGED <<port, tx>>
       ELSE /\ port.gen < MaxGen /\ port' = NewPort /\ tx' = <<>>
            /\ mlme' = [op |-> "up", epoch |-> up.epoch, host |-> port.gen + 1,
                        open |-> TRUE]
            /\ devices' = Replaced(devices)
    /\ mlme_pending' = mlme_pending + 1
    /\ UNCHANGED <<epoch, unrevoked, conn, up, calls, bridge, events>>

(* The driver's answer. Only an operation that is still admitted raises    *)
(* the link and publishes the device.                                      *)
Published(d, host) == IF host = None THEN d ELSE [d EXCEPT !.published = host]

FinishUp ==
    /\ mlme.op = "up"
    /\ \/ /\ mlme.epoch \in unrevoked /\ port' = SetLinkUp
          /\ devices' = Published(devices, mlme.host) /\ UNCHANGED tx
       \/ mlme.epoch \notin unrevoked /\ UNCHANGED <<port, devices, tx>>
       \/ port' = Teardown /\ devices' = Withdrawn(devices) /\ tx' = <<>>
    /\ mlme' = [Idle EXCEPT !.open = TRUE] /\ mlme_pending' = mlme_pending - 1
    /\ UNCHANGED <<epoch, unrevoked, conn, up, calls, bridge, events>>

FinishDown ==
    /\ mlme.op = "down" /\ mlme' = Idle /\ mlme_pending' = mlme_pending - 1
    /\ UNCHANGED <<epoch, unrevoked, conn, up, calls, bridge, events, port, tx, devices>>

(* The MLME handles one event; it is skipped when its epoch was revoked.   *)
Handle ==
    /\ mlme.op = "idle" /\ events # <<>>
    /\ LET e == Head(events)
       IN  IF e.epoch \in unrevoked /\ e.kind = "loss" /\ mlme.open
           THEN StartDown(e.epoch) /\ UNCHANGED mlme_pending
           ELSE mlme_pending' = mlme_pending - 1 /\ UNCHANGED <<mlme, port, tx, devices>>
    /\ events' = Tail(events)
    /\ UNCHANGED <<epoch, unrevoked, conn, up, calls, bridge>>

(* The SME's disconnect request, under the cleanup's own epoch. *)
HandleDisconnect ==
    /\ conn = "cleanup" /\ mlme.op = "idle" /\ mlme.open /\ epoch \in unrevoked
    /\ StartDown(epoch) /\ mlme_pending' = mlme_pending + 1
    /\ UNCHANGED <<epoch, unrevoked, conn, up, calls, bridge, events>>
-----------------------------------------------------------------------------
(* The runtime. *)
BeginEpoch ==
    /\ conn = "none" /\ epoch < MaxEpoch
    /\ epoch' = epoch + 1 /\ unrevoked' = (unrevoked \ {epoch}) \cup {epoch + 1}
    /\ conn' = "active" /\ up' = [Cleared(up) EXCEPT !.epoch = epoch + 1]
    /\ calls' = NoCalls
    /\ UNCHANGED <<bridge, events, mlme_pending, mlme, port, tx, devices>>

BeginCleanup ==
    /\ conn = "active" /\ epoch < MaxEpoch
    /\ epoch' = epoch + 1 /\ unrevoked' = (unrevoked \ {epoch}) \cup {epoch + 1}
    /\ conn' = "cleanup" /\ port' = SetLinkDown
    /\ tx' = IF port.alive THEN <<>> ELSE tx
    /\ UNCHANGED <<up, calls, bridge, events, mlme_pending, mlme, devices>>

FinishCleanup ==
    /\ conn = "cleanup" /\ mlme_pending = 0 /\ ~mlme.open /\ ~up.overflowed
    /\ conn' = "none" /\ unrevoked' = unrevoked \ {epoch} /\ up' = Cleared(up)
    /\ calls' = NoCalls
    /\ UNCHANGED <<epoch, bridge, events, mlme_pending, mlme, port, tx, devices>>

(* request_stop. *)
StopRuntime ==
    /\ conn # "stopped" /\ conn' = "stopped" /\ unrevoked' = {}
    /\ up' = [Cleared(up) EXCEPT !.live = FALSE] /\ calls' = NoCalls
    /\ port' = Teardown /\ tx' = <<>>
    /\ UNCHANGED <<epoch, bridge, events, mlme_pending, mlme, devices>>

TakeDevice ==
    /\ devices.published # None
    /\ devices' = [devices EXCEPT !.held = devices.published, !.published = None]
    /\ UNCHANGED <<epoch, unrevoked, conn, up, calls, bridge, events, mlme_pending, mlme, port, tx>>

(* The netstack process: it writes frames while its port is open, and may  *)
(* go away.                                                                *)
NetstackSend ==
    /\ devices.held = port.gen /\ port.fd /\ tx = <<>>
    /\ tx' = <<up.epoch>>
    /\ UNCHANGED <<epoch, unrevoked, conn, up, calls, bridge, events, mlme_pending, mlme, port, devices>>

NetstackClose ==
    /\ devices.held # None /\ devices' = [devices EXCEPT !.held = None]
    /\ UNCHANGED <<epoch, unrevoked, conn, up, calls, bridge, events, mlme_pending, mlme, port, tx>>

BridgeNext ==
    \/ Recv \/ \E k \in {"loss", "result"} : Control(k)
    \/ TakeCallback \/ Wake \/ TakeFrame \/ SendEvent
    \/ StartUp \/ FinishUp \/ FinishDown \/ Handle \/ HandleDisconnect
    \/ BeginEpoch \/ BeginCleanup \/ FinishCleanup \/ StopRuntime
    \/ TakeDevice \/ NetstackSend \/ NetstackClose

BridgeSpec == BridgeInit /\ [][BridgeNext]_bridgeVars

(* The bridge and the MLME are tasks of one executor, which polls what is  *)
(* woken; the driver answers (DriverActor). Between callbacks and frames   *)
(* the bridge chooses with futures::select!, at random: a callback that is *)
(* again and again ready is taken.                                         *)
BridgeFairSpec ==
    /\ BridgeSpec
    /\ SF_bridgeVars(TakeCallback) /\ WF_bridgeVars(Wake) /\ WF_bridgeVars(SendEvent)
    /\ WF_bridgeVars(Handle) /\ WF_bridgeVars(FinishUp) /\ WF_bridgeVars(FinishDown)
-----------------------------------------------------------------------------
(* Types of the bridge; raw_queued counts the raw frames of the queue, and *)
(* its subtraction never underflows.                                       *)
BridgeTypeOK ==
    /\ Len(up.queue) <= Capacity /\ Len(events) <= EventCap
    /\ up.raw = Cardinality({i \in 1..Len(up.queue) : IsRaw(up.queue[i])})
    /\ mlme_pending \in Nat /\ epoch \in 1..MaxEpoch /\ unrevoked \subseteq 1..epoch
    /\ port.gen \in 1..MaxGen
    /\ bridge.at \in {"poll", "wait", "send", "failed"}

(* protocol_idle is exact: the counter is zero just when no event is being *)
(* sent, queued or handled, so cleanup neither completes early nor waits   *)
(* for work that is already done.                                          *)
PendingExact ==
    mlme_pending = Len(events) + (IF bridge.at = "send" THEN 1 ELSE 0)
                          + (IF mlme.op # "idle" THEN 1 ELSE 0)

(* Raw frames may be dropped; a control callback never is: unless the      *)
(* overflow is latched or the queue was revoked, every one pushed since    *)
(* the epoch began was taken by the bridge or is still queued.             *)
ControlsKept ==
    up.live => calls.pushed - calls.taken
                   = Cardinality({i \in 1..Len(up.queue) : ~IsRaw(up.queue[i])})

(* "Lifetime identity is captured before enqueue": what the MLME is about  *)
(* to handle under a live epoch arose in that epoch, callbacks and the     *)
(* netstack's frames alike.                                                *)
EventsOfTheirEpoch ==
    \A i \in 1..Len(events) : events[i].epoch \in unrevoked => events[i].born = events[i].epoch

(* poll_transmit's endpoint "was prepared": the link is never up over a    *)
(* closed descriptor, even when cleanup closed the port while the driver   *)
(* was still answering the request to raise it.                            *)
LinkHasEndpoint == LinkUp => port.fd

(* The device offered to the netstack is the other half of the current     *)
(* port, and its link is up unless the runtime itself is tearing the       *)
(* connection down: no stale endpoint of an earlier link is published.     *)
PublishedIsCurrent ==
    devices.published # None =>
        devices.published = port.gen /\ (LinkUp \/ conn \in {"cleanup", "stopped"})

(* No control callback is dropped or delivered outside its epoch, the      *)
(* counter of pending callbacks is exact, a raised link has an endpoint    *)
(* and a published port is the current one, whatever the device, the MLME  *)
(* and the port's owner interleave.                                        *)
BridgeSafe ==
    /\ BridgeTypeOK
    /\ PendingExact
    /\ ControlsKept
    /\ EventsOfTheirEpoch
    /\ LinkHasEndpoint
    /\ PublishedIsCurrent

(* A callback wakes the bridge: unless it failed or the runtime stopped,   *)
(* the oldest control callback queued is taken, or cleared with its epoch, *)
(* however many raw frames arrive before and after it and however often    *)
(* the netstack's frames are served first (serve_wlan_softmac_ifc_bridge). *)
CallbacksServed ==
    \A n \in 0 .. MaxCalls - 1 :
        calls.taken = n /\ calls.pushed > n ~>
            calls.taken # n \/ calls.pushed <= n \/ bridge.at = "failed" \/ conn = "stopped"

(* A latched overflow is reported by the bridge or the runtime stops. *)
OverflowReported == up.overflowed ~> bridge.at = "failed" \/ conn = "stopped"
=============================================================================
