----------------------------- MODULE NetcfgLink -----------------------------
(***************************************************************************)
(* How an Ethernet link reaches the network stack: the Wi-Fi service sends *)
(* Install and Revoke records on its lifecycle channel, netcfg (netcfg.rs, *)
(* lifecycle.rs) turns them into requests on the provider's private        *)
(* channel (link_control.rs), and the provider (provider.rs) swaps its     *)
(* Ethernet device, acknowledges, and reports its interfaces.              *)
(***************************************************************************)
EXTENDS Integers, Sequences, FiniteSets

CONSTANTS
    MaxLinks,    \* bound: links the Wi-Fi service ever installs
    Room,        \* replies the provider's channel holds
    MaxChanges,  \* bound: changes of the interfaces not caused by links
    Faults       \* whether timeouts, signals and a dead provider occur

ASSUME LinkAssumption ==
    MaxLinks \in Nat /\ Room \in Nat /\ MaxChanges \in Nat /\ Faults \in BOOLEAN

Links == 1 .. MaxLinks
None == 0

VARIABLES
    wifi,     \* the Wi-Fi service: links installed, the active one, whether
              \* its channel is closed
    frames,   \* links whose driver end is open
    life,     \* the lifecycle channel
    netcfg,   \* netcfg: where it is, WifiLifecycleReceiver, ProviderInterfaces
    requests, \* the provider's channel, towards the provider
    replies,  \* and back
    provider  \* the provider's link state

vars == <<wifi, frames, life, netcfg, requests, replies, provider>>

Message(kind, link) == [kind |-> kind, link |-> link]

Init ==
    /\ wifi = [installed |-> 0, active |-> None, closed |-> FALSE]
    /\ frames = {} /\ life = <<>> /\ replies = <<>>
    /\ requests = <<Message("Watch", None)>>
    /\ netcfg = [at |-> "completed", op |-> Message("Watch", None), active |-> None,
                 last |-> None, link |-> None, lastLink |-> None, monitor |-> None,
                 seen |-> 0, present |-> FALSE, why |-> "none"]
    /\ provider = [alive |-> TRUE, device |-> None, active |-> None, last |-> None,
                   watch |-> FALSE, reported |-> 0, blocked |-> FALSE, ack |-> <<>>,
                   revision |-> 1, changes |-> 0]
-----------------------------------------------------------------------------
(* The Wi-Fi service: each link is a fresh frame channel. *)
Install ==
    /\ ~wifi.closed /\ wifi.installed < MaxLinks
    /\ LET link == wifi.installed + 1 IN
       /\ wifi' = [wifi EXCEPT !.installed = link, !.active = link]
       /\ frames' = frames \cup {link}
       /\ life' = Append(life, Message("Install", link))
    /\ UNCHANGED <<netcfg, requests, replies, provider>>

Revoke ==
    /\ ~wifi.closed /\ wifi.active # None
    /\ wifi' = [wifi EXCEPT !.active = None]
    /\ life' = Append(life, Message("Revoke", wifi.active))
    /\ UNCHANGED <<frames, netcfg, requests, replies, provider>>

\* The driver's end of a frame channel goes away, revoked or not.
FrameCloses ==
    /\ \E link \in frames : frames' = frames \ {link}
    /\ UNCHANGED <<wifi, life, netcfg, requests, replies, provider>>

WifiEnds ==
    /\ ~wifi.closed /\ wifi' = [wifi EXCEPT !.closed = TRUE]
    /\ UNCHANGED <<frames, life, netcfg, requests, replies, provider>>
-----------------------------------------------------------------------------
(* netcfg: its loop receives one lifecycle record or polls; an interface   *)
(* operation blocks the loop until its acknowledgement.                    *)
Fail(why) == netcfg' = [netcfg EXCEPT !.at = "exited", !.why = why]

\* ProviderInterfaces::install and revoke up to the wait for the reply.
SendAttach(n, link) ==
    /\ requests' = Append(requests, Message("Attach", link))
    /\ netcfg' = [n EXCEPT !.at = "completed", !.op = Message("Attach", link), !.monitor = link]

\* Revoked already, when the frame channel closed: nothing to send.
AlreadyOffline(link) == netcfg.link = None /\ netcfg.lastLink = link

SendDetach(n, link, op) ==
    CASE AlreadyOffline(link) ->
            netcfg' = [n EXCEPT !.active = None, !.present = FALSE,
                                !.at = IF op = "Close" THEN "exited" ELSE "loop"]
            /\ UNCHANGED requests
      [] ~AlreadyOffline(link) /\ netcfg.link # link -> Fail("mismatch") /\ UNCHANGED requests
      [] OTHER ->
            /\ requests' = Append(requests, Message("Detach", link))
            /\ netcfg' = [n EXCEPT !.at = "completed", !.op = Message(op, link)]

\* WifiLifecycleReceiver::receive of an Install, of a Revoke, of the end.
InstallOutOfOrder(link) == netcfg.last # None /\ link <= netcfg.last
ReceiveInstall(link) ==
    IF InstallOutOfOrder(link) THEN Fail("nonmonotonic") /\ UNCHANGED requests
    ELSE SendAttach([netcfg EXCEPT !.last = link], link)

ReceiveRevoke(link) ==
    IF netcfg.active # link THEN Fail("unmatched") /\ UNCHANGED requests
    ELSE SendDetach(netcfg, link, "Revoke")

ReceiveClosed ==
    IF netcfg.active = None
    THEN netcfg' = [netcfg EXCEPT !.at = "exited", !.present = FALSE] /\ UNCHANGED requests
    ELSE SendDetach(netcfg, netcfg.active, "Close")

Receive ==
    /\ netcfg.at = "loop"
    /\ \/ /\ life # <<>> /\ life' = Tail(life)
          /\ IF Head(life).kind = "Install" THEN ReceiveInstall(Head(life).link)
             ELSE ReceiveRevoke(Head(life).link)
       \/ life = <<>> /\ wifi.closed /\ ReceiveClosed /\ UNCHANGED life
    /\ UNCHANGED <<wifi, frames, replies, provider>>

\* The poll of an idle loop: a report first, then the provider's channel,
\* then the frame channel of the installed link.
MonitorHung == netcfg.monitor # None /\ netcfg.monitor \notin frames

Poll ==
    /\ netcfg.at = "loop" /\ life = <<>> /\ ~wifi.closed
    /\ replies # <<>> \/ ~provider.alive \/ MonitorHung
    /\ LET report == replies # <<>> /\ Head(replies).kind = "Report"
           n == IF report THEN [netcfg EXCEPT !.seen = Head(replies).link] ELSE netcfg
       IN  /\ replies' = IF replies = <<>> THEN replies ELSE Tail(replies)
           /\ IF replies # <<>> /\ ~report THEN Fail("unsolicited") /\ UNCHANGED requests
              ELSE IF ~provider.alive THEN Fail("provider") /\ UNCHANGED requests
              ELSE IF MonitorHung /\ netcfg.link = None THEN Fail("panic") /\ UNCHANGED requests
              ELSE IF MonitorHung THEN SendDetach(n, netcfg.link, "Offline")
              ELSE netcfg' = n /\ UNCHANGED requests
    /\ UNCHANGED <<wifi, frames, life, provider>>

\* What the acknowledgement of an operation makes of netcfg.
Completed(op) ==
    CASE op.kind = "Watch"   -> [netcfg EXCEPT !.at = "loop"]
      [] op.kind = "Attach"  -> [netcfg EXCEPT !.at = "loop", !.link = op.link, !.lastLink = op.link,
                                               !.active = op.link, !.present = TRUE]
      [] op.kind = "Offline" -> [netcfg EXCEPT !.at = "loop", !.link = None, !.monitor = None]
      [] op.kind = "Revoke"  -> [netcfg EXCEPT !.at = "loop", !.link = None, !.monitor = None,
                                               !.active = None, !.present = FALSE]
      [] op.kind = "Close"   -> [netcfg EXCEPT !.at = "exited", !.link = None, !.monitor = None,
                                               !.active = None, !.present = FALSE]

\* ProviderInterfaces::completed reads one reply.
AwaitReply ==
    /\ netcfg.at = "completed" /\ replies # <<>>
    /\ replies' = Tail(replies)
    /\ LET r == Head(replies) IN
       CASE r.kind = "Report" -> netcfg' = [netcfg EXCEPT !.seen = r.link]
         [] r.kind = "Applied" /\ r.link = netcfg.op.link -> netcfg' = Completed(netcfg.op)
         [] r.kind = "Rejected" /\ r.link = netcfg.op.link -> Fail("rejected")
         [] OTHER -> Fail("mismatched")
    /\ UNCHANGED <<wifi, frames, life, requests, provider>>

\* Five seconds without it, the provider gone, or a signal to stop.
GiveUp ==
    /\ Faults
    /\ \/ netcfg.at = "completed" /\ replies = <<>> /\ Fail("timeout")
       \/ netcfg.at = "loop" /\ Fail("stop")
    /\ UNCHANGED <<wifi, frames, life, requests, replies, provider>>
-----------------------------------------------------------------------------
(* One turn of the provider's loop: a request unless an acknowledgement is *)
(* still unsent, the frame device, the acknowledgement, then the report.   *)
Valid(p, r) ==
    CASE r.kind = "Attach" -> r.link > p.last
      [] r.kind = "Detach" -> p.active = r.link
      [] OTHER             -> TRUE

Applied_KeepsDevice(p, r) ==
    CASE ~Valid(p, r) -> [p EXCEPT !.ack = <<Message("Rejected", r.link)>>]
      [] Valid(p, r) /\ r.kind = "Watch" ->
            [p EXCEPT !.watch = TRUE, !.reported = 0, !.ack = <<Message("Applied", r.link)>>]
      [] Valid(p, r) /\ r.kind = "Attach" ->
            [p EXCEPT !.device = r.link, !.active = r.link, !.last = r.link,
                      !.revision = @ + 1, !.ack = <<Message("Applied", r.link)>>]
      [] Valid(p, r) /\ r.kind = "Detach" ->
            [p EXCEPT !.active = None, !.ack = <<Message("Applied", r.link)>>]
Applied(p, r) ==
    CASE ~Valid(p, r) -> [p EXCEPT !.ack = <<Message("Rejected", r.link)>>]
      [] Valid(p, r) /\ r.kind = "Watch" ->
            [p EXCEPT !.watch = TRUE, !.reported = 0, !.ack = <<Message("Applied", r.link)>>]
      [] Valid(p, r) /\ r.kind = "Attach" ->
            [p EXCEPT !.device = r.link, !.active = r.link, !.last = r.link,
                      !.revision = @ + 1, !.ack = <<Message("Applied", r.link)>>]
      [] Valid(p, r) /\ r.kind = "Detach" ->
            [p EXCEPT !.device = None, !.active = None, !.revision = @ + 1,
                      !.ack = <<Message("Applied", r.link)>>]

\* The device reports that its peer is gone: the link generation stays.
FrameLost(p) ==
    IF p.device # None /\ p.device \notin frames
    THEN [p EXCEPT !.device = None, !.revision = @ + 1] ELSE p

\* try_send_ack and send_interface, into what room the channel has.
Acked(w) ==
    IF w.p.ack # <<>> /\ Len(w.out) < Room
    THEN [p |-> [w.p EXCEPT !.ack = <<>>], out |-> w.out \o w.p.ack] ELSE w

Report(w) == [p |-> [w.p EXCEPT !.reported = w.p.revision, !.blocked = FALSE],
              out |-> Append(w.out, Message("Report", w.p.revision))]
Reported(w) ==
    IF ~w.p.watch \/ w.p.ack # <<>> \/ w.p.reported = w.p.revision THEN w
    ELSE IF Len(w.out) < Room THEN Report(w)
    ELSE [w EXCEPT !.p.blocked = TRUE]

Turn(p0, taken) ==
    LET p1 == IF taken THEN Applied(p0, Head(requests)) ELSE p0
    IN  Reported(Acked([p |-> FrameLost(p1), out |-> replies]))

ProviderTurn ==
    /\ provider.alive
    /\ LET taken == provider.ack = <<>> /\ requests # <<>>
           w == Turn(provider, taken)
       IN  /\ provider' = w.p /\ replies' = w.out
           /\ requests' = IF taken THEN Tail(requests) ELSE requests
    /\ UNCHANGED <<wifi, frames, life, netcfg>>

\* Addresses come and go in the stack.
InterfacesChange ==
    /\ provider.alive /\ provider.changes < MaxChanges
    /\ provider' = [provider EXCEPT !.changes = @ + 1, !.revision = @ + 1]
    /\ UNCHANGED <<wifi, frames, life, netcfg, requests, replies>>

ProviderDies ==
    /\ Faults /\ provider.alive
    /\ provider' = [provider EXCEPT !.alive = FALSE, !.device = None, !.active = None]
    /\ UNCHANGED <<wifi, frames, life, netcfg, requests, replies>>

\* netcfg has exited, or every process waits for the Wi-Fi service.
Quiet ==
    /\ netcfg.at \in {"exited", "loop"} /\ UNCHANGED vars

Netcfg == Receive \/ Poll \/ AwaitReply
Next ==
    \/ Install \/ Revoke \/ FrameCloses \/ WifiEnds
    \/ Netcfg \/ GiveUp
    \/ ProviderTurn \/ InterfacesChange \/ ProviderDies \/ Quiet

Spec == Init /\ [][Next]_vars /\ WF_vars(Netcfg) /\ WF_vars(ProviderTurn)
-----------------------------------------------------------------------------
\* Every variable has its type; netcfg has at most one request outstanding.
TypeOK ==
    /\ wifi.installed \in 0..MaxLinks /\ frames \subseteq Links /\ Len(requests) <= 1
    /\ netcfg.at \in {"loop", "completed", "exited"} /\ Len(replies) <= Room
    /\ netcfg.link \in 0..MaxLinks /\ provider.device \in 0..MaxLinks

\* Whatever the order of records, closed frame channels and reports, netcfg
\* never meets a reply, a record or a closed channel it takes for an error of
\* a faithful peer (the Err returns of receive, completed and serve).
NoFalseError ==
    netcfg.why \in {"none", "timeout", "stop", "provider"}

\* While netcfg is in its loop and says a link is online, the provider's link
\* generation is that link, and no device of another link is installed (the
\* status line's link_online and the provider's active_link_generation).
LinkAgreement ==
    netcfg.at = "loop" /\ provider.alive =>
        /\ netcfg.link = provider.active
        /\ provider.device \in {None, netcfg.link}

\* What netcfg and the provider promise each other about the Wi-Fi link, in
\* every interleaving of records, closed channels and reports.
LinkSafe == TypeOK /\ NoFalseError /\ LinkAgreement

\* netcfg comes to know the latest interfaces, although reports are dropped
\* while the channel is full (reported_revision and report_blocked).
ReportsConverge ==
    <>[](netcfg.at = "exited" \/ netcfg.seen = provider.revision)

\* A link the Wi-Fi service revokes leaves the provider, whether its frame
\* channel closed before, after or never (Revoke and the monitor's hang-up).
RevokedLinksLeave ==
    \A link \in Links :
        (\E i \in DOMAIN life : life[i] = Message("Revoke", link)) ~> (provider.active # link)
=============================================================================
