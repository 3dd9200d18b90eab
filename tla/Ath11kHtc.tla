------------------------------ MODULE Ath11kHtc ------------------------------
(***************************************************************************)
(* The host-target communication layer of the ath11k driver: endpoints and *)
(* credits (Htc), framing over the copy engine (HtcTransport), routing to  *)
(* services (HtcRouter), the bring-up that connects them and the WMI       *)
(* sender that waits for credits (ath11k-ce/src/lib.rs, ath11k-core/src/   *)
(* real.rs).                                                               *)
(*                                                                         *)
(* Ath11kCopyEngine models what is below send_htc and receive_htc; here a  *)
(* frame is sent or refused, and received in order from its pipe or lost   *)
(* with an error.  The firmware is external: it answers the bring-up,      *)
(* consumes WMI frames and returns their credits in the trailer of any     *)
(* frame, of any endpoint.                                                 *)
(***************************************************************************)
EXTENDS Integers, Sequences, Functions

CONSTANTS
    EpCount,    \* HTC_ENDPOINT_COUNT
    Shadow,     \* supports_shadow_registers (the driver sets it)
    ReadyCredits,  \* credit_count of the firmware's ready message
    MaxSends,   \* bound: WMI commands and HTT messages
    MaxEvents,  \* bound: frames of the firmware after the bring-up
    MaxFaults   \* bound: failing calls, and frames the firmware gets wrong

VARIABLES
    stage,    \* Operation of the bring-up that runs next
    eps,      \* Htc.endpoints
    alloc,    \* service_allocations of WMI_CONTROL; 0: no target_credit_size
    up,       \* frames given to the firmware, per service
    down,     \* frames the firmware wrote, per pipe
    queues,   \* endpoint_queues
    call,     \* the call in progress and where it stands
    read,     \* the last payload taken by receive_payload, per service
    susp,     \* PdevSuspend: requests, last control payload queued before, answer
    sends,    \* WMI commands and HTT messages so far
    fw,       \* firmware: greeted, set up, credits held, acks owed, frames sent
    lost,     \* credits lost with a frame
    faults

vars == <<stage, eps, alloc, up, down, queues, call, read, susp, sends, fw, lost, faults>>

Services == {"CONTROL", "HTT", "WMI"}
Eps == 0 .. EpCount - 1
Reserved == [service |-> "RESERVED", credits |-> 0, flow |-> TRUE]

(* map_service_to_pipe, downlink; receive_htc polls the pipes in this order. *)
Pipe(s) == IF s = "HTT" THEN 1 ELSE 2

(* Htc::endpoint_for_service: the first that has the service. *)
Connected(s) == \E e \in Eps : eps[e].service = s
EndpointOf(s) ==
    CHOOSE e \in Eps : eps[e].service = s /\ \A f \in Eps : eps[f].service = s => e <= f

(* A call is receiving when "at" is a pipe to poll or 3, waiting. *)
Idle == [op |-> "none", at |-> 0, last |-> FALSE, due |-> FALSE, cost |-> 0, req |-> 0]
Receive(c) == [c EXCEPT !.at = 1, !.last = FALSE, !.due = FALSE]
Resume(c) == [c EXCEPT !.at = 0, !.last = FALSE, !.due = FALSE]

Init ==
    /\ stage = "HtcInit"
    /\ eps = [e \in Eps |-> Reserved] /\ alloc = 0
    /\ up = [s \in Services |-> <<>>] /\ down = [p \in 1 .. 2 |-> <<>>]
    /\ queues = [e \in Eps |-> <<>>]
    /\ call = Idle /\ read = [s \in Services |-> 0] /\ sends = 0
    /\ susp = [req |-> 0, since |-> 0, answer |-> 0]
    /\ fw = [greeted |-> FALSE, started |-> FALSE, held |-> 0, owed |-> {}, sent |-> 0, tag |-> 0]
    /\ lost = 0 /\ faults = 0

Fault == faults < MaxFaults /\ faults' = faults + 1
-----------------------------------------------------------------------------
(* Htc::install_endpoint: only into a reserved place; credit flow is on    *)
(* for WMI only.                                                           *)
CanInstall(e) == eps[e].service = "RESERVED"
Installed(s, e) ==
    [eps EXCEPT ![e] = [service |-> s, credits |-> IF s = "WMI" THEN alloc ELSE 0,
                        flow |-> s = "WMI"]]

(* Operation::HtcInit: endpoint 0 is the control service. *)
HtcInit ==
    /\ stage = "HtcInit"
    /\ eps' = Installed("CONTROL", 0) /\ stage' = "HtcWaitTarget"
    /\ UNCHANGED <<alloc, up, down, queues, call, read, susp, sends, fw, lost, faults>>

HtcWaitTarget ==
    /\ stage = "HtcWaitTarget" /\ call = Idle
    /\ call' = Receive([Idle EXCEPT !.op = "control"])
    /\ UNCHANGED <<stage, eps, alloc, up, down, queues, read, susp, sends, fw, lost, faults>>

(* Operation::DpHttConnect and WmiConnect: RealWifi's connect_service asks *)
(* on endpoint 0 and waits for the answer.                                 *)
Wanted == IF stage = "DpHttConnect" THEN "HTT" ELSE "WMI"
ControlFrame == [cost |-> 0, req |-> 0]

ConnectService ==
    /\ stage \in {"DpHttConnect", "WmiConnect"} /\ call = Idle
    /\ \/ /\ up' = [up EXCEPT !["CONTROL"] = Append(@, ControlFrame)]
          /\ call' = Receive([Idle EXCEPT !.op = "control"])
          /\ UNCHANGED <<stage, faults>>
       \/ Fault /\ stage' = "failed" /\ UNCHANGED <<up, call>>
    /\ UNCHANGED <<eps, alloc, down, queues, read, susp, sends, fw, lost>>

(* Operation::HtcStart: setup complete, then the router takes over. *)
HtcStart ==
    /\ stage = "HtcStart"
    /\ \/ /\ up' = [up EXCEPT !["CONTROL"] = Append(@, ControlFrame)]
          /\ stage' = "running" /\ UNCHANGED faults
       \/ Fault /\ stage' = "failed" /\ UNCHANGED up
    /\ UNCHANGED <<eps, alloc, down, queues, call, read, susp, sends, fw, lost>>
-----------------------------------------------------------------------------
(* receive_control and what is done with its message.  A frame without     *)
(* payload is an error here.                                               *)
WaitTargetOk(f) == f.what = "ready" /\ f.status
ConnectOk(f) == f.what = "response" /\ f.status /\ CanInstall(f.assigned)
ControlOk(f) ==
    /\ ~f.malformed /\ f.payload
    /\ IF stage = "HtcWaitTarget" THEN WaitTargetOk(f) ELSE ConnectOk(f)

HandleControl(f) ==
    /\ call' = Idle
    /\ CASE ~ControlOk(f) -> stage' = "failed" /\ UNCHANGED <<alloc, eps>>
         [] ControlOk(f) /\ stage = "HtcWaitTarget" ->
                /\ alloc' = (IF Shadow THEN 1 ELSE ReadyCredits)
                /\ stage' = "DpHttConnect" /\ UNCHANGED eps
         [] OTHER ->
                /\ eps' = Installed(Wanted, f.assigned)
                /\ stage' = (IF Wanted = "HTT" THEN "WmiConnect" ELSE "HtcStart")
                /\ UNCHANGED alloc
    /\ UNCHANGED <<queues, lost>>

(* Htc::receive and process_trailer: the credits a trailer reports are     *)
(* applied all or none.  HtcRouter queues the payload at the endpoint that *)
(* has the service of the frame's endpoint.                                *)
Credited(f) == [eps EXCEPT ![EndpointOf("WMI")].credits = @ + f.credits]

Route(f) ==
    IF f.payload
    THEN [queues EXCEPT ![EndpointOf(eps[f.endpoint].service)] =
             Append(@, [tag |-> f.tag, ack |-> f.ack, nack |-> f.nack, ep |-> f.endpoint])]
    ELSE queues

(* One turn of service_receive_bounded: a frame of any kind is progress.   *)
(* The sender and the suspend have a budget of one, a pump any budget.     *)
Malformed(f) == lost' = lost + f.credits /\ UNCHANGED <<eps, queues>>

ServiceReceive(f) ==
    /\ IF f.malformed
       THEN Malformed(f) /\ call' = Idle
       ELSE /\ eps' = Credited(f) /\ queues' = Route(f) /\ UNCHANGED lost
            /\ call' \in (IF call.op = "pump" THEN {Idle, Receive(call)} ELSE {Resume(call)})
    /\ UNCHANGED <<stage, alloc>>

(* receive_htc: the pipes in turn, a wait, and after the deadline once     *)
(* more.  An error, or a refill that fails, loses the frame.               *)
Gave == IF call.op = "control" THEN "failed" ELSE stage

PollFrame ==
    /\ call.at \in 1 .. 2 /\ down[call.at] # <<>>
    /\ down' = [down EXCEPT ![call.at] = Tail(@)]
    /\ LET f == Head(down[call.at]) IN
       \/ /\ IF call.op = "control" THEN HandleControl(f) ELSE ServiceReceive(f)
          /\ UNCHANGED faults
       \/ /\ Fault
          /\ lost' = lost + f.credits
          /\ call' = Idle /\ stage' = Gave
          /\ UNCHANGED <<eps, alloc, queues>>
    /\ UNCHANGED <<up, read, susp, sends, fw>>

PollEmpty ==
    /\ call.at \in 1 .. 2 /\ down[call.at] = <<>>
    /\ \/ /\ IF call.at = 2 /\ call.last
             THEN call' = Idle /\ stage' = Gave
             ELSE call' = [call EXCEPT !.at = @ + 1] /\ UNCHANGED stage
          /\ UNCHANGED faults
       \/ Fault /\ call' = Idle /\ stage' = Gave
    /\ UNCHANGED <<eps, alloc, up, down, queues, read, susp, sends, fw, lost>>

(* wait_for_ce: an interrupt, or the deadline.  "due": a frame was there   *)
(* when the deadline passed.                                               *)
Waiting == \E p \in 1 .. 2 : down[p] # <<>>
WaitExpired_Returns == call' = Idle /\ stage' = Gave
WaitExpired == call' = [call EXCEPT !.at = 1, !.last = TRUE, !.due = Waiting] /\ UNCHANGED stage

WaitForCe ==
    /\ call.at = 3
    /\ \/ Waiting /\ call' = [call EXCEPT !.at = 1] /\ UNCHANGED <<stage, faults>>
       \/ WaitExpired /\ UNCHANGED faults
       \/ Fault /\ call' = Idle /\ stage' = Gave
    /\ UNCHANGED <<eps, alloc, up, down, queues, read, susp, sends, fw, lost>>
-----------------------------------------------------------------------------
(* HtcTransport::send: Htc::send takes the credits, and a frame the copy   *)
(* engine refuses gives them back.                                         *)
Charge(s, n) == IF eps[EndpointOf(s)].flow THEN n ELSE 0
Charged(s, n) == [eps EXCEPT ![EndpointOf(s)].credits = @ - Charge(s, n)]

Refused_Charged(s, n) == eps' = Charged(s, n)
Refused(s, n) == UNCHANGED eps

Affordable(s, n) == eps[EndpointOf(s)].credits >= Charge(s, n)

Send(s, f, sent) ==
    \/ /\ eps' = Charged(s, f.cost) /\ up' = [up EXCEPT ![s] = Append(@, f)]
       /\ call' = sent /\ UNCHANGED faults
    \/ /\ Fault /\ Refused(s, f.cost)
       /\ call' = Idle /\ UNCHANGED up

HttSend ==
    /\ stage = "running" /\ call = Idle /\ sends < MaxSends
    /\ sends' = sends + 1
    /\ Affordable("HTT", 1) /\ Send("HTT", [cost |-> 1, req |-> 0], Idle)
    /\ UNCHANGED <<stage, alloc, down, queues, read, susp, fw, lost>>

(* wmi_send: a command through CreditAwareWmi. *)
WmiSend ==
    /\ stage = "running" /\ call = Idle /\ sends < MaxSends
    /\ sends' = sends + 1
    /\ \E n \in 1 .. 2 : call' = [Idle EXCEPT !.op = "wmi", !.cost = n]
    /\ UNCHANGED <<stage, eps, alloc, up, down, queues, read, susp, fw, lost, faults>>

(* CreditAwareWmi::send: without credits one frame is serviced, and the    *)
(* send tried again; no frame by the deadline ends it with NoCredits.  A   *)
(* full ring of the copy engine reports NoCredits too.                     *)
WmiTry ==
    /\ call.op = "wmi" /\ call.at = 0
    /\ \/ /\ Affordable("WMI", call.cost)
          /\ Send("WMI", [cost |-> call.cost, req |-> call.req],
                  IF call.req = 0 THEN Idle ELSE [Idle EXCEPT !.op = "await", !.req = call.req])
       \/ /\ IF Affordable("WMI", call.cost) THEN Fault ELSE UNCHANGED faults
          /\ Refused("WMI", call.cost)
          /\ call' = Receive(call) /\ UNCHANGED up
    /\ UNCHANGED <<stage, alloc, down, queues, read, susp, sends, fw, lost>>

(* Operation::PdevSuspend: old control payloads are dropped, the command   *)
(* is sent, and control payloads are read until one acknowledges it.  One  *)
(* that refuses it, or is too short to say, ends the operation.            *)
Drained == queues' = [queues EXCEPT ![0] = <<>>]

PdevSuspend ==
    /\ stage = "running" /\ call = Idle /\ sends < MaxSends
    /\ sends' = sends + 1
    /\ Drained
    /\ susp' = [req |-> susp.req + 1, answer |-> 0,
                since |-> IF queues[0] = <<>> THEN 0 ELSE queues[0][Len(queues[0])].tag]
    /\ call' = [Idle EXCEPT !.op = "wmi", !.cost = 1, !.req = susp.req + 1]
    /\ UNCHANGED <<stage, eps, alloc, up, down, read, fw, lost, faults>>

AwaitAck ==
    /\ call.op = "await" /\ call.at = 0
    /\ IF queues[0] = <<>>
       THEN call' = Receive(call) /\ UNCHANGED <<queues, read, susp>>
       ELSE LET m == Head(queues[0]) IN
            /\ queues' = [queues EXCEPT ![0] = Tail(@)]
            /\ read' = [read EXCEPT !["CONTROL"] = m.tag]
            /\ call' = (IF m.ack > 0 \/ m.nack THEN Idle ELSE call)
            /\ susp' = (IF m.ack > 0 THEN [susp EXCEPT !.answer = m.tag] ELSE susp)
    /\ UNCHANGED <<stage, eps, alloc, up, down, sends, fw, lost, faults>>

(* pump_bounded and pump_ready_bounded; BoundService::receive_payload. *)
Pump ==
    /\ stage = "running" /\ call = Idle
    /\ call' = Receive([Idle EXCEPT !.op = "pump"])
    /\ UNCHANGED <<stage, eps, alloc, up, down, queues, read, susp, sends, fw, lost, faults>>

ReceivePayload(s) ==
    /\ stage = "running" /\ call = Idle
    /\ queues[EndpointOf(s)] # <<>>
    /\ queues' = [queues EXCEPT ![EndpointOf(s)] = Tail(@)]
    /\ read' = [read EXCEPT ![s] = Head(queues[EndpointOf(s)]).tag]
    /\ UNCHANGED <<stage, eps, alloc, up, down, call, susp, sends, fw, lost, faults>>
-----------------------------------------------------------------------------
(* The firmware (external). *)
Frame(what, e) ==
    [what |-> what, endpoint |-> e, assigned |-> 0, status |-> TRUE, payload |-> TRUE,
     credits |-> 0, ack |-> 0, nack |-> FALSE, malformed |-> FALSE, tag |-> fw.tag + 1]

Writes(p, f) == down' = [down EXCEPT ![p] = Append(@, f)]

(* status: a ready message without credits, a refused service. *)
FwReady ==
    /\ ~fw.greeted
    /\ \E ok \in BOOLEAN :
          /\ IF ok THEN UNCHANGED faults ELSE Fault
          /\ Writes(2, [Frame("ready", 0) EXCEPT !.status = ok])
    /\ fw' = [fw EXCEPT !.greeted = TRUE, !.tag = @ + 1]
    /\ UNCHANGED <<stage, eps, alloc, up, queues, call, read, susp, sends, lost>>

FwConnect ==
    /\ stage # "running" /\ up["CONTROL"] # <<>>
    /\ \E e \in Eps, ok \in BOOLEAN :
          /\ IF ok /\ CanInstall(e) THEN UNCHANGED faults ELSE Fault
          /\ Writes(2, [Frame("response", 0) EXCEPT !.status = ok, !.assigned = e])
    /\ up' = [up EXCEPT !["CONTROL"] = Tail(@)]
    /\ fw' = [fw EXCEPT !.tag = @ + 1]
    /\ UNCHANGED <<stage, eps, alloc, queues, call, read, susp, sends, lost>>

FwStart ==
    /\ stage = "running" /\ up["CONTROL"] # <<>>
    /\ up' = [up EXCEPT !["CONTROL"] = Tail(@)]
    /\ fw' = [fw EXCEPT !.started = TRUE]
    /\ UNCHANGED <<stage, eps, alloc, down, queues, call, read, susp, sends, lost, faults>>

FwConsume(s) ==
    /\ fw.started /\ up[s] # <<>>
    /\ up' = [up EXCEPT ![s] = Tail(@)]
    /\ LET f == Head(up[s]) IN
       fw' = [fw EXCEPT !.held = @ + (IF s = "WMI" THEN f.cost ELSE 0),
                        !.owed = @ \cup ({f.req} \ {0})]
    /\ UNCHANGED <<stage, eps, alloc, down, queues, call, read, susp, sends, lost, faults>>

(* A frame of any service, with or without the credits held, with or       *)
(* without a payload; on endpoint 0 it may acknowledge or refuse a         *)
(* suspend.                                                                *)
FwEvent ==
    /\ fw.started /\ fw.sent < MaxEvents
    /\ \E s \in Services, payload \in BOOLEAN, c \in {0, fw.held}, bad \in BOOLEAN,
          a \in fw.owed \cup {0}, no \in BOOLEAN :
          /\ payload \/ c > 0
          /\ a > 0 => s = "CONTROL" /\ payload
          /\ no => a > 0
          /\ IF bad \/ no THEN Fault ELSE UNCHANGED faults
          /\ Writes(Pipe(s), [Frame("event", EndpointOf(s)) EXCEPT
                !.payload = payload, !.credits = c, !.malformed = bad,
                !.ack = IF no THEN 0 ELSE a, !.nack = no])
          /\ fw' = [fw EXCEPT !.held = @ - c, !.owed = @ \ {a}, !.sent = @ + 1, !.tag = @ + 1]
    /\ UNCHANGED <<stage, eps, alloc, up, queues, call, read, susp, sends, lost>>

Firmware ==
    \/ FwReady \/ FwConnect \/ FwStart \/ FwEvent
    \/ \E s \in {"HTT", "WMI"} : FwConsume(s)

Next ==
    \/ HtcInit \/ HtcWaitTarget \/ ConnectService \/ HtcStart
    \/ PollFrame \/ PollEmpty \/ WaitForCe
    \/ HttSend \/ WmiSend \/ WmiTry \/ PdevSuspend \/ AwaitAck \/ Pump
    \/ \E s \in Services : ReceivePayload(s)
    \/ Firmware

Spec == Init /\ [][Next]_vars
-----------------------------------------------------------------------------
HtcTypeOK ==
    /\ alloc \in {0, 1, ReadyCredits}
    /\ \A e \in Eps : eps[e].service \in Services \cup {"RESERVED"}
    /\ call.at \in 0 .. 3 /\ call.op \in {"none", "control", "wmi", "await", "pump"}

Reported(s) == FoldFunction(LAMBDA f, n : f.credits + n, 0, s)
Sent(s) == FoldFunction(LAMBDA f, n : f.cost + n, 0, s)

(* Credits are conserved: what the host may still spend, what is on its    *)
(* way, what the firmware holds and what its trailers report make up the   *)
(* allocation, except for credits lost with a frame.  A refused send       *)
(* (HtcTransport::send) leaves the host's part as it was, so it never      *)
(* overcommits the firmware and no failure takes credits from it.          *)
CreditsConserved ==
    Connected("WMI") =>
        /\ eps[EndpointOf("WMI")].credits >= 0
        /\ eps[EndpointOf("WMI")].credits + Sent(up["WMI"]) + fw.held
              + Reported(down[1]) + Reported(down[2]) + lost = alloc

(* A payload reaches the service whose endpoint sent it, whatever pipe it  *)
(* shares and whichever call received it, in the order of sending          *)
(* (HtcRouter::service_receive_bounded).                                   *)
RoutedInOrder ==
    \A s \in Services : Connected(s) =>
        LET q == queues[EndpointOf(s)] IN
        \A i \in 1 .. Len(q) :
            /\ q[i].ep = EndpointOf(s)
            /\ q[i].tag > (IF i = 1 THEN read[s] ELSE q[i - 1].tag)

(* The services of a running router have endpoints of their own, whatever  *)
(* endpoints the firmware assigned (Htc::install_endpoint).                *)
ServicesApart ==
    stage = "running" => /\ \A s \in Services : Connected(s)
                         /\ eps[0].service = "CONTROL"

(* A suspend is answered by an acknowledgement the router had not yet      *)
(* queued when it began (Operation::PdevSuspend).                          *)
SuspendAnswered == susp.answer # 0 => susp.answer > susp.since

HtcSafe ==
    HtcTypeOK /\ CreditsConserved /\ RoutedInOrder /\ ServicesApart /\ SuspendAnswered

(* receive_htc polls every pipe again after its deadline: it comes back    *)
(* empty only if no frame was there when the deadline passed.              *)
DueIsReturned ==
    [][call.at # 0 /\ call' = Idle /\ down' = down /\ faults' = faults
           => call.last /\ ~call.due]_vars
=============================================================================
