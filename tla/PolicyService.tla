---------------------------- MODULE PolicyService ----------------------------
(***************************************************************************)
(* The long-lived wlancfg policy (wlancfg-service/src/policy.rs) and the   *)
(* thread that serves its applications (application.rs).  One operation is *)
(* alive at a time; while it waits, further commands are answered, queued  *)
(* or cancel it.  Every await of an operation is a step of its own.  The   *)
(* connection state machine behind it is external: it connects, loses the  *)
(* connection, acknowledges a disconnect and exits.                        *)
(***************************************************************************)
EXTENDS Naturals, Sequences, FiniteSets

CONSTANTS
    Apps,        \* application connections, each with one request
    Networks,    \* networks an application may name
    Used,        \* the kinds of request the applications make
    MaxClients,  \* MAX_APPLICATION_CLIENTS
    Limit,       \* capacity of the command channel
    None         \* no application, no network

ASSUME PolicyAssumption ==
    /\ MaxClients \in Nat /\ Limit \in Nat
    /\ None \notin Apps /\ None \notin Networks

VARIABLES
    app,        \* per application: state, request, the policy's answer, outcome
    channel,    \* ApplicationCommands sent to the policy
    closed,     \* the application owner returned and dropped its sender
    op,         \* the operation alive: application, request, await point
    queued,     \* the command kept for after the operation
    cancelled,  \* a disconnect (or the end of the channel) cancels the operation
    desired,    \* PolicyState::desired
    machine,    \* PolicyState::machine
    orphans,    \* machines replaced while still alive
    saved,      \* networks in the store
    down        \* a disconnect was answered Ok and no connect began since

vars == <<app, channel, closed, op, queued, cancelled, desired, machine, orphans,
          saved, down>>

policy == <<op, queued, cancelled, desired, machine, orphans, saved, down>>

Requests ==
    [what : Used \cap {"Connect", "Forget"}, network : Networks]
    \cup [what : Used \cap {"Scan", "Status", "Disconnect", "PowerSave", "Saved"},
          network : {None}]

Idle == [app |-> None, what |-> "idle", network |-> None, step |-> "idle", then |-> "done"]

Op(a, request, step) ==
    [app |-> a, what |-> request.what, network |-> request.network, step |-> step,
     then |-> "done"]

(* serve: what was saved is loaded, then the startup selection runs. *)
Init ==
    /\ app = [a \in Apps |-> [state |-> "none", request |-> [what |-> "Status", network |-> None],
                              answer |-> "none", outcome |-> "none"]]
    /\ channel = <<>> /\ closed = FALSE
    /\ op = Op(None, [what |-> "Startup", network |-> None], "select")
    /\ queued = None /\ cancelled = FALSE /\ desired = None
    /\ machine = [state |-> "exited", network |-> None, ack |-> "none"]
    /\ orphans = 0 /\ saved \in SUBSET Networks /\ down = FALSE
-----------------------------------------------------------------------------
(* serve_applications: an ApplicationClient receives, waits and sends. *)
Clients == {a \in Apps : app[a].state \in {"receiving", "waiting", "sending"}}

Accept(a) ==
    /\ ~closed /\ app[a].state = "none" /\ Cardinality(Clients) < MaxClients
    /\ \E r \in Requests : app' = [app EXCEPT ![a].state = "receiving", ![a].request = r]
    /\ UNCHANGED <<channel, closed, policy>>

(* reply: a reply that cannot be encoded drops the client. *)
Replying(a, reply) ==
    IF reply = "Scan with hidden"
    THEN [app EXCEPT ![a].state = "gone", ![a].outcome = "dropped"]
    ELSE [app EXCEPT ![a].state = "sending", ![a].answer = reply]

Receive(a) ==
    /\ app[a].state = "receiving"
    /\ \/ app' = Replying(a, "Error") /\ UNCHANGED channel   \* invalid request
       \/ /\ Len(channel) = Limit \/ op.step = "ended"       \* queue unavailable
          /\ app' = Replying(a, "Error") /\ UNCHANGED channel
       \/ /\ Len(channel) < Limit /\ op.step # "ended"
          /\ app' = [app EXCEPT ![a].state = "waiting"] /\ channel' = Append(channel, a)
    /\ UNCHANGED <<closed, policy>>

TakeReply(a) ==
    /\ app[a].state = "waiting"
    /\ \/ app[a].answer # "none" /\ app' = Replying(a, app[a].answer)
       \/ app[a].answer = "none" /\ op.step = "ended" /\ app' = Replying(a, "Error")
    /\ UNCHANGED <<channel, closed, policy>>

Leaves(a, why) == app' = [app EXCEPT ![a].state = "gone", ![a].outcome = why]

Send(a) ==
    /\ app[a].state = "sending" /\ Leaves(a, "replied")
    /\ UNCHANGED <<channel, closed, policy>>

(* Nothing to read, or no room to write, for two seconds. *)
TimeOut(a) ==
    /\ app[a].state \in {"receiving", "sending"} /\ Leaves(a, "left")
    /\ UNCHANGED <<channel, closed, policy>>

(* accept4 failed: the owner returns with its clients and its sender. *)
OwnerReturns ==
    /\ ~closed /\ closed' = TRUE
    /\ app' = [a \in Apps |-> IF a \in Clients
                              THEN [app[a] EXCEPT !.state = "gone", !.outcome = "left"]
                              ELSE app[a]]
    /\ UNCHANGED <<channel, policy>>
-----------------------------------------------------------------------------
(* Answers.  A responder is used once; that of the startup does not exist. *)
Answer(a, reply) ==
    IF a = None THEN app
    ELSE [app EXCEPT ![a].answer = IF @ = "none" THEN reply ELSE "twice"]

Alive == machine.state # "exited"

Finish(reply) ==
    /\ app' = Answer(op.app, reply) /\ op' = Idle
    /\ down' = (down \/ (op.what = "Disconnect" /\ reply = "Ok"))

(* What follows an acknowledged, or unnecessary, disconnect_machine. *)
Proceed(own, then) ==
    CASE then = "select" /\ ~cancelled ->
             op' = [own EXCEPT !.step = "select"] /\ UNCHANGED <<app, down>>
      [] then = "remove" ->
             op' = [own EXCEPT !.step = "remove"] /\ UNCHANGED <<app, down>>
      [] OTHER ->
             LET reply == IF then = "done" THEN "Ok" ELSE "Error"
             IN  /\ app' = Answer(own.app, reply) /\ op' = Idle
                 /\ down' = (down \/ (own.what = "Disconnect" /\ reply = "Ok"))

DisconnectMachine_Unawaited(own, then) ==
    /\ machine' = IF Alive THEN [machine EXCEPT !.state = "disconnecting"] ELSE machine
    /\ Proceed(own, then)

(* disconnect_machine *)
DisconnectMachine(own, then) ==
    IF Alive
    THEN /\ machine' = [machine EXCEPT !.state = "disconnecting", !.ack = "none"]
         /\ op' = [own EXCEPT !.step = "disconnect", !.then = then]
         /\ UNCHANGED <<app, down>>
    ELSE Proceed(own, then) /\ UNCHANGED machine

Disconnected ==
    /\ op.step = "disconnect" /\ ~Alive
    /\ IF machine.ack = "ok" THEN Proceed(op, op.then) ELSE Finish("Error")
    /\ UNCHANGED <<channel, closed, queued, cancelled, desired, machine, orphans, saved>>

(* start_machine: the task of the old one is not stopped. *)
StartMachine(network) ==
    /\ machine' = [state |-> "connecting", network |-> network, ack |-> "none"]
    /\ orphans' = orphans + (IF Alive THEN 1 ELSE 0)

IsCurrent(network) == desired = network \/ machine.network = network

(* handle, up to its first await. *)
Handle(a) ==
    LET request == app[a].request
        own(step) == Op(a, request, step)
    IN  \/ op' = Idle /\ app' = Answer(a, "Error")               \* deadline exceeded
           /\ UNCHANGED <<desired, machine, saved, down>>
        \/ request.what \in {"Scan", "PowerSave"}
           /\ op' = own("transport") /\ UNCHANGED <<app, desired, machine, saved, down>>
        \/ request.what = "Connect" /\ op' = own("store") /\ desired' = request.network
           /\ down' = FALSE /\ UNCHANGED <<app, machine, saved>>
        \/ request.what \in {"Status", "Saved"}
           /\ op' = Idle /\ app' = Answer(a, "Ok") /\ UNCHANGED <<desired, machine, saved, down>>
        \/ request.what = "Disconnect" /\ desired' = None
           /\ DisconnectMachine(own("start"), "done") /\ UNCHANGED saved
        \/ /\ request.what = "Forget" /\ UNCHANGED saved
           /\ IF IsCurrent(request.network)
              THEN desired' = None /\ DisconnectMachine(own("start"), "remove")
              ELSE op' = own("remove") /\ UNCHANGED <<app, desired, machine, down>>

(* The loop of serve: the queued command, or else the next. *)
TakeCommand ==
    /\ op.step = "idle"
    /\ \/ /\ queued # None /\ queued' = None /\ Handle(queued) /\ UNCHANGED channel
       \/ /\ queued = None /\ channel # <<>> /\ channel' = Tail(channel)
          /\ Handle(Head(channel)) /\ UNCHANGED queued
    /\ cancelled' = FALSE
    /\ UNCHANGED <<closed, orphans>>

ServeEnds ==
    /\ op.step = "idle" /\ queued = None /\ channel = <<>> /\ closed
    /\ op' = [Idle EXCEPT !.step = "ended"] /\ machine' = [machine EXCEPT !.state = "exited"]
    /\ UNCHANGED <<app, channel, closed, queued, cancelled, desired, orphans, saved, down>>

Busy == op.step \notin {"idle", "ended"}

(* drive_operation: a command that arrives while an operation is alive. *)
Supersede(a) == app' = Answer(queued, "Error")

TakeMeanwhile ==
    /\ Busy /\ channel # <<>> /\ channel' = Tail(channel)
    /\ LET a == Head(channel)
       IN  CASE app[a].request.what = "Status" ->
                    app' = Answer(a, "Ok") /\ UNCHANGED <<queued, cancelled, desired>>
             [] app[a].request.what = "Disconnect" ->
                    /\ cancelled' = TRUE /\ desired' = None /\ queued' = a
                    /\ IF queued # None THEN Supersede(a) ELSE UNCHANGED app
             [] OTHER ->
                    /\ IF queued = None THEN queued' = a /\ UNCHANGED app
                       ELSE app' = Answer(a, "Error") /\ UNCHANGED queued
                    /\ UNCHANGED <<cancelled, desired>>
    /\ UNCHANGED <<closed, op, machine, orphans, saved, down>>

ChannelEnded ==
    /\ Busy /\ channel = <<>> /\ closed /\ ~cancelled /\ cancelled' = TRUE
    /\ UNCHANGED <<app, channel, closed, op, queued, desired, machine, orphans, saved, down>>
-----------------------------------------------------------------------------
(* The awaits of an operation. *)
Stored ==
    /\ op.step = "store"
    /\ \/ /\ UNCHANGED <<saved, machine>> /\ Finish("Error")
       \/ /\ saved' = saved \cup {op.network}
          /\ IF cancelled THEN Finish("Error") /\ UNCHANGED machine
             ELSE DisconnectMachine(op, "select")
    /\ UNCHANGED <<channel, closed, queued, cancelled, desired, orphans>>

Target == IF op.what = "Startup" THEN saved ELSE {op.network} \cap saved

(* The candidate is not visible, or is there and the intent still holds.   *)
Selected ==
    /\ op.step = "select"
    /\ \/ UNCHANGED <<machine, orphans, desired>>
          /\ Finish(IF op.what = "Startup" THEN "Ok" ELSE "Error")
       \/ \E n \in Target :
            /\ ~cancelled /\ StartMachine(n)
            /\ IF op.what = "Startup" THEN desired' = n /\ Finish("Ok")
               ELSE op' = [op EXCEPT !.step = "wait"] /\ UNCHANGED <<app, down, desired>>
    /\ UNCHANGED <<channel, closed, queued, cancelled, saved>>

WaitForConnection_StatusFirst ==
    /\ op.step = "wait"
    /\ \/ machine.state = "connected" /\ Finish("Ok") /\ UNCHANGED machine
       \/ machine.state # "connected" /\ cancelled /\ DisconnectMachine(op, "cancelled")
       \/ ~cancelled /\ ~Alive /\ Finish("Error") /\ UNCHANGED machine
    /\ UNCHANGED <<channel, closed, queued, cancelled, desired, orphans, saved>>

(* wait_for_connection, one turn of its loop. *)
WaitForConnection ==
    /\ op.step = "wait"
    /\ \/ cancelled /\ DisconnectMachine(op, "cancelled")
       \/ ~cancelled /\ machine.state = "connected" /\ Finish("Ok") /\ UNCHANGED machine
       \/ ~cancelled /\ ~Alive /\ Finish("Error") /\ UNCHANGED machine
    /\ UNCHANGED <<channel, closed, queued, cancelled, desired, orphans, saved>>

(* saved.remove may fail before or after the network is gone. *)
Removed ==
    /\ op.step = "remove" /\ saved' \in {saved, saved \ {op.network}}
    /\ \/ Finish("Error")
       \/ op.network \in saved \ saved' /\ Finish("Ok")
    /\ UNCHANGED <<channel, closed, queued, cancelled, desired, machine, orphans>>

(* A scan or a power-save change; a hidden network has an empty SSID. *)
TransportReplies ==
    /\ op.step = "transport"
    /\ \E r \in {"Ok", "Error"} \cup (IF op.what = "Scan" THEN {"Scan with hidden"} ELSE {}) :
         Finish(r)
    /\ UNCHANGED <<channel, closed, queued, cancelled, desired, machine, orphans, saved>>
-----------------------------------------------------------------------------
(* The state machine. *)
MachineMoves ==
    /\ \/ machine.state = "connecting" /\ machine' = [machine EXCEPT !.state = "connected"]
       \/ machine.state = "connected" /\ machine' = [machine EXCEPT !.state = "connecting"]
       \/ Alive /\ machine' = [machine EXCEPT !.state = "exited", !.ack = "failed"]
    /\ UNCHANGED <<app, channel, closed, op, queued, cancelled, desired, orphans, saved, down>>

MachineAcknowledges ==
    /\ machine.state = "disconnecting"
    /\ machine' = [machine EXCEPT !.state = "exited", !.ack = "ok"]
    /\ UNCHANGED <<app, channel, closed, op, queued, cancelled, desired, orphans, saved, down>>

Operate ==
    \/ TakeCommand \/ Disconnected \/ Stored \/ Selected \/ WaitForConnection
    \/ Removed \/ TransportReplies

Next ==
    \/ \E a \in Apps : Accept(a) \/ Receive(a) \/ TakeReply(a) \/ Send(a) \/ TimeOut(a)
    \/ OwnerReturns \/ ServeEnds \/ TakeMeanwhile \/ ChannelEnded \/ Operate
    \/ MachineMoves \/ MachineAcknowledges

Spec == Init /\ [][Next]_vars

(* The executor polls its one task and the owner its clients; the store,   *)
(* the selection and the transport answer; the machine answers a           *)
(* disconnect and bounds an attempt, and a connection lasts long enough    *)
(* for one of the looks of wait_for_connection, 20 ms apart, to see it.    *)
FairSpec ==
    /\ Spec /\ WF_vars(Operate) /\ WF_vars(TakeMeanwhile) /\ WF_vars(ServeEnds)
    /\ WF_vars(ChannelEnded) /\ WF_vars(MachineAcknowledges)
    /\ WF_vars(machine.state = "connecting" /\ MachineMoves) /\ SF_vars(WaitForConnection)
    /\ \A a \in Apps : WF_vars(TakeReply(a))
-----------------------------------------------------------------------------
(* Types of the service; no responder is used twice. *)
TypeOK ==
    /\ \A a \in Apps : /\ app[a].state \in {"none", "receiving", "waiting", "sending", "gone"}
                       /\ app[a].answer \in {"none", "Ok", "Error", "Scan with hidden"}
    /\ Len(channel) <= Limit /\ Cardinality(Clients) <= MaxClients
    /\ queued \in Apps \cup {None} /\ desired \in Networks \cup {None}
    /\ cancelled \in BOOLEAN /\ saved \subseteq Networks

(* One state machine at a time uses the transport: none is replaced while  *)
(* it is alive, whatever was canceled or failed before.                    *)
SingleMachine == orphans = 0

(* A disconnect answered Ok holds: nothing begun before it connects after. *)
DisconnectHolds == down => ~Alive

(* The policy is never on a network it does not have saved: Forget brings  *)
(* it down first even when another network is desired.                     *)
MachineNetworkSaved == Alive => machine.network \in saved

(* One connection machine at a time, on a saved network, and none once a   *)
(* disconnect was answered Ok.                                             *)
PolicySafe == TypeOK /\ SingleMachine /\ DisconnectHolds /\ MachineNetworkSaved

(* The policy is where a request that succeeded wanted it. *)
Accomplished(request) ==
    /\ request.what = "Connect" =>
          /\ machine.state = "connected" /\ machine.network = request.network
          /\ desired = request.network /\ request.network \in saved
    /\ request.what = "Disconnect" => ~Alive /\ desired = None
    /\ request.what = "Forget" =>
          /\ request.network \notin saved /\ desired # request.network
          /\ Alive => machine.network # request.network

OkIsTrue ==
    \A a \in Apps :
        app[a].answer = "none" /\ app'[a].answer = "Ok" => Accomplished(app[a].request)'

(* An application is answered Ok only when what it asked for is so,        *)
(* although other commands were taken at every await of its operation: a   *)
(* connect is up on its own network, saved and still wanted (a disconnect  *)
(* taken meanwhile makes it an error), a disconnect left no machine and no *)
(* intent, and a forgotten network is in no store, no machine and no       *)
(* intent (handle, wait_for_connection, drive_operation).                  *)
AnswersAreTrue == [][OkIsTrue]_vars

(* Every command the policy was sent is answered, or its application has   *)
(* left: superseded and queued ones too.                                   *)
CommandsAnswered ==
    \A a \in Apps : app[a].state = "waiting" ~> app[a].state # "waiting"

=============================================================================
