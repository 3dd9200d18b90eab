----------------------------- MODULE MCWifiLive -----------------------------
(***************************************************************************)
(* Liveness of the Wi-Fi client: the control service over the client       *)
(* runtime, the driver actor, the policy process's session with the        *)
(* service, and the policy service. One behaviour exercises one of them    *)
(* ("part").                                                               *)
(***************************************************************************)
EXTENDS Naturals, Sequences

VARIABLES
    part, epoch, live, upcall_epoch, contained, connect_attempt, connection,
    cleanup, scan_attempt, power_save, requests, transaction, sme,
    mlme_requests, mlme_events, upcalls, driver_events, mlme, command, pending,
    control, link, scanning, io, scans, calls, server, outbound, issued,
    answers, actor_live, actor_now, actor_queue, actor_closed, actor_control,
    actor_control_closed, actor_pending, actor_stop_pending,
    actor_reset_completed, actor_task, actor_result, actor_device,
    actor_outstanding, actor_link, actor_sent, actor_reply, actor_called,
    actor_barrier, caller, pc, queue, terminal, owner, out, inn, peer, streams,
    app, channel, closed, op, queued, cancelled, desired, machine, orphans,
    saved, down

serviceVars == <<server, outbound, issued, answers>>

Control == INSTANCE WifiControl WITH
    MaxEpoch <- 3, MaxScans <- 1, MaxUpcalls <- 1, Faulty <- FALSE,
    MaxCommands <- 2, Limit <- 3

Actor == INSTANCE DriverActor WITH
    Epochs <- {"e1", "e2"}, Children <- {}, ParentOf <- <<>>,
    NoEpoch <- "none", MaxTime <- 1, COMMAND_CAPACITY <- 2,
    CONTROL_CAPACITY <- 1, Kinds <- {"bare", "transmit"}, MaxRequests <- 2,
    live <- actor_live, now <- actor_now, queue <- actor_queue,
    closed <- actor_closed, control <- actor_control,
    control_closed <- actor_control_closed, pending <- actor_pending,
    stop_pending <- actor_stop_pending,
    reset_completed <- actor_reset_completed, task <- actor_task,
    result <- actor_result, device <- actor_device,
    outstanding <- actor_outstanding, link <- actor_link, sent <- actor_sent,
    reply <- actor_reply, called <- actor_called, barrier <- actor_barrier

Session == INSTANCE ControlSession WITH
    Used <- {"Scan", "PowerSave", "Roam"}, MaxCommands <- 2, MaxStreams <- 1,
    Limit <- 1, MaxEvents <- 0

Policy == INSTANCE PolicyService WITH
    Apps <- {"a1", "a2"}, Networks <- {"n1"},
    Used <- {"Connect", "Disconnect", "Forget", "Scan", "Status"},
    MaxClients <- 2, Limit <- 1, None <- "none"

wifiVars ==
    <<epoch, live, upcall_epoch, contained, connect_attempt, connection,
      cleanup, scan_attempt, power_save, requests, transaction, sme,
      mlme_requests, mlme_events, upcalls, driver_events, mlme, command,
      pending, control, link, scanning, io, scans, calls, server, outbound,
      issued, answers>>
actorVars ==
    <<actor_live, actor_now, actor_queue, actor_closed, actor_control,
      actor_control_closed, actor_pending, actor_stop_pending,
      actor_reset_completed, actor_task, actor_result, actor_device,
      actor_outstanding, actor_link, actor_sent, actor_reply, actor_called,
      actor_barrier>>
sessionVars == <<caller, pc, queue, terminal, owner, out, inn, peer, streams>>
policyVars ==
    <<app, channel, closed, op, queued, cancelled, desired, machine, orphans,
      saved, down>>
vars == <<part, wifiVars, actorVars, sessionVars, policyVars>>

(* The parts that are not the one under study rest in their initial state. *)
Init ==
    /\ part \in {"control", "actor", "session", "policy"}
    /\ Control!ControlInit
    /\ Actor!Init
    /\ Session!Init
    /\ Policy!Init
    /\ part \notin {"policy"} => saved = {}

Next ==
    /\ UNCHANGED part
    /\ \/ /\ part = "control" /\ Control!ControlNext
          /\ UNCHANGED <<actorVars, sessionVars, policyVars>>
       \/ /\ part = "actor" /\ Actor!Next
          /\ UNCHANGED <<wifiVars, sessionVars, policyVars>>
       \/ /\ part = "session" /\ Session!Next
          /\ UNCHANGED <<wifiVars, actorVars, policyVars>>
       \/ /\ part = "policy" /\ Policy!Next
          /\ UNCHANGED <<wifiVars, actorVars, sessionVars>>

(* FairControlSpec of WifiControl and FairSpec of DriverActor,             *)
(* ControlSession and PolicyService, each for its part.                    *)
Fairness ==
    /\ WF_wifiVars(part = "control" /\ Control!Turn(Control!Sme))
    /\ WF_wifiVars(part = "control" /\ Control!Turn(Control!SmeTimeout))
    /\ WF_wifiVars(part = "control" /\ Control!Turn(Control!Mlme))
    /\ WF_wifiVars(part = "control" /\ Control!Turn(Control!MlmeTimeout))
    /\ WF_wifiVars(part = "control" /\ Control!Turn(Control!Bridge))
    /\ WF_wifiVars(part = "control" /\ Control!Turn(Control!Actor))
    /\ WF_wifiVars(part = "control" /\ Control!Turn(Control!DeviceComplete))
    /\ WF_wifiVars(
          part = "control" /\ Control!Turn(Control!DeviceScanComplete))
    /\ WF_wifiVars(part = "control" /\ Control!QueueConnectionEvents)
    /\ WF_wifiVars(part = "control" /\ Control!DrivePower)
    /\ WF_wifiVars(part = "control" /\ Control!DriveCleanup)
    /\ WF_wifiVars(part = "control" /\ Control!CompleteCleanup)
    /\ WF_wifiVars(part = "control" /\ Control!NothingToClean)
    /\ WF_wifiVars(part = "control" /\ Control!DriveConnectRequest)
    /\ WF_wifiVars(part = "control" /\ Control!DriveScanRequest)
    /\ WF_wifiVars(part = "control" /\ Control!Flush)
    /\ WF_actorVars(part = "actor" /\ Actor!Turn)
    /\ WF_actorVars(part = "actor" /\ Actor!Tick)
    /\ WF_actorVars(
          part = "actor" /\ \E id \in 1..2 : Actor!DeviceComplete(id))
    /\ WF_sessionVars(part = "session" /\ Session!QueueCommand)
    /\ WF_sessionVars(part = "session" /\ Session!HandleReceived)
    /\ WF_sessionVars(part = "session" /\ Session!DrainDeadline)
    /\ WF_sessionVars(part = "session" /\ Session!Forced)
    /\ WF_sessionVars(part = "session" /\ Session!SetTerminal)
    /\ WF_sessionVars(part = "session" /\ Session!Finish)
    /\ WF_sessionVars(part = "session" /\ Session!DropOwner)
    /\ WF_policyVars(part = "policy" /\ Policy!Operate)
    /\ WF_policyVars(part = "policy" /\ Policy!TakeMeanwhile)
    /\ WF_policyVars(part = "policy" /\ Policy!ServeEnds)
    /\ WF_policyVars(part = "policy" /\ Policy!ChannelEnded)
    /\ WF_policyVars(part = "policy" /\ Policy!MachineAcknowledges)
    /\ WF_policyVars(
          part = "policy" /\ machine.state = "connecting" /\ Policy!MachineMoves)
    /\ SF_policyVars(part = "policy" /\ Policy!WaitForConnection)
    /\ WF_policyVars(part = "policy" /\ Policy!TakeReply("a1"))
    /\ WF_policyVars(part = "policy" /\ Policy!TakeReply("a2"))

Spec == Init /\ [][Next]_vars /\ Fairness
-----------------------------------------------------------------------------
(* Every connect and every disconnect given to the control service is      *)
(* answered, although its commands wait for one another and for the        *)
(* cleanup of an earlier attempt.                                          *)
WifiAnswers ==
    /\ Control!DisconnectAnswered
    /\ Control!ConnectAnswered

(* Every request to the driver actor ends (its deadline bounds the wait),  *)
(* every command of the policy process resolves, also when the service     *)
(* ends first, and every command of an application is answered.            *)
CommandsEnd ==
    /\ Actor!EveryRequestEnds
    /\ Session!CommandsResolve
    /\ Policy!CommandsAnswered
=============================================================================
