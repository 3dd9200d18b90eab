------------------------------- MODULE MCWifi -------------------------------
(***************************************************************************)
(* Model of the Wi-Fi client above the driver: the client runtime called   *)
(* in any order, the control service that owns it, the policy process's    *)
(* session with that service, and the policy service. One behaviour        *)
(* exercises one of them ("part").                                         *)
(***************************************************************************)
EXTENDS PolicyService

VARIABLES
    part, epoch, live, upcall_epoch, contained, connect_attempt, connection,
    cleanup, scan_attempt, power_save, requests, transaction, sme,
    mlme_requests, mlme_events, upcalls, driver_events, mlme, command, pending,
    control, link, scanning, io, scans, calls, server, outbound, issued,
    answers, caller, pc, queue, terminal, owner, out, inn, peer, streams

(* Three applications, two connected at a time, on one network; with two   *)
(* networks (part "networks") the third application stays away.            *)
OneNetwork == INSTANCE PolicyService WITH Networks <- {"n1"}

serviceVars == <<server, outbound, issued, answers>>

(* The service: three commands, an outbound queue of two packets and one   *)
(* reserved.                                                               *)
Control == INSTANCE WifiControl WITH
    MaxEpoch <- 3, MaxScans <- 1, MaxUpcalls <- 1, Faulty <- TRUE,
    MaxCommands <- 3, Limit <- 2

(* The runtime by itself, its methods called in any order. *)
Runtime == INSTANCE ClientRuntime WITH
    MaxEpoch <- 3, MaxScans <- 2, MaxUpcalls <- 2, Faulty <- TRUE

(* A connect after a connect was cleaned up. *)
Again == INSTANCE ClientRuntime WITH
    MaxEpoch <- 4, MaxScans <- 0, MaxUpcalls <- 1, Faulty <- FALSE

Session == INSTANCE ControlSession WITH
    Used <- {"Connect", "Disconnect"}, MaxCommands <- 3, MaxStreams <- 2,
    Limit <- 2, MaxEvents <- 1

wifiVars ==
    <<epoch, live, upcall_epoch, contained, connect_attempt, connection,
      cleanup, scan_attempt, power_save, requests, transaction, sme,
      mlme_requests, mlme_events, upcalls, driver_events, mlme, command,
      pending, control, link, scanning, io, scans, calls, server, outbound,
      issued, answers>>
sessionVars == <<caller, pc, queue, terminal, owner, out, inn, peer, streams>>
every == <<part, vars, wifiVars, sessionVars>>

(* The parts that are not the one under study rest in their initial state. *)
ModelInit ==
    /\ part \in {"policy", "networks", "control", "runtime", "again",
                  "session"}
    /\ Init
    /\ part # "networks" => saved \subseteq (IF part = "policy" THEN {"n1"} ELSE {})
    /\ Control!ControlInit
    /\ Session!Init

ModelNext ==
    /\ UNCHANGED part
    /\ \/ /\ part = "policy" /\ OneNetwork!Next
          /\ UNCHANGED <<wifiVars, sessionVars>>
       \/ /\ part = "networks" /\ Next /\ app'["a3"] = app["a3"]
          /\ UNCHANGED <<wifiVars, sessionVars>>
       \/ /\ \/ part = "control" /\ Control!ControlNext
             \/ part = "runtime" /\ Runtime!Next /\ UNCHANGED serviceVars
             \/ part = "again" /\ Again!Next /\ UNCHANGED serviceVars
          /\ UNCHANGED <<vars, sessionVars>>
       \/ part = "session" /\ Session!Next /\ UNCHANGED <<vars, wifiVars>>

ModelSpec == ModelInit /\ [][ModelNext]_every
-----------------------------------------------------------------------------
(* ClientRuntime: a connection reported over left nothing up, a connect    *)
(* starts on an idle SME, an open port has a host endpoint, the bounded    *)
(* channels between SME, MLME and actor suffice, a successful connect has  *)
(* its link up, and no transaction outlives its owner (WifiClientRuntime,  *)
(* with and without the service above it).                                 *)
RuntimeSafe ==
    /\ part \in {"runtime"} => Runtime!TypeOK
    /\ part = "again" => Again!SuccessMeansLinkUp
    /\ part \in {"control", "runtime", "again"} =>
          /\ Runtime!DisconnectedMeansDown
          /\ Runtime!ConnectFindsSmeIdle
          /\ Runtime!PortHasHost
          /\ Runtime!ChannelsSuffice
          /\ Runtime!NoOrphanedTransaction

(* WifiControl: every command gets one reply, the pending requests are     *)
(* those of the runtime's attempts, and the packet that ends a generation  *)
(* always has a reserved place (ControlService).                           *)
ControlSafe ==
    /\ part = "control" =>
          /\ Control!OneReplyEach
          /\ Control!RequestsMatchAttempts
          /\ Control!RoomForGenerationEnd

(* ControlSession: the policy process never accuses a faithful service of  *)
(* a protocol error, a pending connect owns its transaction stream, and a  *)
(* session that ended left no caller waiting.                              *)
SessionSafe ==
    /\ part = "session" =>
          /\ Session!TypeOK
          /\ Session!NoFalseAccusation
          /\ Session!PendingConnectOwnsTransaction
          /\ Session!NobodyLeftWaiting

(* A cleanup completes only over a quiet device                            *)
(* (finish_failed_connect_attempt).                                        *)
CleanupSound == /\ Runtime!CleanupQuiesces
=============================================================================
