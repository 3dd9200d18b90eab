----------------------------- MODULE WifiControl -----------------------------
(***************************************************************************)
(* The Wi-Fi control service (wifi-control-service/src/lib.rs): a server   *)
(* that owns the client runtime, takes one command packet of the policy    *)
(* process at a time, drives what is pending and queues the replies.       *)
(*                                                                         *)
(* Every step of the runtime that the server calls is the ClientRuntime    *)
(* action of that call, conjoined with what the server does with its       *)
(* result; the runtime's tasks run in between.  A command is the number of *)
(* its packet.  "answers" counts the replies queued for each of them.      *)
(***************************************************************************)
EXTENDS ClientRuntime, FiniteSets

CONSTANTS
    MaxCommands,    \* bound of the model: command packets ever received
    Limit           \* NORMAL_PACKET_LIMIT

VARIABLES
    server,         \* the *_request fields, and how the generation ended
    outbound,       \* number of packets in ControlServer.outbound
    issued,         \* number of commands received
    answers         \* replies queued, per command

runtime == vars
service == <<server, outbound, issued, answers>>
allVars == <<runtime, service>>

Commands == 1 .. MaxCommands

Serving == server.ended = "no"

ControlInit ==
    /\ Init
    /\ server = [connect |-> 0, scan |-> 0, power |-> 0, taken |-> 0,
                 waiting |-> <<>>, calling |-> "none", caller |-> 0,
                 ended |-> "no"]
    /\ outbound = 1            \* Message::Ready
    /\ issued = 0 /\ answers = [c \in Commands |-> 0]
-----------------------------------------------------------------------------
(* end_generation: its packet has a slot of its own. *)
EndGeneration(srv, reason) ==
    /\ server' = [srv EXCEPT !.ended = reason]
    /\ outbound' = outbound + 1

(* Count replies to the commands in the sequence "ids". *)
Answered(ids) ==
    [c \in Commands |->
        answers[c] + Cardinality({i \in 1 .. Len(ids) : ids[i] = c})]

(* queue, once per packet; an event answers command 0, which is none.  The *)
(* first packet without room ends the generation.                          *)
Queue(srv, ids) ==
    IF outbound + Len(ids) <= Limit
    THEN /\ server' = srv /\ outbound' = outbound + Len(ids)
         /\ answers' = Answered(ids)
    ELSE /\ server' = [srv EXCEPT !.ended = "Backpressure"]
         /\ outbound' = Limit + 1
         /\ answers' = Answered(SubSeq(ids, 1, Limit - outbound))

(* A call of the server that leaves its own state alone. *)
Quietly(call) == call /\ UNCHANGED service

(* contain_error in a call, reported as the end of the generation. *)
Faulted(call, reason) ==
    call /\ EndGeneration(server, reason) /\ UNCHANGED <<issued, answers>>
-----------------------------------------------------------------------------
(* dispatch: one command packet. *)
Receives ==
    /\ contained = "no" /\ Serving /\ server.calling = "none"
    /\ issued < MaxCommands
    /\ issued' = issued + 1

Refuse(reason) ==
    EndGeneration(server, reason) /\ UNCHANGED <<answers, runtime>>

AnswerNow == Queue(server, <<issued'>>) /\ UNCHANGED runtime

(* begin_connect and begin_scan first wait, inside dispatch, for the       *)
(* cleanup of a connection that ended.                                     *)
Call(kind) ==
    /\ connection = "ended"
    /\ server' = [server EXCEPT !.calling = kind, !.caller = issued']
    /\ UNCHANGED <<runtime, outbound, answers>>

(* A command whose deadline has passed. *)
DispatchExpired == Receives /\ AnswerNow

(* Roam is unsupported on a connection, an error of the runtime elsewhere. *)
DispatchRoam ==
    /\ Receives
    /\ IF server.waiting # <<>> \/ server.power # 0
       THEN AnswerNow
       ELSE IF \/ connect_attempt # NoAttempt \/ connection = "none"
               \/ sme.state # "Connected"
       THEN Refuse("DriverFault")
       ELSE AnswerNow

DispatchScan ==
    /\ Receives
    /\ LET busy == server.scan # 0 \/ server.waiting # <<>> \/ server.power # 0
       IN  \/ busy /\ AnswerNow
           \/ ~busy /\ Call("scan")
           \/ ~busy /\ connection # "ended" /\ connect_attempt # NoAttempt
                /\ Refuse("DriverFault")
           \/ ~busy /\ BeginScan /\ UNCHANGED <<outbound, answers>>
                /\ server' = [server EXCEPT !.scan = issued']

DispatchConnect ==
    /\ Receives
    /\ LET busy == \/ server.connect # 0 \/ server.waiting # <<>>
                   \/ server.power # 0
       IN  \/ busy /\ Refuse("ProtocolViolation")
           \/ ~busy /\ Call("connect")
           \/ ~busy /\ (connection = "active"
                        \/ (connection = "none" /\ scan_attempt # NoScan))
                /\ transaction.events = <<>> /\ Refuse("DriverFault")
           \/ ~busy /\ BeginConnect /\ UNCHANGED <<outbound, answers>>
                /\ server' = [server EXCEPT !.connect = issued']

(* The awaited cleanup is over and the call goes on. *)
ResumeCall ==
    /\ Serving /\ ~cleanup.active
    /\ \/ /\ server.calling = "scan" /\ BeginScan
          /\ server' = [server EXCEPT !.scan = server.caller,
                                      !.calling = "none", !.caller = 0]
       \/ /\ server.calling = "connect" /\ BeginConnect
          /\ server' = [server EXCEPT !.connect = server.caller,
                                      !.calling = "none", !.caller = 0]
    /\ UNCHANGED <<outbound, issued, answers>>

TakeOver_Copying(id) ==
    server' = [server EXCEPT !.waiting = <<id>>, !.taken = server.connect]

(* The PendingDisconnect of a first request takes the pending connect. *)
TakeOver(id) ==
    server' = [server EXCEPT !.waiting = <<id>>, !.taken = server.connect,
                             !.connect = 0]

(* A second disconnect waits with the first. *)
DispatchDisconnect ==
    /\ Receives
    /\ \/ server.power # 0 /\ Refuse("ProtocolViolation")
       \/ /\ server.power = 0 /\ server.waiting # <<>>
          /\ IF Len(server.waiting) = Limit
             THEN Refuse("Backpressure")
             ELSE /\ server' = [server EXCEPT !.waiting =
                                  Append(server.waiting, issued')]
                  /\ UNCHANGED <<runtime, outbound, answers>>
       \/ /\ server.power = 0 /\ server.waiting = <<>>
          /\ \/ BeginDisconnect
             \/ (cleanup.active \/ NothingToDisconnect) /\ UNCHANGED runtime
          /\ TakeOver(issued')
          /\ UNCHANGED <<outbound, answers>>

DispatchPowerSave ==
    /\ Receives
    /\ LET busy == \/ server.power # 0 \/ server.waiting # <<>>
                   \/ server.connect # 0 \/ server.scan # 0
       IN  IF busy \/ connection # "active" \/ cleanup.active
           THEN AnswerNow
           ELSE /\ BeginPowerSave
                /\ server' = [server EXCEPT !.power = issued']
                /\ UNCHANGED <<outbound, answers>>
-----------------------------------------------------------------------------
(* drive_runtime.  First it drains the connection's events. *)
QueueConnectionEvents ==
    /\ Serving /\ server.calling = "none"
    /\ ConnectionEnded
    /\ Queue(server, <<0>>)
    /\ UNCHANGED issued

(* While a power save is pending nothing else is driven.  A reply whose    *)
(* authority is gone is Err(CANCELED), which power_runtime_error maps to   *)
(* DriverFault.  Without room for the reply the server itself fails.       *)
DrivePower ==
    /\ Serving /\ server.power # 0
    /\ DrivePowerSave
    /\ LET answered == [server EXCEPT !.power = 0]
           revoked  == ~Live(power_save.epoch)
       IN  \/ /\ power_save.reply = "canceled"
                  \/ (power_save.reply = "ok" /\ revoked)
                  \/ power_save.reply = "error"
             /\ EndGeneration(server, "DriverFault")
             /\ UNCHANGED answers
          \/ /\ power_save.reply \in {"busy", "error"}
                  \/ (power_save.reply = "ok" /\ ~revoked)
             /\ IF outbound < Limit
                THEN Queue(answered, <<server.power>>)
                ELSE /\ server' = [answered EXCEPT !.ended = "Failed"]
                     /\ UNCHANGED <<outbound, answers>>
    /\ UNCHANGED issued

DrivesCleanup_ServiceOnly ==
    /\ Serving /\ server.power = 0
    /\ connect_attempt = NoAttempt /\ scan_attempt = NoScan

(* A pending disconnect is driven alone; a call waits for its cleanup; a   *)
(* failed connect is cleaned up by its own drive; any other cleanup is the *)
(* service's, once no connect or scan is in progress.                      *)
DrivesCleanup ==
    /\ Serving /\ server.power = 0
    /\ \/ server.waiting # <<>>
       \/ server.calling # "none"
       \/ server.connect # 0 /\ cleanup.failed
       \/ connect_attempt = NoAttempt /\ scan_attempt = NoScan

DriveCleanup ==
    /\ DrivesCleanup
    /\ \/ Quietly(SendFinish) \/ Quietly(RetryFinish)
       \/ Faulted(CleanupRefused, "DriverFault")

(* The replies to a completed disconnect: the connect it canceled, then    *)
(* every waiter.  An outcome that does not fit what was pending is a fault.*)
Replies == (IF server.taken = 0 THEN <<>> ELSE <<server.taken>>)
             \o server.waiting

Disconnected(outcome) ==
    LET idle == [server EXCEPT !.waiting = <<>>, !.taken = 0] IN
    IF (server.taken # 0) = (outcome = "ConnectCanceled")
    THEN Queue(idle, Replies)
    ELSE EndGeneration(idle, "DriverFault") /\ UNCHANGED answers

CompleteCleanup ==
    /\ DrivesCleanup
    /\ CleanupComplete
    /\ IF server.waiting # <<>>
       THEN Disconnected(IF connect_attempt # NoAttempt
                         THEN "ConnectCanceled" ELSE "Disconnected")
       ELSE IF server.connect # 0 /\ cleanup.failed
       THEN Queue([server EXCEPT !.connect = 0], <<server.connect>>)
       ELSE UNCHANGED <<server, outbound, answers>>
    /\ UNCHANGED issued

NothingToClean ==
    /\ Serving /\ contained = "no" /\ server.power = 0
    /\ server.waiting # <<>> /\ ~cleanup.active
    /\ Disconnected("Disconnected")
    /\ UNCHANGED <<runtime, issued>>

(* Connect and scan are driven when neither of the above is pending. *)
Driving ==
    /\ Serving /\ server.calling = "none"
    /\ server.power = 0 /\ server.waiting = <<>>

DriveConnectRequest ==
    /\ Driving /\ server.connect # 0
    /\ \/ Quietly(ConnectWaits) \/ Quietly(ConnectFailed)
       \/ Faulted(ConnectMismatch, "DriverFault")
       \/ /\ ConnectSucceeded
          /\ Queue([server EXCEPT !.connect = 0], <<server.connect, 0>>)
          /\ UNCHANGED issued

DriveScanRequest ==
    /\ Driving /\ server.scan # 0
    /\ \/ /\ ScanDone
          /\ Queue([server EXCEPT !.scan = 0], <<server.scan>>)
          /\ UNCHANGED issued
       \/ Faulted(ScanLost, "DriverFault")
       \/ Faulted(ScanAbsent, "DriverFault")

InstallEthernet == Driving /\ Quietly(TakeEthernetDevice)

(* A deadline: of the operation driven, or of the pending power save. *)
Deadline ==
    /\ Serving
    /\ \/ Faulted(Timeout, "Timeout")
       \/ server.power # 0 /\ EndGeneration(server, "Timeout")
            /\ UNCHANGED <<runtime, issued, answers>>

(* flush: the policy process reads a packet. *)
Flush ==
    /\ outbound > 0
    /\ outbound' = outbound - 1
    /\ UNCHANGED <<runtime, server, issued, answers>>

(* It closes the socket, or leaves a packet unread past drain_deadline. *)
PolicyGone ==
    /\ Serving
    /\ \E reason \in {"PolicyGone", "Stalled"} :
         /\ reason = "Stalled" => outbound > 0
         /\ server' = [server EXCEPT !.ended = reason]
    /\ UNCHANGED <<runtime, outbound, issued, answers>>
-----------------------------------------------------------------------------
Dispatch ==
    \/ DispatchExpired \/ DispatchRoam \/ DispatchScan \/ DispatchConnect
    \/ DispatchDisconnect \/ DispatchPowerSave

DriveRuntime ==
    \/ QueueConnectionEvents \/ DrivePower \/ DriveCleanup \/ CompleteCleanup
    \/ NothingToClean \/ DriveConnectRequest \/ DriveScanRequest
    \/ InstallEthernet

Tasks ==
    /\ Serving /\ contained = "no"
    /\ \/ Sme \/ SmeTimeout \/ Mlme \/ MlmeTimeout \/ Bridge \/ Actor
       \/ DeviceComplete \/ DeviceUpcall \/ DeviceScanComplete
    /\ UNCHANGED service

ControlNext ==
    \/ Dispatch \/ ResumeCall \/ DriveRuntime \/ Deadline \/ Flush
    \/ PolicyGone \/ Tasks

ControlSpec == ControlInit /\ [][ControlNext]_allVars

Turn(A) == Serving /\ contained = "no" /\ A /\ UNCHANGED service

(* run_to_terminal drives what is pending forever; the runtime's tasks are *)
(* polled in turn and the firmware completes what it accepted.  No         *)
(* deadline is assumed to pass.                                            *)
FairControlSpec ==
    /\ ControlSpec
    /\ WF_allVars(Turn(Sme)) /\ WF_allVars(Turn(SmeTimeout))
    /\ WF_allVars(Turn(Mlme)) /\ WF_allVars(Turn(MlmeTimeout))
    /\ WF_allVars(Turn(Bridge)) /\ WF_allVars(Turn(Actor))
    /\ WF_allVars(Turn(DeviceComplete)) /\ WF_allVars(Turn(DeviceScanComplete))
    /\ WF_allVars(QueueConnectionEvents) /\ WF_allVars(DrivePower)
    /\ WF_allVars(DriveCleanup) /\ WF_allVars(CompleteCleanup)
    /\ WF_allVars(NothingToClean) /\ WF_allVars(DriveConnectRequest)
    /\ WF_allVars(DriveScanRequest) /\ WF_allVars(Flush)
-----------------------------------------------------------------------------
(* The places of the server that hold a command not yet answered. *)
Holders(c) ==
    Cardinality({f \in {"connect", "scan", "power", "taken", "caller"} :
                    server[f] = c})
      + Cardinality({i \in 1 .. Len(server.waiting) : server.waiting[i] = c})

(* Exactly one terminal result belongs to each operation: a command is     *)
(* held in one place until its reply is queued, is never answered twice,   *)
(* and none is forgotten while the generation lasts.                       *)
OneReplyEach ==
    \A c \in 1 .. issued :
        /\ answers[c] <= 1
        /\ Serving => answers[c] + Holders(c) = 1

(* The server's pending requests are the runtime's attempts: a connect is  *)
(* pending exactly while the runtime has an attempt, and it belongs to a   *)
(* disconnect exactly when that will cancel it, so that drive_runtime's    *)
(* "outcome does not fit" arm is never taken.                              *)
RequestsMatchAttempts ==
    /\ Serving => ((connect_attempt # NoAttempt)
                     <=> (server.connect # 0 \/ server.taken # 0))
    /\ Serving => (server.taken # 0 => cleanup.active)

(* The last slot of the outbound queue is kept for GenerationEnd: however  *)
(* many replies one step queues, ending the generation still has room.     *)
RoomForGenerationEnd ==
    /\ outbound <= Limit + 1
    /\ Serving => outbound <= Limit

(* A disconnect is answered: the server's cleanup, the SME, the suspended  *)
(* MLME handler and the device's pending operation never wait in a circle. *)
DisconnectAnswered ==
    (server.waiting # <<>>) ~> (server.waiting = <<>> \/ ~Serving)

(* A connect is answered, or its generation ends. *)
ConnectAnswered ==
    (server.connect # 0) ~> (server.connect = 0 \/ ~Serving)

(* notes/wifi-architecture.md: "safety-critical completion must not        *)
(* silently disappear": a scan the device completes is answered without    *)
(* help from its deadline.                                                 *)
ScanAnswered == (server.scan # 0) ~> (server.scan = 0 \/ ~Serving)
=============================================================================
