-------------------------- MODULE MCRuntimeShutdown -------------------------
(***************************************************************************)
(* Liveness of the SoftMAC host, and its certified shutdown: the runtime's *)
(* shutdown over the driver actor (two epochs, one power save) and the     *)
(* callback bridge. One behaviour exercises one of them ("part").          *)
(***************************************************************************)
EXTENDS RuntimeShutdown, SoftmacBridge

VARIABLE part

CONSTANTS e1, e2, s1

MCEpochs == {e1, e2}
MCChildren == {s1}
MCParentOf == [c \in MCChildren |-> e1]

every == <<part, allvars, bridgeVars>>

(* The parts that are not the one under study rest in their initial state. *)
ModelInit ==
    /\ part \in {"shutdown", "bridge"}
    /\ ShutdownInit
    /\ BridgeInit

ModelNext ==
    /\ UNCHANGED part
    /\ \/ part = "shutdown" /\ ShutdownNext /\ UNCHANGED <<bridgeVars>>
       \/ part = "bridge" /\ BridgeNext /\ UNCHANGED <<allvars>>

(* The fairness of ShutdownFairSpec and of BridgeFairSpec, each for its    *)
(* part.                                                                   *)
Fairness ==
    /\ WF_allvars(part = "shutdown" /\ Turn /\ UNCHANGED runtime)
    /\ WF_allvars(part = "shutdown" /\ Shutdown)
    /\ WF_allvars(
          part = "shutdown" /\ owner = "dropped" /\ TaskLost /\ UNCHANGED runtime)
    /\ SF_bridgeVars(part = "bridge" /\ TakeCallback)
    /\ WF_bridgeVars(part = "bridge" /\ Wake)
    /\ WF_bridgeVars(part = "bridge" /\ SendEvent)
    /\ WF_bridgeVars(part = "bridge" /\ Handle)
    /\ WF_bridgeVars(part = "bridge" /\ FinishUp)
    /\ WF_bridgeVars(part = "bridge" /\ FinishDown)

ModelSpec == ModelInit /\ [][ModelNext]_every /\ Fairness
-----------------------------------------------------------------------------
(* A revoked lifetime falls quiet, a shutdown returns even when its future *)
(* is dropped and called again, every callback is served and an overflow   *)
(* is reported (ClientRuntime::shutdown, DriverActor::poll, UpcallQueue).  *)
HostServes ==
    /\ RevokedQuiesces
    /\ ShutdownReturns
    /\ CallbacksServed
    /\ OverflowReported
=============================================================================
