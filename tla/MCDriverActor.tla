---------------------------- MODULE MCDriverActor ---------------------------
(***************************************************************************)
(* Model of the SoftMAC host's driver side: the driver actor, with two     *)
(* epochs and one scan under the first, and the bridge between the         *)
(* device's callbacks, the MLME and the Ethernet port. One behaviour       *)
(* exercises one of them ("part").                                         *)
(***************************************************************************)
EXTENDS DriverActor, SoftmacBridge

VARIABLE part

CONSTANTS e1, e2, s1

MCEpochs == {e1, e2}
MCChildren == {s1}
MCParentOf == [c \in MCChildren |-> e1]

every == <<part, vars, bridgeVars>>

(* The parts that are not the one under study rest in their initial state. *)
ModelInit ==
    /\ part \in {"actor", "bridge"}
    /\ Init
    /\ BridgeInit

ModelNext ==
    /\ UNCHANGED part
    /\ \/ part = "actor" /\ Next /\ UNCHANGED <<bridgeVars>>
       \/ part = "bridge" /\ BridgeNext /\ UNCHANGED <<vars>>

ModelSpec == ModelInit /\ [][ModelNext]_every
=============================================================================
