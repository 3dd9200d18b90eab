------------------------------ MODULE MCAth11k ------------------------------
(***************************************************************************)
(* Model of the ath11k transport: the copy-engine pipes under sending,     *)
(* receiving and a device that reports impossible lengths, and the host-   *)
(* target communication layer with and without shadow registers. One       *)
(* behaviour exercises one of them ("part").                               *)
(***************************************************************************)
EXTENDS Ath11kCopyEngine

VARIABLES
    part, stage, eps, alloc, up, down, queues, call, read, susp, sends, fw,
    lost, htc_faults

(* Sending until the source ring is full and wraps. *)
Sending == INSTANCE Ath11kCopyEngine WITH
    MaxTx <- 5, MaxRx <- 0, MaxFaults <- 2, Bad <- FALSE

(* Receiving from a device that may report a length out of range. *)
Spoiling == INSTANCE Ath11kCopyEngine WITH
    MaxTx <- 0, MaxRx <- 4, MaxFaults <- 2, Bad <- TRUE

(* One credit, the allocation of a device with shadow registers. *)
ShadowHtc == INSTANCE Ath11kHtc WITH
    EpCount <- 3, Shadow <- TRUE, ReadyCredits <- 2, MaxSends <- 2,
    MaxEvents <- 2, MaxFaults <- 1, faults <- htc_faults

(* The two credits of the ready message. *)
CreditHtc == INSTANCE Ath11kHtc WITH
    EpCount <- 3, Shadow <- FALSE, ReadyCredits <- 2, MaxSends <- 2,
    MaxEvents <- 2, MaxFaults <- 1, faults <- htc_faults

htcVars ==
    <<stage, eps, alloc, up, down, queues, call, read, susp, sends, fw, lost,
      htc_faults>>
every == <<part, vars, htcVars>>

(* The parts that are not the one under study rest in their initial state. *)
ModelInit ==
    /\ part \in {"pipes", "sending", "spoiling", "shadow", "credits"}
    /\ Init
    /\ CASE part = "credits" -> CreditHtc!Init
         [] OTHER -> ShadowHtc!Init

ModelNext ==
    /\ UNCHANGED part
    /\ \/ part = "pipes" /\ Next /\ UNCHANGED <<htcVars>>
       \/ part = "sending" /\ Sending!Next /\ UNCHANGED <<htcVars>>
       \/ part = "spoiling" /\ Spoiling!Next /\ UNCHANGED <<htcVars>>
       \/ /\ \/ part = "shadow" /\ ShadowHtc!Next
             \/ part = "credits" /\ CreditHtc!Next
          /\ UNCHANGED <<vars>>

ModelSpec == ModelInit /\ [][ModelNext]_every
-----------------------------------------------------------------------------
(* Ath11kHtc: credits are conserved but for those lost with a frame, a     *)
(* payload reaches the service that sent it in the order of sending,       *)
(* services have endpoints of their own, and a suspend is answered by an   *)
(* acknowledgement not yet queued when it began.                           *)
HtcSound ==
    /\ part = "shadow" => ShadowHtc!HtcSafe
    /\ part = "credits" => CreditHtc!HtcSafe

(* A frame the copy engine completed and does not return is replaced by an *)
(* error (receive_htc, per_engine_service), and receive_htc comes back     *)
(* empty only if no frame was there when its deadline passed.              *)
TransportSteps ==
    /\ LossReported
    /\ CreditHtc!DueIsReturned
=============================================================================
