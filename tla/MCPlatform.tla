----------------------------- MODULE MCPlatform -----------------------------
(***************************************************************************)
(* Model of the hardware platform: the VFIO session of a platform, a PCI   *)
(* and a brokered device, the PCI configuration owner, and the DMA segment *)
(* pool. The components do not share state here, so one behaviour          *)
(* exercises one of them ("part").                                         *)
(*                                                                         *)
(* The session that is extended is the platform device's: two interrupt    *)
(* lines, each an index of its own. What SessionTracks and ResetClears say *)
(* depends on the kind of device only through IndexOf, which is the        *)
(* identity on the vectors of all three, so they are checked of each.      *)
(***************************************************************************)
EXTENDS DmaPool, PciControl, HardwareSession

VARIABLE part

(* IOAS mappings and one MSI vector. *)
Pci == INSTANCE HardwareSession WITH
    Flavor <- "Pci", Vectors <- {0}, Eventfds <- 2, MaxIova <- 5, MaxIds <- 3,
    MaxGenerations <- 3, MaxFaults <- 2

(* Allocations made by the broker. *)
Broker == INSTANCE HardwareSession WITH
    Flavor <- "Broker", Vectors <- {0, 1}, Eventfds <- 2, MaxIova <- 5,
    MaxIds <- 3, MaxGenerations <- 3, MaxFaults <- 2

every == <<part, vars, sessionVars, configVars>>

(* The parts that are not the one under study rest in their initial state. *)
ModelInit ==
    /\ part \in {"pool", "pci", "platform", "broker", "config"}
    /\ Init
    /\ CASE part = "pci" -> Pci!SessionInit
         [] part = "broker" -> Broker!SessionInit
         [] OTHER -> SessionInit
    /\ ConfigInit
    /\ part \notin {"config"} => command = {} /\ power = "D0"

ModelNext ==
    /\ UNCHANGED part
    /\ \/ part = "pool" /\ Next /\ UNCHANGED <<sessionVars, configVars>>
       \/ /\ \/ part = "pci" /\ Pci!SessionNext
             \/ part = "platform" /\ SessionNext
             \/ part = "broker" /\ Broker!SessionNext
          /\ UNCHANGED <<vars, configVars>>
       \/ part = "config" /\ ConfigNext /\ UNCHANGED <<vars, sessionVars>>

ModelSpec == ModelInit /\ [][ModelNext]_every
=============================================================================
