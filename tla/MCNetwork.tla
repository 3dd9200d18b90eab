------------------------------ MODULE MCNetwork -----------------------------
(***************************************************************************)
(* Model of the network services: the Wi-Fi link of netcfg and the         *)
(* provider, the SOCKS5 service, and the namespace generations of the      *)
(* kernel broker. One behaviour exercises one of them ("part").            *)
(***************************************************************************)
EXTENDS NetcfgLink

VARIABLES
    part, pc, clients, host, stack, backlog, ready, pending, sched, net, ended, ns, broker, stop,
    sock, thread, ctl, workers, sup

(* Two clients at once, each sending a burst and receiving. *)
Relay == INSTANCE Socks5Service WITH
    Peers <- 2, Capacity <- 2, Pending <- 2, Total <- 1, Buffer <- 1,
    WorkBudget <- 2, Bursts <- {4}, RemoteUnits <- 2, Kinds <- {"v4"},
    Racing <- FALSE, Faults <- FALSE

(* Two clients in turn, each with a name to resolve, its request in any     *)
(* pieces; failures and races.                                             *)
Lookup == INSTANCE Socks5Service WITH
    Peers <- 2, Capacity <- 1, Pending <- 1, Total <- 1, Buffer <- 1,
    WorkBudget <- 1, Bursts <- {3}, RemoteUnits <- 0, Kinds <- {"name", "name4"},
    Racing <- TRUE, Faults <- TRUE

(* One namespace, two tasks that create sockets and one that waits for a   *)
(* reply.                                                                  *)
Generations == INSTANCE NamespaceLifecycle WITH
    Namespaces <- {"a"}, Explicit <- {}, Threads <- {1, 2}, Callers <- {1},
    MaxRegistered <- 1, MaxControls <- 1, MaxGen <- 2

(* Two namespaces, one of which registers itself, a registry of one. *)
Registry == INSTANCE NamespaceLifecycle WITH
    Namespaces <- {"a", "b"}, Explicit <- {"b"}, Threads <- {1}, Callers <- {},
    MaxRegistered <- 1, MaxControls <- 1, MaxGen <- 2

socksVars ==
    <<pc, clients, host, stack, backlog, ready, pending, sched, net, ended>>
namespaceVars == <<ns, broker, stop, sock, thread, ctl, workers, sup>>
every == <<part, vars, socksVars, namespaceVars>>

(* The parts that are not the one under study rest in their initial state. *)
ModelInit ==
    /\ part \in {"link", "relay", "lookup", "generations", "registry"}
    /\ Init
    /\ CASE part = "lookup" -> Lookup!Init
         [] OTHER -> Relay!Init
    /\ CASE part = "registry" -> Registry!Init
         [] OTHER -> Generations!Init

ModelNext ==
    /\ UNCHANGED part
    /\ \/ part = "link" /\ Next /\ UNCHANGED <<socksVars, namespaceVars>>
       \/ /\ \/ part = "relay" /\ Relay!Next
             \/ part = "lookup" /\ Lookup!Next
          /\ UNCHANGED <<vars, namespaceVars>>
       \/ /\ \/ part = "generations" /\ Generations!Next
             \/ part = "registry" /\ Registry!Next
          /\ UNCHANGED <<vars, socksVars>>

ModelSpec == ModelInit /\ [][ModelNext]_every
-----------------------------------------------------------------------------
(* Socks5Service: a client is queued once, the bytes staged for all        *)
(* clients stay within the shared bound, end of file follows the last      *)
(* byte, and a lookup is owned by exactly one client.                      *)
RelaySafe ==
    /\ part = "relay" =>
          /\ Relay!TypeOK
          /\ Relay!QueuedOnce
          /\ Relay!StagingBounded
          /\ Relay!CompleteTransfers
    /\ part = "lookup" =>
          /\ Lookup!TypeOK
          /\ Lookup!QueuedOnce
          /\ Lookup!CompleteTransfers
          /\ Lookup!LookupsOwned

(* NamespaceLifecycle: broker, registry and supervisor agree on the        *)
(* generation that is live; a late failure stops only its own generation,  *)
(* and a socket or a control belongs to the current one.                   *)
NamespaceSafe ==
    /\ part = "generations" =>
          /\ Generations!TypeOK
          /\ Generations!LiveAgrees
          /\ Generations!RegistryExact
          /\ Generations!StopsOwnGeneration
          /\ Generations!SocketsCurrent
          /\ Generations!ControlsOwned
    /\ part = "registry" =>
          /\ Registry!TypeOK
          /\ Registry!LiveAgrees
          /\ Registry!RegistryExact
          /\ Registry!StopsOwnGeneration
          /\ Registry!SocketsCurrent
          /\ Registry!ControlsOwned
=============================================================================
