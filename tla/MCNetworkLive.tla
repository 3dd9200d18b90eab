---------------------------- MODULE MCNetworkLive ---------------------------
(***************************************************************************)
(* Liveness of the network services: the socket worker's close, its        *)
(* receiving and listening sides, the Wi-Fi link of netcfg and the         *)
(* provider, the SOCKS5 service and the namespace supervisor. One          *)
(* behaviour exercises one of them ("part").                               *)
(***************************************************************************)
EXTENDS Naturals, Sequences

VARIABLES
    part, k, socket_thread, breaks, w, c, wifi, frames, life, netcfg, requests,
    replies, provider, pc, clients, host, stack, backlog, ready, pending,
    sched, net, ended, ns, broker, stop, sock, thread, ctl, workers, sup

(* A connection that is written to, shut down and closed. *)
Close == INSTANCE SocketWorker WITH
    Kind <- "tcp", Child <- TRUE, Threads <- {1},
    Calls <- {"SEND", "SHUTDOWN"}, Peers <- {}, Requests <- 32, TxRoom <- 2,
    RxRoom <- 1, Chunk <- 1, Backlog <- 1, MaxTail <- 1, MaxRequests <- 2,
    MaxBreaks <- 1, MaxRx <- 0, MaxChildren <- 0, thread <- socket_thread

(* A connection whose application reads. *)
Receive == INSTANCE SocketWorker WITH
    Kind <- "tcp", Child <- TRUE, Threads <- {1}, Calls <- {"RECV"},
    Peers <- {}, Requests <- 32, TxRoom <- 2, RxRoom <- 1, Chunk <- 2,
    Backlog <- 1, MaxTail <- 0, MaxRequests <- 2, MaxBreaks <- 1, MaxRx <- 3,
    MaxChildren <- 0, thread <- socket_thread

(* A listener whose application accepts. *)
Listen == INSTANCE SocketWorker WITH
    Kind <- "tcp", Child <- FALSE, Threads <- {1},
    Calls <- {"LISTEN", "ACCEPT"}, Peers <- {}, Requests <- 32, TxRoom <- 2,
    RxRoom <- 1, Chunk <- 2, Backlog <- 1, MaxTail <- 0, MaxRequests <- 2,
    MaxBreaks <- 1, MaxRx <- 0, MaxChildren <- 2, thread <- socket_thread

Link == INSTANCE NetcfgLink WITH
    MaxLinks <- 2, Room <- 1, MaxChanges <- 1, Faults <- FALSE

Socks == INSTANCE Socks5Service WITH
    Peers <- 2, Capacity <- 1, Pending <- 1, Total <- 1, Buffer <- 1,
    WorkBudget <- 2, Bursts <- {1}, RemoteUnits <- 0, Kinds <- {"v4"},
    Racing <- FALSE, Faults <- TRUE

Namespace == INSTANCE NamespaceLifecycle WITH
    Namespaces <- {"a"}, Explicit <- {}, Threads <- {1}, Callers <- {},
    MaxRegistered <- 1, MaxControls <- 1, MaxGen <- 2

socketVars == <<k, socket_thread, breaks, w, c>>
linkVars == <<wifi, frames, life, netcfg, requests, replies, provider>>
socksVars ==
    <<pc, clients, host, stack, backlog, ready, pending, sched, net, ended>>
namespaceVars == <<ns, broker, stop, sock, thread, ctl, workers, sup>>
vars == <<part, socketVars, linkVars, socksVars, namespaceVars>>

(* The parts that are not the one under study rest in their initial state. *)
Init ==
    /\ part \in {"close", "receive", "listen", "link", "socks",
                  "namespace"}
    /\ CASE part = "receive" -> Receive!Init
         [] part = "listen" -> Listen!Init
         [] OTHER -> Close!Init
    /\ Link!Init
    /\ Socks!Init
    /\ Namespace!Init

Next ==
    /\ UNCHANGED part
    /\ \/ /\ \/ part = "close" /\ Close!Next
             \/ part = "receive" /\ Receive!Next
             \/ part = "listen" /\ Listen!Next
          /\ UNCHANGED <<linkVars, socksVars, namespaceVars>>
       \/ /\ part = "link" /\ Link!Next
          /\ UNCHANGED <<socketVars, socksVars, namespaceVars>>
       \/ /\ part = "socks" /\ Socks!Next
          /\ UNCHANGED <<socketVars, linkVars, namespaceVars>>
       \/ /\ part = "namespace" /\ Namespace!Next
          /\ UNCHANGED <<socketVars, linkVars, socksVars>>

(* A killed worker exits or drops its descriptors. *)
Reaped ==
    /\ Namespace!SupAt("kill") /\ <<sup.n, sup.g>> \in workers
    /\ \/ Namespace!WorkerExit(<<sup.n, sup.g>>)
       \/ Namespace!WorkerDrops(<<sup.n, sup.g>>)

(* The fairness each module states, for its part. *)
Fairness ==
    /\ WF_socketVars(part = "close" /\ Close!WorkerNext)
    /\ WF_socketVars(part = "receive" /\ Receive!WorkerNext)
    /\ WF_socketVars(part = "listen" /\ Listen!WorkerNext)
    /\ SF_socketVars(part = "listen" /\ Listen!AcceptInfo /\ w'.pc = "publish")
    /\ SF_socketVars(
          part = "listen" /\ Listen!PublishCheck /\ w'.pc = "commit")
    /\ WF_socketVars(
          part = "close" /\ (Close!CallReturn(1) \/ Close!NetDown(1)) /\ UNCHANGED <<w, c>>)
    /\ WF_socketVars(
          part = "receive" /\ (Receive!CallReturn(1) \/ Receive!NetDown(1)) /\ UNCHANGED <<w, c>>)
    /\ WF_socketVars(
          part = "listen" /\ (Listen!CallReturn(1) \/ Listen!NetDown(1)) /\ UNCHANGED <<w, c>>)
    /\ WF_socketVars(part = "receive" /\ Receive!Recv(1) /\ UNCHANGED <<w, c>>)
    /\ WF_socketVars(part = "listen" /\ Listen!Accept(1) /\ UNCHANGED <<w, c>>)
    /\ WF_linkVars(part = "link" /\ Link!Netcfg)
    /\ WF_linkVars(part = "link" /\ Link!ProviderTurn)
    /\ WF_socksVars(part = "socks" /\ Socks!Loop)
    /\ WF_socksVars(part = "socks" /\ Socks!TimedOut)
    /\ SF_socksVars(part = "socks" /\ Socks!Accept /\ Socks!Accepted)
    /\ SF_socksVars(
          part = "socks" /\ Socks!DriveStack /\ sched.retry /\ ~sched'.retry)
    /\ WF_socksVars(part = "socks" /\ Socks!HostReads(1))
    /\ WF_socksVars(part = "socks" /\ Socks!FrameArrives(1))
    /\ SF_socksVars(
          part = "socks" /\ Socks!Expire /\ 1 \in Socks!Live \ DOMAIN clients')
    /\ WF_socksVars(part = "socks" /\ Socks!HostReads(2))
    /\ WF_socksVars(part = "socks" /\ Socks!FrameArrives(2))
    /\ SF_socksVars(
          part = "socks" /\ Socks!Expire /\ 2 \in Socks!Live \ DOMAIN clients')
    /\ WF_namespaceVars(part = "namespace" /\ Namespace!SupNext)
    /\ WF_namespaceVars(part = "namespace" /\ Namespace!AbortGeneration)
    /\ WF_namespaceVars(part = "namespace" /\ Namespace!StopNext)
    /\ WF_namespaceVars(part = "namespace" /\ Namespace!SocketInsert(1))
    /\ WF_namespaceVars(part = "namespace" /\ Reaped)

Spec == Init /\ [][Next]_vars /\ Fairness
-----------------------------------------------------------------------------
(* A close ends and a sleeping call returns although a worker breaks down; *)
(* a retained record and an accepted connection are published once there   *)
(* is room (SocketWorker).                                                 *)
SocketsLive ==
    /\ part = "close" => Close!CloseCompletes
    /\ part = "close" => Close!CallsReturn
    /\ part = "receive" => Receive!RetainedPublished
    /\ part = "listen" => Listen!ConnectionsPublished

(* Reports of the Wi-Fi link converge and revoked links leave; a waiting   *)
(* SOCKS5 host is admitted; a pending namespace is served and the child of *)
(* a dead one is reaped.                                                   *)
ServicesLive ==
    /\ part = "link" => Link!ReportsConverge
    /\ part = "link" => Link!RevokedLinksLeave
    /\ part = "socks" => Socks!HostsAdmitted
    /\ part = "namespace" => Namespace!PendingServed
    /\ part = "namespace" => Namespace!ChildrenReaped
=============================================================================
