------------------------------ MODULE MCSockets ------------------------------
(***************************************************************************)
(* Model of the Netstack3 socket path: one behaviour is one socket, of one *)
(* of six uses ("part"), each a different instance of SocketWorker.        *)
(***************************************************************************)
EXTENDS Naturals, Sequences

VARIABLES part, k, thread, breaks, w, c

(* An accepted connection that two threads write to, shut down and close. *)
Transmit == INSTANCE SocketWorker WITH
    Kind <- "tcp", Child <- TRUE, Threads <- {1, 2}, Calls <- {"SEND", "SHUTDOWN", "REVOKE"},
    Peers <- {}, Requests <- 32, TxRoom <- 2, RxRoom <- 1, Chunk <- 2, Backlog <- 1,
    MaxTail <- 3, MaxRequests <- 2, MaxBreaks <- 1, MaxRx <- 0, MaxChildren <- 0

(* The receiving side, with room for one record. *)
Receive == INSTANCE SocketWorker WITH
    Kind <- "tcp", Child <- TRUE, Threads <- {1}, Calls <- {"RECV", "SHUTDOWN"},
    Peers <- {}, Requests <- 32, TxRoom <- 2, RxRoom <- 1, Chunk <- 2, Backlog <- 1,
    MaxTail <- 0, MaxRequests <- 2, MaxBreaks <- 1, MaxRx <- 3, MaxChildren <- 0

(* A new socket that two threads bind, connect and shut down. *)
Connect == INSTANCE SocketWorker WITH
    Kind <- "tcp", Child <- FALSE, Threads <- {1, 2},
    Calls <- {"CONNECT", "NBCONNECT", "BIND", "SHUTDOWN"},
    Peers <- {}, Requests <- 32, TxRoom <- 2, RxRoom <- 1, Chunk <- 2, Backlog <- 1,
    MaxTail <- 0, MaxRequests <- 4, MaxBreaks <- 1, MaxRx <- 0, MaxChildren <- 0

(* A datagram socket with its implicit bind. *)
Datagram == INSTANCE SocketWorker WITH
    Kind <- "udp", Child <- FALSE, Threads <- {1, 2}, Calls <- {"CONNECT", "SEND", "SHUTDOWN"},
    Peers <- {1}, Requests <- 32, TxRoom <- 2, RxRoom <- 1, Chunk <- 2, Backlog <- 1,
    MaxTail <- 2, MaxRequests <- 3, MaxBreaks <- 1, MaxRx <- 0, MaxChildren <- 0

DatagramReceive == INSTANCE SocketWorker WITH
    Kind <- "udp", Child <- FALSE, Threads <- {1}, Calls <- {"BIND", "RECV", "SHUTDOWN"},
    Peers <- {1}, Requests <- 32, TxRoom <- 2, RxRoom <- 1, Chunk <- 2, Backlog <- 1,
    MaxTail <- 0, MaxRequests <- 3, MaxBreaks <- 1, MaxRx <- 3, MaxChildren <- 0

(* A listener whose connections two threads accept. *)
Listen == INSTANCE SocketWorker WITH
    Kind <- "tcp", Child <- FALSE, Threads <- {1, 2}, Calls <- {"LISTEN", "ACCEPT"},
    Peers <- {}, Requests <- 32, TxRoom <- 2, RxRoom <- 1, Chunk <- 2, Backlog <- 1,
    MaxTail <- 0, MaxRequests <- 3, MaxBreaks <- 1, MaxRx <- 0, MaxChildren <- 3

vars == <<part, k, thread, breaks, w, c>>

Init ==
    \/ part = "transmit" /\ Transmit!Init
    \/ part = "receive" /\ Receive!Init
    \/ part = "connect" /\ Connect!Init
    \/ part = "datagram" /\ Datagram!Init
    \/ part = "datagram_receive" /\ DatagramReceive!Init
    \/ part = "listen" /\ Listen!Init

Next ==
    /\ UNCHANGED part
    /\ \/ part = "transmit" /\ Transmit!Next
       \/ part = "receive" /\ Receive!Next
       \/ part = "connect" /\ Connect!Next
       \/ part = "datagram" /\ Datagram!Next
       \/ part = "datagram_receive" /\ DatagramReceive!Next
       \/ part = "listen" /\ Listen!Next

Spec == Init /\ [][Next]_vars
-----------------------------------------------------------------------------
(* The kernel and the worker agree on the socket: neither finds the other  *)
(* in breach of the protocol (EPROTO of SocketEndpoint::write, a seal      *)
(* behind data), one request besides OPEN is outstanding, and a thread     *)
(* asleep in connect() owns the attempt it began.                          *)
SocketAgreement ==
    /\ Transmit!ProtocolAgreement
    /\ Transmit!LaneDiscipline
    /\ part = "transmit" => Transmit!TypeOK
    /\ part = "connect" => Connect!ClaimsOwn

(* No byte or datagram is lost, repeated or reordered between application, *)
(* kernel, worker and core, in either direction; a shutdown or close acts  *)
(* on the core after exactly the data admitted before its seal, and end of *)
(* file is read after the data before it.                                  *)
DataConserved ==
    /\ part = "transmit" => Transmit!StreamConserved /\ Transmit!SealedHandoff
    /\ part = "datagram" => Datagram!StreamConserved /\ Datagram!SealedHandoff
    /\ part = "receive" => Receive!RxConserved /\ Receive!EofLast
    /\ part = "datagram_receive" => DatagramReceive!RxConserved

(* A connection has one owner at any time: the listener's queue, a pending *)
(* publication or the accepted socket.                                     *)
ChildrenOnce == part = "listen" => Listen!ChildrenOnce
=============================================================================
