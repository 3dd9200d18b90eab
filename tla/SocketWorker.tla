---------------------------- MODULE SocketWorker ----------------------------
(***************************************************************************)
(* The provider half of the socket, socket_worker.rs, driven by the loop   *)
(* of provider.rs, against the kernel half (KernelSocket) and the core's   *)
(* socket (external: sockets.rs over the Netstack3 runtime).  The loop     *)
(* sleeps in epoll; a turn is the request batch (handle_requests, when the *)
(* endpoint is ready), the acceptance step and poll_data.  Every endpoint  *)
(* read, write or ioctl is one step, so the application's threads run      *)
(* between any two of them.                                                *)
(***************************************************************************)
EXTENDS KernelSocket

CONSTANTS
    MaxRx,       \* bound: bytes (datagrams) the peer sends
    MaxChildren  \* bound: connections that reach the listener

VARIABLES
    w,           \* SocketWorker and its Endpoint
    c            \* the core's socket

vars == <<kernelVars, w, c>>

Nothing == [op |-> "EAGAIN", id |-> 0, how |-> {}, arg |-> 0]
Running == [op |-> "RUNNING", id |-> 0, how |-> {}, arg |-> 0]

\* kind "none": OPEN has not been served; why: how the worker ended.
WorkerInit ==
    w = [pc |-> IF Child THEN "idle" ELSE "unclaimed", kind |-> IF Child THEN "tcp" ELSE "none",
         msg |-> Nothing, pending |-> <<>>, control |-> Running, retained |-> <<>>,
         ended |-> FALSE, accept |-> "wait", child |-> 0, deq |-> 0, attempt |-> 0,
         out |-> FALSE, progress |-> Child, why |-> "none"]

CoreInit ==
    c = [conn |-> IF Child THEN "ok" ELSE "idle", err |-> FALSE, tx |-> <<>>, wclosed |-> FALSE,
         lost |-> FALSE, in |-> 0, read |-> 0, eof |-> FALSE, queue |-> <<>>, children |-> 0,
         event |-> FALSE]

Init == KernelInit /\ WorkerInit /\ CoreInit

Step(pc) == w.pc = pc
\* Work::Closed or a fault: the worker is dropped, and with it the endpoint and the core socket.
Gone(s, why) ==
    /\ w' = [w EXCEPT !.pc = "gone", !.kind = "none", !.msg = Nothing, !.pending = <<>>,
                      !.retained = <<>>, !.child = 0, !.why = why]
    /\ k' = Released(s)
    /\ UNCHANGED <<thread, breaks>>
OnEndpoint == UNCHANGED <<thread, breaks>>
InWorker == UNCHANGED kernelVars

----------------------------------------------------------------------------
(* The loop of provider.rs *)

\* CLAIM: the worker exists and its first request batch runs in the same turn.
Claim ==
    /\ Step("unclaimed")
    /\ ~k.claimed
    /\ Alive(k)
    /\ k' = [k EXCEPT !.claimed = TRUE]
    /\ w' = [w EXCEPT !.pc = "control"]
    /\ OnEndpoint
    /\ UNCHANGED c

\* epoll: the endpoint's armed readiness, or HUP and ERR, which need no arming.
EndpointReady == PollErr(k) \/ PollIn(k) \/ (w.out /\ PollOut(k))
Turn ==
    /\ Step("idle")
    /\ \/ EndpointReady /\ w' = [w EXCEPT !.pc = "control", !.progress = FALSE]
       \/ /\ w.progress \/ c.event \/ w.accept = "retry"
          /\ w' = [w EXCEPT !.pc = "accept", !.progress = FALSE]
    /\ c' = [c EXCEPT !.event = FALSE]
    /\ InWorker

EndTurn_NoOut(progress) ==
    [w EXCEPT !.pc = "idle", !.out = FALSE, !.progress = @ \/ progress]

\* The end of the turn: update_poll arms OUT exactly while a record is retained.
EndTurn(progress) ==
    [w EXCEPT !.pc = "idle", !.out = w.retained # <<>>, !.progress = @ \/ progress]

----------------------------------------------------------------------------
(* handle_requests *)

ReadRequest ==
    /\ Step("control")
    /\ k' = ControlRead(k)
    /\ LET m == Control(k) IN
       IF m.op = "DOWN" \/ (m.op = "CLOSE" /\ w.kind = "none") THEN FALSE
       ELSE IF m.op = "EAGAIN" THEN w' = [w EXCEPT !.pc = "accept"]
       ELSE w' = [w EXCEPT !.pc = "handle", !.msg = m, !.progress = TRUE]
    /\ OnEndpoint
    /\ UNCHANGED c

\* ENETDOWN, or the close of a socket that was never opened.
RetireRequest ==
    /\ Step("control")
    /\ LET m == Control(k) IN m.op = "DOWN" \/ (m.op = "CLOSE" /\ w.kind = "none")
    /\ Gone(ControlRead(k), IF Control(k).op = "DOWN" THEN "down" ELSE "closed")
    /\ UNCHANGED c

Handled(update) == w' = [update EXCEPT !.pc = "control", !.msg = Nothing]

\* The core may refuse a socket for want of storage (SocketLimit).
HandleOpen ==
    /\ Step("handle")
    /\ w.msg.op = "OPEN"
    /\ \E ok \in BOOLEAN :
         /\ w.kind # "none" => ~ok
         /\ k' = Replied(k, w.msg, ok, FALSE)
         /\ Handled([w EXCEPT !.kind = IF ok THEN Kind ELSE @])
    /\ OnEndpoint
    /\ UNCHANGED c

HandleAccept ==
    /\ Step("handle")
    /\ w.msg.op = "ACCEPT"
    /\ Handled([w EXCEPT !.accept = IF w.kind = "none" THEN @ ELSE "ready"])
    /\ InWorker
    /\ UNCHANGED c

\* A close leaves the batch; a shutdown does not.
HandleTerminal ==
    /\ Step("handle")
    /\ w.msg.op \in {"CLOSE", "SHUTDOWN"}
    /\ w.kind # "none"
    /\ w' = [w EXCEPT !.pc = IF w.msg.op = "CLOSE" THEN "accept" ELSE "control",
                      !.control = w.msg, !.msg = Nothing]
    /\ InWorker
    /\ UNCHANGED c

\* BIND, LISTEN and ACTIVATE: the core's answer, UnknownSocket before OPEN, or
\* InvalidState on the wrong socket.
HandleName ==
    /\ Step("handle")
    /\ w.msg.op \in {"BIND", "LISTEN", "ACTIVATE"}
    /\ \E ok \in BOOLEAN :
         /\ w.kind \in {"none", "listener"} => ~ok
         /\ w.msg.op = "LISTEN" /\ c.conn # "idle" => ~ok
         /\ k' = Replied(k, w.msg, ok, TRUE)
         /\ Handled([w EXCEPT !.kind = IF ok /\ w.msg.op = "LISTEN" THEN "listener" ELSE @])
    /\ OnEndpoint
    /\ UNCHANGED c

\* TcpSocket::connect works once; a datagram socket may be reconnected.
HandleConnect ==
    /\ Step("handle")
    /\ w.kind # "none"
    /\ w.msg.op = "CONNECT"
    /\ \E ok \in BOOLEAN, local \in IF Kind = "udp" THEN {k.bound, TRUE} ELSE {TRUE} :
         /\ w.kind = "listener" \/ (Kind = "tcp" /\ c.conn # "idle") => ~ok
         /\ k' = Replied(k, w.msg, ok, local)
         /\ Handled([w EXCEPT !.attempt = IF ok /\ Kind = "tcp" THEN w.msg.id ELSE @])
         /\ c' = IF w.kind = "tcp" /\ c.conn = "idle"
                 THEN [c EXCEPT !.conn = IF ok THEN "pending" ELSE "failed", !.err = ~ok, !.eof = ~ok]
                 ELSE c
    /\ OnEndpoint

----------------------------------------------------------------------------
(* Acceptance: accept_info, then PUBLISH in its two sections *)

AcceptDue == w.kind = "listener" /\ w.accept \in {"ready", "retry"}

AcceptInfo ==
    /\ Step("accept")
    /\ InWorker
    /\ \/ ~AcceptDue /\ w' = [w EXCEPT !.pc = "tx"] /\ UNCHANGED c
       \/ /\ AcceptDue
          /\ w.child = 0
          /\ \/ /\ c.queue # <<>>
                /\ w' = [w EXCEPT !.pc = "publish", !.child = Head(c.queue), !.accept = "ready"]
                /\ c' = [c EXCEPT !.queue = Tail(@)]
             \/ /\ c.queue = <<>>
                /\ w' = [w EXCEPT !.pc = "tx", !.accept = "ready"]
                /\ UNCHANGED c
             \/ /\ c.queue # <<>>
                /\ w' = [w EXCEPT !.pc = "tx", !.accept = "retry"]
                /\ UNCHANGED c
       \/ AcceptDue /\ w.child # 0 /\ w' = [w EXCEPT !.pc = "publish"] /\ UNCHANGED c

\* The first section: a refusal retires the worker, no room pauses acceptance,
\* and making the child may fail for want of descriptors, sockets or memory.
PublishCheck ==
    /\ Step("publish")
    /\ UNCHANGED c
    /\ IF PublishRefused(k) THEN Gone(k, "refused")
       ELSE /\ InWorker
            /\ \/ PublishFull(k) /\ w' = [w EXCEPT !.pc = "tx", !.accept = "wait"]
               \/ ~PublishFull(k) /\ w' = [w EXCEPT !.pc = "tx", !.accept = "retry"]
               \/ ~PublishFull(k) /\ w' = [w EXCEPT !.pc = "commit"]

PublishCommit_KeepsChild ==
    /\ Step("commit")
    /\ OnEndpoint
    /\ UNCHANGED c
    /\ IF PublishRefused(k) \/ PublishFull(k)
       THEN w' = [w EXCEPT !.pc = "tx", !.accept = "wait"] /\ UNCHANGED k
       ELSE /\ k' = Published(k, w.child)
            /\ w' = [w EXCEPT !.pc = "tx", !.progress = TRUE]

\* The second section; the child's endpoint is the caller's from here on.
PublishCommit ==
    /\ Step("commit")
    /\ OnEndpoint
    /\ UNCHANGED c
    /\ IF PublishRefused(k) \/ PublishFull(k)
       THEN w' = [w EXCEPT !.pc = "tx", !.accept = "wait"] /\ UNCHANGED k
       ELSE /\ k' = Published(k, w.child)
            /\ w' = [w EXCEPT !.pc = "tx", !.child = 0, !.progress = TRUE]

----------------------------------------------------------------------------
(* poll_data *)

Sealing == w.control.op = "CLOSE" \/ (w.control.op = "SHUTDOWN" /\ "wr" \in w.control.how)
Tcp == w.kind = "tcp"
AtSeal == Sealing /\ w.deq = w.control.arg

\* The transfer of TX records: one while idle, all up to the seal when sealing.
PollTx ==
    /\ w.pc \in {"tx", "more"}
    /\ UNCHANGED c
    /\ IF w.kind = "none" THEN InWorker /\ w' = EndTurn(FALSE)
       ELSE IF Sealing /\ w.deq > w.control.arg THEN Gone(k, "protocol")
       ELSE IF AtSeal \/ (Step("tx") /\ w.pending # <<>> /\ ~(Sealing /\ Tcp))
       THEN InWorker /\ w' = [w EXCEPT !.pc = "send"]
       ELSE IF ~Alive(k) THEN Gone(k, "down")
       ELSE IF k.tx = <<>> THEN InWorker /\ w' = [w EXCEPT !.pc = "send"]
       ELSE LET r == Head(k.tx)
                deq == w.deq + IF Tcp THEN Len(r.data) ELSE 1
            IN  IF Sealing /\ deq > w.control.arg THEN Gone(DataRead(k), "protocol")
                ELSE /\ k' = DataRead(k)
                     /\ w' = [w EXCEPT !.deq = deq, !.pending = Append(@, r), !.progress = TRUE,
                                       !.pc = IF Sealing THEN "more" ELSE "send"]
                     /\ OnEndpoint

\* SendTask::finish: the whole remainder is handed over without waiting for room;
\* the core refuses it only when the connection is over.
FinishSend ==
    /\ Step("send")
    /\ Tcp /\ AtSeal
    /\ c' = [c EXCEPT !.tx = @ \o FlattenSeq([i \in DOMAIN w.pending |-> w.pending[i].data]),
                      !.wclosed = TRUE]
    /\ w' = [w EXCEPT !.pc = "finish", !.pending = <<>>, !.progress = TRUE]
    /\ InWorker

FinishRefused ==
    /\ Step("send")
    /\ Tcp /\ AtSeal
    /\ c.eof /\ w.pending # <<>>
    /\ Gone(k, "core")
    /\ UNCHANGED c

\* SendTask::poll: the core takes some of the first record, none, or fails it;
\* a stream being sealed sends nothing before its seal is reached.
PollSend ==
    /\ Step("send")
    /\ ~(Tcp /\ AtSeal)
    /\ OnEndpoint
    /\ \/ /\ w.pending = <<>> \/ (Tcp /\ Sealing)
          /\ w' = [w EXCEPT !.pc = "finish"]
          /\ UNCHANGED <<k, c>>
       \/ /\ w.pending # <<>> /\ ~(Tcp /\ Sealing)
          /\ LET r == Head(w.pending) IN
             \/ \E n \in IF Tcp THEN 0..Len(r.data) ELSE {0, 1} :
                  /\ n > 0 => ~c.wclosed
                  /\ c' = [c EXCEPT !.tx = @ \o IF Tcp THEN SubSeq(r.data, 1, n)
                                                ELSE IF n = 1 THEN <<r>> ELSE <<>>]
                  /\ w' = [w EXCEPT !.pc = "finish", !.progress = @ \/ n > 0,
                       !.pending = IF n = Len(r.data) THEN Tail(@)
                                   ELSE <<[r EXCEPT !.data = SubSeq(@, n + 1, Len(@))]>> \o Tail(@)]
                  /\ UNCHANGED k
             \/ /\ k' = StateWritten(k, FALSE, TRUE)
                /\ w' = [w EXCEPT !.pc = "finish", !.pending = Tail(@), !.progress = TRUE]
                /\ c' = [c EXCEPT !.lost = TRUE]

\* The pending control completes once everything up to its seal is handed over;
\* a receive shutdown does not wait.
Completes ==
    \/ w.pending = <<>> /\ (Sealing => AtSeal)
    \/ w.control.op = "SHUTDOWN" /\ w.control.how = {"rd"}
FinishControl ==
    /\ Step("finish")
    /\ IF ~Completes \/ w.control.op = "RUNNING"
       THEN w' = [w EXCEPT !.pc = "rx"] /\ InWorker /\ UNCHANGED c
       ELSE IF w.control.op = "CLOSE" THEN Gone(k, "closed") /\ UNCHANGED c
       ELSE \E ok \in BOOLEAN :
              /\ w.kind = "listener" => ~ok
              /\ k' = Replied(k, w.control, ok, FALSE)
              /\ w' = [w EXCEPT !.pc = "rx", !.control = Running, !.progress = TRUE,
                   !.ended = @ \/ (ok /\ "rd" \in w.control.how),
                   !.retained = IF ok /\ "rd" \in w.control.how THEN <<>> ELSE @]
              /\ c' = [c EXCEPT !.wclosed = @ \/ (ok /\ "wr" \in w.control.how)]
              /\ OnEndpoint

\* ReceiveTask::poll: the retained record first; then a core read, or the end.
PollRx ==
    /\ Step("rx")
    /\ OnEndpoint
    /\ IF w.retained # <<>>
       THEN /\ UNCHANGED c
            /\ IF RxBlocked(k) THEN UNCHANGED k /\ w' = [w EXCEPT !.pc = "outcome"]
               ELSE /\ k' = RxWritten(k, w.retained)
                    /\ w' = [w EXCEPT !.pc = "outcome", !.retained = <<>>, !.progress = TRUE]
       ELSE IF w.ended \/ w.kind = "listener" \/ (c.read = c.in /\ ~c.eof)
       THEN UNCHANGED <<k, c>> /\ w' = [w EXCEPT !.pc = "outcome"]
       ELSE IF c.read = c.in
       THEN /\ \E err \in {FALSE, c.err} : k' = StateWritten(k, TRUE, err)
            /\ w' = [w EXCEPT !.pc = "outcome", !.ended = TRUE, !.progress = TRUE]
            /\ UNCHANGED c
       ELSE \E n \in IF Kind = "udp" THEN {1} ELSE 1..(c.in - c.read) :
              LET r == [i \in 1..n |-> c.read + i] IN
              /\ c' = [c EXCEPT !.read = @ + n]
              /\ \/ /\ Kind = "udp" \* an oversized datagram is dropped whole
                    /\ k' = StateWritten(k, FALSE, TRUE)
                    /\ w' = [w EXCEPT !.pc = "outcome", !.progress = TRUE]
                 \/ IF RxBlocked(k)
                    THEN /\ w' = [w EXCEPT !.pc = "outcome", !.retained = r, !.progress = TRUE]
                         /\ UNCHANGED k
                    ELSE k' = RxWritten(k, r) /\ w' = [w EXCEPT !.pc = "outcome", !.progress = TRUE]

\* The outcome of the connection attempt, then the socket's own error.
PollOutcome ==
    /\ Step("outcome")
    /\ OnEndpoint
    /\ LET finished == Tcp /\ w.attempt # 0 /\ c.conn \in {"ok", "failed"} IN
       /\ k' = LET s == IF finished THEN OutcomeWritten(k, w.attempt, c.conn = "ok") ELSE k
               IN  StateWritten(s, FALSE, Tcp /\ c.err /\ ~finished)
       /\ w' = [EndTurn(finished \/ (Tcp /\ c.err)) EXCEPT !.attempt = IF finished THEN 0 ELSE @]
       /\ c' = [c EXCEPT !.err = IF Tcp THEN FALSE ELSE @]

----------------------------------------------------------------------------
(* The core and the network (external) *)

CoreConnects(ok) ==
    /\ c.conn = "pending" /\ w.kind = "tcp"
    /\ c' = [c EXCEPT !.conn = IF ok THEN "ok" ELSE "failed", !.err = ~ok, !.event = TRUE,
                      !.eof = @ \/ ~ok]
    /\ UNCHANGED <<kernelVars, w>>

PeerSends ==
    /\ c.in < MaxRx
    /\ ~c.eof
    /\ (w.kind = "tcp" /\ c.conn = "ok") \/ (w.kind = "udp" /\ k.bound)
    /\ c' = [c EXCEPT !.in = @ + 1, !.event = TRUE]
    /\ UNCHANGED <<kernelVars, w>>

PeerEnds(reset) ==
    /\ MaxRx > 0
    /\ ~c.eof
    /\ w.kind = "tcp" /\ c.conn = "ok"
    /\ c' = [c EXCEPT !.eof = TRUE, !.err = reset, !.event = TRUE]
    /\ UNCHANGED <<kernelVars, w>>

ConnectionArrives ==
    /\ w.kind = "listener"
    /\ c.children < MaxChildren
    /\ c' = [c EXCEPT !.children = @ + 1, !.queue = Append(@, c.children + 1), !.event = TRUE]
    /\ UNCHANGED <<kernelVars, w>>

----------------------------------------------------------------------------
WorkerNext ==
    \/ Claim \/ Turn
    \/ ReadRequest \/ RetireRequest
    \/ HandleOpen \/ HandleAccept \/ HandleTerminal \/ HandleName \/ HandleConnect
    \/ AcceptInfo \/ PublishCheck \/ PublishCommit
    \/ PollTx \/ FinishSend \/ FinishRefused \/ PollSend \/ FinishControl \/ PollRx \/ PollOutcome
CoreNext ==
    \/ \E ok \in BOOLEAN : CoreConnects(ok)
    \/ PeerSends
    \/ \E reset \in BOOLEAN : PeerEnds(reset)
    \/ ConnectionArrives

Next == (AppNext /\ UNCHANGED <<w, c>>) \/ WorkerNext \/ CoreNext
Spec == Init /\ [][Next]_vars

----------------------------------------------------------------------------
(* Properties *)

Stream(records) == FlattenSeq([i \in DOMAIN records |-> records[i].data])
Numbers(n) == [i \in 1..n |-> i]
HandedToCore == IF Kind = "tcp" THEN c.tx ELSE Stream(c.tx)

TypeOK ==
    /\ k.shut \subseteq {"rd", "wr"} /\ k.head <= k.tail /\ k.tail <= MaxTail
    /\ k.attempt.phase \in {"none", "ack", "outcome", "ok", "failed"}
    /\ Len(k.tx) <= TxRoom /\ Len(k.rx) <= RxRoom /\ Len(k.accepted) <= Backlog
    /\ \A t \in Threads : thread[t].pc \in {"user", "gate", "reply", "connect", "attempt", "send"}
    /\ w.kind \in {"none", "tcp", "udp", "listener"} /\ w.deq <= MaxTail
    /\ w.why \in {"none", "closed", "down", "refused", "core", "protocol"}

\* The two halves never disagree about the protocol: in no interleaving of the
\* threads, their interruptions and the worker does the kernel refuse a message of
\* the worker as malformed, unmatched or out of order (EPROTO in SocketEndpoint::write),
\* nor the worker a record of the kernel (a seal behind or beyond the data).
ProtocolAgreement == k.dead # "protocol" /\ w.why # "protocol"

\* No byte or datagram is lost, repeated or reordered on its way through the three
\* owners: what the core holds, then what the worker stages, then what the kernel
\* queues is exactly what the application had admitted (unless the core failed a record).
StreamConserved ==
    Alive(k) /\ w.pc # "gone" /\ ~c.lost =>
        HandedToCore \o Stream(w.pending) \o Stream(k.tx) = Numbers(k.tail)

\* A write shutdown is answered with success, and a close ends the worker, only after
\* everything admitted before the seal was handed to the core.
SealedHandoff ==
    LET sealed == \/ w.why = "closed"
                  \/ \E i \in DOMAIN k.reqs : k.reqs[i].op = "SHUTDOWN" /\ "wr" \in k.reqs[i].how
                                              /\ k.reqs[i].reply = "ok"
    IN  sealed /\ ~c.lost => HandedToCore = Numbers(k.tail)

\* The end of the stream follows the data: once the application can see EOF, all the
\* bytes the core received are read or readable.
EofLast ==
    k.eof /\ Alive(k) /\ ~k.closed /\ "rd" \notin k.shut =>
        k.got + Len(FlattenSeq(k.rx)) = c.in

\* What the core received reaches the application in order and once, across the
\* retained record; a stream also loses nothing (an oversized datagram is dropped).
RxConserved ==
    LET queued == FlattenSeq(k.rx) \o w.retained
    IN  Alive(k) /\ ~k.closed /\ "rd" \notin k.shut /\ w.pc # "gone" =>
            IF Kind = "tcp" THEN queued = [i \in 1..(c.read - k.got) |-> k.got + i]
            ELSE \A i, j \in DOMAIN queued : i < j => queued[i] < queued[j]

\* One request besides OPEN is outstanding, however many threads call: the lane
\* cannot fill up, and a reply cannot be taken for that of another request.
LaneDiscipline ==
    Cardinality({i \in DOMAIN k.reqs : k.reqs[i].op # "OPEN"}) <= 1 /\ Len(k.reqs) <= 2

\* A thread asleep in connect() still owns the attempt it began.
ClaimsOwn ==
    \A t \in Threads : InCall(t, "attempt") /\ Alive(k) => Claimable(k.attempt, thread[t].id)

\* Every connection that reached the listener has one owner: the core's queue, the
\* worker, the listener's accepted list, or it was handed out, in order of arrival.
ChildrenOnce ==
    LET held == k.accepted \o (IF w.child = 0 THEN <<>> ELSE <<w.child>>) \o c.queue
    IN  w.pc # "gone" /\ ~k.closed =>
            held = [i \in 1..Len(held) |-> c.children - Len(held) + i]

\* The provider loop runs and each application thread runs; the storage, descriptors
\* and memory a child needs are not refused for ever.
Fairness ==
    /\ WF_vars(WorkerNext)
    /\ SF_vars(AcceptInfo /\ w'.pc = "publish")
    /\ SF_vars(PublishCheck /\ w'.pc = "commit")
    /\ \A t \in Threads : WF_vars((CallReturn(t) \/ NetDown(t)) /\ UNCHANGED <<w, c>>)
LiveSpec == Spec /\ Fairness

\* A close by the application ends in the release of the endpoint: the worker drains
\* up to the seal and drops its socket, whatever else was queued before.
CloseCompletes == k.closed ~> ~Alive(k)

\* A thread asleep on a dispatched request is woken: by its reply or by the abort.
CallsReturn == \A t \in Threads : InCall(t, "reply") ~> InCall(t, "user")

\* A record the kernel had no room for is published once the application reads,
\* although no traffic of the core wakes the worker (update_poll arms OUT).
RetainedPublished == w.retained # <<>> ~> w.retained = <<>>

\* A waiting connection is published while there is room for it: no room notice is lost.
ConnectionsPublished ==
    (w.kind = "listener" /\ (c.queue # <<>> \/ w.child # 0))
        ~> ((c.queue = <<>> /\ w.child = 0) \/ ~Alive(k))
=============================================================================
