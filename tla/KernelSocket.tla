---------------------------- MODULE KernelSocket ----------------------------
(***************************************************************************)
(* The kernel half of one Netstack3 application socket: frontend.rs        *)
(* (SocketState under its mutex, the system calls of the application's     *)
(* threads, the endpoint file operations of the provider) and              *)
(* connection.rs (ConnectAttempt).  k is the SocketState; an operator that *)
(* takes and returns such a record is one critical section of its mutex.   *)
(* thread is where each application thread is inside its system call: a    *)
(* thread leaves the mutex only where Socket::wait sleeps.                 *)
(*                                                                         *)
(* A TX or RX record is its bytes, numbered in the order in which they are *)
(* admitted, so that loss, duplication and reordering can be told apart.   *)
(* A datagram is one number with the destination fixed at admission.       *)
(***************************************************************************)
EXTENDS Naturals, Sequences, SequencesExt, FiniteSets

CONSTANTS
    Kind,        \* "tcp" or "udp"
    Child,       \* TRUE: an accepted child, FALSE: a socket() of the application
    Threads,     \* application threads sharing the socket
    Calls,       \* the system calls they make
    Peers,       \* UDP peers, numbers from 1
    Requests,    \* REQUESTS
    TxRoom,      \* TX records the endpoint holds
    RxRoom,      \* RX records the endpoint holds
    Chunk,       \* bytes of the largest stream record
    Backlog,     \* the backlog given to listen()
    MaxTail,     \* bound: bytes (datagrams) the application sends
    MaxRequests, \* bound: requests submitted
    MaxBreaks    \* bound: waits ended by a signal or the deadline

VARIABLES
    k,           \* SocketState
    thread,      \* thread -> its system call
    breaks       \* waits broken so far

kernelVars == <<k, thread, breaks>>

Hows == {{"rd"}, {"wr"}, {"rd", "wr"}}
NoAttempt == [id |-> 0, phase |-> "none", waiter |-> "detached"]
User == [pc |-> "user", op |-> "none", id |-> 0]

NewSocket ==
    [claimed |-> Child, opened |-> Child, connected |-> Child, listening |-> FALSE,
     dead |-> "no", closed |-> FALSE, closeRead |-> FALSE, eof |-> FALSE, err |-> FALSE,
     shut |-> {}, bound |-> Child, peer |-> 0, nextReq |-> 0, reqs |-> <<>>,
     attempt |-> NoAttempt, tx |-> <<>>, tail |-> 0, head |-> 0, rx |-> <<>>, got |-> 0,
     accepted |-> <<>>, space |-> FALSE]

KernelInit ==
    /\ k = NewSocket
    /\ thread = [t \in Threads |-> User]
    /\ breaks = 0

----------------------------------------------------------------------------
(* connection.rs: ConnectAttempt *)

AttemptPending(a) == a.phase \in {"ack", "outcome"}
BlocksReplacement_PendingOnly(a) == AttemptPending(a)

BlocksReplacement(a) == AttemptPending(a) \/ a.waiter = "attached"
BeginAttempt(id, blocking) ==
    [id |-> id, phase |-> "ack", waiter |-> IF blocking THEN "attached" ELSE "detached"]
Acknowledgeable(a, id) == a.id = id /\ a.phase = "ack"
Acknowledged(a, ok) ==
    [a EXCEPT !.phase = IF Kind = "tcp" /\ ok THEN "outcome" ELSE IF ok THEN "ok" ELSE "failed"]
Completable(a, id) == a.id = id /\ a.phase = "outcome"
Completed(a, ok) == [a EXCEPT !.phase = IF ok THEN "ok" ELSE "failed"]
Claimable(a, id) == a.id = id /\ a.waiter = "attached"

----------------------------------------------------------------------------
(* SocketState transitions *)

Alive(s) == s.dead = "no"

\* why is a history: what killed the socket.
Aborted(s, why) ==
    [s EXCEPT !.dead = IF @ = "no" THEN why ELSE @, !.reqs = <<>>, !.tx = <<>>, !.err = TRUE]

CanSubmit(s) == Alive(s) /\ Len(s.reqs) < Requests
Submitted(s, op, how, arg, sync) ==
    [s EXCEPT !.nextReq = @ + 1,
              !.reqs = Append(@, [id |-> s.nextReq + 1, op |-> op, how |-> how, arg |-> arg,
                                  read |-> FALSE, sync |-> sync, reply |-> "none"])]

Opened(s) ==
    IF s.opened THEN s ELSE [Submitted(s, "OPEN", {}, 0, FALSE) EXCEPT !.opened = TRUE]

\* Nothing but OPEN is outstanding: the gate of call(), connect() and activation.
LaneFree(s) == \A i \in DOMAIN s.reqs : s.reqs[i].op = "OPEN"
IndexOf(s, id) == {i \in DOMAIN s.reqs : s.reqs[i].id = id}
Without(s, id) == [s EXCEPT !.reqs = SelectSeq(@, LAMBDA r : r.id # id)]
ReplyTo(s, id) ==
    IF \E i \in IndexOf(s, id) : TRUE THEN s.reqs[CHOOSE i \in IndexOf(s, id) : TRUE].reply
    ELSE "none"

----------------------------------------------------------------------------
(* Application system calls *)

InCall(t, pc) == thread[t].pc = pc
Goes(t, pc, op, id) == thread' = [thread EXCEPT ![t] = [pc |-> pc, op |-> op, id |-> id]]
Returns(t) == thread' = [thread EXCEPT ![t] = User]
Opens == k.opened \/ (CanSubmit(k) /\ k.nextReq < MaxRequests)

\* bind(), listen(), shutdown() and connect() up to the gate: open() has run.
Enter(t, op) ==
    /\ InCall(t, "user")
    /\ ~k.closed
    /\ op \in Calls \cap {"BIND", "LISTEN", "SHUTDOWN", "CONNECT", "NBCONNECT"}
    /\ op = "LISTEN" => Kind = "tcp"
    /\ op = "NBCONNECT" => Kind = "tcp"
    /\ Alive(k)
    /\ Opens
    /\ Opened(k).nextReq < MaxRequests
    /\ k' = Opened(k)
    /\ Goes(t, IF op \in {"CONNECT", "NBCONNECT"} THEN "connect" ELSE "gate", op, 0)
    /\ UNCHANGED breaks

CallSubmit_LateSeal(t) ==
    /\ InCall(t, "gate")
    /\ CanSubmit(k)
    /\ LaneFree(k)
    /\ k.nextReq < MaxRequests
    /\ \E how \in IF thread[t].op = "SHUTDOWN" THEN Hows ELSE {{}} :
         k' = Submitted(k, thread[t].op, how, k.tail, TRUE)
    /\ Goes(t, "reply", thread[t].op, k.nextReq + 1)
    /\ UNCHANGED breaks

\* call(): the lane is free; a shutdown seals the producer in the same section.
CallSubmit(t) ==
    /\ InCall(t, "gate")
    /\ CanSubmit(k)
    /\ LaneFree(k)
    /\ k.nextReq < MaxRequests
    /\ \E how \in IF thread[t].op = "SHUTDOWN" THEN Hows ELSE {{}} :
         k' = [Submitted(k, thread[t].op, how, k.tail, TRUE) EXCEPT !.shut = @ \cup how]
    /\ Goes(t, "reply", thread[t].op, k.nextReq + 1)
    /\ UNCHANGED breaks

CallReturn(t) ==
    /\ InCall(t, "reply")
    /\ Alive(k)
    /\ ReplyTo(k, thread[t].id) # "none"
    /\ k' = Without(k, thread[t].id)
    /\ Returns(t)
    /\ UNCHANGED breaks

\* A wait ended by a signal or the deadline: a committed reply wins (CallReturn),
\* a dispatched request or a seal is ambiguous and revokes, the rest withdraws.
CallBreak(t) ==
    /\ InCall(t, "reply")
    /\ Alive(k)
    /\ ReplyTo(k, thread[t].id) = "none"
    /\ breaks < MaxBreaks
    /\ breaks' = breaks + 1
    /\ k' = IF \E i \in IndexOf(k, thread[t].id) : k.reqs[i].read \/ thread[t].op = "SHUTDOWN"
            THEN Aborted(k, "break")
            ELSE Without(k, thread[t].id)
    /\ Returns(t)

ConnectBegin(t) ==
    /\ InCall(t, "connect")
    /\ Alive(k)
    /\ UNCHANGED breaks
    /\ \/ /\ (k.connected /\ Kind = "tcp") \/ BlocksReplacement(k.attempt)
          /\ Returns(t)
          /\ UNCHANGED k
       \/ /\ ~(k.connected /\ Kind = "tcp")
          /\ ~BlocksReplacement(k.attempt)
          /\ CanSubmit(k)
          /\ LaneFree(k)
          /\ k.nextReq < MaxRequests
          /\ \E p \in IF Kind = "udp" THEN Peers ELSE {0} :
               k' = [Submitted(k, "CONNECT", {}, p, FALSE) EXCEPT
                       !.attempt = BeginAttempt(k.nextReq + 1, thread[t].op = "CONNECT")]
          /\ IF thread[t].op = "CONNECT" THEN Goes(t, "attempt", "CONNECT", k.nextReq + 1)
             ELSE Returns(t)

ConnectClaim(t) ==
    /\ InCall(t, "attempt")
    /\ Alive(k)
    /\ Claimable(k.attempt, thread[t].id)
    /\ ~AttemptPending(k.attempt)
    /\ k' = [k EXCEPT !.attempt.waiter = "detached"]
    /\ Returns(t)
    /\ UNCHANGED breaks

\* finish_wait: an outcome committed before the lock was reacquired wins.
ConnectBreak(t) ==
    /\ InCall(t, "attempt")
    /\ Alive(k)
    /\ Claimable(k.attempt, thread[t].id)
    /\ breaks < MaxBreaks
    /\ breaks' = breaks + 1
    /\ k' = [k EXCEPT !.attempt.waiter = "detached"]
    /\ Returns(t)

\* A waiting thread finds the socket dead: ENETDOWN.
NetDown(t) ==
    /\ ~InCall(t, "user")
    /\ ~Alive(k)
    /\ Returns(t)
    /\ UNCHANGED <<k, breaks>>

\* A thread is interrupted before it submitted anything.
GateBreak(t) ==
    /\ thread[t].pc \in {"gate", "connect", "send"}
    /\ Alive(k)
    /\ breaks < MaxBreaks
    /\ breaks' = breaks + 1
    /\ Returns(t)
    /\ UNCHANGED k

\* send() up to its admission loop: a stream must be connected, a datagram
\* needs a peer; open() runs before the stream's check.
SendEnter(t) ==
    /\ InCall(t, "user")
    /\ "SEND" \in Calls
    /\ ~k.closed
    /\ "wr" \notin k.shut
    /\ Alive(k)
    /\ k.tail < MaxTail
    /\ Kind = "udp" \/ k.connected \/ ~k.opened
    /\ Opens
    /\ k' = Opened(k)
    /\ \E p \in IF Kind = "udp" THEN Peers \cup (IF k.connected THEN {0} ELSE {}) ELSE {0} :
         IF Kind = "udp" \/ k.connected THEN Goes(t, "send", "SEND", p) ELSE UNCHANGED thread
    /\ UNCHANGED breaks

\* The implicit bind of an unbound datagram socket.
SendActivate(t) ==
    /\ InCall(t, "send")
    /\ Kind = "udp"
    /\ Alive(k)
    /\ ~k.bound
    /\ UNCHANGED breaks
    /\ \/ k.err /\ k' = [k EXCEPT !.err = FALSE] /\ Returns(t)
       \/ /\ ~k.err
          /\ LaneFree(k)
          /\ CanSubmit(k)
          /\ k.nextReq < MaxRequests
          /\ k' = Submitted(k, "ACTIVATE", {}, 0, FALSE)
          /\ UNCHANGED thread

\* One record is admitted: its bytes and its destination are fixed here.
SendAdmit(t) ==
    /\ InCall(t, "send")
    /\ Alive(k)
    /\ Kind = "udp" => k.bound
    /\ UNCHANGED breaks
    /\ Returns(t)
    /\ \/ "wr" \in k.shut /\ UNCHANGED k
       \/ /\ "wr" \notin k.shut
          /\ Len(k.tx) < TxRoom
          /\ \E n \in IF Kind = "udp" THEN {1} ELSE 1..Chunk :
               /\ k.tail + n <= MaxTail
               /\ k' = [k EXCEPT
                    !.tx = Append(@, [dest |-> IF Kind = "udp" /\ thread[t].id = 0 THEN k.peer
                                               ELSE thread[t].id,
                                      data |-> [i \in 1..n |-> k.tail + i]]),
                    !.tail = @ + n]

\* recv(): some bytes of the first record, or the error, or the end of the stream.
Recv(t) ==
    /\ InCall(t, "user")
    /\ "RECV" \in Calls
    /\ ~k.closed
    /\ UNCHANGED <<thread, breaks>>
    /\ \/ /\ k.rx # <<>>
          /\ \E n \in 1..Len(Head(k.rx)) :
               /\ Kind = "udp" => n = Len(Head(k.rx))
               /\ k' = [k EXCEPT !.got = @ + n,
                    !.rx = IF n = Len(Head(k.rx)) THEN Tail(k.rx)
                           ELSE <<SubSeq(Head(k.rx), n + 1, Len(Head(k.rx)))>> \o Tail(k.rx)]
       \/ k.rx = <<>> /\ Alive(k) /\ k.err /\ k' = [k EXCEPT !.err = FALSE]

\* accept(): a published child is taken and the provider is told of the room.
Accept(t) ==
    /\ InCall(t, "user")
    /\ "ACCEPT" \in Calls
    /\ ~k.closed
    /\ k.listening
    /\ Alive(k)
    /\ k.accepted # <<>>
    /\ k' = [k EXCEPT !.accepted = Tail(@), !.space = TRUE]
    /\ UNCHANGED <<thread, breaks>>

\* The last file reference is gone, so no thread is inside a system call.
CloseApp ==
    /\ ~k.closed
    /\ \A t \in Threads : InCall(t, "user")
    /\ LET s == [k EXCEPT !.closed = TRUE, !.rx = <<>>, !.shut = @ \cup {"wr"},
                          !.accepted = <<>>]
       IN  k' = IF s.claimed THEN s ELSE Aborted(s, "unclaimed")
    /\ UNCHANGED <<thread, breaks>>

\* The generation is revoked while the socket lives.
AbortGeneration ==
    /\ "REVOKE" \in Calls
    /\ Alive(k)
    /\ k' = Aborted(k, "revoked")
    /\ UNCHANGED <<thread, breaks>>

AppNext ==
    \/ \E t \in Threads :
         \/ \E op \in Calls : Enter(t, op)
         \/ CallSubmit(t) \/ CallReturn(t) \/ CallBreak(t)
         \/ ConnectBegin(t) \/ ConnectClaim(t) \/ ConnectBreak(t)
         \/ NetDown(t) \/ GateBreak(t)
         \/ SendEnter(t) \/ SendActivate(t) \/ SendAdmit(t)
         \/ Recv(t) \/ Accept(t)
    \/ CloseApp
    \/ AbortGeneration

----------------------------------------------------------------------------
(* Endpoint file operations of the provider *)

\* Level-triggered readiness of the endpoint.
PollErr(s) == ~Alive(s)
PollIn(s) ==
    \/ \E i \in DOMAIN s.reqs : ~s.reqs[i].read
    \/ s.space
    \/ s.tx # <<>>
    \/ s.closed /\ ~s.closeRead
PollOut(s) == Len(s.rx) < RxRoom

\* READ_CONTROL: unread requests first, then the room notice, then the close.
Unread(s) == {i \in DOMAIN s.reqs : ~s.reqs[i].read}
Control(s) ==
    IF ~Alive(s) THEN [op |-> "DOWN", id |-> 0, how |-> {}, arg |-> 0]
    ELSE IF Unread(s) # {}
    THEN LET r == s.reqs[CHOOSE i \in Unread(s) : \A j \in Unread(s) : i <= j]
         IN  [op |-> r.op, id |-> r.id, how |-> r.how, arg |-> r.arg]
    ELSE IF s.space THEN [op |-> "ACCEPT", id |-> 0, how |-> {}, arg |-> 0]
    ELSE IF s.closed /\ ~s.closeRead THEN [op |-> "CLOSE", id |-> 0, how |-> {}, arg |-> s.tail]
    ELSE [op |-> "EAGAIN", id |-> 0, how |-> {}, arg |-> 0]

ControlRead(s) ==
    CASE Control(s).op = "ACCEPT" -> [s EXCEPT !.space = FALSE]
      [] Control(s).op = "CLOSE" -> [s EXCEPT !.closeRead = TRUE]
      [] Control(s).id # 0 -> [s EXCEPT !.reqs = [i \in DOMAIN @ |->
             IF @[i].id = Control(s).id THEN [@[i] EXCEPT !.read = TRUE] ELSE @[i]]]
      [] OTHER -> s

\* read(): the first TX record.
DataRead(s) ==
    [s EXCEPT !.tx = Tail(@), !.head = @ + IF Kind = "tcp" THEN Len(Head(s.tx).data) ELSE 1]

\* write(RX): EAGAIN when full is the caller's; a closed reader's record vanishes.
RxWritten(s, record) ==
    IF ~Alive(s) \/ "rd" \in s.shut \/ s.closed THEN s ELSE [s EXCEPT !.rx = Append(@, record)]
RxBlocked(s) == Alive(s) /\ Len(s.rx) >= RxRoom

\* write(STATE).
StateWritten(s, eof, err) ==
    IF ~Alive(s) THEN s ELSE [s EXCEPT !.eof = @ \/ eof, !.err = @ \/ err]

\* write(CONNECTION): the retained outcome of the attempt it names.
OutcomeWritten(s, id, ok) ==
    IF ~Alive(s) THEN s
    ELSE IF ~Completable(s.attempt, id) THEN Aborted(s, "protocol")
    ELSE [s EXCEPT !.attempt = Completed(@, ok), !.connected = @ \/ ok, !.err = @ \/ ~ok,
                   !.bound = @ \/ ok]

\* A reply must match a request that was read, is not yet answered and has no
\* unanswered predecessor; a shutdown must have drained its seal.
ReplyMatches(s, m) ==
    \E i \in IndexOf(s, m.id) :
        /\ s.reqs[i].read
        /\ s.reqs[i].op = m.op
        /\ s.reqs[i].reply = "none"
        /\ \A j \in 1..(i - 1) : s.reqs[j].reply # "none"
ReplyValid(s, m, ok) ==
    /\ ok /\ m.op = "SHUTDOWN" /\ "wr" \in m.how => s.head = m.arg
    /\ m.op = "CONNECT" => Acknowledgeable(s.attempt, m.id)

\* local: the committed local address has a port.
Committed(s, m, ok, local) ==
    [s EXCEPT
        !.attempt = IF m.op = "CONNECT" THEN Acknowledged(@, ok) ELSE @,
        !.connected = IF m.op = "CONNECT" /\ Kind = "udp" THEN ok ELSE @,
        !.peer = IF m.op = "CONNECT" /\ ok THEN m.arg ELSE @,
        !.bound = IF ok /\ m.op # "SHUTDOWN" THEN local ELSE @,
        !.listening = @ \/ (ok /\ m.op = "LISTEN"),
        !.space = @ \/ (ok /\ m.op = "LISTEN")]

Retired(s, m, ok) ==
    IF \E i \in IndexOf(s, m.id) : s.reqs[i].sync
    THEN [s EXCEPT !.reqs = [i \in DOMAIN @ |->
            IF @[i].id = m.id THEN [@[i] EXCEPT !.reply = IF ok THEN "ok" ELSE "err"] ELSE @[i]]]
    ELSE [Without(s, m.id) EXCEPT !.err = @ \/ ~ok]

Replied(s, m, ok, local) ==
    IF ~Alive(s) THEN s
    ELSE IF ~ReplyMatches(s, m) \/ ~ReplyValid(s, m, ok) THEN Aborted(s, "protocol")
    ELSE IF m.op \in {"OPEN", "SHUTDOWN"} /\ ~ok THEN Aborted(Committed(s, m, ok, local), "refused")
    ELSE Retired(Committed(s, m, ok, local), m, ok)

\* PUBLISH_ACCEPT: checked before the child is made and again before it is queued.
PublishRefused(s) == ~Alive(s) \/ s.closed \/ ~s.listening
PublishFull(s) == Len(s.accepted) >= Backlog
Published(s, child) == [s EXCEPT !.accepted = Append(@, child)]

\* The endpoint file is released.
Released(s) == Aborted(s, "released")

=============================================================================
