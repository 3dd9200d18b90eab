---------------------------- MODULE Socks5Service ----------------------------
(***************************************************************************)
(* The SOCKS5 front end of the network service (network-service/src/       *)
(* lib.rs): one thread that drives the stack, admits clients from a        *)
(* listener, polls each client's protocol, stages relayed bytes in both    *)
(* directions under two budgets, and sleeps in epoll.                      *)
(*                                                                         *)
(* Bytes are units: the first a host sends is its greeting, the second the *)
(* head of its request, the third the rest of it, the others are data.     *)
(***************************************************************************)
EXTENDS Integers, Sequences, FiniteSets, FiniteSetsExt, SequencesExt

CONSTANTS
    Peers,        \* bound: hosts that ever connect; also the tokens
    Capacity,     \* admission_capacity
    Pending,      \* MAX_SOCKS5_PENDING_BYTES
    Total,        \* MAX_SOCKS5_TOTAL_PENDING_BYTES
    Buffer,       \* the 16 KiB buffer of one read
    WorkBudget,   \* CLIENT_WORK_BUDGET
    Bursts,       \* bound: the numbers of units a host may have sent in all
    RemoteUnits,  \* bound: units each remote sends
    Kinds,        \* request kinds: "v4", "name", "name4" (cut after 4 bytes)
    Racing,       \* bound: whether they move during the work loop too
    Faults        \* whether hosts reset, peers fail and deadlines pass

VARIABLES
    pc,        \* the thread: the step of the loop it is at
    clients,   \* token -> Socks5Client
    host,      \* token -> the host's end of the connection
    stack,     \* token -> the stack's socket and lookup for the client
    backlog,   \* tokens of connections waiting in the listener
    ready,     \* ready_clients
    pending,   \* pending_clients: token -> [events, passes]
    sched,     \* listener_readable, listener_events, admission_retry,
               \* stack_pending, released_client, client_mutated_stack, budget
    net,       \* tokens with a frame waiting; 0: the stack has work of its own
    ended      \* token -> how its client ended and what was lost

vars == <<pc, clients, host, stack, backlog, ready, pending, sched, net, ended>>

Tokens == 1 .. Peers
HostUnits == Max(Bursts)
Live == DOMAIN clients

\* Socks5Client::new; the kernel is given no EPOLLRDHUP, the field says it was.
NewClient ==
    [phase |-> "Greeting", hs |-> 0, out |-> 0, h2r |-> 0, r2h |-> 0, half |-> FALSE,
     registered |-> {"in", "rdhup"}, kernel |-> {"in"}]

NewSocket == [state |-> "none", lookup |-> "none", rx |-> 0, left |-> RemoteUnits, eof |-> FALSE]

Init ==
    /\ pc = "top" /\ clients = <<>> /\ backlog = <<>> /\ ready = <<>> /\ pending = <<>>
    /\ host = [t \in Tokens |-> [state |-> "away", kind |-> "v4", sent |-> 0, got |-> 0, full |-> FALSE]]
    /\ stack = [t \in Tokens |-> NewSocket]
    /\ sched = [readable |-> FALSE, interest |-> TRUE, retry |-> FALSE, stack |-> TRUE,
                released |-> FALSE, mutated |-> FALSE, budget |-> WorkBudget]
    /\ net = {} /\ ended = <<>>

PendingBytes(c) == c.h2r + c.r2h
TotalPending == MapThenSumSet(LAMBDA t : PendingBytes(clients[t]), Live)
Unread(t) == host[t].sent - host[t].got
-----------------------------------------------------------------------------
(* The hosts and the network.  The steps of the loop outside its work and  *)
(* its wait neither read a host nor look at what arrives after the wake-up,*)
(* so what happens during them is taken to happen before or after them.    *)
Outside(t) == pc \in {"wait"} \cup (IF Racing THEN {"work"} ELSE {}) /\ t \notin DOMAIN ended

Connects(t) ==
    /\ Outside(t) /\ host[t].state = "away" /\ \A u \in 1..(t - 1) : host[u].state # "away"
    /\ \E k \in Kinds : host' = [host EXCEPT ![t].state = "open", ![t].kind = k]
    /\ backlog' = Append(backlog, t)
    /\ UNCHANGED <<pc, clients, stack, ready, pending, sched, net, ended>>

HostSends(t) ==
    /\ Outside(t) /\ host[t].state = "open"
    /\ \E n \in Bursts : n > host[t].sent /\ host' = [host EXCEPT ![t].sent = n]
    /\ UNCHANGED <<pc, clients, stack, backlog, ready, pending, sched, net, ended>>

\* The host takes what was written to it.
HostReads(t) ==
    /\ Outside(t) /\ host[t].full /\ host' = [host EXCEPT ![t].full = FALSE]
    /\ UNCHANGED <<pc, clients, stack, backlog, ready, pending, sched, net, ended>>

\* It closes its sending half, or resets the connection.
HostCloses(t) ==
    /\ Outside(t) /\ host[t].state = "open"
    /\ \E s \in {"fin"} \cup (IF Faults THEN {"reset"} ELSE {}) :
          host' = [host EXCEPT ![t].state = s]
    /\ UNCHANGED <<pc, clients, stack, backlog, ready, pending, sched, net, ended>>

\* A frame for the client's lookup, handshake or data reaches the frame socket.
FrameArrives(t) ==
    /\ Outside(t) /\ t \in Live /\ t \notin net
    /\ \/ stack[t].lookup = "asked" \/ stack[t].state = "connecting"
       \/ stack[t].state = "up" /\ ~stack[t].eof
    /\ net' = net \cup {t}
    /\ UNCHANGED <<pc, clients, host, stack, backlog, ready, pending, sched, ended>>
-----------------------------------------------------------------------------
ScheduleAll(q, p, ts, events, passes) ==
    LET new == ts \ DOMAIN p IN
    [queue   |-> q \o SetToSeq(new),
     pending |-> [t \in DOMAIN p \cup ts |->
                     IF t \in new THEN [events |-> events, passes |-> passes]
                     ELSE IF t \in ts THEN [events |-> p[t].events \cup events,
                                            passes |-> Max({p[t].passes, passes})]
                     ELSE p[t]]]

Without(f, t) == [x \in DOMAIN f \ {t} |-> f[x]]

\* close_socks5_client: a lookup is cancelled, the socket dropped.
Closed(s) == [s EXCEPT !.lookup = "none", !.state = "none"]
Ended(t, c, how) ==
    ended @@ (t :> [how |-> how, lost |-> c.r2h + IF stack[t].state = "up" THEN stack[t].rx ELSE 0])

\* What a frame makes of the client's lookup or socket.
Received(s) ==
    IF s.lookup = "asked" THEN {[s EXCEPT !.lookup = "found"]}
                               \cup IF Faults THEN {[s EXCEPT !.lookup = "failed"]} ELSE {}
    ELSE IF s.state = "connecting" THEN {[s EXCEPT !.state = "up"]}
                               \cup IF Faults THEN {[s EXCEPT !.state = "failed"]} ELSE {}
    ELSE IF s.state # "up" THEN {s}
    ELSE IF s.left > 0 THEN {[s EXCEPT !.left = @ - 1, !.rx = @ + 1]}
    ELSE {[s EXCEPT !.eof = TRUE]} \cup IF Faults THEN {[s EXCEPT !.state = "failed"]} ELSE {}

\* The top of the loop: the admission retry, one pass of the stack, and after
\* a productive one every client is scheduled.
DriveStack ==
    /\ pc = "top"
    /\ \E due \in IF sched.retry THEN BOOLEAN ELSE {FALSE} :
       LET worked == sched.stack /\ net # {}
           all == ScheduleAll(ready, pending, IF worked THEN Live ELSE {}, {}, 1)
       IN  /\ IF sched.stack
              THEN \E new \in {f \in [Tokens -> UNION {{stack[t]} \cup Received(stack[t]) : t \in Tokens}] :
                                   \A t \in Tokens : f[t] \in IF t \in net THEN Received(stack[t])
                                                              ELSE {stack[t]}} : stack' = new
              ELSE UNCHANGED stack
           /\ net' = IF sched.stack THEN {} ELSE net
           /\ ready' = all.queue /\ pending' = all.pending
           /\ sched' = [sched EXCEPT !.retry = @ /\ ~due, !.readable = @ \/ due, !.stack = worked]
    /\ pc' = "accept"
    /\ UNCHANGED <<clients, host, backlog, ended>>

\* stop_requested, the deadline, or a failed pass of the stack: the loop ends.
Stop ==
    /\ pc = "top" /\ Faults
    /\ pc' = "stopped" /\ clients' = <<>>
    /\ stack' = [t \in Tokens |-> IF t \in Live THEN Closed(stack[t]) ELSE stack[t]]
    /\ UNCHANGED <<host, backlog, ready, pending, sched, net, ended>>

Accepted ==
    LET t == Head(backlog)
        one == ScheduleAll(ready, pending, {t}, {"in"}, 4)
    IN  /\ backlog # <<>>
        /\ clients' = clients @@ (t :> NewClient) /\ backlog' = Tail(backlog)
        /\ ready' = one.queue /\ pending' = one.pending
        /\ UNCHANGED <<pc, sched>>

\* accept_nonblocking finds nothing, or no descriptor is left.
Refused ==
    /\ \/ backlog = <<>> /\ sched' = [sched EXCEPT !.readable = FALSE]
       \/ Faults /\ sched' = [sched EXCEPT !.readable = FALSE, !.retry = TRUE]
    /\ pc' = "expire" /\ UNCHANGED <<clients, backlog, ready, pending>>

AdmissionClosed == ~sched.readable \/ Cardinality(Live) >= Capacity

Accept ==
    /\ pc = "accept"
    /\ IF AdmissionClosed
       THEN pc' = "expire" /\ UNCHANGED <<clients, backlog, ready, pending, sched>>
       ELSE Accepted \/ Refused
    /\ UNCHANGED <<host, stack, net, ended>>

\* Clients whose idle deadline has passed; their tokens stay in ready_clients.
Expire ==
    /\ pc = "expire" /\ pc' = "work"
    /\ \E gone \in IF Faults THEN SUBSET Live ELSE {{}} :
          /\ clients' = [t \in Live \ gone |-> clients[t]]
          /\ pending' = [t \in DOMAIN pending \ gone |-> pending[t]]
          /\ stack' = [t \in Tokens |-> IF t \in gone THEN Closed(stack[t]) ELSE stack[t]]
          /\ ended' = ended @@ [t \in gone |-> [how |-> "idle", lost |-> 0]]
          /\ sched' = [sched EXCEPT !.released = gone # {}]
    /\ UNCHANGED <<host, backlog, ready, net>>
-----------------------------------------------------------------------------
(* One poll of one client.  A step takes and gives w: the client c, its    *)
(* host h, its socket s, whether it queued stack work, and what it returns:*)
(* "more", "done" or "error".                                              *)
Give(w, how) == [w EXCEPT !.result = how]

\* write_host_once: the reply bytes first, then the relayed ones.
WriteHostOnce(w) ==
    IF w.c.out + w.c.r2h = 0 \/ w.result # "more" THEN w
    ELSE IF w.h.state = "reset" THEN Give(w, "error")
    ELSE IF w.h.full THEN w
    ELSE IF w.c.out > 0 THEN [w EXCEPT !.c.out = 0, !.h.full = TRUE]
    ELSE [w EXCEPT !.c.r2h = 0, !.h.full = TRUE]

\* A read of the host of at most n units into a buffer of the client; done at
\* its end of stream.
ReadHost(w, n, buffer) ==
    LET some == Min({n, w.h.sent - w.h.got}) IN
    IF some > 0 THEN [w EXCEPT !.c[buffer] = @ + some, !.h.got = @ + some]
    ELSE CASE w.h.state = "fin"   -> Give(w, "done")
           [] w.h.state = "reset" -> Give(w, "error")
           [] OTHER               -> w

ReadHostOnce(w) == ReadHost(w, HostUnits, "hs")

Failure(w) == [w EXCEPT !.c.out = 1, !.c.phase = "Closing"]

Greeting(w0) ==
    LET w == ReadHostOnce(w0) IN
    IF w.result # "more" \/ w.c.hs = 0 THEN {w}
    ELSE {[w EXCEPT !.c.hs = @ - 1, !.c.out = 1, !.c.phase = "Request"]}
         \cup IF Faults THEN {Give(w, "error"), Failure(w)} ELSE {}

\* The request is complete: later units were sent ahead and are relayed.
Connect(w) == [w EXCEPT !.c.phase = "Connecting", !.c.h2r = w.c.hs - 2, !.c.hs = 0]
LookUp(w) == [w EXCEPT !.c.phase = "Dns", !.c.h2r = w.c.hs - 2, !.c.hs = 0,
                       !.s.lookup = "asked", !.work = TRUE]

Request(w0) ==
    LET head == IF w0.c.hs = 0 THEN ReadHostOnce(w0) ELSE w0
        rest == IF head.c.hs < 2 THEN ReadHostOnce(head) ELSE head
    IN  IF head.result # "more" \/ head.c.hs = 0 THEN {head}
        ELSE IF head.c.hs = 1 /\ head.h.kind = "name4" THEN {head}
        ELSE IF rest.result # "more" \/ rest.c.hs < 2 THEN {rest}
        ELSE {IF rest.h.kind = "v4" THEN Connect(rest) ELSE LookUp(rest)}
             \cup IF Faults THEN {Give(rest, "error"), Failure(rest)} ELSE {}

Dns(w) ==
    CASE w.s.lookup = "asked"  -> {w}
      [] w.s.lookup = "failed" -> {Failure([w EXCEPT !.s.lookup = "none"])}
      [] OTHER -> {[w EXCEPT !.s.lookup = "none", !.c.phase = "Connecting"]}

Connecting(w) ==
    CASE w.s.state = "none"   -> {[w EXCEPT !.s.state = "connecting", !.work = TRUE]}
                                 \cup IF Faults THEN {Failure(w)} ELSE {}
      [] w.s.state = "up"     -> {[w EXCEPT !.c.out = 1, !.c.phase = "Reply"]}
      [] w.s.state = "failed" -> {Failure(w)}
      [] OTHER                -> {w}

Reply(w) == {IF w.c.out = 0 THEN [w EXCEPT !.c.phase = "Relay"] ELSE w}

Spare(held, remaining) == Min({Max({0, Pending - held}), remaining, Buffer})
\* The stack takes all of it or, its send buffer full, none of it.
WriteRemote(w) ==
    IF w.c.h2r = 0 THEN {w} ELSE {w, [w EXCEPT !.c.h2r = 0, !.work = TRUE]}

ReadRemote_PerClient(w, remaining) ==
    LET some == Min({Spare(w.c.r2h, Buffer), w.s.rx}) IN
    IF w.s.eof /\ w.s.rx = 0 /\ w.c.r2h < Pending THEN [w EXCEPT !.c.phase = "Closing"]
    ELSE [w EXCEPT !.c.r2h = @ + some, !.s.rx = @ - some]
ReadRemote(w, remaining) ==
    LET some == Min({Spare(w.c.r2h, remaining), w.s.rx}) IN
    IF (w.s.rx = 0 /\ ~w.s.eof) \/ w.c.r2h >= Pending \/ remaining = 0 THEN w
    ELSE IF w.s.rx = 0 THEN [w EXCEPT !.c.phase = "Closing"]
    ELSE [w EXCEPT !.c.r2h = @ + some, !.s.rx = @ - some]

Relay(w0, remaining) ==
    LET n == Spare(w0.c.h2r, remaining)
        w == IF n = 0 THEN w0 ELSE ReadHost(w0, n, "h2r")
    IN  IF w.result # "more" THEN {w}
        ELSE IF w.s.state # "up" THEN {Give(w, "error")}
        ELSE {ReadRemote(v, remaining) : v \in WriteRemote(w)}

Closing(w) == {IF w.c.out = 0 /\ w.c.r2h = 0 THEN Give(w, "done") ELSE w}

PollSocks5Client(w0, remaining) ==
    LET w == WriteHostOnce(w0)
        steps == CASE w.result # "more"         -> {w}
                   [] w.c.phase = "Greeting"   -> Greeting(w)
                   [] w.c.phase = "Request"    -> Request(w)
                   [] w.c.phase = "Dns"        -> Dns(w)
                   [] w.c.phase = "Connecting" -> Connecting(w)
                   [] w.c.phase = "Reply"      -> Reply(w)
                   [] w.c.phase = "Relay"      -> Relay(w, remaining)
                   [] w.c.phase = "Closing"    -> Closing(w)
    IN  {WriteHostOnce(v) : v \in steps}
-----------------------------------------------------------------------------
\* The client leaves, polled to its end, failed, or hung up.
Release(t, c, s, how) ==
    /\ clients' = Without(clients, t) /\ stack' = [stack EXCEPT ![t] = Closed(s)]
    /\ ended' = Ended(t, c, how)
    /\ sched' = [sched EXCEPT !.released = TRUE, !.mutated = TRUE, !.budget = @ - 1]

Polled(t, events, passes, rest) ==
    LET c0 == IF "rdhup" \in events THEN [clients[t] EXCEPT !.half = TRUE] ELSE clients[t]
        w0 == [c |-> c0, h |-> host[t], s |-> stack[t], work |-> FALSE, result |-> "more"]
    IN  \E w \in PollSocks5Client(w0, Max({0, Total - TotalPending})) :
          LET again == passes > 1 \/ w.c.phase # c0.phase
              next == ScheduleAll(Tail(ready), rest, IF again THEN {t} ELSE {}, events,
                                  Max({1, passes - 1}))
          IN  /\ host' = [host EXCEPT ![t] = w.h]
              /\ net' = IF w.work THEN net \cup {0} ELSE net
              /\ IF w.result = "more"
                 THEN /\ clients' = [clients EXCEPT ![t] = w.c] /\ stack' = [stack EXCEPT ![t] = w.s]
                      /\ sched' = [sched EXCEPT !.mutated = TRUE, !.budget = @ - 1]
                      /\ ready' = next.queue /\ pending' = next.pending /\ UNCHANGED ended
                 ELSE /\ Release(t, w.c, w.s, w.result)
                      /\ ready' = Tail(ready) /\ pending' = rest

\* One turn of the work loop: a stale token is skipped.
Work ==
    /\ pc = "work" /\ ready # <<>> /\ sched.budget > 0
    /\ LET t == Head(ready)
           rest == Without(pending, t)
       IN  IF t \notin DOMAIN pending \/ t \notin Live
           THEN /\ ready' = Tail(ready) /\ pending' = rest
                /\ sched' = [sched EXCEPT !.budget = @ - 1]
                /\ UNCHANGED <<clients, host, stack, net, ended>>
           ELSE IF pending[t].events \cap {"err"} # {}
           THEN /\ Release(t, clients[t], stack[t], "hangup")
                /\ ready' = Tail(ready) /\ pending' = rest /\ UNCHANGED <<host, net>>
           ELSE Polled(t, pending[t].events, pending[t].passes, rest)
    /\ UNCHANGED <<pc, backlog>>

EpollEvents(c, space) ==
    (IF c.half THEN {} ELSE {"rdhup"})
    \cup (IF \/ c.phase \in {"Greeting", "Request"}
             \/ c.phase = "Relay" /\ space /\ c.h2r < Pending THEN {"in"} ELSE {})
    \cup (IF c.out = 0 /\ c.r2h = 0 THEN {} ELSE {"out"})

WantsAdmission(s) == Cardinality(Live) < Capacity /\ ~s.retry
\* After the work loop: admission may resume, the interests are brought up to
\* date, and the thread sleeps if nothing is left to do.
Update ==
    /\ pc = "work" /\ (ready = <<>> \/ sched.budget = 0)
    /\ LET s == [sched EXCEPT !.stack = @ \/ sched.mutated, !.retry = @ /\ ~sched.released,
                              !.readable = @ \/ sched.released]
           Modified(c) == LET e == EpollEvents(c, TotalPending < Total) IN
                          IF e = c.registered THEN c
                          ELSE [c EXCEPT !.registered = e, !.kernel = e]
       IN  /\ clients' = [t \in Live |-> Modified(clients[t])]
           /\ sched' = [s EXCEPT !.interest = WantsAdmission(s), !.released = FALSE,
                                 !.mutated = FALSE, !.budget = WorkBudget]
           /\ pc' = IF s.stack \/ ready # <<>> THEN "top" ELSE "wait"
    /\ UNCHANGED <<host, stack, backlog, ready, pending, net, ended>>

\* What epoll reports of a client's descriptor.
Reported(t) ==
    (IF "in" \in clients[t].kernel /\ (Unread(t) > 0 \/ host[t].state # "open") THEN {"in"} ELSE {})
    \cup (IF "out" \in clients[t].kernel /\ ~host[t].full THEN {"out"} ELSE {})
    \cup (IF "rdhup" \in clients[t].kernel /\ host[t].state # "open" THEN {"rdhup"} ELSE {})
    \cup (IF host[t].state = "reset" THEN {"err"} ELSE {})

Hot == {t \in Live : Reported(t) # {}}
Acceptable == sched.interest /\ backlog # <<>>

\* epoll_wait returns every ready descriptor.
Wake ==
    /\ pc = "wait" /\ (Hot # {} \/ Acceptable \/ net # {})
    /\ sched' = [sched EXCEPT !.readable = @ \/ Acceptable, !.stack = net # {}]
    /\ ready' = ready \o SetToSeq(Hot)
    /\ pending' = [t \in Hot |-> [events |-> Reported(t), passes |-> 4]]
    /\ pc' = "top"
    /\ UNCHANGED <<clients, host, stack, backlog, net, ended>>

\* It returns nothing: a deadline of a client, of the retry or of the stack.
TimedOut ==
    /\ pc = "wait" /\ Faults /\ (Live # {} \/ sched.retry)
    /\ sched' = [sched EXCEPT !.stack = TRUE] /\ pc' = "top"
    /\ UNCHANGED <<clients, host, stack, backlog, ready, pending, net, ended>>

\* Stopped, or asleep with every host gone quiet.
Quiet ==
    /\ pc = "stopped" \/ pc = "wait"
    /\ UNCHANGED vars

Loop == DriveStack \/ Accept \/ Expire \/ Work \/ Update \/ Wake
Environment ==
    \E t \in Tokens : Connects(t) \/ HostSends(t) \/ HostReads(t) \/ HostCloses(t) \/ FrameArrives(t)

Next == Loop \/ TimedOut \/ Stop \/ Environment \/ Quiet

\* The thread runs, its timers fire, descriptors come back, hosts read, and a
\* client of finitely many units is idle in the end.
Spec ==
    /\ Init /\ [][Next]_vars /\ WF_vars(Loop)
    /\ WF_vars(TimedOut) /\ SF_vars(Accept /\ Accepted)
    /\ SF_vars(DriveStack /\ sched.retry /\ ~sched'.retry)
    /\ \A t \in Tokens : /\ WF_vars(HostReads(t)) /\ WF_vars(FrameArrives(t))
                         /\ SF_vars(Expire /\ t \in Live \ DOMAIN clients')
-----------------------------------------------------------------------------
Phases == {"Greeting", "Request", "Dns", "Connecting", "Reply", "Relay", "Closing"}

\* Every variable has its type, and the loop holds no more than Capacity
\* clients (admission_capacity in serve_socks5_listener).
TypeOK ==
    /\ pc \in {"top", "accept", "expire", "work", "wait", "stopped"}
    /\ Live \subseteq Tokens /\ Cardinality(Live) <= Capacity
    /\ \A t \in Live : clients[t].phase \in Phases /\ clients[t].kernel \subseteq {"in", "out", "rdhup"}
    /\ DOMAIN pending \subseteq Range(ready) /\ net \subseteq 0..Peers

\* A token that is to be polled is queued exactly once, however often its
\* client was scheduled, released or rescheduled (schedule_client and the
\* removals that leave tokens behind in ready_clients).
QueuedOnce ==
    \A t \in DOMAIN pending : Cardinality({i \in DOMAIN ready : ready[i] = t}) = 1

\* What the service stages stays within the aggregate budget, one read past
\* it (both directions of a poll use the same remainder) and the units hosts
\* sent ahead of their connection (aggregate_remaining in poll_socks5_client).
StagingBounded ==
    /\ TotalPending <= Total + Buffer + Capacity * Max({0, HostUnits - 3})
    /\ \A t \in Live : clients[t].r2h <= Pending

\* A transfer that completes at the remote's end of stream has handed every
\* byte the stack had received to the host (Relay and Closing).
CompleteTransfers ==
    \A t \in DOMAIN ended : ended[t].how = "done" /\ host[t].state = "open" => ended[t].lost = 0

\* Every lookup the stack still works on belongs to a client waiting in Dns:
\* whatever ends the client cancels it (close_socks5_client).
LookupsOwned ==
    \A t \in Tokens : stack[t].lookup # "none" => t \in Live /\ clients[t].phase = "Dns"

\* A host that connected is admitted, although the listener's interest is
\* dropped at the capacity and under descriptor pressure (admission_retry).
HostsAdmitted ==
    \A t \in Tokens : (t \in Range(backlog)) ~> (t \notin Range(backlog) \/ pc = "stopped")
=============================================================================
