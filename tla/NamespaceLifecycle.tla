------------------------- MODULE NamespaceLifecycle -------------------------
(***************************************************************************)
(* The generations of a network namespace: the kernel's broker             *)
(* (rust-abi5/namespace.rs), the creation of a socket on a generation      *)
(* (frontend.rs, Namespace::socket), and the process that spawns and reaps *)
(* one worker for each generation (run_namespace_supervisor).              *)
(*                                                                         *)
(* Two kinds of mutex protect the kernel's state: the broker's registry,   *)
(* and one lifecycle state for each namespace. Whoever stops generations   *)
(* holds the registry throughout, and the state of the namespace it is at  *)
(* while it also waits for that namespace's socket registry: "stop" is     *)
(* that critical section. A critical section without a wait is one action. *)
(***************************************************************************)
EXTENDS Naturals, SequencesExt

CONSTANTS
    Namespaces,     \* native network namespaces
    Explicit,       \* the ones a provider registers for itself
    Threads,        \* tasks that create a socket
    Callers,        \* tasks that issue an interface request (an ioctl)
    MaxRegistered,  \* MAX_NAMESPACES
    MaxControls,    \* MAX_CONTROLS
    MaxGen          \* bound: generations of one namespace

VARIABLES
    ns,       \* Lifecycle: owner, phase, generation, live, controls
    broker,   \* Registry: connected, namespaces
    stop,     \* the critical section of fail, revoke and Provisioner::release
    sock,     \* per namespace: who holds the socket registry, the undead sockets
    thread,   \* Namespace::socket
    ctl,      \* Control, one for each caller
    workers,  \* worker processes, by <<namespace, generation>>
    sup       \* run_namespace_supervisor: where it is, its children

vars == <<ns, broker, stop, sock, thread, ctl, workers, sup>>

Free == [pc |-> "free", todo |-> <<>>, gen |-> 0, dead |-> FALSE]
Idle == [pc |-> "idle", n |-> CHOOSE n \in Namespaces : TRUE, g |-> 0]
NoCall == [pc |-> "idle", n |-> Idle.n, g |-> 0, claimed |-> 0, read |-> FALSE, reply |-> "none",
           by |-> 0]
Away == [pc |-> "off", n |-> Idle.n, g |-> 0, children |-> {}]

Init ==
    /\ ns = [n \in Namespaces |-> [owner |-> "Unassigned", phase |-> "Idle", gen |-> 0, live |-> 0,
                                   controls |-> <<>>]]
    /\ broker = [connected |-> FALSE, namespaces |-> <<>>]
    /\ stop = Free
    /\ sock = [n \in Namespaces |-> [lock |-> "free", gens |-> {}]]
    /\ thread = [t \in Threads |-> Idle]
    /\ ctl = [c \in Callers |-> NoCall]
    /\ workers = {}
    /\ sup = Away

BrokerFree == stop.pc = "free"
StateFree(n) == ~(stop.pc = "abort" /\ Head(stop.todo) = n)

----------------------------------------------------------------------------
(* Stopping a generation *)

Cancelled(cs) ==
    [c \in Callers |-> IF c \in cs /\ ctl[c].reply = "none" THEN [ctl[c] EXCEPT !.reply = "err"]
                       ELSE ctl[c]]

\* Lifecycle::stop: the generation is dead to everyone who tests it, and every
\* interface request it holds is cancelled.
Stop(n, dead) ==
    /\ ns' = [ns EXCEPT ![n].live = 0, ![n].phase = IF dead THEN "Dead" ELSE "Idle",
                        ![n].controls = <<>>]
    /\ ctl' = Cancelled(ToSet(ns[n].controls))

Fail_AnyGeneration(n, g) ==
    /\ BrokerFree
    /\ IF ns[n].phase \in {"Dead", "Idle"}
       THEN UNCHANGED <<ns, ctl, stop>>
       ELSE /\ Stop(n, FALSE)
            /\ stop' = [pc |-> "abort", todo |-> <<n>>, gen |-> g, dead |-> FALSE]

\* fail(): nothing unless this generation is still the namespace's.
Fail(n, g) ==
    /\ BrokerFree
    /\ IF ns[n].gen # g \/ ns[n].phase \in {"Dead", "Idle"}
       THEN UNCHANGED <<ns, ctl, stop>>
       ELSE /\ Stop(n, FALSE)
            /\ stop' = [pc |-> "abort", todo |-> <<n>>, gen |-> g, dead |-> FALSE]

\* abort_generation, behind the socket registry; then the registry entry goes.
AbortGeneration ==
    /\ stop.pc = "abort"
    /\ LET n == Head(stop.todo) IN
         /\ sock[n].lock = "free"
         /\ sock' = [sock EXCEPT ![n].gens = {}]
         /\ broker' = [broker EXCEPT !.namespaces = SelectSeq(@, LAMBDA x : x # n)]
         /\ stop' = IF Len(stop.todo) = 1 THEN Free
                    ELSE [stop EXCEPT !.pc = "next", !.todo = Tail(@)]
    /\ UNCHANGED <<ns, thread, ctl, workers, sup>>

\* Provisioner::release goes on to the next namespace.
StopNext ==
    /\ stop.pc = "next"
    /\ Stop(Head(stop.todo), FALSE)
    /\ stop' = [stop EXCEPT !.pc = "abort"]
    /\ UNCHANGED <<broker, sock, thread, workers, sup>>

\* Broker::revoke: the native namespace is being torn down.
Revoke(n) ==
    /\ BrokerFree
    /\ ns[n].phase # "Dead"
    /\ Stop(n, TRUE)
    /\ stop' = [pc |-> "abort", todo |-> <<n>>, gen |-> 0, dead |-> TRUE]
    /\ UNCHANGED <<broker, sock, thread, workers, sup>>

----------------------------------------------------------------------------
(* Broker::register, Broker::ensure and Namespace::socket *)

Register(n) ==
    /\ BrokerFree
    /\ n \in Explicit
    /\ ns[n].phase = "Idle" /\ ns[n].owner # "Lazy"
    /\ ns[n].gen < MaxGen
    /\ LET g == ns[n].gen + 1 IN
         /\ ns' = [ns EXCEPT ![n].owner = "Explicit", ![n].gen = g, ![n].phase = "Serving",
                             ![n].live = g]
         /\ workers' = workers \union {<<n, g>>}
    /\ UNCHANGED <<broker, stop, sock, thread, ctl, sup>>

Goes(t, pc, n, g) == thread' = [thread EXCEPT ![t] = [pc |-> pc, n |-> n, g |-> g]]
Fails(t) == thread' = [thread EXCEPT ![t] = Idle]

\* The first section of ensure: a ready generation, one already on its way, or a new one.
Ensure(t, n) ==
    /\ BrokerFree
    /\ thread[t].pc = "idle"
    /\ \/ ns[n].phase = "Ready" /\ Goes(t, "have", n, ns[n].gen) /\ UNCHANGED <<ns, broker>>
       \/ ns[n].phase \in {"Pending", "Serving"} /\ Goes(t, "wait", n, ns[n].gen)
          /\ UNCHANGED <<ns, broker>>
       \/ /\ ns[n].phase = "Idle" /\ ns[n].owner # "Explicit" /\ broker.connected
          /\ Len(broker.namespaces) < MaxRegistered
          /\ ns[n].gen < MaxGen
          /\ broker' = [broker EXCEPT !.namespaces = Append(@, n)]
          /\ ns' = [ns EXCEPT ![n].owner = "Lazy", ![n].gen = @ + 1, ![n].phase = "Pending"]
          /\ Goes(t, "wait", n, ns[n].gen + 1)
    /\ UNCHANGED <<stop, sock, ctl, workers, sup>>

\* The loop of ensure under the state: it returns the generation or that it ended.
EnsureWait(t) ==
    LET n == thread[t].n IN
    /\ thread[t].pc = "wait"
    /\ StateFree(n)
    /\ \/ /\ ns[n].gen = thread[t].g /\ ns[n].phase = "Ready"
          /\ Goes(t, "have", n, thread[t].g)
       \/ (ns[n].gen # thread[t].g \/ ns[n].phase \in {"Idle", "Dead"}) /\ Fails(t)
    /\ UNCHANGED <<ns, broker, stop, sock, ctl, workers, sup>>

EnsureInterrupted(t) ==
    /\ thread[t].pc = "wait" /\ StateFree(thread[t].n)
    /\ Fails(t)
    /\ UNCHANGED <<ns, broker, stop, sock, ctl, workers, sup>>

\* The deadline passed with the generation still on its way; the state is released
\* before fail() takes both locks.
EnsureTimeout(t) ==
    LET n == thread[t].n IN
    /\ thread[t].pc = "wait" /\ StateFree(n)
    /\ ns[n].gen = thread[t].g /\ ns[n].phase \in {"Pending", "Serving"}
    /\ Goes(t, "expired", n, thread[t].g)
    /\ UNCHANGED <<ns, broker, stop, sock, ctl, workers, sup>>
EnsureFail(t) ==
    /\ thread[t].pc = "expired"
    /\ Fail(thread[t].n, thread[t].g)
    /\ Fails(t)
    /\ UNCHANGED <<broker, sock, workers, sup>>

\* Namespace::socket: the generation may have ended since; the test and the
\* insertion are under the socket registry, but not under the lifecycle's state.
SocketEnter(t) ==
    LET n == thread[t].n IN
    /\ thread[t].pc = "have"
    /\ sock[n].lock = "free"
    /\ IF ns[n].live # thread[t].g THEN Fails(t) /\ UNCHANGED sock
       ELSE Goes(t, "create", n, thread[t].g) /\ sock' = [sock EXCEPT ![n].lock = "held"]
    /\ UNCHANGED <<ns, broker, stop, ctl, workers, sup>>
SocketInsert(t) ==
    LET n == thread[t].n IN
    /\ thread[t].pc = "create"
    /\ sock' = [sock EXCEPT ![n].lock = "free", ![n].gens = @ \union {thread[t].g}]
    /\ Fails(t)
    /\ UNCHANGED <<ns, broker, stop, ctl, workers, sup>>

----------------------------------------------------------------------------
(* Interface requests: Lifecycle::control and the Control endpoint *)

Submit(c, n, g) ==
    /\ ctl[c].pc = "idle" /\ ctl[c].claimed = 0
    /\ StateFree(n)
    /\ ns[n].live = g /\ ns[n].phase = "Ready" /\ Len(ns[n].controls) < MaxControls
    /\ ns' = [ns EXCEPT ![n].controls = Append(@, c)]
    /\ ctl' = [ctl EXCEPT ![c] = [NoCall EXCEPT !.pc = "wait", !.n = n, !.g = g]]
    /\ UNCHANGED <<broker, stop, sock, thread, workers, sup>>

\* Control::wait ends with a reply, or makes one: a timeout or a signal.
WaitEnds(c) ==
    /\ ctl[c].pc = "wait"
    /\ ctl' = [ctl EXCEPT ![c].pc = "leave", ![c].reply = IF @ = "none" THEN "err" ELSE @]
    /\ UNCHANGED <<ns, broker, stop, sock, thread, workers, sup>>
Leave(c) ==
    /\ ctl[c].pc = "leave" /\ StateFree(ctl[c].n)
    /\ ns' = [ns EXCEPT ![ctl[c].n].controls = SelectSeq(@, LAMBDA x : x # c)]
    /\ ctl' = [ctl EXCEPT ![c].pc = "idle"]
    /\ UNCHANGED <<broker, stop, sock, thread, workers, sup>>

\* CLAIM_CONTROL, on the provider of a generation: the first request nobody claimed.
ClaimControl(w) ==
    LET n == w[1]
        open == SelectSeq(ns[n].controls, LAMBDA c : ctl[c].claimed = 0 /\ ctl[c].reply = "none")
    IN  /\ StateFree(n)
        /\ ns[n].live = w[2]
        /\ open # <<>>
        /\ ctl' = [ctl EXCEPT ![Head(open)].claimed = w[2]]
        /\ UNCHANGED <<ns, broker, stop, sock, thread, workers, sup>>

Holds(w, c) == ctl[c].n = w[1] /\ ctl[c].claimed = w[2]

\* serve(): the request is read unless its caller left, answered unless the caller
\* left meanwhile; closing the file cancels what is not answered.
ReadControl(w, c) ==
    /\ Holds(w, c) /\ ~ctl[c].read
    /\ ctl' = [ctl EXCEPT ![c].read = ctl[c].reply = "none",
                          ![c].claimed = IF ctl[c].reply = "none" THEN @ ELSE 0]
    /\ UNCHANGED <<ns, broker, stop, sock, thread, workers, sup>>
WriteControl(w, c) ==
    /\ Holds(w, c) /\ ctl[c].read
    /\ \E ok \in BOOLEAN :
         ctl' = [ctl EXCEPT ![c] = IF @.reply = "none"
                   THEN [@ EXCEPT !.reply = IF ok THEN "ok" ELSE "err", !.by = w[2], !.claimed = 0,
                                  !.read = FALSE]
                   ELSE [@ EXCEPT !.claimed = 0, !.read = FALSE]]
    /\ UNCHANGED <<ns, broker, stop, sock, thread, workers, sup>>

----------------------------------------------------------------------------
(* The worker of a generation *)

Ready(w) ==
    /\ StateFree(w[1])
    /\ ns[w[1]].live = w[2] /\ ns[w[1]].phase = "Serving"
    /\ ns' = [ns EXCEPT ![w[1]].phase = "Ready"]
    /\ UNCHANGED <<broker, stop, sock, thread, ctl, workers, sup>>

\* The process ends, by itself or killed: its files close, the requests it holds
\* first, and its Provider's release ends the generation.
Dropped(w) == {c \in Callers : Holds(w, c)}
WorkerExit(w) ==
    /\ Dropped(w) = {}
    /\ workers' = workers \ {w}
    /\ Fail(w[1], w[2])
    /\ UNCHANGED <<broker, sock, thread, sup>>
WorkerDrops(w) ==
    /\ Dropped(w) # {}
    /\ ctl' = [c \in Callers |-> IF c \in Dropped(w)
                 THEN [Cancelled({c})[c] EXCEPT !.claimed = 0, !.read = FALSE] ELSE ctl[c]]
    /\ UNCHANGED <<ns, broker, stop, sock, thread, workers, sup>>

----------------------------------------------------------------------------
(* run_namespace_supervisor, with the Provisioner and the Monitors it owns *)

SupAt(pc) == sup.pc = pc
SupGoes(pc, n, g) == sup' = [sup EXCEPT !.pc = pc, !.n = n, !.g = g]
SupLoop == sup' = [sup EXCEPT !.pc = "loop", !.n = Idle.n, !.g = 0]

Open ==
    /\ SupAt("off") /\ BrokerFree /\ ~broker.connected
    /\ broker' = [broker EXCEPT !.connected = TRUE]
    /\ SupLoop
    /\ UNCHANGED <<ns, stop, sock, thread, ctl, workers>>

\* A monitor hung up or a child exited: the NamespaceProcess is dropped, which
\* revokes the generation first and then kills and reaps the process.
ReapRevoke(w) ==
    /\ SupAt("loop") /\ w \in sup.children
    /\ ns[w[1]].live # w[2] \/ w \notin workers
    /\ Fail(w[1], w[2])
    /\ SupGoes("kill", w[1], w[2])
    /\ UNCHANGED <<broker, sock, thread, workers>>
ReapKill ==
    LET w == <<sup.n, sup.g>> IN
    /\ SupAt("kill")
    /\ w \notin workers
    /\ sup' = [sup EXCEPT !.pc = "loop", !.n = Idle.n, !.g = 0, !.children = @ \ {w}]
    /\ UNCHANGED <<ns, broker, stop, sock, thread, ctl, workers>>

\* Provisioner CLAIM: the first pending namespace becomes live.
Claim ==
    LET pending == SelectSeq(broker.namespaces, LAMBDA n : ns[n].phase = "Pending") IN
    /\ SupAt("loop") /\ BrokerFree
    /\ pending # <<>>
    /\ ns' = [ns EXCEPT ![Head(pending)].live = ns[Head(pending)].gen,
                        ![Head(pending)].phase = "Serving"]
    /\ SupGoes("install", Head(pending), ns[Head(pending)].gen)
    /\ UNCHANGED <<broker, stop, sock, thread, ctl, workers>>

\* The two files are installed, or that fails and the supervisor gives up.
Install ==
    /\ SupAt("install")
    /\ \/ SupGoes("spawn", sup.n, sup.g) /\ UNCHANGED <<ns, ctl, stop>>
       \/ Fail(sup.n, sup.g) /\ sup' = [sup EXCEPT !.pc = "exit", !.n = Idle.n, !.g = 0]
    /\ UNCHANGED <<broker, sock, thread, workers>>

\* The worker is spawned and supervised; or it is not spawned; or it cannot be
\* supervised, is killed at once, and the supervisor gives up.
Spawn ==
    /\ SupAt("spawn")
    /\ \/ /\ workers' = workers \union {<<sup.n, sup.g>>}
          /\ sup' = [sup EXCEPT !.pc = "loop", !.n = Idle.n, !.g = 0,
                                !.children = @ \union {<<sup.n, sup.g>>}]
          /\ UNCHANGED <<ns, ctl, stop>>
       \/ Fail(sup.n, sup.g) /\ SupLoop /\ UNCHANGED workers
       \/ Fail(sup.n, sup.g) /\ sup' = [sup EXCEPT !.pc = "exit", !.n = Idle.n, !.g = 0]
          /\ UNCHANGED workers
    /\ UNCHANGED <<broker, sock, thread>>

\* The supervisor dies: every monitor it holds closes (release is fail()), ...
Dies ==
    /\ sup.pc \in {"loop", "kill"}
    /\ sup' = [sup EXCEPT !.pc = "exit", !.n = Idle.n, !.g = 0]
    /\ UNCHANGED <<ns, broker, stop, sock, thread, ctl, workers>>
CloseMonitor(w) ==
    /\ SupAt("exit") /\ w \in sup.children
    /\ Fail(w[1], w[2])
    /\ sup' = [sup EXCEPT !.children = @ \ {w}]
    /\ UNCHANGED <<broker, sock, thread, workers>>
ProvisionerRelease_Connected ==
    /\ SupAt("exit") /\ BrokerFree /\ sup.children = {}
    /\ UNCHANGED broker
    /\ stop' = IF broker.namespaces = <<>> THEN Free
               ELSE [pc |-> "next", todo |-> broker.namespaces, gen |-> 0, dead |-> FALSE]
    /\ sup' = Away
    /\ UNCHANGED <<ns, sock, thread, ctl, workers>>

\* ... and so does the Provisioner, which ends every lazily owned generation.
ProvisionerRelease ==
    /\ SupAt("exit") /\ BrokerFree /\ sup.children = {}
    /\ broker' = [broker EXCEPT !.connected = FALSE]
    /\ stop' = IF broker.namespaces = <<>> THEN Free
               ELSE [pc |-> "next", todo |-> broker.namespaces, gen |-> 0, dead |-> FALSE]
    /\ sup' = Away
    /\ UNCHANGED <<ns, sock, thread, ctl, workers>>

SupNext ==
    \/ \E w \in sup.children : ReapRevoke(w)
    \/ ReapKill \/ Claim \/ Install \/ Spawn \/ ProvisionerRelease
    \/ \E w \in sup.children : CloseMonitor(w)

Next ==
    \/ AbortGeneration \/ StopNext
    \/ \E n \in Namespaces : Revoke(n) \/ Register(n)
    \/ \E t \in Threads, n \in Namespaces : Ensure(t, n)
    \/ \E t \in Threads : \/ EnsureWait(t) \/ EnsureInterrupted(t) \/ EnsureTimeout(t)
                          \/ EnsureFail(t) \/ SocketEnter(t) \/ SocketInsert(t)
    \/ \E c \in Callers, n \in Namespaces, g \in 1..MaxGen : Submit(c, n, g)
    \/ \E c \in Callers : WaitEnds(c) \/ Leave(c)
    \/ \E w \in workers : \/ Ready(w) \/ ClaimControl(w) \/ WorkerExit(w) \/ WorkerDrops(w)
                          \/ \E c \in Callers : ReadControl(w, c) \/ WriteControl(w, c)
    \/ Open \/ Dies \/ SupNext

Spec == Init /\ [][Next]_vars

----------------------------------------------------------------------------
(* Properties *)

TypeOK ==
    /\ ns \in [Namespaces -> [owner : {"Unassigned", "Explicit", "Lazy"},
                              phase : {"Idle", "Pending", "Serving", "Ready", "Dead"},
                              gen : 0..MaxGen, live : 0..MaxGen, controls : Seq(Callers)]]
    /\ \A n \in Namespaces : Len(ns[n].controls) <= MaxControls
    /\ broker.namespaces \in Seq(Namespaces) /\ Len(broker.namespaces) <= MaxRegistered
    /\ workers \subseteq (Namespaces \X (1..MaxGen)) /\ sup.children \subseteq (Namespaces \X (1..MaxGen))

\* The atomic "live", which sockets and endpoints test without a lock, agrees with the
\* phase: exactly the serving and ready phases have a live generation, the latest.
LiveAgrees ==
    \A n \in Namespaces :
        ns[n].live = IF ns[n].phase \in {"Serving", "Ready"} THEN ns[n].gen ELSE 0

\* The broker's registry holds, once each, exactly the namespaces with a lazily owned
\* generation under way: no entry leaks (the registry is bounded) and none is missed
\* when the provisioner goes.
RegistryExact ==
    BrokerFree =>
        /\ ToSet(broker.namespaces) =
              {n \in Namespaces : ns[n].owner = "Lazy" /\ ns[n].phase \in {"Pending", "Serving", "Ready"}}
        /\ IsInjective(broker.namespaces)

\* A stale provider, monitor or timed-out task never ends a later generation than its own.
StopsOwnGeneration == stop.pc = "abort" /\ stop.gen # 0 => ns[Head(stop.todo)].gen = stop.gen

\* Once a generation is stopped no undead socket of it remains, although a socket is
\* created without the lifecycle's state: the creation that races the stop is aborted.
SocketsCurrent ==
    \A n \in Namespaces : StateFree(n) => sock[n].gens \subseteq {ns[n].live} \ {0}

\* A task that waits for an interface reply waits on the generation that is ready to
\* give it, and a reply comes from a worker of that generation only.
ControlsOwned ==
    \A c \in Callers :
        /\ ctl[c].pc = "wait" /\ ctl[c].reply = "none" =>
              c \in ToSet(ns[ctl[c].n].controls) /\ ns[ctl[c].n].live = ctl[c].g
        /\ ctl[c].by # 0 => ctl[c].by = ctl[c].g

\* The supervisor's loop runs, a critical section ends, a killed process exits.
Fairness ==
    /\ WF_vars(SupNext) /\ WF_vars(AbortGeneration) /\ WF_vars(StopNext)
    /\ \A t \in Threads : WF_vars(SocketInsert(t))
    /\ WF_vars(SupAt("kill") /\ <<sup.n, sup.g>> \in workers
               /\ (WorkerExit(<<sup.n, sup.g>>) \/ WorkerDrops(<<sup.n, sup.g>>)))
LiveSpec == Spec /\ Fairness

\* A requested generation does not stay pending: it is claimed, or stopped with its
\* provisioner. (The tasks that wait for it have a deadline besides.)
PendingServed == \A n \in Namespaces : ns[n].phase = "Pending" ~> ns[n].phase # "Pending"

\* A worker whose generation ended is reaped, whether or not it exits by itself.
ChildrenReaped ==
    \A n \in Namespaces, g \in 1..MaxGen :
        (<<n, g>> \in sup.children /\ ns[n].live # g) ~> (<<n, g>> \notin sup.children)
=============================================================================
