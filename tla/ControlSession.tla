--------------------------- MODULE ControlSession ---------------------------
(***************************************************************************)
(* One generation of the control channel, seen from the policy process     *)
(* (wlancfg-service/src/lib.rs): callers submit commands, the I/O owner    *)
(* thread numbers and sends them, correlates replies and events, and ends  *)
(* the generation.  The peer is the Wi-Fi control service reduced to the   *)
(* order of its packets (WifiControl models it in full).                   *)
(***************************************************************************)
EXTENDS Integers, Sequences, FiniteSets, SequencesExt

CONSTANTS
    Used,         \* the kinds of command the callers use
    MaxCommands,  \* bound: commands submitted
    MaxStreams,   \* bound: event streams taken
    Limit,        \* QUEUE_PACKETS: of the command channel and of pending
    MaxEvents     \* bound: events of the peer

Kinds == {"Connect", "Disconnect", "Scan", "PowerSave", "Roam"}

Commands == 1 .. MaxCommands

VARIABLES
    caller,    \* per command: kind, whether its receiver is dropped, result
    pc,        \* the policy thread: "idle", "gone", "stream" inside
               \* take_event_stream, or the kind of a command inside submit
    queue,     \* commands in the sync_channel
    terminal,  \* force_terminal
    owner,     \* the I/O thread: state, pending requests, transaction, end
    out, inn,  \* the socket, towards the peer and from it
    peer,      \* the control service
    streams    \* liveness streams: "open", "told" of the end, or "closed"

vars == <<caller, pc, queue, terminal, owner, out, inn, peer, streams>>

Packet(id, kind, what) == [for |-> id, kind |-> kind, what |-> what]

Init ==
    /\ caller = <<>> /\ pc = "idle" /\ queue = <<>> /\ terminal = FALSE
    /\ owner = [state |-> "run", next |-> 1, pending |-> {}, tx |-> "none", end |-> "no"]
    /\ out = <<>> /\ inn = <<Packet(0, "Ready", "ok")>>
    /\ peer = [connect |-> 0, taken |-> 0, waiting |-> <<>>, up |-> FALSE,
               ended |-> FALSE, events |-> 0]
    /\ streams = <<"open">>
-----------------------------------------------------------------------------
(* The callers share one thread.  The policy's state machine connects when *)
(* neither a connect nor a disconnect is outstanding and may disconnect at *)
(* any time; it may drop the future of a connect, not the operation.       *)
Outstanding(kinds) ==
    {c \in 1..Len(caller) : caller[c].kind \in kinds /\ caller[c].result = "none"
                            /\ ~caller[c].dropped}

Permitted(kind) ==
    CASE kind = "Connect"    -> Outstanding({"Connect", "Disconnect"}) = {}
      [] kind = "Disconnect" -> Outstanding({"Disconnect"}) = {}
      [] OTHER               -> TRUE

Submitted(kind, result) ==
    Append(caller, [kind |-> kind, dropped |-> FALSE, result |-> result])

(* submit looks at force_terminal and then tries to send. *)
Submit(kind) ==
    /\ pc = "idle" /\ Len(caller) < MaxCommands /\ Permitted(kind)
    /\ IF terminal THEN caller' = Submitted(kind, "refused") /\ UNCHANGED pc
       ELSE pc' = kind /\ UNCHANGED caller
    /\ UNCHANGED <<queue, terminal, owner, out, inn, peer, streams>>

(* A full channel ends the generation; one without a receiver refuses.  A  *)
(* roam is accepted here: its acknowledgement has no waiter.               *)
TrySend ==
    /\ pc \in Kinds /\ pc' = "idle"
    /\ \/ /\ owner.state = "done"
          /\ caller' = Submitted(pc, "refused") /\ UNCHANGED <<queue, terminal>>
       \/ /\ owner.state # "done" /\ Len(queue) = Limit
          /\ caller' = Submitted(pc, "refused") /\ terminal' = TRUE /\ UNCHANGED queue
       \/ /\ owner.state # "done" /\ Len(queue) < Limit
          /\ caller' = Submitted(pc, IF pc = "Roam" THEN "ok" ELSE "none")
          /\ queue' = Append(queue, Len(caller) + 1) /\ UNCHANGED terminal
    /\ UNCHANGED <<owner, out, inn, peer, streams>>

DropConnect ==
    /\ \E c \in Outstanding({"Connect"}) : caller' = [caller EXCEPT ![c].dropped = TRUE]
    /\ UNCHANGED <<pc, queue, terminal, owner, out, inn, peer, streams>>

(* take_event_stream looks at force_terminal and then, holding the lock of *)
(* the subscribers, registers.                                             *)
TakeStream ==
    /\ pc = "idle" /\ Len(streams) < MaxStreams
    /\ IF terminal THEN streams' = Append(streams, "told") /\ UNCHANGED pc
       ELSE pc' = "stream" /\ UNCHANGED streams
    /\ UNCHANGED <<caller, queue, terminal, owner, out, inn, peer>>

RegisterStream ==
    /\ pc = "stream" /\ pc' = "idle" /\ streams' = Append(streams, "open")
    /\ UNCHANGED <<caller, queue, terminal, owner, out, inn, peer>>

CloseStream ==
    /\ \E s \in 1..Len(streams) : streams[s] = "open"
                                  /\ streams' = [streams EXCEPT ![s] = "closed"]
    /\ UNCHANGED <<caller, pc, queue, terminal, owner, out, inn, peer>>

(* The last handle is dropped: the flag is set and the owner joined. *)
DropClient ==
    /\ pc = "idle" /\ pc' = "gone" /\ terminal' = TRUE
    /\ caller' = [c \in 1..Len(caller) |-> [caller[c] EXCEPT !.dropped = TRUE]]
    /\ UNCHANGED <<queue, owner, out, inn, peer, streams>>
-----------------------------------------------------------------------------
(* The owner thread. *)
Resolved(c, r) == [caller EXCEPT ![c].result = r]

Ending(own, why) == [own EXCEPT !.state = "finish", !.end = why]

End(why) == owner' = Ending(owner, why) /\ UNCHANGED caller

(* The error leaves the function with the request's reply sender. *)
EndWith(own, c, why) == owner' = Ending(own, why) /\ caller' = Resolved(c, "error")

(* queue_command.  The number is used up even when a second connect is     *)
(* refused at once.                                                        *)
Sent(c, tx) ==
    /\ owner' = [owner EXCEPT !.next = @ + 1, !.tx = tx,
                              !.pending = @ \cup {[id |-> owner.next, command |-> c]}]
    /\ out' = Append(out, [id |-> owner.next, kind |-> caller[c].kind])
    /\ UNCHANGED caller

Begin(c) ==
    IF owner.tx = "none" THEN Sent(c, "deliver")
    ELSE /\ owner' = [owner EXCEPT !.next = @ + 1]
         /\ caller' = Resolved(c, "error") /\ UNCHANGED out

QueueCommand ==
    /\ owner.state = "run" /\ queue # <<>> /\ queue' = Tail(queue)
    /\ LET c == Head(queue)
       IN  IF Cardinality(owner.pending) >= Limit
           THEN EndWith(owner, c, "backpressure") /\ UNCHANGED out
           ELSE IF caller[c].kind = "Connect" THEN Begin(c) ELSE Sent(c, owner.tx)
    /\ UNCHANGED <<pc, terminal, inn, peer, streams>>

(* handle_reply: the request is forgotten first, then by its kind. *)
Kept(p) == [owner EXCEPT !.pending = @ \ {p}]

Answer(p, own, r) ==
    /\ owner' = own
    /\ caller' = IF caller[p.command].kind = "Roam" THEN caller
                 ELSE Resolved(p.command, r)

Expired(p) ==
    CASE caller[p.command].kind = "Connect" -> Answer(p, [Kept(p) EXCEPT !.tx = "none"], "error")
      [] caller[p.command].kind = "Scan"    -> Answer(p, Kept(p), "error")
      [] OTHER -> EndWith(Kept(p), p.command, "expired")

ConnectReply_Forgets(p, what) ==
    Answer(p, [Kept(p) EXCEPT !.tx = IF what # "ok" \/ caller[p.command].dropped
                                     THEN "none" ELSE @], what)

ConnectReply(p, what) ==
    LET tx == IF what # "ok" THEN "none"
              ELSE IF caller[p.command].dropped /\ owner.tx # "none" THEN "draining"
              ELSE owner.tx
    IN  Answer(p, [Kept(p) EXCEPT !.tx = tx], what)

DisconnectReply(p, what) ==
    IF what = "ok" THEN Answer(p, [Kept(p) EXCEPT !.tx = "none"], "ok")
    ELSE EndWith(Kept(p), p.command, "disconnect failed")

RoamReply(p, what) ==
    IF what = "ok" THEN Answer(p, Kept(p), "ok")
    ELSE EndWith(Kept(p), p.command, "roam rejected")

HandleReply(packet) ==
    LET requests == {p \in owner.pending : p.id = packet.for} IN
    IF requests = {} THEN End("unknown reply")
    ELSE \E p \in requests :
        LET kind == caller[p.command].kind IN
        IF packet.what = "expired" THEN Expired(p)
        ELSE IF packet.kind # kind THEN EndWith(Kept(p), p.command, "mismatch")
        ELSE CASE kind = "Connect"    -> ConnectReply(p, packet.what)
               [] kind = "Disconnect" -> DisconnectReply(p, packet.what)
               [] kind = "Roam"       -> RoamReply(p, packet.what)
               [] OTHER               -> Answer(p, Kept(p), packet.what)

(* An event needs a transaction.  Its receiver may be gone, which drains   *)
(* the rest, or full; a final disconnect ends the transaction.             *)
HandleEvent(packet) ==
    IF owner.tx = "none" THEN End("no transaction")
    ELSE \/ /\ UNCHANGED caller
            /\ \E tx \in {owner.tx, "draining"} :
                 owner' = [owner EXCEPT !.tx = IF packet.what = "final" THEN "none" ELSE tx]
         \/ owner.tx = "deliver" /\ End("event backpressure")

HandleReceived ==
    /\ owner.state = "run" /\ inn # <<>> /\ inn' = Tail(inn)
    /\ LET packet == Head(inn)
       IN  CASE packet.kind = "Event" -> HandleEvent(packet)
             [] packet.kind = "End"   -> End("peer")
             [] packet.kind = "Ready" ->
                    IF "open" \in ToSet(streams) THEN UNCHANGED <<owner, caller>>
                    ELSE End("liveness stream unavailable")
             [] OTHER                 -> HandleReply(packet)
    /\ UNCHANGED <<pc, queue, terminal, out, peer, streams>>

Stops(why) ==
    /\ owner.state = "run" /\ End(why)
    /\ UNCHANGED <<pc, queue, terminal, out, inn, peer, streams>>

(* poll_timeout: a reply is missing past its deadline and the allowance.   *)
DrainDeadline == owner.pending # {} /\ Stops("drain deadline")
SocketFailed == Stops("socket")
Forced == terminal /\ Stops("forced")

(* run, after the loop: the flag is set; finish answers every request and  *)
(* tells and forgets the subscribers; the channel goes with the owner, and *)
(* with it the reply senders of what it still holds.                       *)
SetTerminal ==
    /\ owner.state = "finish" /\ terminal' = TRUE
    /\ owner' = [owner EXCEPT !.state = "terminal"]
    /\ UNCHANGED <<caller, pc, queue, out, inn, peer, streams>>

Failing(commands) ==
    [c \in 1..Len(caller) |-> IF c \in commands /\ caller[c].result = "none"
                              THEN [caller[c] EXCEPT !.result = "error"] ELSE caller[c]]

Told == [s \in 1..Len(streams) |-> IF streams[s] = "open" THEN "told" ELSE streams[s]]

Finish_QueuedOnly ==
    /\ owner.state = "terminal" /\ streams' = Told
    /\ owner' = [owner EXCEPT !.state = "drop", !.pending = {}, !.tx = "none"]
    /\ UNCHANGED <<caller, pc, queue, terminal, out, inn, peer>>

Finish ==
    /\ owner.state = "terminal" /\ streams' = Told
    /\ caller' = Failing({p.command : p \in owner.pending})
    /\ owner' = [owner EXCEPT !.state = "drop", !.pending = {}, !.tx = "none"]
    /\ UNCHANGED <<pc, queue, terminal, out, inn, peer>>

DropOwner ==
    /\ owner.state = "drop" /\ owner' = [owner EXCEPT !.state = "done"]
    /\ caller' = Failing(ToSet(queue)) /\ queue' = <<>>
    /\ UNCHANGED <<pc, terminal, out, inn, peer, streams>>
-----------------------------------------------------------------------------
(* The control service: its packets, in its order. *)
Refuse(why) == peer' = [peer EXCEPT !.ended = TRUE] /\ inn' = Append(inn, Packet(0, "End", why))

PeerDispatch ==
    /\ ~peer.ended /\ out # <<>> /\ out' = Tail(out)
    /\ LET p == Head(out)
       IN  \/ /\ inn' = Append(inn, Packet(p.id, p.kind, "expired")) /\ UNCHANGED peer
           \/ /\ p.kind \in {"Scan", "PowerSave"} /\ UNCHANGED peer
              /\ \E what \in {"ok", "failed"} : inn' = Append(inn, Packet(p.id, p.kind, what))
           \/ /\ p.kind = "Roam"
              /\ IF ~peer.up /\ peer.waiting = <<>> THEN Refuse("DriverFault")
                 ELSE UNCHANGED peer /\ \E what \in {"ok", "failed"} :
                        inn' = Append(inn, Packet(p.id, p.kind, what))
           \/ /\ p.kind = "Connect"
              /\ IF peer.connect # 0 \/ peer.waiting # <<>> \/ peer.up
                 THEN Refuse("ProtocolViolation")
                 ELSE peer' = [peer EXCEPT !.connect = p.id] /\ UNCHANGED inn
           \/ /\ p.kind = "Disconnect" /\ UNCHANGED inn
              /\ peer' = IF peer.waiting = <<>>
                         THEN [peer EXCEPT !.waiting = <<p.id>>, !.taken = peer.connect,
                                           !.connect = 0]
                         ELSE [peer EXCEPT !.waiting = Append(@, p.id)]
    /\ UNCHANGED <<caller, pc, queue, terminal, owner, streams>>

PeerConnected ==
    /\ ~peer.ended /\ peer.connect # 0
    /\ \E ok \in BOOLEAN :
         /\ inn' = inn \o (IF ok THEN <<Packet(peer.connect, "Connect", "ok"), Packet(0, "Event", "signal")>>
                           ELSE <<Packet(peer.connect, "Connect", "failed")>>)
         /\ peer' = [peer EXCEPT !.connect = 0, !.up = ok]
    /\ UNCHANGED <<caller, pc, queue, terminal, owner, out, streams>>

(* The canceled connect is answered before the disconnects that took it. *)
DisconnectReplies ==
    (IF peer.taken = 0 THEN <<>> ELSE <<Packet(peer.taken, "Connect", "failed")>>)
    \o [i \in 1..Len(peer.waiting) |-> Packet(peer.waiting[i], "Disconnect", "ok")]

PeerDisconnected ==
    /\ ~peer.ended /\ peer.waiting # <<>>
    /\ inn' = inn \o DisconnectReplies
    /\ peer' = [peer EXCEPT !.waiting = <<>>, !.taken = 0, !.up = FALSE]
    /\ UNCHANGED <<caller, pc, queue, terminal, owner, out, streams>>

PeerSignals ==
    /\ ~peer.ended /\ peer.up /\ peer.events < MaxEvents
    /\ \E what \in {"signal", "final"} :
         /\ inn' = Append(inn, Packet(0, "Event", what))
         /\ peer' = [peer EXCEPT !.events = @ + 1, !.up = what # "final"]
    /\ UNCHANGED <<caller, pc, queue, terminal, owner, out, streams>>

PeerEnds ==
    /\ ~peer.ended /\ Refuse("Shutdown")
    /\ UNCHANGED <<caller, pc, queue, terminal, owner, out, streams>>

Next ==
    \/ \E k \in Used : Submit(k)
    \/ TrySend \/ DropConnect \/ TakeStream \/ RegisterStream \/ CloseStream \/ DropClient
    \/ QueueCommand \/ HandleReceived \/ DrainDeadline \/ SocketFailed \/ Forced
    \/ SetTerminal \/ Finish \/ DropOwner
    \/ PeerDispatch \/ PeerConnected \/ PeerDisconnected \/ PeerSignals \/ PeerEnds

Spec == Init /\ [][Next]_vars

(* The owner's loop polls its commands, its socket and its deadlines; the  *)
(* peer owes nothing, and a socket need not fail.                          *)
FairSpec ==
    /\ Spec /\ WF_vars(QueueCommand) /\ WF_vars(HandleReceived)
    /\ WF_vars(DrainDeadline) /\ WF_vars(Forced)
    /\ WF_vars(SetTerminal) /\ WF_vars(Finish) /\ WF_vars(DropOwner)
-----------------------------------------------------------------------------
(* Types of the session; request numbers grow on the socket, as the peer's *)
(* SessionValidator demands.                                               *)
TypeOK ==
    /\ Len(queue) <= Limit /\ Cardinality(owner.pending) <= Limit
    /\ pc \in Kinds \cup {"idle", "stream", "gone"} /\ terminal \in BOOLEAN
    /\ owner.state \in {"run", "finish", "terminal", "drop", "done"}
    /\ owner.tx \in {"none", "deliver", "draining"}
    /\ \A i, j \in 1..Len(out) : i < j => out[i].id < out[j].id
    /\ \A p \in owner.pending : p.id < owner.next /\ p.command \in 1..Len(caller)

(* The client never accuses a faithful service: whatever the interleaving  *)
(* of replies, events and canceled connects, the generation is not ended   *)
(* for an unknown or mismatched reply or an event without a transaction.   *)
NoFalseAccusation ==
    owner.end \notin {"unknown reply", "mismatch", "no transaction"}

(* A connect waiting for its reply owns the transaction its events will    *)
(* need: no reply to another command takes it away.                        *)
PendingConnectOwnsTransaction ==
    \A p \in owner.pending : caller[p.command].kind = "Connect" => owner.tx # "none"

(* When the owner is gone no caller is left waiting: every command was     *)
(* answered, whether sent, queued or submitted during the end.             *)
NobodyLeftWaiting ==
    owner.state = "done" => \A c \in 1..Len(caller) : caller[c].result # "none"

(* Every submitted command is answered, though the peer may answer none. *)
CommandsResolve ==
    \A c \in Commands :
        c \in DOMAIN caller ~> (c \in DOMAIN caller /\ caller[c].result # "none")

=============================================================================
