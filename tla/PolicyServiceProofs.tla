------------------------- MODULE PolicyServiceProofs -------------------------
(***************************************************************************)
(* Proofs about PolicyService, for every set of applications and networks, *)
(* every capacity of the command channel and every limit on clients.       *)
(***************************************************************************)
EXTENDS PolicyService, FiniteSetTheorems, TLAPS

(* The assumption on the constants is in force in every proof. *)
USE PolicyAssumption DEF PolicyAssumption

Commands ==
    [what : {"Connect", "Forget"}, network : Networks]
    \cup [what : {"Scan", "Status", "Disconnect", "PowerSave", "Saved"}, network : {None}]

Clients0 ==
    [state : {"none", "receiving", "waiting", "sending", "gone"}, request : Commands,
     answer : {"none", "Ok", "Error", "Scan with hidden", "twice"},
     outcome : {"none", "dropped", "replied", "left"}]

Operations ==
    [app : Apps \cup {None},
     what : {"idle", "Startup", "Connect", "Forget", "Scan", "Status", "Disconnect",
             "PowerSave", "Saved"},
     network : Networks \cup {None},
     step : {"idle", "ended", "start", "select", "store", "disconnect", "wait", "remove",
             "transport"},
     then : {"done", "select", "remove", "cancelled"}]

Machines ==
    [state : {"exited", "connecting", "connected", "disconnecting"},
     network : Networks \cup {None}, ack : {"none", "ok", "failed"}]

(* The ranges of all variables. *)
Ranges ==
    /\ app \in [Apps -> Clients0] /\ channel \in Seq(Apps) /\ closed \in BOOLEAN
    /\ op \in Operations /\ queued \in Apps \cup {None} /\ cancelled \in BOOLEAN
    /\ desired \in Networks \cup {None} /\ machine \in Machines /\ orphans \in Nat
    /\ saved \subseteq Networks /\ down \in BOOLEAN

(* What the operation alive says of the connection machine: each await     *)
(* point belongs to one kind of request, a selection begins only when no   *)
(* machine is alive and no disconnect holds, and a removal spares the      *)
(* network the machine is on.                                              *)
MachineInv ==
    /\ orphans = 0 /\ (down => ~Alive) /\ (Alive => machine.network \in saved)
    /\ op.step # "start"
    /\ op.step = "store" => op.what = "Connect" /\ op.network \in Networks /\ ~down
    /\ op.step = "select" => op.what \in {"Startup", "Connect"} /\ ~Alive /\ ~down
    /\ op.step = "wait" => op.what = "Connect" /\ ~down
    /\ op.step = "remove" => op.what = "Forget" /\ (Alive => machine.network # op.network)
    /\ op.step = "transport" => op.what \in {"Scan", "PowerSave"}
    /\ op.step = "disconnect" =>
          \/ op.then \in {"select", "cancelled"} /\ op.what = "Connect" /\ ~down
          \/ op.then = "remove" /\ op.what = "Forget"
          \/ op.then = "done" /\ op.what = "Disconnect"

(* Who still owes an application an answer: it is in the channel, queued   *)
(* or served, in one of these places only, has not been answered, and has  *)
(* sent its request.  None is owed once the policy ended.                  *)
Sent(a) == app[a].answer = "none" /\ app[a].state \notin {"none", "receiving"}

ReplyInv ==
    /\ \A a \in Apps : /\ app[a].answer # "twice"
                       /\ app[a].state \in {"none", "receiving"} => app[a].answer = "none"
    /\ \A i, j \in DOMAIN channel : channel[i] = channel[j] => i = j
    /\ \A i \in DOMAIN channel :
          Sent(channel[i]) /\ channel[i] # queued /\ channel[i] # op.app
    /\ queued # None => Sent(queued) /\ queued # op.app
    /\ op.app # None => Sent(op.app)
    /\ op.step = "ended" => channel = <<>> /\ queued = None /\ op.app = None

(* The bounded resources: client connections and the command channel. *)
BoundInv ==
    IsFiniteSet(Clients) /\ Cardinality(Clients) <= MaxClients /\ Len(channel) <= Limit

PolicyInv == Ranges /\ MachineInv /\ ReplyInv /\ BoundInv

(* Changing one field of an application keeps it in its range. *)
LEMMA FieldRange ==
    ASSUME NEW x \in Clients0
    PROVE  /\ \A v \in {"none", "Ok", "Error", "Scan with hidden", "twice"} :
                 [x EXCEPT !.answer = v] \in Clients0
           /\ \A v \in {"none", "receiving", "waiting", "sending", "gone"} :
                 [x EXCEPT !.state = v] \in Clients0
           /\ \A v \in {"none", "dropped", "replied", "left"} :
                 [x EXCEPT !.outcome = v] \in Clients0
           /\ \A v \in Commands : [x EXCEPT !.request = v] \in Clients0
  BY DEF Clients0

(* Answering keeps the applications in their range. *)
LEMMA AnswerRange ==
    ASSUME NEW a \in Apps \cup {None}, NEW r \in {"Ok", "Error", "Scan with hidden"}, Ranges
    PROVE  Answer(a, r) \in [Apps -> Clients0]
<1>1. CASE a = None
  BY <1>1 DEF Answer, Ranges
<1>2. CASE a # None
  <2> DEFINE v == IF app[a].answer = "none" THEN r ELSE "twice"
  <2>1. app[a] \in Clients0 /\ app \in [Apps -> Clients0] /\ a \in Apps
    BY <1>2, Zenon DEF Ranges
  <2>2. [app[a] EXCEPT !.answer = v] \in Clients0
    BY <2>1, FieldRange, Zenon
  <2>3. Answer(a, r) = [app EXCEPT ![a] = [app[a] EXCEPT !.answer = v]]
    BY <1>2, <2>1 DEF Answer
  <2> HIDE DEF v
  <2> QED
    BY <2>1, <2>2, <2>3
<1> QED
  BY <1>1, <1>2

(* So does a reply of the application owner. *)
LEMMA ReplyingRange ==
    ASSUME NEW a \in Apps, NEW r \in {"none", "Ok", "Error", "Scan with hidden", "twice"}, Ranges
    PROVE  Replying(a, r) \in [Apps -> Clients0]
<1>1. app[a] \in Clients0 /\ app \in [Apps -> Clients0]
  BY Zenon DEF Ranges
<1> DEFINE x == [[app[a] EXCEPT !.state = "gone"] EXCEPT !.outcome = "dropped"]
           y == [[app[a] EXCEPT !.state = "sending"] EXCEPT !.answer = r]
<1>2. x \in Clients0 /\ y \in Clients0
  BY <1>1, FieldRange, Zenon
<1>3. Replying(a, r) = [app EXCEPT ![a] = IF r = "Scan with hidden" THEN x ELSE y]
  BY <1>1 DEF Replying
<1> HIDE DEF x, y
<1> QED
  BY <1>1, <1>2, <1>3

(* The idle operation and that of an accepted request are operations. *)
LEMMA OperationRange ==
    /\ Idle \in Operations /\ [Idle EXCEPT !.step = "ended"] \in Operations
    /\ \A a \in Apps, q \in Commands,
          s \in {"start", "store", "remove", "transport"} : Op(a, q, s) \in Operations
  BY DEF Idle, Operations, Op, Commands

(* disconnect_machine and what follows it keep the ranges. *)
LEMMA DisconnectRange ==
    ASSUME Ranges, NEW own \in Operations, NEW then \in {"done", "select", "remove", "cancelled"},
           DisconnectMachine(own, then) \/ (Proceed(own, then) /\ UNCHANGED machine)
    PROVE  /\ app' \in [Apps -> Clients0] /\ op' \in Operations /\ machine' \in Machines
           /\ down' \in BOOLEAN
<1>1. own.app \in Apps \cup {None}
  BY DEF Operations
<1>2. Proceed(own, then) => /\ app' \in [Apps -> Clients0] /\ op' \in Operations
                            /\ down' \in BOOLEAN
  <2> SUFFICES ASSUME Proceed(own, then)
               PROVE  /\ app' \in [Apps -> Clients0] /\ op' \in Operations
                      /\ down' \in BOOLEAN
    OBVIOUS
  <2>1. CASE (then = "select" /\ ~cancelled) \/ then = "remove"
    BY <2>1 DEF Proceed, Ranges, Operations
  <2>2. CASE ~((then = "select" /\ ~cancelled) \/ then = "remove")
    <3>1. /\ \E r \in {"Ok", "Error"} : app' = Answer(own.app, r)
          /\ op' = Idle /\ down' \in BOOLEAN
      BY <2>2, Zenon DEF Proceed, Ranges
    <3> QED
      BY <1>1, <3>1, AnswerRange, OperationRange
  <2> QED
    BY <2>1, <2>2
<1>3. CASE DisconnectMachine(own, then) /\ Alive
  <2>1. /\ machine' = [machine EXCEPT !.state = "disconnecting", !.ack = "none"]
        /\ op' = [own EXCEPT !.step = "disconnect", !.then = then]
        /\ UNCHANGED <<app, down>>
    BY <1>3 DEF DisconnectMachine
  <2>2. machine' \in Machines
    BY <2>1, Zenon DEF Ranges, Machines
  <2>3. op' \in Operations
    BY <2>1, Zenon DEF Operations
  <2> QED
    BY <2>1, <2>2, <2>3 DEF Ranges
<1>4. CASE DisconnectMachine(own, then) /\ ~Alive
  BY <1>2, <1>4 DEF DisconnectMachine, Ranges
<1>5. CASE Proceed(own, then) /\ UNCHANGED machine
  BY <1>2, <1>5 DEF Ranges
<1> QED
  BY <1>3, <1>4, <1>5

(* So does the end of an operation. *)
LEMMA FinishRange ==
    ASSUME Ranges, NEW r \in {"Ok", "Error", "Scan with hidden"}, Finish(r)
    PROVE  app' \in [Apps -> Clients0] /\ op' \in Operations /\ down' \in BOOLEAN
<1>1. op.app \in Apps \cup {None}
  BY DEF Ranges, Operations
<1> QED
  BY <1>1, AnswerRange, OperationRange DEF Finish, Ranges

(* And the first part of a command. *)
LEMMA HandleRange ==
    ASSUME Ranges, NEW a \in Apps, Handle(a)
    PROVE  /\ app' \in [Apps -> Clients0] /\ op' \in Operations /\ machine' \in Machines
           /\ down' \in BOOLEAN /\ desired' \in Networks \cup {None} /\ saved' = saved
<1> DEFINE request == app[a].request
<1>1. request \in Commands
  BY DEF Ranges, Clients0
<1>2. /\ request.what = "Connect" => request.network \in Networks
      /\ \A s \in {"start", "store", "remove", "transport"} : Op(a, request, s) \in Operations
  BY <1>1, OperationRange DEF Commands
<1>3. \A r \in {"Ok", "Error"} : Answer(a, r) \in [Apps -> Clients0]
  BY AnswerRange
<1> HIDE DEF request
<1>4. CASE \E t \in {"done", "remove"} :
             /\ DisconnectMachine(Op(a, request, "start"), t)
             /\ desired' = None /\ UNCHANGED saved
  <2>1. PICK t \in {"done", "remove"} : DisconnectMachine(Op(a, request, "start"), t)
    BY <1>4
  <2> QED
    BY <1>2, <1>4, <2>1, DisconnectRange
<1>5. CASE /\ op' \in {Idle} \cup {Op(a, request, s) : s \in {"transport", "store", "remove"}}
           /\ app' = app \/ \E r \in {"Ok", "Error"} : app' = Answer(a, r)
           /\ UNCHANGED <<machine, saved>> /\ down' \in {down, FALSE}
           /\ desired' = desired \/ (request.what = "Connect" /\ desired' = request.network)
  BY <1>2, <1>3, <1>5, OperationRange, Zenon DEF Ranges
<1>6. Handle(a) => \/ \E t \in {"done", "remove"} :
                        /\ DisconnectMachine(Op(a, request, "start"), t)
                        /\ desired' = None /\ UNCHANGED saved
                   \/ /\ op' \in {Idle} \cup {Op(a, request, s) : s \in {"transport", "store", "remove"}}
                      /\ app' = app \/ \E r \in {"Ok", "Error"} : app' = Answer(a, r)
                      /\ UNCHANGED <<machine, saved>> /\ down' \in {down, FALSE}
                      /\ \/ desired' = desired
                         \/ request.what = "Connect" /\ desired' = request.network
  BY Zenon DEF Handle, request
<1> QED
  BY <1>4, <1>5, <1>6, Zenon

(* The steps of the applications and of their owner keep the ranges. *)
LEMMA ClientRange ==
    ASSUME Ranges,
           \/ \E a \in Apps : Accept(a) \/ Receive(a) \/ TakeReply(a) \/ Send(a) \/ TimeOut(a)
           \/ OwnerReturns
    PROVE  app' \in [Apps -> Clients0] /\ channel' \in Seq(Apps)
<1>1. app \in [Apps -> Clients0] /\ channel \in Seq(Apps)
  BY DEF Ranges
<1>2. ASSUME NEW a \in Apps, Accept(a)
      PROVE  app' \in [Apps -> Clients0] /\ channel' \in Seq(Apps)
  <2>1. PICK r \in Requests : app' = [app EXCEPT ![a].state = "receiving", ![a].request = r]
    BY <1>2, Zenon DEF Accept
  <2>2. r \in Commands
    BY DEF Requests, Commands
  <2> DEFINE x == [[app[a] EXCEPT !.state = "receiving"] EXCEPT !.request = r]
  <2>3. x \in Clients0
    BY <1>1, <2>2, FieldRange, Zenon
  <2>4. app' = [app EXCEPT ![a] = x]
    BY <1>1, <2>1, Zenon
  <2> HIDE DEF x
  <2> QED
    BY <1>1, <1>2, <2>3, <2>4 DEF Accept
<1>3. ASSUME NEW a \in Apps, NEW w \in {"dropped", "replied", "left"}, Leaves(a, w)
      PROVE  app' \in [Apps -> Clients0]
  <2> DEFINE x == [[app[a] EXCEPT !.state = "gone"] EXCEPT !.outcome = w]
  <2>1. x \in Clients0
    BY <1>1, FieldRange, Zenon
  <2>2. app' = [app EXCEPT ![a] = x]
    BY <1>1, <1>3, Zenon DEF Leaves
  <2> HIDE DEF x
  <2> QED
    BY <1>1, <2>1, <2>2
<1>4. ASSUME NEW a \in Apps, Receive(a)
      PROVE  app' \in [Apps -> Clients0] /\ channel' \in Seq(Apps)
  <2>1. CASE app' = Replying(a, "Error") /\ UNCHANGED channel
    BY <1>1, <2>1, ReplyingRange
  <2>2. CASE app' = [app EXCEPT ![a].state = "waiting"] /\ channel' = Append(channel, a)
    <3> DEFINE x == [app[a] EXCEPT !.state = "waiting"]
    <3>1. x \in Clients0
      BY <1>1, FieldRange, Zenon
    <3>2. app' = [app EXCEPT ![a] = x]
      BY <1>1, <2>2
    <3> HIDE DEF x
    <3>3. app' \in [Apps -> Clients0]
      BY <1>1, <3>1, <3>2
    <3>4. channel' \in Seq(Apps)
      BY <1>1, <2>2
    <3> QED
      BY <3>3, <3>4
  <2> QED
    BY <1>4, <2>1, <2>2 DEF Receive
<1>5. ASSUME NEW a \in Apps, TakeReply(a)
      PROVE  app' \in [Apps -> Clients0] /\ channel' \in Seq(Apps)
  <2>1. app[a].answer \in {"none", "Ok", "Error", "Scan with hidden", "twice"}
    BY <1>1, Zenon DEF Clients0
  <2> QED
    BY <1>1, <1>5, <2>1, ReplyingRange DEF TakeReply
<1>6. CASE OwnerReturns
  <2>1. \A a \in Apps : [[app[a] EXCEPT !.state = "gone"] EXCEPT !.outcome = "left"] \in Clients0
    BY <1>1, FieldRange, Zenon
  <2>2. \A a \in Apps : [app[a] EXCEPT !.state = "gone", !.outcome = "left"] \in Clients0
    BY <2>1, Zenon
  <2> QED
    BY <1>1, <1>6, <2>2, Zenon DEF OwnerReturns
<1> QED
  BY <1>1, <1>2, <1>3, <1>4, <1>5, <1>6 DEF Send, TimeOut

(* Every step keeps the ranges. *)
LEMMA RangesStep == Ranges /\ MachineInv /\ [Next]_vars => Ranges'
<1> SUFFICES ASSUME Ranges, MachineInv, [Next]_vars PROVE Ranges'
  OBVIOUS
<1> DEFINE Clientele ==
      \/ \E a \in Apps : Accept(a) \/ Receive(a) \/ TakeReply(a) \/ Send(a) \/ TimeOut(a)
      \/ OwnerReturns
<1>1. CASE Clientele
  <2>1. app' \in [Apps -> Clients0] /\ channel' \in Seq(Apps)
    BY <1>1, ClientRange
  <2>2. closed' \in BOOLEAN /\ UNCHANGED policy
    BY <1>1, Zenon DEF Ranges, Accept, Receive, TakeReply, Send, TimeOut, OwnerReturns
  <2> QED
    BY <2>1, <2>2 DEF Ranges, policy
<1>2. CASE ServeEnds
  <2>1. machine' \in Machines
    BY <1>2 DEF ServeEnds, Ranges, Machines
  <2> QED
    BY <1>2, <2>1, OperationRange DEF ServeEnds, Ranges
<1>3. CASE TakeMeanwhile
  <2>1. Head(channel) \in Apps /\ channel' \in Seq(Apps)
    BY <1>3 DEF TakeMeanwhile, Ranges
  <2>2. \A a \in Apps \cup {None}, r \in {"Ok", "Error"} : Answer(a, r) \in [Apps -> Clients0]
    BY AnswerRange
  <2>3. app' \in [Apps -> Clients0]
    BY <1>3, <2>1, <2>2 DEF TakeMeanwhile, Supersede, Ranges
  <2>4. queued' \in Apps \cup {None} /\ cancelled' \in BOOLEAN /\ desired' \in Networks \cup {None}
    BY <1>3, <2>1, Zenon DEF TakeMeanwhile, Ranges
  <2> QED
    BY <1>3, <2>1, <2>3, <2>4 DEF TakeMeanwhile, Ranges
<1>4. CASE ChannelEnded
  BY <1>4 DEF ChannelEnded, Ranges
<1>5. CASE TakeCommand
  <2>1. PICK a \in Apps : /\ Handle(a) /\ channel' \in Seq(Apps) /\ queued' \in Apps \cup {None}
    BY <1>5 DEF TakeCommand, Ranges
  <2> QED
    BY <1>5, <2>1, HandleRange, Zenon DEF TakeCommand, Ranges
<1>6. CASE Disconnected
  <2>1. op \in Operations /\ op.then \in {"done", "select", "remove", "cancelled"}
    BY DEF Ranges, Operations
  <2>2. app' \in [Apps -> Clients0] /\ op' \in Operations /\ down' \in BOOLEAN
    BY <1>6, <2>1, DisconnectRange, FinishRange DEF Disconnected
  <2> QED
    BY <1>6, <2>2 DEF Disconnected, Ranges
<1>7. CASE Stored
  <2>1. /\ app' \in [Apps -> Clients0] /\ op' \in Operations /\ down' \in BOOLEAN
        /\ machine' \in Machines
    <3>1. op \in Operations /\ machine \in Machines
      BY DEF Ranges
    <3> QED
      BY <1>7, <3>1, DisconnectRange, FinishRange DEF Stored
  <2>2. saved' \subseteq Networks
    BY <1>7 DEF Stored, Ranges, MachineInv
  <2> QED
    BY <1>7, <2>1, <2>2 DEF Stored, Ranges
<1>8. CASE Selected
  <2>1. op \in Operations /\ machine \in Machines /\ saved \subseteq Networks /\ orphans \in Nat
    BY DEF Ranges
  <2>2. CASE /\ UNCHANGED <<machine, orphans, desired>>
             /\ Finish(IF op.what = "Startup" THEN "Ok" ELSE "Error")
    BY <1>8, <2>1, <2>2, FinishRange DEF Selected, Ranges
  <2>3. ASSUME NEW n \in Target, StartMachine(n),
               IF op.what = "Startup" THEN desired' = n /\ Finish("Ok")
               ELSE op' = [op EXCEPT !.step = "wait"] /\ UNCHANGED <<app, down, desired>>
        PROVE  Ranges'
    <3>1. n \in Networks
      BY <2>1 DEF Target
    <3>2. machine' \in Machines /\ orphans' \in Nat
      BY <2>1, <2>3, <3>1 DEF StartMachine, Machines
    <3>3. [op EXCEPT !.step = "wait"] \in Operations
      BY <2>1 DEF Operations
    <3>4. /\ app' \in [Apps -> Clients0] /\ op' \in Operations /\ down' \in BOOLEAN
          /\ desired' \in Networks \cup {None}
      BY <2>3, <3>1, <3>3, FinishRange DEF Ranges
    <3> QED
      BY <1>8, <3>2, <3>4 DEF Selected, Ranges
  <2> QED
    BY <1>8, <2>2, <2>3 DEF Selected
<1>9. CASE WaitForConnection
  <2>1. /\ app' \in [Apps -> Clients0] /\ op' \in Operations /\ down' \in BOOLEAN
        /\ machine' \in Machines
    <3>1. op \in Operations /\ machine \in Machines
      BY DEF Ranges
    <3> QED
      BY <1>9, <3>1, DisconnectRange, FinishRange DEF WaitForConnection
  <2> QED
    BY <1>9, <2>1 DEF WaitForConnection, Ranges
<1>10. CASE Removed
  <2>1. app' \in [Apps -> Clients0] /\ op' \in Operations /\ down' \in BOOLEAN
    BY <1>10, FinishRange DEF Removed
  <2> QED
    BY <1>10, <2>1 DEF Removed, Ranges
<1>11. CASE TransportReplies
  <2>1. app' \in [Apps -> Clients0] /\ op' \in Operations /\ down' \in BOOLEAN
    BY <1>11, FinishRange DEF TransportReplies
  <2> QED
    BY <1>11, <2>1 DEF TransportReplies, Ranges
<1>12. CASE MachineMoves \/ MachineAcknowledges
  <2>1. machine' \in Machines
    BY <1>12, Zenon DEF MachineMoves, MachineAcknowledges, Ranges, Machines
  <2> QED
    BY <1>12, <2>1 DEF MachineMoves, MachineAcknowledges, Ranges
<1>13. CASE UNCHANGED vars
  BY <1>13 DEF vars, Ranges
<1> QED
  BY <1>1, <1>2, <1>3, <1>4, <1>5, <1>6, <1>7, <1>8, <1>9, <1>10, <1>11, <1>12, <1>13
     DEF Next, Operate
-----------------------------------------------------------------------------
(* disconnect_machine, whoever asks for it, keeps what is known of the     *)
(* machine: it waits while one is alive and goes on only when none is.     *)
LEMMA DisconnectStep ==
    ASSUME Ranges, MachineInv, NEW own \in Operations,
           NEW then \in {"done", "select", "remove", "cancelled"},
           \/ DisconnectMachine(own, then)
           \/ Proceed(own, then) /\ ~Alive /\ UNCHANGED machine,
           \/ then \in {"select", "cancelled"} /\ own.what = "Connect" /\ ~down
           \/ then = "remove" /\ own.what = "Forget"
           \/ then = "done" /\ own.what = "Disconnect",
           UNCHANGED orphans, saved \subseteq saved'
    PROVE  MachineInv'
<1> USE DEF Alive
<1>1. CASE DisconnectMachine(own, then) /\ Alive
  <2>1. /\ machine'.state = "disconnecting" /\ machine'.network = machine.network
        /\ op'.step = "disconnect" /\ op'.then = then /\ op'.what = own.what
        /\ UNCHANGED down
    BY <1>1, ZenonT(30) DEF DisconnectMachine, Ranges, Machines, Operations
  <2> QED
    BY <1>1, <2>1 DEF MachineInv
<1>2. CASE Proceed(own, then) /\ ~Alive /\ UNCHANGED machine
  <2>1. CASE (then = "select" /\ ~cancelled) \/ then = "remove"
    <3>1. op'.step = then /\ op'.what = own.what /\ UNCHANGED down
      BY <1>2, <2>1 DEF Proceed, Operations
    <3> QED
      BY <1>2, <2>1, <3>1 DEF MachineInv
  <2>2. CASE ~((then = "select" /\ ~cancelled) \/ then = "remove")
    <3>1. op'.step = "idle"
      BY <1>2, <2>2 DEF Proceed, Idle
    <3> QED
      BY <1>2, <3>1 DEF MachineInv
  <2> QED
    BY <2>1, <2>2
<1> QED
  BY <1>1, <1>2 DEF DisconnectMachine

(* The end of an operation that is not an acknowledged disconnect. *)
LEMMA FinishStep ==
    ASSUME Ranges, MachineInv, NEW r, Finish(r), op.what # "Disconnect" \/ r # "Ok",
           UNCHANGED <<machine, orphans>>, Alive => machine.network \in saved'
    PROVE  MachineInv'
<1>1. op'.step = "idle" /\ UNCHANGED down
  BY DEF Finish, Idle, Ranges
<1> QED
  BY <1>1 DEF MachineInv, Alive

(* Every step keeps what is known of the machine. *)
LEMMA MachineStep == Ranges /\ MachineInv /\ [Next]_vars => MachineInv'
<1> SUFFICES ASSUME Ranges, MachineInv, [Next]_vars PROVE MachineInv'
  OBVIOUS
<1>1. CASE UNCHANGED <<op, machine, orphans, saved, down>>
  BY <1>1 DEF MachineInv, Alive
<1>2. CASE ServeEnds
  <2>1. machine'.state = "exited" /\ op'.step = "ended"
    BY <1>2 DEF ServeEnds, Idle, Ranges, Machines
  <2> QED
    BY <1>2, <2>1 DEF ServeEnds, MachineInv, Alive
<1>3. ASSUME NEW a \in Apps, Handle(a), UNCHANGED orphans
      PROVE  MachineInv'
  <2> DEFINE request == app[a].request
  <2>1. request \in Commands
    BY DEF Ranges, Clients0
  <2>2. \A s : /\ Op(a, request, s).step = s /\ Op(a, request, s).what = request.what
               /\ Op(a, request, s).network = request.network
    BY DEF Op
  <2>3. Op(a, request, "start") \in Operations
    BY <2>1, OperationRange
  <2>4. CASE op' = Idle /\ UNCHANGED <<machine, saved, down>>
    <3>1. op'.step = "idle"
      BY <2>4 DEF Idle
    <3> QED
      BY <1>3, <2>4, <3>1 DEF MachineInv, Alive
  <2>5. CASE /\ request.what \in {"Scan", "PowerSave"} /\ op' = Op(a, request, "transport")
             /\ UNCHANGED <<machine, saved, down>>
    BY <1>3, <2>2, <2>5 DEF MachineInv, Alive
  <2>6. CASE /\ request.what = "Connect" /\ op' = Op(a, request, "store")
             /\ down' = FALSE /\ UNCHANGED <<machine, saved>>
    <3>1. request.network \in Networks
      BY <2>1, <2>6 DEF Commands
    <3> QED
      BY <1>3, <2>2, <2>6, <3>1 DEF MachineInv, Alive
  <2>7. CASE /\ request.what = "Disconnect" /\ UNCHANGED saved
             /\ DisconnectMachine(Op(a, request, "start"), "done")
    BY <1>3, <2>2, <2>3, <2>7, DisconnectStep
  <2>8. CASE /\ request.what = "Forget" /\ UNCHANGED saved
             /\ DisconnectMachine(Op(a, request, "start"), "remove")
    BY <1>3, <2>2, <2>3, <2>8, DisconnectStep
  <2>9. CASE /\ request.what = "Forget" /\ ~IsCurrent(request.network)
             /\ op' = Op(a, request, "remove") /\ UNCHANGED <<machine, saved, down>>
    BY <1>3, <2>2, <2>9 DEF MachineInv, Alive, IsCurrent
  <2> QED
    BY <1>3, <2>4, <2>5, <2>6, <2>7, <2>8, <2>9, Zenon DEF Handle
<1>4. CASE TakeCommand
  <2>1. PICK a \in Apps : Handle(a)
    BY <1>4 DEF TakeCommand, Ranges
  <2> QED
    BY <1>3, <1>4, <2>1 DEF TakeCommand
<1>5. CASE Disconnected
  <2>1. op \in Operations /\ op.then \in {"done", "select", "remove", "cancelled"}
    BY DEF Ranges, Operations
  <2>2. CASE Proceed(op, op.then)
    BY <1>5, <2>1, <2>2, DisconnectStep DEF Disconnected, MachineInv
  <2>3. CASE Finish("Error")
    BY <1>5, <2>3, FinishStep DEF Disconnected, MachineInv
  <2> QED
    BY <1>5, <2>2, <2>3 DEF Disconnected
<1>6. CASE Stored
  <2>1. op \in Operations /\ op.what = "Connect" /\ ~down /\ UNCHANGED orphans
    BY <1>6 DEF Ranges, MachineInv, Stored
  <2>2. CASE Finish("Error") /\ UNCHANGED machine
    BY <1>6, <2>1, <2>2, FinishStep DEF Stored, MachineInv
  <2>3. CASE saved' = saved \cup {op.network} /\ DisconnectMachine(op, "select")
    BY <2>1, <2>3, DisconnectStep
  <2> QED
    BY <1>6, <2>2, <2>3 DEF Stored
<1>7. CASE Selected
  <2>1. op.what # "Disconnect" /\ ~Alive /\ ~down /\ UNCHANGED saved
    BY <1>7 DEF Selected, MachineInv
  <2>2. ASSUME NEW r \in {"Ok", "Error"}, UNCHANGED <<machine, orphans>>, Finish(r)
        PROVE  MachineInv'
    BY <2>1, <2>2, FinishStep DEF MachineInv
  <2>3. ASSUME NEW n \in Target, StartMachine(n),
               IF op.what = "Startup" THEN Finish("Ok")
               ELSE op' = [op EXCEPT !.step = "wait"] /\ UNCHANGED down
        PROVE  MachineInv'
    <3>1. machine'.network \in saved' /\ orphans' = 0
      BY <2>1, <2>3 DEF StartMachine, Target, MachineInv
    <3>2. CASE op.what = "Startup"
      <4>1. op'.step = "idle" /\ UNCHANGED down
        BY <2>1, <2>3, <3>2 DEF Finish, Idle, Ranges
      <4> QED
        BY <2>1, <3>1, <4>1 DEF MachineInv, Alive
    <3>3. CASE op.what # "Startup"
      <4>1. op'.step = "wait" /\ op'.what = "Connect" /\ UNCHANGED down
        BY <1>7, <2>3, <3>3 DEF Selected, MachineInv, Ranges, Operations
      <4> QED
        BY <2>1, <3>1, <4>1 DEF MachineInv, Alive
    <3> QED
      BY <3>2, <3>3
  <2> QED
    BY <1>7, <2>2, <2>3 DEF Selected
<1>8. CASE WaitForConnection
  <2>1. op \in Operations /\ op.what = "Connect" /\ ~down /\ UNCHANGED <<orphans, saved>>
    BY <1>8 DEF Ranges, MachineInv, WaitForConnection
  <2>2. CASE DisconnectMachine(op, "cancelled")
    BY <2>1, <2>2, DisconnectStep
  <2>3. ASSUME NEW r, Finish(r), UNCHANGED machine
        PROVE  MachineInv'
    BY <2>1, <2>3, FinishStep DEF MachineInv
  <2> QED
    BY <1>8, <2>2, <2>3 DEF WaitForConnection
<1>9. CASE Removed
  <2>1. op.what = "Forget" /\ (Alive => machine.network \in saved')
    BY <1>9 DEF Removed, MachineInv
  <2>2. PICK r : Finish(r)
    BY <1>9 DEF Removed
  <2> QED
    BY <1>9, <2>1, <2>2, FinishStep DEF Removed
<1>10. CASE TransportReplies
  <2>1. PICK r : Finish(r)
    BY <1>10 DEF TransportReplies
  <2> QED
    BY <1>10, <2>1, FinishStep DEF TransportReplies, MachineInv
<1>11. CASE MachineMoves \/ MachineAcknowledges
  <2>1. machine'.network = machine.network /\ (Alive' => Alive)
    BY <1>11, Zenon DEF MachineMoves, MachineAcknowledges, Alive, Ranges, Machines
  <2> QED
    BY <1>11, <2>1 DEF MachineMoves, MachineAcknowledges, MachineInv
<1> QED
  BY <1>1, <1>2, <1>4, <1>5, <1>6, <1>7, <1>8, <1>9, <1>10, <1>11,
     ZenonT(30) DEF Next, Operate, vars, policy, Accept, Receive, TakeReply, Send, TimeOut, OwnerReturns,
         TakeMeanwhile, ChannelEnded
-----------------------------------------------------------------------------
Replies == {"Ok", "Error", "Scan with hidden"}

(* What an answer changes of the applications. *)
LEMMA AnswerEffect ==
    ASSUME Ranges, NEW a \in Apps, NEW r, app[a].answer = "none"
    PROVE  \A b \in Apps :
             /\ Answer(a, r)[b].state = app[b].state
             /\ Answer(a, r)[b].answer = IF b = a THEN r ELSE app[b].answer
<1>1. app \in [Apps -> Clients0] /\ a # None
  BY DEF Ranges
<1>2. Answer(a, r) = [app EXCEPT ![a] = [app[a] EXCEPT !.answer = r]]
  BY <1>1 DEF Answer
<1>3. ASSUME NEW b \in Apps, b # a
      PROVE  Answer(a, r)[b] = app[b]
  BY <1>1, <1>2, <1>3
<1>4. Answer(a, r)[a] = [app[a] EXCEPT !.answer = r] /\ app[a] \in Clients0
  BY <1>1, <1>2
<1>5. Answer(a, r)[a].state = app[a].state /\ Answer(a, r)[a].answer = r
  BY <1>4 DEF Clients0
<1> QED
  BY <1>3, <1>5

(* A step of the policy that answers nobody, or one application that is    *)
(* owed an answer and that it holds no longer, keeps what is owed.         *)
LEMMA HeldStep ==
    ASSUME Ranges, ReplyInv, NEW x \in Apps \cup {None},
           app' = app \/ \E r \in Replies : app' = Answer(x, r),
           x # None => Sent(x) /\ x # queued' /\ x # op'.app,
           \A i \in DOMAIN channel' : channel'[i] # x,
           Ranges',
           \A i, j \in DOMAIN channel' : channel'[i] = channel'[j] => i = j,
           \A i \in DOMAIN channel' :
              Sent(channel'[i]) /\ channel'[i] # queued' /\ channel'[i] # op'.app,
           queued' # None => Sent(queued') /\ queued' # op'.app,
           op'.app # None => Sent(op'.app),
           op'.step = "ended" => channel' = <<>> /\ queued' = None /\ op'.app = None
    PROVE  ReplyInv'
<1>1. /\ \A i \in DOMAIN channel' : channel'[i] \in Apps
      /\ queued' \in Apps \cup {None} /\ op'.app \in Apps \cup {None}
  BY DEF Ranges, Operations
<1>2. \A b \in Apps :
        /\ app'[b].state = app[b].state
        /\ app'[b].answer = app[b].answer \/ (b = x /\ app'[b].answer \in Replies)
  <2>1. CASE app' = app
    BY <2>1
  <2>2. CASE x = None /\ app' # app
    BY <2>2 DEF Answer
  <2>3. ASSUME x # None, NEW r \in Replies, app' = Answer(x, r)
        PROVE  \A b \in Apps :
                 /\ app'[b].state = app[b].state
                 /\ app'[b].answer = app[b].answer \/ (b = x /\ app'[b].answer \in Replies)
    BY <2>3, AnswerEffect DEF Sent
  <2> QED
    BY <2>1, <2>2, <2>3
<1>3. \A b \in Apps : b # x => (Sent(b)' <=> Sent(b))
  BY <1>2 DEF Sent
<1>4. \A b \in Apps : /\ app'[b].answer # "twice"
                      /\ app'[b].state \in {"none", "receiving"} => app'[b].answer = "none"
  <2> SUFFICES ASSUME NEW b \in Apps
               PROVE  /\ app'[b].answer # "twice"
                      /\ app'[b].state \in {"none", "receiving"} => app'[b].answer = "none"
    OBVIOUS
  <2>1. CASE app'[b].answer = app[b].answer
    BY <1>2, <2>1 DEF ReplyInv
  <2>2. CASE b = x /\ app'[b].answer \in Replies
    BY <1>2, <2>2 DEF Replies, Sent
  <2> QED
    BY <1>2, <2>1, <2>2
<1>5. \A i \in DOMAIN channel' : Sent(channel[i])'
  BY <1>1, <1>3 DEF Sent
<1>6. queued' # None => Sent(queued)'
  BY <1>1, <1>3 DEF Sent
<1>7. op'.app # None => Sent(op.app)'
  BY <1>1, <1>3 DEF Sent
<1> QED
  BY <1>4, <1>5, <1>6, <1>7 DEF ReplyInv

(* What a step of the policy does with the application it serves: keeps it *)
(* or answers it and becomes idle.                                         *)
Serves(a) ==
    \/ UNCHANGED app /\ op'.app = a /\ op'.step # "ended"
    \/ op' = Idle /\ \E r \in Replies : app' = Answer(a, r)

(* A disconnect and what follows it serve the application that owns the   *)
(* operation.                                                              *)
LEMMA ProceedServes ==
    ASSUME NEW own \in Operations, NEW then,
           DisconnectMachine(own, then) \/ Proceed(own, then)
    PROVE  Serves(own.app)
<1>1. Proceed(own, then) => Serves(own.app)
  BY DEF Proceed, Serves, Operations, Replies
<1>2. DisconnectMachine(own, then) /\ Alive => Serves(own.app)
  BY Zenon DEF DisconnectMachine, Serves, Operations
<1> QED
  BY <1>1, <1>2 DEF DisconnectMachine

(* An operation that finishes answers its own application. *)
LEMMA FinishServes == \A r \in Replies : Finish(r) => Serves(op.app)
  BY DEF Finish, Serves

(* A command taken from the channel serves the application that sent it. *)
LEMMA HandleServes ==
    ASSUME Ranges, NEW a \in Apps, Handle(a)
    PROVE  Serves(a)
<1> DEFINE request == app[a].request
<1>1. request \in Commands
  BY DEF Ranges, Clients0
<1>2. Op(a, request, "start") \in Operations /\ Op(a, request, "start").app = a
  BY <1>1, OperationRange, Zenon DEF Op
<1>3. \A t : DisconnectMachine(Op(a, request, "start"), t) => Serves(a)
  BY <1>2, ProceedServes
<1>4. \A s \in {"transport", "store", "remove"} :
        Op(a, request, s).app = a /\ Op(a, request, s).step # "ended"
  BY DEF Op
<1> HIDE DEF request
<1>5. \/ \E t : DisconnectMachine(Op(a, request, "start"), t)
      \/ UNCHANGED app /\ op' \in {Op(a, request, s) : s \in {"transport", "store", "remove"}}
      \/ op' = Idle /\ \E r \in Replies : app' = Answer(a, r)
  BY DEF Handle, request, Replies
<1> QED
  BY <1>3, <1>4, <1>5 DEF Serves

(* The head of the channel and what remains of it. *)
LEMMA TailFacts ==
    ASSUME Ranges, ReplyInv, channel # <<>>
    PROVE  /\ Head(channel) \in Apps /\ Sent(Head(channel))
           /\ Head(channel) # queued /\ Head(channel) # op.app
           /\ \A i, j \in DOMAIN Tail(channel) : Tail(channel)[i] = Tail(channel)[j] => i = j
           /\ \A i \in DOMAIN Tail(channel) :
                 /\ Sent(Tail(channel)[i]) /\ Tail(channel)[i] # Head(channel)
                 /\ Tail(channel)[i] # queued /\ Tail(channel)[i] # op.app
<1>1. channel \in Seq(Apps) /\ Len(channel) \in Nat \ {0} /\ DOMAIN channel = 1..Len(channel)
  BY DEF Ranges
<1>2. 1 \in DOMAIN channel /\ Head(channel) = channel[1]
  BY <1>1
<1>3. \A i \in DOMAIN Tail(channel) :
        i \in Nat /\ i >= 1 /\ i + 1 \in DOMAIN channel /\ Tail(channel)[i] = channel[i + 1]
  BY <1>1
<1>4. \A i \in DOMAIN Tail(channel) : Tail(channel)[i] # Head(channel)
  BY <1>2, <1>3 DEF ReplyInv
<1>5. \A i, j \in DOMAIN Tail(channel) : Tail(channel)[i] = Tail(channel)[j] => i = j
  BY <1>3 DEF ReplyInv
<1> QED
  BY <1>1, <1>2, <1>3, <1>4, <1>5 DEF ReplyInv

(* A step of the applications keeps what is owed when nobody who is owed   *)
(* an answer is answered or forgotten.                                     *)
LEMMA ClientsOwed ==
    ASSUME Ranges, Ranges', ReplyInv, UNCHANGED <<channel, queued, op>>,
           \A b \in Apps :
              /\ Sent(b) /\ op.step # "ended" => Sent(b)'
              /\ app'[b].answer # "twice"
              /\ app'[b].state \in {"none", "receiving"} => app'[b].answer = "none"
    PROVE  ReplyInv'
<1>1. /\ \A i \in DOMAIN channel : channel[i] \in Apps
      /\ queued \in Apps \cup {None} /\ op.app \in Apps \cup {None}
  BY DEF Ranges, Operations
<1>2. CASE op.step = "ended"
  BY <1>2 DEF ReplyInv
<1>3. CASE op.step # "ended"
  <2>1. \A i \in DOMAIN channel' : Sent(channel[i])'
    BY <1>1, <1>3 DEF ReplyInv, Sent
  <2>2. (queued' # None => Sent(queued)') /\ (op'.app # None => Sent(op.app)')
    BY <1>1, <1>3 DEF ReplyInv, Sent
  <2> QED
    BY <1>3, <2>1, <2>2 DEF ReplyInv
<1> QED
  BY <1>2, <1>3

(* The state and the answer of the applications after a reply by the owner. *)
LEMMA ReplyingEffect ==
    ASSUME Ranges, NEW a \in Apps, NEW r, r # "none", r # "twice", app' = Replying(a, r),
           app[a].answer # "twice"
    PROVE  /\ \A b \in Apps \ {a} : app'[b] = app[b]
           /\ app'[a].state \in {"gone", "sending"} /\ app'[a].answer # "twice"
<1>1. app \in [Apps -> Clients0] /\ app[a] \in Clients0
  BY DEF Ranges
<1> QED
  BY <1>1 DEF Replying, Clients0

(* Each step of the applications and of their owner keeps what is owed. *)
LEMMA ClientsReply ==
    ASSUME Ranges, Ranges', ReplyInv,
           \/ \E a \in Apps : Accept(a) \/ Receive(a) \/ TakeReply(a) \/ Send(a) \/ TimeOut(a)
           \/ OwnerReturns
    PROVE  ReplyInv'
<1>1. app \in [Apps -> Clients0] /\ \A b \in Apps : app[b] \in Clients0
  BY SMTT(30) DEF Ranges
<1>2. ASSUME NEW a \in Apps, Accept(a)
      PROVE  ReplyInv'
  <2>1. /\ \A b \in Apps \ {a} : app'[b] = app[b]
        /\ app[a].state = "none" /\ app'[a].answer = app[a].answer
        /\ UNCHANGED <<channel, queued, op>>
    BY <1>1, <1>2, ZenonT(30) DEF Accept, policy, Clients0
  <2> QED
    BY <2>1, ClientsOwed DEF ReplyInv, Sent
<1>3. ASSUME NEW a \in Apps, app[a].state = "receiving", app' = Replying(a, "Error"),
             UNCHANGED <<channel, queued, op>>
      PROVE  ReplyInv'
  <2>1. app[a].answer # "twice"
    BY SMTT(30) DEF ReplyInv
  <2>2. /\ \A b \in Apps \ {a} : app'[b] = app[b]
        /\ app'[a].state \in {"gone", "sending"} /\ app'[a].answer # "twice"
    BY <1>3, <2>1, ReplyingEffect
  <2> QED
    BY <1>3, <2>2, ClientsOwed, SMTT(30) DEF ReplyInv, Sent
<1>4. ASSUME NEW a \in Apps, app[a].state = "receiving", op.step # "ended",
             app' = [app EXCEPT ![a].state = "waiting"], channel' = Append(channel, a),
             UNCHANGED <<queued, op>>
      PROVE  ReplyInv'
  <2>1. /\ \A b \in Apps \ {a} : app'[b] = app[b]
        /\ app'[a].state = "waiting" /\ app'[a].answer = app[a].answer
    BY <1>1, <1>4 DEF Clients0
  <2>2. app[a].answer = "none" /\ ~Sent(a)
    BY <1>4 DEF ReplyInv, Sent
  <2>3. a # queued /\ a # op.app /\ \A i \in DOMAIN channel : channel[i] # a
    BY <2>2 DEF ReplyInv
  <2>4. /\ channel \in Seq(Apps) /\ DOMAIN channel = 1..Len(channel) /\ Len(channel) \in Nat
        /\ queued \in Apps \cup {None} /\ op.app \in Apps \cup {None}
        /\ \A i \in DOMAIN channel : channel[i] \in Apps
    BY DEF Ranges, Operations
  <2>5. \A i \in DOMAIN channel' :
          (i \in DOMAIN channel /\ channel'[i] = channel[i])
          \/ (i = Len(channel) + 1 /\ channel'[i] = a)
    BY <1>4, <2>4
  <2>6. \A i, j \in DOMAIN channel' : channel'[i] = channel'[j] => i = j
    BY <2>3, <2>5 DEF ReplyInv
  <2>7. \A b \in Apps : Sent(b) \/ b = a => Sent(b)'
    BY <2>1, <2>2 DEF Sent
  <2>8. \A i \in DOMAIN channel' :
          Sent(channel[i])' /\ channel'[i] # queued' /\ channel'[i] # op'.app
    <3> SUFFICES ASSUME NEW i \in DOMAIN channel'
                 PROVE  Sent(channel[i])' /\ channel'[i] # queued' /\ channel'[i] # op'.app
      OBVIOUS
    <3>1. channel'[i] \in Apps /\ (Sent(channel'[i]) \/ channel'[i] = a)
      BY <2>4, <2>5 DEF ReplyInv
    <3>2. Sent(channel[i])'
      BY <2>7, <3>1 DEF Sent
    <3> QED
      BY <1>4, <2>3, <2>5, <3>2 DEF ReplyInv
  <2>9. (queued' # None => Sent(queued)') /\ (op'.app # None => Sent(op.app)')
    BY <1>4, <2>4, <2>7 DEF ReplyInv, Sent
  <2>10. \A b \in Apps : /\ app'[b].answer # "twice"
                         /\ app'[b].state \in {"none", "receiving"} => app'[b].answer = "none"
    BY <2>1, <2>2, SMTT(30) DEF ReplyInv
  <2> QED
    BY <1>4, <2>6, <2>8, <2>9, <2>10 DEF ReplyInv
<1>5. ASSUME NEW a \in Apps, TakeReply(a)
      PROVE  ReplyInv'
  <2>1. /\ app[a].state = "waiting" /\ app[a].answer # "twice" /\ UNCHANGED <<channel, queued, op>>
        /\ app[a].answer # "none" \/ op.step = "ended"
    BY <1>5 DEF TakeReply, ReplyInv, policy
  <2>2. \E r : r # "none" /\ r # "twice" /\ app' = Replying(a, r)
    BY <1>5, <2>1, Zenon DEF TakeReply
  <2>3. /\ \A b \in Apps \ {a} : app'[b] = app[b]
        /\ app'[a].state \in {"gone", "sending"} /\ app'[a].answer # "twice"
    BY <2>1, <2>2, ReplyingEffect, ZenonT(30)
  <2> QED
    BY <2>1, <2>3, ClientsOwed, SMTT(30) DEF ReplyInv, Sent
<1>6. ASSUME NEW a \in Apps, NEW w, Leaves(a, w), UNCHANGED <<channel, queued, op>>
      PROVE  ReplyInv'
  <2>1. /\ \A b \in Apps \ {a} : app'[b] = app[b]
        /\ app'[a].state = "gone" /\ app'[a].answer = app[a].answer
    BY <1>1, <1>6, ZenonT(30) DEF Leaves, Clients0
  <2> QED
    BY <1>6, <2>1, ClientsOwed, SMTT(30) DEF ReplyInv, Sent
<1>7. CASE OwnerReturns
  <2>1. /\ \A b \in Apps : /\ app'[b].state \in {app[b].state, "gone"}
                            /\ app'[b].answer = app[b].answer
        /\ UNCHANGED <<channel, queued, op>>
    BY <1>1, <1>7, Zenon DEF OwnerReturns, policy, Clients0
  <2> QED
    BY <2>1, ClientsOwed DEF ReplyInv, Sent
<1> QED
  BY <1>2, <1>3, <1>4, <1>5, <1>6, <1>7 DEF Receive, Send, TimeOut, policy

(* A step of the operation alive on behalf of its application. *)
LEMMA OperationReply ==
    ASSUME Ranges, Ranges', ReplyInv, Serves(op.app), op.step # "ended", UNCHANGED <<channel, queued>>
    PROVE  ReplyInv'
<1>1. op.app \in Apps \cup {None} /\ \A i \in DOMAIN channel : channel[i] \in Apps
  BY SMTT(30) DEF Ranges, Operations
<1>2. CASE UNCHANGED app /\ op'.app = op.app /\ op'.step # "ended"
  <2>1. \A i \in DOMAIN channel' : channel'[i] # None
    BY <1>1, SMTT(30)
  <2> QED
    BY <1>2, <2>1, HeldStep DEF ReplyInv
<1>3. CASE op' = Idle /\ \E r \in Replies : app' = Answer(op.app, r)
  <2>1. op'.app = None /\ op'.step = "idle"
    BY <1>3, Zenon DEF Idle
  <2>2. \A i \in DOMAIN channel' : channel'[i] # None
    BY <1>1
  <2> QED
    BY <1>1, <1>3, <2>1, <2>2, HeldStep DEF ReplyInv
<1> QED
  BY <1>2, <1>3 DEF Serves

(* The start of a command taken from the queue or the channel. *)
LEMMA CommandReply ==
    ASSUME Ranges, Ranges', ReplyInv, NEW a \in Apps, Sent(a), Serves(a), queued' = None,
           \A i, j \in DOMAIN channel' : channel'[i] = channel'[j] => i = j,
           \A i \in DOMAIN channel' : Sent(channel'[i]) /\ channel'[i] # a
    PROVE  ReplyInv'
<1>1. \A i \in DOMAIN channel' : channel'[i] # None
  BY DEF Ranges
<1>2. CASE UNCHANGED app /\ op'.app = a /\ op'.step # "ended"
  BY <1>1, <1>2, HeldStep
<1>3. CASE op' = Idle /\ \E r \in Replies : app' = Answer(a, r)
  <2>1. op'.app = None /\ op'.step = "idle"
    BY <1>3 DEF Idle
  <2> QED
    BY <1>1, <1>3, <2>1, HeldStep, SMTT(30)
<1> QED
  BY <1>2, <1>3 DEF Serves

(* Every step keeps what is owed. *)
LEMMA ReplyStep == Ranges /\ Ranges' /\ ReplyInv /\ [Next]_vars => ReplyInv'
<1> SUFFICES ASSUME Ranges, Ranges', ReplyInv, [Next]_vars PROVE ReplyInv'
  OBVIOUS
<1>1. CASE \/ \E a \in Apps : Accept(a) \/ Receive(a) \/ TakeReply(a) \/ Send(a) \/ TimeOut(a)
           \/ OwnerReturns
  BY <1>1, ClientsReply
<1>2. CASE ServeEnds
  <2>1. op'.app = None /\ op'.step = "ended" /\ DOMAIN channel' = {}
    BY <1>2 DEF ServeEnds, Idle
  <2> QED
    BY <1>2, <2>1, HeldStep DEF ServeEnds
<1>3. CASE TakeMeanwhile
  <2> DEFINE a == Head(channel)
  <2>1. channel # <<>> /\ channel' = Tail(channel) /\ UNCHANGED op /\ op.step # "ended"
    BY <1>3 DEF TakeMeanwhile, Busy
  <2>2. /\ a \in Apps /\ Sent(a) /\ a # queued /\ a # op.app
        /\ \A i, j \in DOMAIN channel' : channel'[i] = channel'[j] => i = j
        /\ \A i \in DOMAIN channel' :
              Sent(channel'[i]) /\ channel'[i] # a /\ channel'[i] # queued /\ channel'[i] # op.app
    BY <2>1, TailFacts
  <2>3. /\ \A i \in DOMAIN channel' : channel'[i] # None
        /\ queued \in Apps \cup {None}
    BY DEF Ranges
  <2>4. (queued # None => Sent(queued) /\ queued # op.app) /\ (op.app # None => Sent(op.app))
    BY DEF ReplyInv
  <2> HIDE DEF a
  <2>5. CASE \E r \in Replies : app' = Answer(a, r) /\ UNCHANGED queued
    BY <2>1, <2>2, <2>3, <2>4, <2>5, HeldStep
  <2>6. CASE queued' = a /\ \/ UNCHANGED app
                            \/ queued # None /\ \E r \in Replies : app' = Answer(queued, r)
    <3>1. CASE UNCHANGED app
      BY <2>1, <2>2, <2>3, <2>4, <2>6, <3>1, HeldStep, SMTT(30)
    <3>2. CASE queued # None /\ \E r \in Replies : app' = Answer(queued, r)
      BY <2>1, <2>2, <2>3, <2>4, <2>6, <3>2, HeldStep, SMTT(30)
    <3> QED
      BY <2>6, <3>1, <3>2
  <2> QED
    BY <1>3, <2>5, <2>6 DEF TakeMeanwhile, Supersede, Replies, a
<1>4. CASE TakeCommand /\ queued # None
  <2>1. queued \in Apps /\ Handle(queued) /\ queued' = None /\ UNCHANGED channel
    BY <1>4 DEF TakeCommand, Ranges
  <2>2. Sent(queued) /\ Serves(queued)
    BY <1>4, <2>1, HandleServes DEF ReplyInv
  <2> QED
    BY <2>1, <2>2, CommandReply DEF ReplyInv
<1>5. CASE TakeCommand /\ queued = None
  <2>1. /\ channel # <<>> /\ channel' = Tail(channel) /\ Handle(Head(channel))
        /\ queued' = None
    BY <1>5 DEF TakeCommand
  <2>2. /\ Head(channel) \in Apps /\ Sent(Head(channel))
        /\ \A i, j \in DOMAIN channel' : channel'[i] = channel'[j] => i = j
        /\ \A i \in DOMAIN channel' : Sent(channel'[i]) /\ channel'[i] # Head(channel)
    BY <2>1, TailFacts
  <2>3. Serves(Head(channel))
    BY <2>1, <2>2, HandleServes
  <2> QED
    BY <2>1, <2>2, <2>3, CommandReply
<1>6. CASE Disconnected \/ Stored \/ Selected \/ WaitForConnection \/ Removed \/ TransportReplies
  <2>1. op \in Operations
    BY DEF Ranges
  <2>2. \A t : DisconnectMachine(op, t) \/ Proceed(op, t) => Serves(op.app)
    BY <2>1, ProceedServes
  <2>3. \A r \in Replies : Finish(r) => Serves(op.app)
    BY FinishServes
  <2>4. CASE Selected
    <3>1. \A n : /\ IF op.what = "Startup" THEN desired' = n /\ Finish("Ok")
                    ELSE op' = [op EXCEPT !.step = "wait"] /\ UNCHANGED <<app, down, desired>>
                => Serves(op.app)
      BY <2>1, <2>3 DEF Serves, Operations, Replies
    <3> QED
      BY <2>3, <2>4, <3>1, OperationReply DEF Selected, Replies
  <2>5. CASE Disconnected
    BY <2>2, <2>3, <2>5, OperationReply, Zenon DEF Disconnected, Replies
  <2>6. CASE Stored
    BY <2>2, <2>3, <2>6, OperationReply, Zenon DEF Stored, Replies
  <2>7. CASE WaitForConnection
    BY <2>2, <2>3, <2>7, OperationReply DEF WaitForConnection, Replies
  <2>8. CASE Removed
    BY <2>3, <2>8, OperationReply DEF Removed, Replies
  <2>9. CASE TransportReplies
    BY <2>3, <2>9, OperationReply, Zenon DEF TransportReplies, Replies
  <2> QED
    BY <1>6, <2>4, <2>5, <2>6, <2>7, <2>8, <2>9
<1>7. CASE UNCHANGED <<app, channel, queued, op>>
  BY <1>7 DEF ReplyInv, Sent
<1> QED
  BY <1>1, <1>2, <1>3, <1>4, <1>5, <1>6, <1>7
     DEF Next, Operate, vars, ChannelEnded, MachineMoves, MachineAcknowledges
-----------------------------------------------------------------------------
(* An answer leaves the state of every application alone. *)
LEMMA AnswerStates ==
    ASSUME Ranges, NEW a \in Apps \cup {None}, NEW r
    PROVE  \A b \in Apps : Answer(a, r)[b].state = app[b].state
<1>1. app \in [Apps -> Clients0] /\ \A b \in Apps : app[b] \in Clients0
  BY DEF Ranges
<1> QED
  BY <1>1 DEF Answer, Clients0

(* Only Accept makes a client. *)
LEMMA ClientsStep ==
    ASSUME Ranges, [Next]_vars, \A a \in Apps : ~Accept(a)
    PROVE  Clients' \subseteq Clients
<1> SUFFICES ASSUME NEW b \in Apps, app'[b].state \in {"receiving", "waiting", "sending"}
             PROVE  app[b].state \in {"receiving", "waiting", "sending"}
  BY DEF Clients
<1>1. app \in [Apps -> Clients0] /\ \A c \in Apps : app[c] \in Clients0
  BY DEF Ranges
<1>2. ASSUME NEW a \in Apps, Receive(a) \/ TakeReply(a) \/ Send(a) \/ TimeOut(a)
      PROVE  app[b].state \in {"receiving", "waiting", "sending"}
  <2>1. /\ app[a].state \in {"receiving", "waiting", "sending"}
        /\ b # a => app'[b] = app[b]
    BY <1>1, <1>2, Zenon DEF Receive, TakeReply, Send, TimeOut, Leaves, Replying
  <2> QED
    BY <2>1
<1>3. CASE OwnerReturns
  BY <1>1, <1>3, Zenon DEF OwnerReturns, Clients
<1>4. CASE app' = app \/ \E a \in Apps \cup {None}, r \in Replies : app' = Answer(a, r)
  BY <1>4, AnswerStates
<1>5. op \in Operations /\ op.app \in Apps \cup {None} /\ queued \in Apps \cup {None}
  BY DEF Ranges, Operations
<1>6. ASSUME NEW a \in Apps \cup {None}, Serves(a)
      PROVE  app[b].state \in {"receiving", "waiting", "sending"}
  BY <1>4, <1>6 DEF Serves
<1>7. CASE TakeCommand
  <2>1. PICK a \in Apps : Handle(a)
    BY <1>7 DEF TakeCommand, Ranges
  <2> QED
    BY <1>6, <2>1, HandleServes
<1>8. CASE TakeMeanwhile
  <2>1. Head(channel) \in Apps
    BY <1>8 DEF TakeMeanwhile, Ranges
  <2> QED
    BY <1>4, <1>5, <1>8, <2>1 DEF TakeMeanwhile, Supersede, Replies
<1>9. CASE Disconnected \/ Stored \/ Selected \/ WaitForConnection \/ Removed \/ TransportReplies
  <2>1. \A r \in Replies : Finish(r) => Serves(op.app)
    BY FinishServes
  <2>2. \A t : DisconnectMachine(op, t) \/ Proceed(op, t) => Serves(op.app)
    BY <1>5, ProceedServes
  <2>3. Serves(op.app) \/ UNCHANGED app
    BY <1>9, <2>1, <2>2
       DEF Disconnected, Stored, Selected, WaitForConnection, Removed, TransportReplies, Replies
  <2> QED
    BY <1>4, <1>5, <1>6, <2>3
<1> QED
  BY <1>2, <1>3, <1>4, <1>7, <1>8, <1>9
     DEF Next, Operate, vars, ServeEnds, ChannelEnded, MachineMoves, MachineAcknowledges

(* The connections and the channel stay within their limits. *)
LEMMA BoundStep == Ranges /\ Ranges' /\ BoundInv /\ [Next]_vars => BoundInv'
<1> SUFFICES ASSUME Ranges, Ranges', BoundInv, [Next]_vars PROVE BoundInv'
  OBVIOUS
<1>1. IsFiniteSet(Clients') /\ Cardinality(Clients') <= MaxClients
  <2>1. ASSUME NEW a \in Apps, Accept(a)
        PROVE  IsFiniteSet(Clients') /\ Cardinality(Clients') <= MaxClients
    <3>1. app \in [Apps -> Clients0] /\ app[a] \in Clients0
      BY DEF Ranges
    <3>2. /\ app[a].state = "none" /\ app'[a].state = "receiving"
          /\ \A b \in Apps \ {a} : app'[b] = app[b]
      BY <2>1, <3>1 DEF Accept, Clients0
    <3>3. Clients' = Clients \cup {a} /\ a \notin Clients
      BY <3>2 DEF Clients
    <3>4. Cardinality(Clients) < MaxClients /\ Cardinality(Clients) \in Nat
      BY <2>1, FS_CardinalityType DEF Accept, BoundInv
    <3>5. /\ IsFiniteSet(Clients \cup {a})
          /\ Cardinality(Clients \cup {a}) = Cardinality(Clients) + 1
      BY <3>3, FS_AddElement DEF BoundInv
    <3> QED
      BY <3>3, <3>4, <3>5
  <2>2. CASE \A a \in Apps : ~Accept(a)
    <3>1. Clients' \subseteq Clients
      BY <2>2, ClientsStep
    <3>2. IsFiniteSet(Clients') /\ Cardinality(Clients') <= Cardinality(Clients)
      BY <3>1, FS_Subset DEF BoundInv
    <3>3. Cardinality(Clients) \in Nat /\ Cardinality(Clients') \in Nat
      BY <3>2, FS_CardinalityType DEF BoundInv
    <3> QED
      BY <3>2, <3>3 DEF BoundInv
  <2> QED
    BY <2>1, <2>2
<1>2. Len(channel') <= Limit
  <2>1. channel \in Seq(Apps) /\ Len(channel) \in Nat /\ Len(channel) <= Limit
    BY DEF Ranges, BoundInv
  <2>2. \/ UNCHANGED channel
        \/ channel # <<>> /\ channel' = Tail(channel)
        \/ \E a \in Apps : Len(channel) < Limit /\ channel' = Append(channel, a)
    <3>1. Len(channel) # Limit => Len(channel) < Limit
      BY <2>1
    <3> QED
      BY <3>1, Zenon DEF Next, Operate, vars, policy, Accept, Receive, TakeReply, Send, TimeOut,
           OwnerReturns, ServeEnds, TakeMeanwhile, ChannelEnded, TakeCommand, Disconnected,
           Stored, Selected, WaitForConnection, Removed, TransportReplies, MachineMoves,
           MachineAcknowledges
  <2> QED
    BY <2>1, <2>2
<1> QED
  BY <1>1, <1>2 DEF BoundInv

(* The inductive invariant. *)
LEMMA PolicyInvariant == Spec => []PolicyInv
<1>1. Init => PolicyInv
  <2> SUFFICES ASSUME Init PROVE PolicyInv
    OBVIOUS
  <2>1. /\ op.step = "select" /\ op.what = "Startup" /\ op.app = None
        /\ machine.state = "exited" /\ channel = <<>> /\ queued = None
        /\ \A a \in Apps : app[a].answer = "none" /\ app[a].state = "none"
    BY DEF Init, Op
  <2>2. op \in Operations /\ machine \in Machines /\ app \in [Apps -> Clients0]
    BY DEF Init, Op, Operations, Machines, Clients0, Commands
  <2>3. Ranges
    <3>1. channel \in Seq(Apps)
      BY <2>1
    <3> QED
      BY <2>2, <3>1, Zenon DEF Init, Ranges
  <2>4. MachineInv
    BY <2>1 DEF Init, MachineInv, Alive
  <2>5. ReplyInv
    BY <2>1 DEF ReplyInv
  <2>6. Clients = {} /\ Len(channel) = 0
    BY <2>1 DEF Clients
  <2> QED
    BY <2>3, <2>4, <2>5, <2>6, FS_EmptySet DEF PolicyInv, BoundInv
<1>2. PolicyInv /\ [Next]_vars => PolicyInv'
  BY RangesStep, MachineStep, ReplyStep, BoundStep DEF PolicyInv
<1> QED
  BY <1>1, <1>2, PTL DEF Spec

(* The policy has one connection machine at a time, on a saved network,    *)
(* and none once a disconnect was answered Ok (start_machine, handle and   *)
(* disconnect_machine of policy.rs); no responder is used twice, and the   *)
(* connections and the command channel stay within their limits.           *)
THEOREM PolicyIsSafe == Spec => []PolicySafe
<1>1. PolicyInv => PolicySafe
  <2> SUFFICES ASSUME PolicyInv PROVE PolicySafe
    OBVIOUS
  <2>1. \A a \in Apps : app[a] \in Clients0 /\ app[a].answer # "twice"
    BY DEF PolicyInv, Ranges, ReplyInv
  <2>2. \A a \in Apps : /\ app[a].state \in {"none", "receiving", "waiting", "sending", "gone"}
                        /\ app[a].answer \in {"none", "Ok", "Error", "Scan with hidden"}
    BY <2>1 DEF Clients0
  <2> QED
    BY <2>2 DEF PolicyInv, Ranges, MachineInv, BoundInv, PolicySafe, TypeOK, SingleMachine,
         DisconnectHolds, MachineNetworkSaved
<1> QED
  BY <1>1, PolicyInvariant, PTL

-----------------------------------------------------------------------------
(* What the operation alive says of its request and of the intent: it is   *)
(* its application's, an operation nobody cancelled has kept its intent, a *)
(* disconnect and a removal have given theirs up, and the machine waited   *)
(* for is on the network asked for.                                        *)
IntentInv ==
    /\ op.app # None => /\ app[op.app].request.what = op.what
                        /\ app[op.app].request.network = op.network
    /\ op.step \in {"store", "select", "wait"} /\ op.what = "Connect" /\ ~cancelled =>
          desired = op.network
    /\ op.step = "disconnect" /\ op.then = "select" /\ ~cancelled => desired = op.network
    /\ op.step = "disconnect" /\ op.then \in {"done", "remove"} => desired = None
    /\ op.step = "disconnect" /\ op.then = "remove" => op.network \in Networks
    /\ op.step = "remove" => op.network \in Networks /\ desired # op.network
    /\ op.step = "wait" => machine.network = op.network

(* Only Accept gives an application its request. *)
LEMMA AnswerRequests ==
    ASSUME Ranges, NEW a \in Apps \cup {None}, NEW r
    PROVE  \A b \in Apps : Answer(a, r)[b].request = app[b].request
<1>1. app \in [Apps -> Clients0] /\ \A b \in Apps : app[b] \in Clients0
  BY DEF Ranges
<1> QED
  BY <1>1 DEF Answer, Clients0

(* The answer an application finds is the one it was given. *)
LEMMA OkAnswer ==
    ASSUME Ranges, NEW x \in Apps \cup {None}, NEW r, app' = Answer(x, r),
           NEW a \in Apps, app[a].answer = "none", app'[a].answer = "Ok"
    PROVE  a = x /\ r = "Ok"
<1>1. app \in [Apps -> Clients0] /\ app[a] \in Clients0
  BY DEF Ranges
<1>2. x # None
  BY DEF Answer
<1>3. x \in Apps /\ app' = [app EXCEPT ![x].answer = IF @ = "none" THEN r ELSE "twice"]
  BY <1>2, Zenon DEF Answer
<1>4. a # x => app'[a] = app[a]
  BY <1>1, <1>3
<1>5. a = x => app'[a] = [app[a] EXCEPT !.answer = r]
  BY <1>1, <1>3
<1>6. a = x => app'[a].answer = r
  BY <1>1, <1>5 DEF Clients0
<1> QED
  BY <1>4, <1>6

(* The steps of the applications and of their owner give no answer Ok that *)
(* the policy did not give, and no other request to one that has sent its. *)
LEMMA ClientAnswers ==
    ASSUME Ranges, NEW b \in Apps,
           \/ \E a \in Apps : Accept(a) \/ Receive(a) \/ TakeReply(a) \/ Send(a) \/ TimeOut(a)
           \/ OwnerReturns
    PROVE  /\ app[b].answer = "none" => app'[b].answer # "Ok"
           /\ app[b].state # "none" => app'[b].request = app[b].request
<1>1. app \in [Apps -> Clients0] /\ \A c \in Apps : app[c] \in Clients0
  BY DEF Ranges
<1>2. ASSUME NEW a \in Apps, NEW r, app' = Replying(a, r), r # "Ok" \/ app[a].answer # "none"
      PROVE  /\ app[b].answer = "none" => app'[b].answer # "Ok"
             /\ app'[b].request = app[b].request
  <2>1. CASE a # b
    BY <1>1, <1>2, <2>1 DEF Replying
  <2>2. CASE a = b
    BY <1>1, <1>2, <2>2 DEF Replying, Clients0
  <2> QED
    BY <2>1, <2>2
<1>3. ASSUME NEW a \in Apps, Receive(a) \/ TakeReply(a)
      PROVE  /\ app[b].answer = "none" => app'[b].answer # "Ok"
             /\ app'[b].request = app[b].request
  <2>1. CASE app' = [app EXCEPT ![a].state = "waiting"]
    BY <1>1, <2>1 DEF Clients0
  <2>2. CASE app' = Replying(a, "Error")
    BY <1>2, <2>2
  <2>3. CASE app[a].answer # "none" /\ app' = Replying(a, app[a].answer)
    BY <1>2, <2>3
  <2> QED
    BY <1>3, <2>1, <2>2, <2>3, Zenon DEF Receive, TakeReply
<1>4. ASSUME NEW a \in Apps, Send(a) \/ TimeOut(a)
      PROVE  app'[b].answer = app[b].answer /\ app'[b].request = app[b].request
  <2>1. PICK w : app' = [app EXCEPT ![a].state = "gone", ![a].outcome = w]
    BY <1>4, Zenon DEF Send, TimeOut, Leaves
  <2> QED
    BY <1>1, <2>1 DEF Clients0
<1>5. ASSUME NEW a \in Apps, Accept(a)
      PROVE  /\ app'[b].answer = app[b].answer
             /\ app[b].state # "none" => app'[b].request = app[b].request
  <2>1. PICK r : /\ app' = [app EXCEPT ![a].state = "receiving", ![a].request = r]
                 /\ app[a].state = "none"
    BY <1>5, Zenon DEF Accept
  <2>2. CASE a # b
    BY <1>1, <2>1, <2>2
  <2>3. CASE a = b
    BY <1>1, <2>1, <2>3 DEF Clients0
  <2> QED
    BY <2>2, <2>3
<1>6. CASE OwnerReturns
  <2>1. app'[b] = app[b] \/ app'[b] = [app[b] EXCEPT !.state = "gone", !.outcome = "left"]
    BY <1>6, Zenon DEF OwnerReturns
  <2> QED
    BY <1>1, <2>1 DEF Clients0
<1> QED
  BY <1>3, <1>4, <1>5, <1>6

(* An idle policy has no intent to keep. *)
LEMMA IdleIntent ==
    ASSUME op' \in {Idle, [Idle EXCEPT !.step = "ended"]}
    PROVE  IntentInv'
<1>1. op'.app = None /\ op'.step \in {"idle", "ended"}
  BY DEF Idle
<1> QED
  BY <1>1 DEF IntentInv

(* disconnect_machine, whoever asks for it, keeps the intent. *)
LEMMA DisconnectIntent ==
    ASSUME Ranges, NEW own \in Operations,
           NEW then \in {"done", "select", "remove", "cancelled"},
           DisconnectMachine(own, then) \/ Proceed(own, then),
           own.app # None => /\ app[own.app].request.what = own.what
                             /\ app[own.app].request.network = own.network,
           then = "select" /\ ~cancelled' => desired' = own.network,
           then \in {"done", "remove"} => desired' = None,
           then = "remove" => own.network \in Networks
    PROVE  IntentInv'
<1>1. CASE /\ op' = [own EXCEPT !.step = "disconnect", !.then = then]
           /\ UNCHANGED app
  <2>1. /\ op'.app = own.app /\ op'.what = own.what /\ op'.network = own.network
        /\ op'.step = "disconnect" /\ op'.then = then
    BY <1>1, Zenon DEF Operations
  <2> QED
    BY <1>1, <2>1 DEF IntentInv
<1>2. CASE /\ then \in {"select", "remove"} /\ op' = [own EXCEPT !.step = then]
           /\ UNCHANGED app
  <2>1. /\ op'.app = own.app /\ op'.what = own.what /\ op'.network = own.network
        /\ op'.step = then
    BY <1>2, Zenon DEF Operations
  <2> QED
    BY <1>2, <2>1 DEF IntentInv
<1>3. CASE op' = Idle
  BY <1>3, IdleIntent
<1>4. Proceed(own, then) => \/ /\ then \in {"select", "remove"}
                               /\ op' = [own EXCEPT !.step = then] /\ UNCHANGED app
                            \/ op' = Idle
  BY DEF Proceed
<1> QED
  BY <1>1, <1>2, <1>3, <1>4, Zenon DEF DisconnectMachine

(* The operation of an application that has sent its request. *)
LEMMA HandleIntent ==
    ASSUME Ranges, NEW a \in Apps, Handle(a), ~cancelled'
    PROVE  IntentInv'
<1> DEFINE request == app[a].request
<1>1. request \in Commands
  BY DEF Ranges, Clients0
<1>2. \A s : /\ Op(a, request, s).step = s /\ Op(a, request, s).what = request.what
             /\ Op(a, request, s).network = request.network /\ Op(a, request, s).app = a
  BY DEF Op
<1>3. Op(a, request, "start") \in Operations
  BY <1>1, OperationRange
<1>4. request.what = "Forget" => request.network \in Networks
  BY <1>1 DEF Commands
<1>5. CASE op' = Idle
  BY <1>5, IdleIntent, Zenon
<1>6. CASE op' = Op(a, request, "transport") /\ UNCHANGED app
  <2>1. /\ op'.step = "transport" /\ op'.app = a /\ op'.what = request.what
        /\ op'.network = request.network
    BY <1>2, <1>6, Zenon
  <2> QED
    BY <1>6, <2>1 DEF IntentInv
<1>7. CASE op' = Op(a, request, "store") /\ desired' = request.network /\ UNCHANGED app
  <2>1. /\ op'.step = "store" /\ op'.app = a /\ op'.what = request.what
        /\ op'.network = request.network
    BY <1>2, <1>7, Zenon
  <2> QED
    BY <1>7, <2>1 DEF IntentInv
<1>8. CASE /\ request.what = "Forget" /\ ~IsCurrent(request.network)
           /\ op' = Op(a, request, "remove") /\ UNCHANGED <<app, desired>>
  <2>1. /\ op'.step = "remove" /\ op'.app = a /\ op'.what = request.what
        /\ op'.network = request.network
    BY <1>2, <1>8, Zenon
  <2>2. request.network \in Networks /\ desired' # request.network
    BY <1>4, <1>8, Zenon DEF IsCurrent
  <2> QED
    BY <1>8, <2>1, <2>2 DEF IntentInv
<1>9. CASE /\ desired' = None /\ DisconnectMachine(Op(a, request, "start"), "done")
  BY <1>2, <1>3, <1>9, DisconnectIntent
<1>10. CASE /\ request.what = "Forget" /\ desired' = None
            /\ DisconnectMachine(Op(a, request, "start"), "remove")
  BY <1>2, <1>3, <1>4, <1>10, DisconnectIntent
<1> QED
  BY <1>5, <1>6, <1>7, <1>8, <1>9, <1>10, Zenon DEF Handle

(* Every step keeps the intent. *)
LEMMA IntentStep == PolicyInv /\ IntentInv /\ [Next]_vars => IntentInv'
<1> SUFFICES ASSUME PolicyInv, IntentInv, [Next]_vars PROVE IntentInv'
  OBVIOUS
<1>1. Ranges /\ MachineInv /\ ReplyInv /\ op \in Operations /\ machine \in Machines
  BY DEF PolicyInv, Ranges
<1>2. op.app \in Apps \cup {None} /\ op.then \in {"done", "select", "remove", "cancelled"}
  BY <1>1 DEF Operations
<1>3. op.app # None => /\ app[op.app].request.what = op.what
                       /\ app[op.app].request.network = op.network
  BY DEF IntentInv
<1>4. CASE \/ \E a \in Apps : Accept(a) \/ Receive(a) \/ TakeReply(a) \/ Send(a) \/ TimeOut(a)
           \/ OwnerReturns
  <2>1. UNCHANGED <<op, cancelled, desired, machine>>
    BY <1>4, Zenon DEF Accept, Receive, TakeReply, Send, TimeOut, OwnerReturns, policy
  <2>2. op.app # None => app[op.app].state # "none"
    BY <1>1 DEF ReplyInv, Sent
  <2>3. op.app # None => app'[op.app].request = app[op.app].request
    BY <1>1, <1>2, <1>4, <2>2, ClientAnswers
  <2> QED
    BY <2>1, <2>3 DEF IntentInv
<1>5. CASE ServeEnds
  BY <1>5, IdleIntent DEF ServeEnds
<1>6. CASE TakeMeanwhile
  <2>1. /\ UNCHANGED <<op, machine>> /\ Head(channel) \in Apps
        /\ queued \in Apps \cup {None}
    BY <1>1, <1>6 DEF TakeMeanwhile, Ranges
  <2>2. UNCHANGED <<cancelled, desired>> \/ (cancelled' /\ desired' = None)
    BY <1>6, Zenon DEF TakeMeanwhile
  <2>3. UNCHANGED app \/ \E x \in Apps \cup {None} : \E r : app' = Answer(x, r)
    BY <1>6, <2>1, Zenon DEF TakeMeanwhile, Supersede
  <2>4. op.app # None => app'[op.app].request = app[op.app].request
    BY <1>1, <1>2, <2>3, AnswerRequests
  <2> QED
    BY <2>1, <2>2, <2>4 DEF IntentInv
<1>7. CASE ChannelEnded
  BY <1>7 DEF ChannelEnded, IntentInv
<1>8. CASE TakeCommand
  <2>1. PICK a \in Apps : Handle(a)
    BY <1>1, <1>8 DEF TakeCommand, Ranges
  <2>2. ~cancelled'
    BY <1>8 DEF TakeCommand
  <2> QED
    BY <1>1, <2>1, <2>2, HandleIntent, Zenon
<1>9. CASE Disconnected
  <2>1. CASE Finish("Error")
    BY <2>1, IdleIntent DEF Finish
  <2>2. CASE Proceed(op, op.then)
    <3>1. op.step = "disconnect" /\ UNCHANGED <<cancelled, desired>>
      BY <1>9 DEF Disconnected
    <3> QED
      BY <1>1, <1>2, <1>3, <2>2, <3>1, DisconnectIntent DEF IntentInv
  <2> QED
    BY <1>9, <2>1, <2>2 DEF Disconnected
<1>10. CASE Stored
  <2>1. CASE Finish("Error")
    BY <2>1, IdleIntent DEF Finish
  <2>2. CASE DisconnectMachine(op, "select")
    <3>1. op.step = "store" /\ op.what = "Connect" /\ UNCHANGED <<cancelled, desired>>
      BY <1>1, <1>10 DEF Stored, MachineInv
    <3>2. ~cancelled' => desired' = op.network
      BY <3>1 DEF IntentInv
    <3> QED
      BY <1>1, <1>3, <2>2, <3>2, DisconnectIntent
  <2> QED
    BY <1>10, <2>1, <2>2 DEF Stored
<1>11. CASE Selected
  <2>1. ASSUME NEW r, Finish(r) PROVE IntentInv'
    BY <2>1, IdleIntent DEF Finish
  <2>2. ASSUME NEW n \in Target, StartMachine(n), op.what # "Startup",
               op' = [op EXCEPT !.step = "wait"], UNCHANGED <<app, desired>>
        PROVE  IntentInv'
    <3>1. n = op.network /\ machine'.network = n
      BY <2>2 DEF Target, StartMachine
    <3>2. /\ op'.app = op.app /\ op'.what = op.what /\ op'.network = op.network
          /\ op'.step = "wait"
      BY <1>1, <2>2, Zenon DEF Operations
    <3>3. op.step = "select" /\ op.what = "Connect" /\ UNCHANGED cancelled
      BY <1>1, <1>11, <2>2 DEF Selected, MachineInv
    <3> QED
      BY <2>2, <3>1, <3>2, <3>3 DEF IntentInv
  <2> QED
    BY <1>11, <2>1, <2>2, Zenon DEF Selected
<1>12. CASE WaitForConnection
  <2>1. ASSUME NEW r, Finish(r) PROVE IntentInv'
    BY <2>1, IdleIntent DEF Finish
  <2>2. CASE DisconnectMachine(op, "cancelled")
    BY <1>1, <1>3, <2>2, DisconnectIntent
  <2> QED
    BY <1>12, <2>1, <2>2, Zenon DEF WaitForConnection
<1>13. CASE Removed \/ TransportReplies
  BY <1>13, IdleIntent, Zenon DEF Removed, TransportReplies, Finish
<1>14. CASE MachineMoves \/ MachineAcknowledges
  <2>1. machine'.network = machine.network /\ UNCHANGED <<app, op, cancelled, desired>>
    BY <1>1, <1>14, Zenon DEF MachineMoves, MachineAcknowledges, Machines
  <2> QED
    BY <2>1 DEF IntentInv
<1>15. CASE UNCHANGED vars
  BY <1>15 DEF vars, IntentInv
<1> QED
  BY <1>4, <1>5, <1>6, <1>7, <1>8, <1>9, <1>10, <1>11, <1>12, <1>13, <1>14, <1>15
     DEF Next, Operate

(* An Ok the policy gives is true: of the operation it ends, or of a       *)
(* request that asks for nothing.                                          *)
LEMMA OkStep ==
    ASSUME PolicyInv, IntentInv, [Next]_vars, NEW a \in Apps,
           app[a].answer = "none", app'[a].answer = "Ok"
    PROVE  Accomplished(app[a].request)'
<1>1. /\ Ranges /\ MachineInv /\ op \in Operations
      /\ op.app \in Apps \cup {None} /\ queued \in Apps \cup {None}
  BY DEF PolicyInv, Ranges, Operations
<1>2. app[a].request \in Commands
  BY <1>1 DEF Ranges, Clients0
<1>3. ASSUME NEW x \in Apps \cup {None}, NEW r, app' = Answer(x, r)
      PROVE  a = x /\ r = "Ok" /\ app'[a].request = app[a].request
  BY <1>1, <1>3, OkAnswer, AnswerRequests
<1>4. ASSUME app'[a].request = app[a].request,
             app[a].request.what \notin {"Connect", "Disconnect", "Forget"}
      PROVE  Accomplished(app[a].request)'
  BY <1>4 DEF Accomplished
<1>5. ~UNCHANGED app
  OBVIOUS
<1>6. ASSUME NEW r, Finish(r)
      PROVE  /\ a = op.app /\ r = "Ok" /\ app'[a].request = app[a].request
             /\ app[a].request.what = op.what /\ app[a].request.network = op.network
  <2>1. a = op.app /\ r = "Ok" /\ app'[a].request = app[a].request
    BY <1>1, <1>3, <1>6 DEF Finish
  <2> QED
    BY <2>1 DEF IntentInv
<1>7. ~\E c \in Apps : Accept(c) \/ Receive(c) \/ TakeReply(c) \/ Send(c) \/ TimeOut(c)
  BY <1>1, ClientAnswers
<1>8. ~OwnerReturns
  BY <1>1, ClientAnswers
<1>9. CASE TakeMeanwhile
  <2>1. Head(channel) \in Apps
    BY <1>1, <1>9 DEF TakeMeanwhile, Ranges
  <2>2. app[Head(channel)].request.what = "Status" /\ app' = Answer(Head(channel), "Ok")
    BY <1>1, <1>3, <1>5, <1>9, <2>1 DEF TakeMeanwhile, Supersede
  <2> QED
    BY <1>3, <1>4, <2>1, <2>2
<1>10. CASE TakeCommand
  <2>1. PICK x \in Apps : Handle(x)
    BY <1>1, <1>10 DEF TakeCommand, Ranges
  <2>2. CASE app' = Answer(x, "Error")
    BY <1>3, <2>2
  <2>3. CASE app[x].request.what \in {"Status", "Saved"} /\ app' = Answer(x, "Ok")
    BY <1>3, <1>4, <2>3
  <2>4. CASE /\ app[x].request.what = "Disconnect" /\ desired' = None
             /\ DisconnectMachine(Op(x, app[x].request, "start"), "done")
    <3>1. ~Alive /\ UNCHANGED machine /\ Proceed(Op(x, app[x].request, "start"), "done")
      BY <1>5, <2>4 DEF DisconnectMachine
    <3>2. app' = Answer(x, "Ok")
      BY <3>1 DEF Proceed, Op
    <3>3. a = x /\ app'[a].request = app[a].request
      BY <1>3, <3>2
    <3> QED
      BY <2>4, <3>1, <3>3 DEF Accomplished, Alive
  <2>5. ~DisconnectMachine(Op(x, app[x].request, "start"), "remove")
    BY <1>5 DEF DisconnectMachine, Proceed
  <2> QED
    BY <1>5, <2>1, <2>2, <2>3, <2>4, <2>5, Zenon DEF Handle
<1>11. CASE Disconnected
  <2>1. ~Alive /\ UNCHANGED <<machine, desired>> /\ op.step = "disconnect"
    BY <1>11 DEF Disconnected
  <2>2. ~Finish("Error")
    BY <1>6
  <2>3. Proceed(op, op.then)
    BY <1>11, <2>2 DEF Disconnected
  <2>4. op.then = "done" /\ app' = Answer(op.app, "Ok")
    BY <1>1, <1>3, <1>5, <2>3 DEF Proceed
  <2>5. op.what = "Disconnect" /\ desired = None
    BY <1>1, <2>1, <2>4 DEF MachineInv, IntentInv
  <2>6. a = op.app /\ app'[a].request = app[a].request
    BY <1>1, <1>3, <2>4
  <2>7. app[a].request.what = "Disconnect"
    BY <2>5, <2>6 DEF IntentInv
  <2> QED
    BY <2>1, <2>5, <2>6, <2>7 DEF Accomplished, Alive
<1>12. ~Stored
  <2>1. ~Finish("Error")
    BY <1>6
  <2>2. ~DisconnectMachine(op, "select")
    BY <1>1, <1>3, <1>5 DEF DisconnectMachine, Proceed
  <2> QED
    BY <2>1, <2>2 DEF Stored
<1>13. ~Selected
  <2>1. ~Finish("Error")
    BY <1>6
  <2>2. ASSUME Finish("Ok"), op.what = "Startup"
        PROVE  FALSE
    <3>1. app[a].request.what = "Startup"
      BY <1>6, <2>2
    <3> QED
      BY <1>2, <3>1 DEF Commands
  <2> QED
    BY <1>5, <2>1, <2>2, Zenon DEF Selected
<1>14. CASE WaitForConnection
  <2>1. ~DisconnectMachine(op, "cancelled")
    BY <1>1, <1>3, <1>5 DEF DisconnectMachine, Proceed
  <2>2. ~Finish("Error")
    BY <1>6
  <2>3. /\ op.step = "wait" /\ ~cancelled /\ machine.state = "connected" /\ Finish("Ok")
        /\ UNCHANGED <<machine, desired, saved>>
    BY <1>14, <2>1, <2>2, Zenon DEF WaitForConnection
  <2>4. /\ op.what = "Connect" /\ machine.network = op.network /\ desired = op.network
        /\ op.network \in saved
    BY <1>1, <2>3 DEF MachineInv, IntentInv, Alive
  <2>5. /\ app'[a].request = app[a].request
        /\ app[a].request.what = op.what /\ app[a].request.network = op.network
    BY <1>6, <2>3
  <2> QED
    BY <2>3, <2>4, <2>5 DEF Accomplished
<1>15. CASE Removed
  <2>1. /\ op.step = "remove" /\ Finish("Ok") /\ op.network \notin saved'
        /\ UNCHANGED <<machine, desired>>
    BY <1>6, <1>15 DEF Removed
  <2>2. /\ op.what = "Forget" /\ desired # op.network
        /\ Alive => machine.network # op.network
    BY <1>1, <2>1 DEF MachineInv, IntentInv
  <2>3. /\ app'[a].request = app[a].request
        /\ app[a].request.what = op.what /\ app[a].request.network = op.network
    BY <1>6, <2>1
  <2>4. /\ app'[a].request.what = "Forget" /\ app'[a].request.network = op.network
        /\ desired' # op.network
    BY <2>1, <2>2, <2>3, Zenon
  <2>5. Alive' => machine'.network # op.network
    BY <2>1, <2>2 DEF Alive
  <2> QED
    BY <2>1, <2>4, <2>5, Zenon DEF Accomplished
<1>16. CASE TransportReplies
  <2>1. PICK r : Finish(r)
    BY <1>16 DEF TransportReplies
  <2>2. op.what \in {"Scan", "PowerSave"}
    BY <1>1, <1>16 DEF TransportReplies, MachineInv
  <2> QED
    BY <1>4, <1>6, <2>1, <2>2
<1> QED
  BY <1>5, <1>7, <1>8, <1>9, <1>10, <1>11, <1>12, <1>13, <1>14, <1>15, <1>16, ZenonT(30)
     DEF Next, Operate, vars, ServeEnds, ChannelEnded, MachineMoves, MachineAcknowledges

(* Every Ok is true when it is given, for any applications and networks:   *)
(* whatever was taken at the awaits of the operation, a connect is up on   *)
(* its own saved network and still wanted, a disconnect left nothing       *)
(* alive, a forgotten network is nowhere left.                             *)
THEOREM PolicyAnswersAreTrue == Spec => AnswersAreTrue
<1>1. Init => IntentInv
  BY DEF Init, Op, IntentInv
<1>2. PolicyInv /\ IntentInv /\ [Next]_vars => IntentInv'
  BY IntentStep
<1>3. PolicyInv /\ IntentInv /\ [Next]_vars => OkIsTrue
  BY OkStep DEF OkIsTrue
<1> QED
  BY <1>1, <1>2, <1>3, PolicyInvariant, PTL DEF Spec, AnswersAreTrue
=============================================================================
