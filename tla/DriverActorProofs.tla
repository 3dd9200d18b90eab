-------------------------- MODULE DriverActorProofs --------------------------
(***************************************************************************)
(* Proofs about DriverActor, for every set of epochs, every capacity and   *)
(* every bound on requests and time.                                       *)
(***************************************************************************)
EXTENDS DriverActor, FiniteSetTheorems, TLAPS

(* The assumptions on the constants are in force in every proof. *)
USE AuthorityAssumption, DriverAssumption DEF AuthorityAssumption, DriverAssumption

(* Contexts that commands carry are contexts of the model. *)
LEMMA ContextTypes ==
    /\ ChildContexts \subseteq Contexts
    /\ \A e \in Epochs, k \in Kinds :
          CommandContexts(e, k) \subseteq Contexts \cup {NoContext}
  BY DEF ChildContexts, Contexts, CommandContexts, EpochContexts

(* Init establishes the type invariant. *)
LEMMA InitType == Init => TypeOK
<1> SUFFICES ASSUME Init PROVE TypeOK
  OBVIOUS
<1>1. now \in 0 .. MaxTime /\ sent \in 0 .. MaxRequests
      /\ barrier \in 0 .. MaxRequests
  BY DEF Init
<1>2. reply \in [Ids -> Outcomes]
  BY DEF Init, Outcomes
<1>3. control \in Seq(OwnerCommands)
  BY DEF Init
<1> QED
  BY <1>1, <1>2, <1>3, Zenon DEF Init, TypeOK

(* Dropping senders yields a reply function again. *)
LEMMA DroppedType ==
    ASSUME NEW r \in [Ids -> Outcomes], NEW S
    PROVE  Dropped(r, S) \in [Ids -> Outcomes]
  BY DEF Dropped, Outcomes

(* Close keeps the types of what it assigns. *)
LEMMA CloseType ==
    ASSUME TypeOK, NEW r \in [Ids -> Outcomes], NEW S, Close(r, S)
    PROVE  /\ closed' \in BOOLEAN /\ queue' \subseteq Messages
           /\ pending' \in Ids \cup {NoOp}
           /\ control' \in Seq(OwnerCommands) /\ control_closed' \in BOOLEAN
           /\ reply' \in [Ids -> Outcomes]
  BY DroppedType DEF Close

(* Answering the awaited completion yields a reply function again. *)
LEMMA SettledType ==
    ASSUME TypeOK
    PROVE  Settled(reply) \in [Ids -> Outcomes]
  BY DEF Settled, TypeOK, Outcomes, NoOp

(* Every step keeps the type invariant. *)
LEMMA NextType == TypeOK /\ [Next]_vars => TypeOK'
<1> SUFFICES ASSUME TypeOK, [Next]_vars PROVE TypeOK'
  OBVIOUS
<1> USE DEF TypeOK, vars, authority, mailbox, channel, actor, exit, hardware,
            requests, history
<1>1. ASSUME NEW l \in Lifetimes, Revoke(l) PROVE TypeOK'
  BY <1>1 DEF Revoke
<1>2. CASE Tick
  BY <1>2 DEF Tick
<1>3. ASSUME NEW e \in Epochs, NEW k \in Kinds,
             NEW c \in CommandContexts(e, k), Send(e, k, c)
      PROVE TypeOK'
  <2> DEFINE kept == {m \in queue : Unrevoked(m)}
             replies == Dropped(reply, IdsOf(queue \ kept))
             new == [id |-> sent + 1, position |-> sent + 1, epoch |-> e,
                     kind |-> k, context |-> c]
  <2>1. replies \in [Ids -> Outcomes]
    BY DroppedType
  <2>2. c \in Contexts \cup {NoContext}
    BY ContextTypes
  <2>3. CASE queue' = kept /\ reply' = replies /\ sent' = sent
    BY <1>3, <2>1, <2>3 DEF Send
  <2>4. CASE /\ sent < MaxRequests /\ queue' = kept \cup {new}
             /\ reply' = [replies EXCEPT ![sent + 1] = "waiting"]
             /\ sent' = sent + 1
    <3>1. sent + 1 \in Ids /\ sent + 1 \in Nat
      BY <2>4 DEF Ids
    <3>2. new \in Messages
      BY <3>1, <2>2 DEF Messages
    <3>3. reply' \in [Ids -> Outcomes]
      BY <2>4, <2>1, Zenon DEF Outcomes
    <3> QED
      BY <1>3, <2>4, <3>1, <3>2, <3>3 DEF Send, Ids
  <2> QED
    BY <1>3, <2>3, <2>4 DEF Send
<1>4. ASSUME NEW n, NEW c, OwnerSend(n, c),
             \/ n \in {"Link", "FinishAttempt"} /\ c = NoContext
             \/ n = "PowerSave" /\ c \in ChildContexts
      PROVE TypeOK'
  <2>1. sent + 1 \in Ids
    BY <1>4 DEF OwnerSend, Ids
  <2>2. [command |-> n, id |-> sent + 1, context |-> c] \in OwnerCommands
    BY <1>4, <2>1 DEF OwnerCommands
  <2>3. control' \in Seq(OwnerCommands)
    BY <1>4, <2>2 DEF OwnerSend
  <2> QED
    BY <1>4, <2>1, <2>3 DEF OwnerSend, Ids, Outcomes
<1>5. ASSUME NEW n \in {"Stop", "Reset"}, NEW E,
             RequestStop(n, E) \/ DropOwner(n, E)
      PROVE TypeOK'
  <2>1. [command |-> n, id |-> NoOp, context |-> NoContext] \in OwnerCommands
    BY DEF OwnerCommands
  <2>2. WithTerminal(n) \in Seq(OwnerCommands)
    BY <2>1 DEF WithTerminal
  <2>3. live' \subseteq Lifetimes /\ control' \in Seq(OwnerCommands)
        /\ control_closed' \in BOOLEAN
    BY <1>5, <2>2, Zenon DEF RequestStop, DropOwner
  <2>4. UNCHANGED <<now, mailbox, actor, exit, hardware, requests, history>>
    BY <1>5 DEF RequestStop, DropOwner
  <2> QED
    BY <2>3, <2>4
<1>6. CASE Start
  BY <1>6 DEF Start
<1>7. CASE StartFailed
  BY <1>7, CloseType DEF StartFailed
<1>8. ASSUME NEW id \in Ids, DeviceComplete(id) PROVE TypeOK'
  BY <1>8 DEF DeviceComplete
<1>9. CASE Serve
  <2>1. ASSUME NEW o \in Outcomes, Answer(o), control # <<>>
        PROVE  control' \in Seq(OwnerCommands) /\ reply' \in [Ids -> Outcomes]
    <3>1. Tail(control) \in Seq(OwnerCommands)
      BY <2>1
    <3>2. [reply EXCEPT ![Head(control).id] = o] \in [Ids -> Outcomes]
      BY Zenon
    <3> QED
      BY <2>1, <3>1, <3>2 DEF Answer
  <2>2. CASE ServeLink
    BY <2>1, <2>2, ZenonT(30) DEF ServeLink, Command, Answer, Outcomes
  <2>3. CASE ServeFinishAttempt
    BY <2>1, <2>3 DEF ServeFinishAttempt, Command, Answer, Outcomes
  <2>4. CASE ServePowerSave
    <3>1. Head(control) \in OwnerCommands
      BY <2>4 DEF ServePowerSave, Command
    <3>2. Head(control).id \in Ids
      BY <3>1, <2>4 DEF ServePowerSave, Command, OwnerCommands
    <3> QED
      BY <2>1, <2>4, <3>2, SMTT(30) DEF ServePowerSave, Command, Answer, Outcomes
  <2>5. CASE ServeStop
    BY <2>5, CloseType, Zenon DEF ServeStop, StopDevice
  <2>6. CASE ServeReset
    BY <2>6, CloseType, Zenon DEF ServeReset, ResetDevice
  <2> QED
    BY <1>9, <2>2, <2>3, <2>4, <2>5, <2>6 DEF Serve
<1>10. CASE Poll
  <2>1. Settled(reply) \in [Ids -> Outcomes]
    BY SettledType
  <2>2. ASSUME NEW m \in queue, NEW o \in Outcomes, Pop(m, o)
        PROVE  queue' \subseteq Messages /\ reply' \in [Ids -> Outcomes]
    BY <2>1, <2>2, Zenon DEF Pop
  <2>3. CASE PollFault
    BY <2>3, CloseType DEF PollFault
  <2>4. CASE PollIdle
    BY <2>1, <2>4 DEF PollIdle
  <2>5. ASSUME NEW m \in queue, PollReject(m) PROVE TypeOK'
    <3>1. queue' \subseteq Messages /\ reply' \in [Ids -> Outcomes]
      BY <2>2, <2>5 DEF PollReject, Outcomes
    <3> QED
      BY <2>5, <3>1 DEF PollReject, Pop
  <2>6. ASSUME NEW m \in queue, PollSync(m) PROVE TypeOK'
    <3>1. m.id \in Ids
      BY DEF Messages
    <3>2. queue' \subseteq Messages /\ reply' \in [Ids -> Outcomes]
      BY <2>2, <2>6 DEF PollSync, Outcomes
    <3> QED
      BY <2>6, <3>1, <3>2 DEF PollSync, Pop
  <2>7. ASSUME NEW m \in queue, PollAsync(m) PROVE TypeOK'
    <3>1. m.id \in Ids
      BY DEF Messages
    <3> QED
      BY <2>2, <2>7, <3>1 DEF PollAsync, Pop, Outcomes
  <2>8. ASSUME NEW m \in queue, PollTransmit(m) PROVE TypeOK'
    <3>1. m.id \in Ids
      BY DEF Messages
    <3>2. queue' \subseteq Messages /\ reply' \in [Ids -> Outcomes]
      BY <2>2, <2>8 DEF PollTransmit, Outcomes
    <3> QED
      BY <2>8, <3>1, <3>2 DEF PollTransmit, Pop
  <2>9. ASSUME NEW m \in queue, PollRetain(m) PROVE TypeOK'
    BY <2>1, <2>9 DEF PollRetain, Retained
  <2>10. ASSUME NEW m \in queue, PollTransmitFault(m) PROVE TypeOK'
    <3>1. m.id \in Ids
      BY DEF Messages
    <3>2. [Settled(reply) EXCEPT ![m.id] = "rejected"] \in [Ids -> Outcomes]
      BY <2>1, Zenon DEF Outcomes
    <3> QED
      BY <2>10, <3>1, <3>2, CloseType, Zenon DEF PollTransmitFault
  <2> QED
    BY <1>10, <2>3, <2>4, <2>5, <2>6, <2>7, <2>8, <2>9, <2>10 DEF Poll
<1>11. CASE TaskLost
  BY <1>11, CloseType, Zenon DEF TaskLost, StopDevice
<1>12. ASSUME NEW reset \in BOOLEAN, Certify(reset) PROVE TypeOK'
  <2>1. ASSUME NEW status, StopDevice(status) \/ ResetDevice(status)
        PROVE  /\ device' \in {"fresh", "started", "stopped", "reset"}
               /\ outstanding' \subseteq Ids
               /\ stop_pending' \in BOOLEAN /\ reset_completed' \in BOOLEAN
    BY <2>1, Zenon DEF StopDevice, ResetDevice
  <2> QED
    BY <1>12, <2>1, CloseType DEF Certify
<1>13. CASE UNCHANGED vars
  BY <1>13
<1> QED
  BY <1>1, <1>2, <1>3, <1>4, <1>5, <1>6, <1>7, <1>8, <1>9, <1>10, <1>11,
     <1>12, <1>13
     DEF Next, Protocol, Owner

(* Type correctness of the mailbox, the control channel and the actor. *)
THEOREM TypeCorrect == Spec => []TypeOK
  BY InitType, NextType, PTL DEF Spec
-----------------------------------------------------------------------------
(* What a step may do to the mailbox: lose messages, admit one, hand one   *)
(* to the device, or pass the finish barrier.                              *)
Shrinks == queue' \subseteq queue /\ called' = called /\ barrier' = barrier

Admits ==
    /\ sent' = sent + 1 /\ called' = called /\ barrier' = barrier
    /\ \E new \in Messages : /\ new.id = sent + 1 /\ new.position = sent + 1
                             /\ queue' \subseteq queue \cup {new}

Calls ==
    /\ barrier' = barrier
    /\ \E m \in queue : /\ Front(m) /\ Authorised(m)
                        /\ called' = called \cup {m.id}
                        /\ queue' \subseteq queue \ {m}

Finishes ==
    /\ queue' = queue /\ called' = called /\ barrier' = sent
    /\ \A m \in queue : m.epoch \notin live

(* Every step has one of those effects; revocation is permanent and the    *)
(* admission count never decreases.                                        *)
LEMMA MailboxStep ==
    ASSUME TypeOK, [Next]_vars
    PROVE  /\ Shrinks \/ Admits \/ Calls \/ Finishes
           /\ live' \subseteq live
           /\ sent' \in {sent, sent + 1}
<1> USE DEF vars, authority, mailbox, channel, actor, exit, hardware,
            requests, history
<1>1. ASSUME NEW l \in Lifetimes, Revoke(l)
      PROVE  Shrinks /\ live' \subseteq live /\ sent' = sent
  BY <1>1 DEF Revoke, Shrinks
<1>2. ASSUME Tick
      PROVE  Shrinks /\ live' \subseteq live /\ sent' = sent
  BY <1>2 DEF Tick, Shrinks
<1>3. ASSUME NEW e \in Epochs, NEW k \in Kinds,
             NEW c \in CommandContexts(e, k), Send(e, k, c)
      PROVE  ((Shrinks /\ sent' = sent) \/ Admits) /\ live' \subseteq live
  <2>1. CASE sent' = sent
    BY <1>3, <2>1 DEF Send, Shrinks, TypeOK
  <2>2. CASE sent' = sent + 1
    <3> DEFINE new == [id |-> sent + 1, position |-> sent + 1, epoch |-> e,
                       kind |-> k, context |-> c]
    <3>1. sent + 1 \in Ids /\ sent + 1 \in Nat /\ sent' # sent
      BY <1>3, <2>2 DEF Send, Ids, TypeOK
    <3>2. new \in Messages
      BY <3>1, ContextTypes DEF Messages
    <3>3. queue' \subseteq queue \cup {new}
      BY <1>3, <2>2, <3>1 DEF Send
    <3> QED
      BY <1>3, <2>2, <3>2, <3>3 DEF Send, Admits
  <2> QED
    BY <1>3, <2>1, <2>2 DEF Send
<1>4. ASSUME NEW n, NEW c, OwnerSend(n, c)
      PROVE  Shrinks /\ live' \subseteq live /\ sent' = sent + 1
  BY <1>4 DEF OwnerSend, Shrinks
<1>5. ASSUME NEW n, NEW E, RequestStop(n, E) \/ DropOwner(n, E)
      PROVE  Shrinks /\ live' \subseteq live /\ sent' = sent
  BY <1>5 DEF RequestStop, DropOwner, Shrinks
<1>6. ASSUME Start \/ StartFailed
      PROVE  Shrinks /\ live' \subseteq live /\ sent' = sent
  BY <1>6 DEF Start, StartFailed, Close, Shrinks
<1>7. ASSUME NEW id \in Ids, DeviceComplete(id)
      PROVE  Shrinks /\ live' \subseteq live /\ sent' = sent
  BY <1>7 DEF DeviceComplete, Shrinks
<1>8. ASSUME Serve
      PROVE  (Shrinks \/ Finishes) /\ live' \subseteq live /\ sent' = sent
  BY <1>8, Zenon DEF Serve, ServeLink, ServeFinishAttempt, ServePowerSave, ServeStop,
              ServeReset, Answer, Close, FinishBlocked, Shrinks, Finishes
<1>9. ASSUME PollFault \/ PollIdle \/ TaskLost \/ \E reset \in BOOLEAN : Certify(reset)
      PROVE  Shrinks /\ live' \subseteq live /\ sent' = sent
  BY <1>9 DEF PollFault, PollIdle, TaskLost, Certify, Close, Shrinks
<1>10. ASSUME NEW m \in queue, PollReject(m) \/ PollRetain(m)
       PROVE  Shrinks /\ live' \subseteq live /\ sent' = sent
  BY <1>10 DEF PollReject, PollRetain, Retained, Pop, Shrinks
<1>11. ASSUME NEW m \in queue,
              \/ PollSync(m) \/ PollAsync(m)
              \/ PollTransmit(m) \/ PollTransmitFault(m)
       PROVE  Calls /\ live' \subseteq live /\ sent' = sent
  BY <1>11 DEF PollSync, PollAsync, PollTransmit, PollTransmitFault, Pop,
               Close, Calls
<1>12. ASSUME UNCHANGED vars
       PROVE  Shrinks /\ live' \subseteq live /\ sent' = sent
  BY <1>12 DEF Shrinks
<1>13. Admits => sent' = sent + 1
  BY DEF Admits
<1> QED
  BY <1>1, <1>2, <1>3, <1>4, <1>5, <1>6, <1>7, <1>8, <1>9, <1>10, <1>11,
     <1>12, <1>13
     DEF Next, Protocol, Owner, Poll

(* The device call is made with authority: a command reaches the device    *)
(* only in a poll that found its epoch and its context valid.              *)
THEOREM AuthorityAtTheCall == Spec => CalledWithAuthority
<1>1. TypeOK /\ [Next]_vars => [CallsAuthorised]_vars
  BY MailboxStep
     DEF Shrinks, Admits, Calls, Finishes, Authorised, CallsAuthorised
<1> QED
  BY <1>1, TypeCorrect, PTL DEF Spec, CalledWithAuthority
-----------------------------------------------------------------------------
(* The inductive invariant behind admission order and the finish barrier:  *)
(* a queued message sits where it was admitted, its id is its own, and one *)
(* admitted before the barrier has lost its epoch.                         *)
Numbered ==
    /\ \A m \in queue : m.position = m.id /\ m.id <= sent
    /\ \A m, n \in queue : m.id = n.id => m = n
    /\ \A i \in called : i <= sent
    /\ barrier <= sent

BehindBarrier == \A m \in queue : m.id <= barrier => m.epoch \notin live

OrderInv == Numbered /\ NoOvertaking /\ BehindBarrier

(* Every step keeps the order invariant, and calls only past the barrier. *)
LEMMA OrderStep ==
    ASSUME TypeOK, TypeOK', OrderInv, [Next]_vars
    PROVE  OrderInv' /\ [CallsAfterBarrier]_vars
<1> USE DEF OrderInv, Numbered, NoOvertaking, BehindBarrier, CallsAfterBarrier
<1>1. sent \in Nat /\ sent' \in Nat /\ sent <= sent' /\ barrier \in Nat
      /\ live' \subseteq live /\ called \subseteq Nat
      /\ \A m \in queue : m.id \in Nat /\ m.position \in Nat
  BY MailboxStep DEF TypeOK, Messages, Ids
<1>2. CASE Shrinks
  BY <1>1, <1>2 DEF Shrinks
<1>3. CASE Admits
  BY <1>1, <1>3 DEF Admits
<1>4. CASE Calls
  BY <1>1, <1>4 DEF Calls, Front, Authorised
<1>5. CASE Finishes
  BY <1>1, <1>5 DEF Finishes
<1> QED
  BY <1>2, <1>3, <1>4, <1>5, MailboxStep

(* The order invariant holds of the empty mailbox. *)
LEMMA OrderInit == Init => OrderInv
  BY DEF Init, OrderInv, Numbered, NoOvertaking, BehindBarrier

(* The order invariant always holds. *)
LEMMA OrderAlways == Spec => []OrderInv
  BY OrderInit, OrderStep, TypeCorrect, PTL DEF Spec

(* Commands reach the device in admission order. *)
THEOREM AdmissionOrder == Spec => []NoOvertaking
<1>1. OrderInv => NoOvertaking
  BY DEF OrderInv
<1> QED
  BY <1>1, OrderAlways, PTL

(* Nothing admitted before device.finish_failed_connect_attempt ran        *)
(* reaches the device after it.                                            *)
THEOREM FinishBarrier == Spec => FinishIsBarrier
  BY OrderStep, OrderAlways, TypeCorrect, PTL DEF Spec, FinishIsBarrier
-----------------------------------------------------------------------------
(* The device never has an operation the actor does not await while the    *)
(* mailbox is open, and a started device stays owed a stop.                *)
DeviceInv == OneOperationAtATime /\ StopOwed

(* Every step keeps the device invariant. *)
LEMMA DeviceStep ==
    ASSUME TypeOK, DeviceInv, [Next]_vars
    PROVE  DeviceInv'
<1> USE DEF DeviceInv, OneOperationAtATime, StopOwed, vars, authority, mailbox,
            channel, actor, exit, hardware, requests, history
<1>1. CASE \/ \E l \in Lifetimes : Revoke(l)
           \/ Tick \/ Protocol \/ Owner \/ UNCHANGED vars
  <2>1. UNCHANGED <<closed, pending, outstanding, stop_pending, device>>
    BY <1>1, Zenon DEF Revoke, Tick, Protocol, Send, Owner, OwnerSend, RequestStop,
                DropOwner
  <2> QED
    BY <2>1, SMTT(30)
<1>2. CASE Start
  BY <1>2 DEF Start
<1>3. CASE \/ StartFailed \/ ServeStop \/ ServeReset \/ TaskLost \/ PollFault
           \/ \E reset \in BOOLEAN : Certify(reset)
  <2>1. closed'
    BY <1>3 DEF StartFailed, ServeStop, ServeReset, TaskLost, PollFault,
                Certify, Close
  <2>2. ASSUME NEW status, StopDevice(status) PROVE StopOwed'
    BY <2>2 DEF StopDevice
  <2>3. ASSUME NEW status, ResetDevice(status) PROVE StopOwed'
    BY <2>3 DEF ResetDevice
  <2>4. StopOwed'
    BY <1>3, <2>2, <2>3
       DEF StartFailed, ServeStop, ServeReset, TaskLost, PollFault, Certify
  <2> QED
    BY <2>1, <2>4
<1>4. ASSUME NEW id \in Ids, DeviceComplete(id)
      PROVE  DeviceInv'
  BY <1>4 DEF DeviceComplete
<1>5. CASE ServeLink \/ ServeFinishAttempt
  <2>1. UNCHANGED <<closed, pending, outstanding, stop_pending, device>>
    BY <1>5, ZenonT(30) DEF ServeLink, ServeFinishAttempt, Answer
  <2> QED
    BY <2>1
<1>10. CASE ServePowerSave
  <2>1. NoOp \notin outstanding
    BY DEF TypeOK, Ids, NoOp
  <2> QED
    BY <1>10, <2>1 DEF ServePowerSave, PowerSaveRefused, Answer
<1>6. CASE PollIdle
  BY <1>6 DEF PollIdle, Polling, CompletionReady
<1>7. ASSUME NEW m \in queue,
             PollReject(m) \/ PollSync(m) \/ PollTransmit(m) \/ PollRetain(m)
      PROVE  DeviceInv'
  BY <1>7 DEF PollReject, PollSync, PollTransmit, PollRetain, Pop, Polling,
              CompletionReady
<1>8. ASSUME NEW m \in queue, PollAsync(m)
      PROVE  DeviceInv'
  <2>1. /\ pending \notin outstanding
        /\ UNCHANGED <<closed, stop_pending, device>>
        /\ \/ pending' = m.id /\ outstanding' = outstanding \cup {m.id}
           \/ pending' = NoOp /\ outstanding' = outstanding
    BY <1>8 DEF PollAsync, Pop, Polling, CompletionReady
  <2> QED
    BY <2>1, Zenon
<1>9. ASSUME NEW m \in queue, PollTransmitFault(m)
      PROVE  DeviceInv'
  BY <1>9 DEF PollTransmitFault, Close
<1> QED
  BY <1>1, <1>2, <1>3, <1>4, <1>5, <1>6, <1>7, <1>8, <1>9, <1>10
     DEF Next, Serve, Poll

(* The device invariant always holds. *)
LEMMA DeviceAlways == Spec => []DeviceInv
<1>1. Init => DeviceInv
  BY DEF Init, DeviceInv, OneOperationAtATime, StopOwed
<1> QED
  BY <1>1, DeviceStep, TypeCorrect, PTL DEF Spec

(* The device has at most the one operation the actor awaits, although     *)
(* power save is started from the control channel and the rest by poll.    *)
THEOREM SingleOperation == Spec => []OneOperationAtATime
<1>1. DeviceInv => OneOperationAtATime
  BY DEF DeviceInv
<1> QED
  BY <1>1, DeviceAlways, PTL

(* stop_pending is set exactly while the device is started and unstopped.  *)
THEOREM StopStaysOwed == Spec => []StopOwed
<1>1. DeviceInv => StopOwed
  BY DEF DeviceInv
<1> QED
  BY <1>1, DeviceAlways, PTL

(* The actor keeps the device in step: all of ActorSafe. *)
THEOREM ActorIsSafe == Spec => []ActorSafe
<1>1. TypeOK /\ OneOperationAtATime /\ NoOvertaking /\ StopOwed => ActorSafe
  BY DEF ActorSafe
<1> QED
  BY <1>1, TypeCorrect, SingleOperation, AdmissionOrder, StopStaysOwed, PTL

(* A command reaches the device authorised, and after the last barrier.    *)
THEOREM CallsAreSound == Spec => CallsSound
  BY FinishBarrier, AuthorityAtTheCall DEF CallsSound
-----------------------------------------------------------------------------
(* The reply senders a buffer of owner commands holds; a terminal command  *)
(* has none.                                                               *)
Senders(commands) == {commands[i].id : i \in 1 .. Len(commands)} \ {NoOp}

(* No two commands of a buffer hold the same sender. *)
SendersDistinct(commands) ==
    \A i, j \in 1 .. Len(commands) :
        commands[i].id = commands[j].id /\ commands[i].id # NoOp => i = j

(* Buffering a command adds its sender; distinct ones stay distinct. *)
LEMMA AppendSenders ==
    ASSUME NEW s \in Seq(OwnerCommands), NEW x \in OwnerCommands,
           SendersDistinct(s), x.id \notin Senders(s)
    PROVE  /\ Senders(Append(s, x)) = Senders(s) \cup ({x.id} \ {NoOp})
           /\ SendersDistinct(Append(s, x))
<1> DEFINE t == Append(s, x)
<1>1. /\ Len(t) = Len(s) + 1 /\ Len(s) \in Nat
      /\ \A i \in 1 .. Len(s) : t[i] = s[i]
      /\ t[Len(s) + 1] = x
  OBVIOUS
<1> HIDE DEF t
<1>2. 1 .. Len(t) = (1 .. Len(s)) \cup {Len(s) + 1}
  BY <1>1
<1>3. Senders(t) = Senders(s) \cup ({x.id} \ {NoOp})
  BY <1>1, <1>2 DEF Senders
<1>4. ASSUME NEW i \in 1 .. Len(t), NEW j \in 1 .. Len(t),
             t[i].id = t[j].id, t[i].id # NoOp
      PROVE  i = j
  <2>1. \A k \in 1 .. Len(s) : s[k].id # NoOp => s[k].id \in Senders(s)
    BY DEF Senders
  <2> QED
    BY <1>1, <1>2, <1>4, <2>1 DEF SendersDistinct
<1>5. SendersDistinct(t)
  BY <1>4 DEF SendersDistinct
<1> QED
  BY <1>3, <1>5 DEF t

(* Taking the first command takes its sender and no other. *)
LEMMA TailSenders ==
    ASSUME NEW s \in Seq(OwnerCommands), s # <<>>, SendersDistinct(s)
    PROVE  /\ Senders(Tail(s)) = Senders(s) \ {Head(s).id}
           /\ SendersDistinct(Tail(s))
<1> DEFINE t == Tail(s)
<1>1. /\ Len(s) \in Nat \ {0} /\ Len(t) = Len(s) - 1
      /\ \A i \in 1 .. Len(t) : t[i] = s[i + 1] /\ i + 1 \in 1 .. Len(s)
      /\ Head(s) = s[1] /\ 1 \in 1 .. Len(s)
  OBVIOUS
<1> HIDE DEF t
<1>2. \A i \in 1 .. Len(s) : i = 1 \/ (i - 1 \in 1 .. Len(t) /\ t[i - 1] = s[i])
  BY <1>1
<1>3. Senders(t) \subseteq Senders(s) \ {Head(s).id}
  BY <1>1 DEF Senders, SendersDistinct
<1>4. Senders(s) \ {Head(s).id} \subseteq Senders(t)
  BY <1>1, <1>2 DEF Senders
<1>5. SendersDistinct(t)
  BY <1>1 DEF SendersDistinct
<1> QED
  BY <1>3, <1>4, <1>5 DEF t

(* The inductive invariant behind the conservation of replies: what waits  *)
(* is what is held, and the mailbox, the awaited completion and the        *)
(* control buffer hold different requests, all sent before.                *)
HeldInv ==
    /\ {i \in Ids : reply[i] = "waiting"} =
          (IdsOf(queue) \cup {pending} \cup Senders(control)) \ {NoOp}
    /\ SendersDistinct(control)
    /\ \A m \in queue : m.id # pending /\ m.id \notin Senders(control)
    /\ pending \notin Senders(control)
    /\ pending <= sent
    /\ \A i \in Senders(control) : i <= sent

(* A closing step leaves nobody waiting. *)
LEMMA CloseHeld ==
    ASSUME TypeOK, NEW r \in [Ids -> Outcomes], NEW S, Close(r, S),
           {i \in Ids : r[i] = "waiting"} \subseteq S, sent' = sent
    PROVE  HeldInv'
<1>1. queue' = {} /\ pending' = NoOp /\ control' = <<>> /\ reply' = Dropped(r, S)
  BY DEF Close
<1>2. {i \in Ids : Dropped(r, S)[i] = "waiting"} = {}
  BY DEF Dropped
<1>3. Senders(<<>>) = {} /\ SendersDistinct(<<>>) /\ IdsOf({}) = {}
  BY DEF Senders, SendersDistinct, IdsOf
<1>4. sent' \in Nat
  BY SMTT(30) DEF TypeOK
<1> QED
  BY <1>1, <1>2, <1>3, <1>4 DEF HeldInv, NoOp

(* Every step keeps it. *)
LEMMA HeldStep ==
    ASSUME TypeOK, Numbered, HeldInv, [Next]_vars
    PROVE  HeldInv'
<1> USE DEF vars, authority, mailbox, channel, actor, exit, hardware,
            requests, history
<1> DEFINE waiting == {i \in Ids : reply[i] = "waiting"}
<1>0. /\ sent \in Nat /\ reply \in [Ids -> Outcomes] /\ pending \in Ids \cup {NoOp}
      /\ control \in Seq(OwnerCommands) /\ queue \subseteq Messages
      /\ Ids \subseteq Nat /\ NoOp \notin Ids
      /\ \A m \in queue : m.id \in Ids
      /\ Held = IdsOf(queue) \cup {pending} \cup Senders(control)
  <2>1. /\ sent \in Nat /\ reply \in [Ids -> Outcomes] /\ pending \in Ids \cup {NoOp}
        /\ control \in Seq(OwnerCommands) /\ queue \subseteq Messages
    BY SMTT(30) DEF TypeOK
  <2>2. Ids \subseteq Nat /\ NoOp \notin Ids
    BY SMTT(30) DEF Ids, NoOp
  <2>3. \A m \in queue : m.id \in Ids
    BY <2>1, SMTT(30) DEF Messages
  <2>4. Held = IdsOf(queue) \cup {pending} \cup Senders(control)
    BY Zenon DEF Held, ControlIds, Senders
  <2> QED
    BY <2>1, <2>2, <2>3, <2>4, Zenon
<1>20. Senders(control) \subseteq Nat
  <2>1. \A i \in 1 .. Len(control) : control[i] \in OwnerCommands
    BY <1>0
  <2>2. \A x \in OwnerCommands : x.id \in Nat
    BY DEF OwnerCommands, Ids, NoOp
  <2> QED
    BY <2>1, <2>2, Zenon DEF Senders
<1>21. NoOp \notin Senders(control) /\ NoOp <= sent
  <2>1. NoOp \notin Senders(control)
    BY DEF Senders
  <2>2. sent \in Nat
    BY <1>0
  <2> QED
    BY <2>1, <2>2 DEF NoOp
<1>1. CASE UNCHANGED <<queue, pending, control, reply, sent>>
  BY <1>1, SMTT(30) DEF HeldInv
<1>2. ASSUME NEW e \in Epochs, NEW k \in Kinds,
             NEW c \in CommandContexts(e, k), Send(e, k, c)
      PROVE  HeldInv'
  <2> DEFINE kept == {m \in queue : Unrevoked(m)}
             gone == IdsOf(queue \ kept)
             new == [id |-> sent + 1, position |-> sent + 1, epoch |-> e,
                     kind |-> k, context |-> c]
  <2>1. UNCHANGED <<pending, control>>
    BY <1>2, SMTT(30) DEF Send
  <2>2. gone \cap IdsOf(kept) = {} /\ gone \cap ({pending} \cup Senders(control)) = {}
    BY SMTT(30) DEF Numbered, HeldInv, IdsOf
  <2>3. IdsOf(queue) = gone \cup IdsOf(kept)
    BY Zenon DEF IdsOf
  <2>4. {i \in Ids : Dropped(reply, gone)[i] = "waiting"} = waiting \ gone
    BY DEF Dropped
  <2>5. waiting \ gone = (IdsOf(kept) \cup {pending} \cup Senders(control)) \ {NoOp}
    BY <2>2, <2>3, ZenonT(30) DEF HeldInv
  <2>9. new.id = sent + 1
    OBVIOUS
  <2> HIDE DEF kept, gone, new
  <2>6. kept \subseteq queue
    BY DEF kept
  <2>7. CASE queue' = kept /\ reply' = Dropped(reply, gone) /\ sent' = sent
    BY <2>1, <2>4, <2>5, <2>6, <2>7 DEF HeldInv
  <2>8. CASE /\ sent < MaxRequests /\ queue' = kept \cup {new} /\ sent' = sent + 1
             /\ reply' = [Dropped(reply, gone) EXCEPT ![sent + 1] = "waiting"]
    <3>1. sent + 1 \in Ids
      BY <2>8, <1>0 DEF Ids
    <3>2. {i \in Ids : reply'[i] = "waiting"} = (waiting \ gone) \cup {sent + 1}
      BY <3>1, <2>4, <2>8 DEF Dropped
    <3>3. IdsOf(queue') = IdsOf(kept) \cup {sent + 1}
      BY <2>8, <2>9 DEF IdsOf
    <3>4. sent + 1 # NoOp /\ sent + 1 # pending /\ sent + 1 \notin Senders(control)
      BY <1>0, <3>1 DEF HeldInv
    <3>5. pending <= sent' /\ \A i \in Senders(control) : i <= sent'
      BY <1>0, <1>20, <2>8 DEF HeldInv, NoOp
    <3>6. {i \in Ids : reply'[i] = "waiting"} =
            (IdsOf(queue') \cup {pending'} \cup Senders(control')) \ {NoOp}
      BY <2>1, <2>5, <3>2, <3>3, <3>4
    <3>7. \A m \in queue' : m.id # pending' /\ m.id \notin Senders(control')
      BY <2>1, <2>6, <2>8, <2>9, <3>4, SMTT(30) DEF HeldInv
    <3> QED
      BY <2>1, <3>5, <3>6, <3>7 DEF HeldInv
  <2> QED
    BY <1>2, <2>7, <2>8 DEF Send, kept, gone, new
<1>3. ASSUME NEW n, NEW c, OwnerSend(n, c),
             \/ n \in {"Link", "FinishAttempt"} /\ c = NoContext
             \/ n = "PowerSave" /\ c \in ChildContexts
      PROVE  HeldInv'
  <2> DEFINE x == [command |-> n, id |-> sent + 1, context |-> c]
  <2>1. /\ UNCHANGED <<queue, pending>> /\ sent' = sent + 1 /\ sent + 1 \in Ids
        /\ control' = Append(control, x)
        /\ reply' = [reply EXCEPT ![sent + 1] = "waiting"]
    BY <1>3, <1>0, SMTT(30) DEF OwnerSend, Ids
  <2>2. x \in OwnerCommands /\ x.id = sent + 1
    BY <1>3, <2>1, ZenonT(30) DEF OwnerCommands
  <2> HIDE DEF x
  <2>3. sent + 1 \notin Senders(control) /\ sent + 1 # pending /\ sent + 1 # NoOp
        /\ \A m \in queue : m.id # sent + 1
    BY <1>0, <1>20, <2>1, SMTT(30) DEF HeldInv, Numbered
  <2>4. Senders(control') = Senders(control) \cup {sent + 1} /\ SendersDistinct(control')
    BY <1>0, <2>1, <2>2, <2>3, AppendSenders, SMTT(30) DEF HeldInv
  <2>5. {i \in Ids : reply'[i] = "waiting"} = waiting \cup {sent + 1}
    BY <1>0, <2>1, SMTT(30)
  <2>6. pending' <= sent' /\ \A i \in Senders(control') : i <= sent'
    BY <1>0, <1>20, <2>1, <2>4, SMTT(30) DEF HeldInv, NoOp
  <2> QED
    BY <2>1, <2>3, <2>4, <2>5, <2>6, SMTT(30) DEF HeldInv
<1>4. ASSUME NEW n \in {"Stop", "Reset"}, NEW E,
             RequestStop(n, E) \/ DropOwner(n, E)
      PROVE  HeldInv'
  <2> DEFINE x == [command |-> n, id |-> NoOp, context |-> NoContext]
  <2>1. /\ UNCHANGED <<queue, pending, reply, sent>>
        /\ control' = control \/ control' = Append(control, x)
    BY <1>4, SMTT(30) DEF RequestStop, DropOwner, WithTerminal
  <2>2. x \in OwnerCommands /\ x.id = NoOp
    BY DEF OwnerCommands
  <2> HIDE DEF x
  <2>3. NoOp \notin Senders(control)
    BY DEF Senders
  <2>4. Senders(control') = Senders(control) /\ SendersDistinct(control')
    <3>1. SendersDistinct(control)
      BY DEF HeldInv
    <3>2. /\ Senders(Append(control, x)) = Senders(control) \cup ({NoOp} \ {NoOp})
          /\ SendersDistinct(Append(control, x))
      BY <1>0, <2>2, <2>3, <3>1, AppendSenders
    <3> QED
      BY <2>1, <3>1, <3>2, ZenonT(30)
  <2> QED
    BY <2>1, <2>4, SMTT(30) DEF HeldInv
<1>5. CASE \/ StartFailed \/ ServeStop \/ ServeReset \/ TaskLost \/ PollFault
           \/ \E reset \in BOOLEAN : Certify(reset)
  <2>1. Close(reply, Held) /\ sent' = sent
    BY <1>5 DEF StartFailed, ServeStop, ServeReset, TaskLost, PollFault, Certify
  <2>2. waiting \subseteq Held
    BY <1>0 DEF HeldInv
  <2> QED
    BY <1>0, <2>1, <2>2, CloseHeld
<1>6. ASSUME NEW o \in Outcomes, Answer(o), control # <<>>, Head(control).id \in Ids,
             IF o = "waiting" THEN pending = NoOp /\ pending' = Head(control).id
             ELSE pending' = pending
      PROVE  HeldInv'
  <2> DEFINE h == Head(control).id
  <2>1. /\ UNCHANGED <<queue, sent>> /\ control' = Tail(control)
        /\ reply' = [reply EXCEPT ![h] = o]
    BY <1>6, SMTT(30) DEF Answer
  <2>2. h \in Senders(control)
    <3>1. Head(control) = control[1] /\ 1 \in 1 .. Len(control)
      BY <1>0, <1>6, SMTT(30)
    <3> QED
      BY <1>0, <1>6, <3>1, SMTT(30) DEF Senders
  <2>3. Senders(control') = Senders(control) \ {h} /\ SendersDistinct(control')
    BY <1>0, <1>6, <2>1, TailSenders DEF HeldInv
  <2>4. {i \in Ids : reply'[i] = "waiting"} =
           IF o = "waiting" THEN waiting \cup {h} ELSE waiting \ {h}
    BY <1>0, <1>6, <2>1
  <2>5. /\ h # pending /\ \A m \in queue : m.id # h
        /\ h <= sent
    BY <2>2 DEF HeldInv
  <2>6. IdsOf(queue) \cap {h} = {}
    BY <2>5, SMTT(30) DEF IdsOf
  <2> HIDE DEF h
  <2>7. CASE o = "waiting"
    BY <1>0, <1>6, <2>1, <2>2, <2>3, <2>4, <2>5, <2>6, <2>7, SMTT(30) DEF HeldInv, h
  <2>8. CASE o # "waiting"
    BY <1>0, <1>6, <2>1, <2>2, <2>3, <2>4, <2>5, <2>6, <2>8, SMTT(30) DEF HeldInv
  <2> QED
    BY <2>7, <2>8, SMTT(30)
<1>7. CASE ServeLink \/ ServeFinishAttempt \/ ServePowerSave
  <2>1. control # <<>> /\ Head(control).command \in {"Link", "FinishAttempt", "PowerSave"}
    BY <1>7, ZenonT(30) DEF ServeLink, ServeFinishAttempt, ServePowerSave, Command
  <2>2. Head(control) \in OwnerCommands
    BY <1>0, <2>1
  <2>3. Head(control).id \in Ids
    BY <2>1, <2>2 DEF OwnerCommands
  <2> QED
    BY <1>6, <1>7, <2>1, <2>3, ZenonT(30)
       DEF ServeLink, ServeFinishAttempt, ServePowerSave, PowerSaveRefused, Outcomes
<1>8. /\ {i \in Ids : Settled(reply)[i] = "waiting"} = waiting \ {pending}
      /\ Settled(reply) \in [Ids -> Outcomes]
      /\ waiting \ {pending} = (IdsOf(queue) \cup Senders(control)) \ {NoOp}
  <2>1. pending \notin IdsOf(queue)
    BY DEF HeldInv, IdsOf
  <2>2. waiting \ {pending} = (IdsOf(queue) \cup Senders(control)) \ {NoOp}
    BY <2>1 DEF HeldInv
  <2>3. {i \in Ids : Settled(reply)[i] = "waiting"} = waiting \ {pending}
    BY <1>0 DEF Settled
  <2> QED
    BY <2>2, <2>3, SettledType
<1>9. CASE PollIdle
  <2>1. UNCHANGED <<queue, control, sent>> /\ pending' = NoOp /\ reply' = Settled(reply)
    BY <1>9 DEF PollIdle
  <2>2. \A m \in queue : m.id # NoOp
    BY <1>0
  <2>3. NoOp \notin Senders(control) /\ NoOp <= sent
    BY <1>21
  <2> QED
    BY <1>8, <2>1, <2>2, <2>3 DEF HeldInv
<1>10. ASSUME NEW m \in queue, NEW o \in Outcomes, Pop(m, o),
              IF o = "waiting" THEN pending' = m.id ELSE pending' = NoOp
       PROVE  HeldInv'
  <2>1. /\ UNCHANGED <<control, sent>> /\ queue' = queue \ {m}
        /\ reply' = [Settled(reply) EXCEPT ![m.id] = o]
    BY <1>10 DEF Pop
  <2>2. m.id \in Ids /\ m.id <= sent /\ m.id \notin Senders(control)
    BY <1>0 DEF Numbered, HeldInv
  <2>3. IdsOf(queue') = IdsOf(queue) \ {m.id} /\ m.id \in IdsOf(queue)
        /\ \A k \in queue' : k.id # m.id
    <3>1. \A k \in queue : k.id = m.id => k = m
      BY DEF Numbered
    <3>2. \A k \in queue' : k \in queue /\ k # m
      BY <2>1
    <3>3. \A k \in queue' : k.id # m.id
      BY <3>1, <3>2
    <3>4. \A k \in queue : k # m => k \in queue'
      BY <2>1
    <3> QED
      BY <3>2, <3>3, <3>4 DEF IdsOf
  <2>4. {i \in Ids : reply'[i] = "waiting"} =
           IF o = "waiting" THEN (waiting \ {pending}) \cup {m.id}
           ELSE (waiting \ {pending}) \ {m.id}
    BY <1>8, <2>1, <2>2
  <2>5. NoOp \notin Senders(control) /\ NoOp <= sent /\ \A k \in queue' : k.id # NoOp
    BY <1>0, <1>21, <2>1
  <2>6. \A k \in queue' : k.id \notin Senders(control)
    BY <2>1 DEF HeldInv
  <2>7. m.id # NoOp
    BY <1>0
  <2>8. {i \in Ids : reply'[i] = "waiting"} =
          (IdsOf(queue') \cup {pending'} \cup Senders(control')) \ {NoOp}
    BY <1>8, <1>10, <2>1, <2>2, <2>3, <2>4, <2>7, ZenonT(30)
  <2>9. \A k \in queue' : k.id # pending'
    BY <1>10, <2>3, <2>5
  <2>10. pending' \notin Senders(control) /\ pending' <= sent
    BY <1>10, <2>2, <2>5
  <2> QED
    BY <2>1, <2>6, <2>8, <2>9, <2>10, Zenon DEF HeldInv
<1>11. ASSUME NEW m \in queue,
              PollReject(m) \/ PollSync(m) \/ PollAsync(m) \/ PollTransmit(m)
       PROVE  HeldInv'
  BY <1>10, <1>11 DEF PollReject, PollSync, PollAsync, PollTransmit, Outcomes
<1>12. ASSUME NEW m \in queue, PollRetain(m)
       PROVE  HeldInv'
  <2>1. UNCHANGED <<queue, control, sent>> /\ pending' = NoOp /\ reply' = Settled(reply)
    BY <1>12 DEF PollRetain, Retained
  <2>2. \A k \in queue : k.id # NoOp
    BY <1>0
  <2>3. NoOp \notin Senders(control) /\ NoOp <= sent
    BY <1>21, SMTT(30)
  <2> QED
    BY <1>8, <2>1, <2>2, <2>3 DEF HeldInv
<1>13. ASSUME NEW m \in queue, PollTransmitFault(m)
       PROVE  HeldInv'
  <2> DEFINE r == [Settled(reply) EXCEPT ![m.id] = "rejected"]
             S == IdsOf(queue \ {m}) \cup ControlIds
  <2>1. Close(r, S) /\ sent' = sent
    BY <1>13 DEF PollTransmitFault
  <2>2. r \in [Ids -> Outcomes]
    BY <1>8, ZenonT(30) DEF Outcomes
  <2>3. {i \in Ids : r[i] = "waiting"} \subseteq (waiting \ {pending}) \ {m.id}
    BY <1>0, <1>8
  <2>4. (waiting \ {pending}) \ {m.id} \subseteq S
    BY <1>8 DEF IdsOf, ControlIds, Senders
  <2> HIDE DEF r, S
  <2> QED
    BY <2>1, <2>2, <2>3, <2>4, CloseHeld, Zenon
<1>14. CASE \/ \E l \in Lifetimes : Revoke(l)
            \/ Tick \/ Start \/ (\E id \in Ids : DeviceComplete(id)) \/ UNCHANGED vars
  <2>1. UNCHANGED <<queue, pending, control, reply, sent>>
    BY <1>14 DEF Revoke, Tick, Start, DeviceComplete
  <2> QED
    BY <1>1, <2>1
<1> QED
  BY <1>2, <1>3, <1>4, <1>5, <1>7, <1>9, <1>11, <1>12, <1>13, <1>14, SMTT(30)
     DEF Next, Protocol, Owner, Serve, Poll

(* The queues keep their bounds: a full mailbox refuses, and a frame put   *)
(* back takes the place it was popped from.                                *)
BoundInv == IsFiniteSet(queue) /\ Bounded

(* Every step keeps them. *)
LEMMA BoundStep ==
    ASSUME TypeOK, BoundInv, [Next]_vars
    PROVE  BoundInv'
<1> USE DEF vars, authority, mailbox, channel, actor, exit, hardware,
            requests, history
<1>1. ASSUME NEW S, S \subseteq queue
      PROVE  /\ IsFiniteSet(S) /\ Cardinality(S) \in Nat
             /\ Cardinality(S) <= COMMAND_CAPACITY
  BY <1>1, FS_Subset, FS_CardinalityType DEF BoundInv, Bounded
<1>2. Len(control) \in Nat /\ (control # <<>> => Len(Tail(control)) = Len(control) - 1)
  BY DEF TypeOK
<1>3. CASE queue' \subseteq queue /\ control' \in {control, <<>>}
  BY <1>1, <1>3, SMTT(30) DEF BoundInv, Bounded
<1>4. ASSUME NEW e \in Epochs, NEW k \in Kinds,
             NEW c \in CommandContexts(e, k), Send(e, k, c)
      PROVE  BoundInv'
  <2> DEFINE kept == {m \in queue : Unrevoked(m)}
             new == [id |-> sent + 1, position |-> sent + 1, epoch |-> e,
                     kind |-> k, context |-> c]
  <2>1. kept \subseteq queue /\ control' = control
    BY <1>4 DEF Send
  <2> HIDE DEF new
  <2>2. CASE queue' = kept
    BY <1>3, <2>1, <2>2
  <2>3. CASE ~Full(kept) /\ queue' = kept \cup {new}
    <3>1. IsFiniteSet(kept) /\ Cardinality(kept) < COMMAND_CAPACITY /\ Cardinality(kept) \in Nat
      BY <1>1, <2>1, <2>3 DEF Full
    <3>2. /\ IsFiniteSet(kept \cup {new})
          /\ Cardinality(kept \cup {new}) \in {Cardinality(kept), Cardinality(kept) + 1}
      BY <3>1, FS_AddElement, ZenonT(30)
    <3> QED
      BY <2>1, <2>3, <3>1, <3>2 DEF BoundInv, Bounded
  <2> QED
    BY <1>4, <2>2, <2>3, SMTT(30) DEF Send, new
<1>5. ASSUME NEW n, NEW c, OwnerSend(n, c)
      PROVE  BoundInv'
  <2>1. queue' = queue /\ Len(control') = Len(control) + 1 /\ Len(control) < CONTROL_CAPACITY
    BY <1>5 DEF OwnerSend, TypeOK
  <2> QED
    BY <1>2, <2>1 DEF BoundInv, Bounded
<1>6. ASSUME NEW n, NEW E, RequestStop(n, E) \/ DropOwner(n, E)
      PROVE  BoundInv'
  <2>1. /\ queue' = queue
        /\ \/ control' = control
           \/ Len(control') = Len(control) + 1 /\ Len(control) < CONTROL_CAPACITY
    BY <1>6 DEF RequestStop, DropOwner, WithTerminal, TypeOK
  <2> QED
    BY <1>2, <2>1 DEF BoundInv, Bounded
<1>7. CASE ServeLink \/ ServeFinishAttempt \/ ServePowerSave
  <2>1. queue' = queue /\ control # <<>> /\ control' = Tail(control)
    BY <1>7, ZenonT(30) DEF ServeLink, ServeFinishAttempt, ServePowerSave, Command, Answer
  <2> QED
    BY <1>2, <2>1, SMTT(30) DEF BoundInv, Bounded
<1>8. CASE \/ \E l \in Lifetimes : Revoke(l)
           \/ Tick \/ Start \/ StartFailed \/ (\E id \in Ids : DeviceComplete(id))
           \/ ServeStop \/ ServeReset \/ TaskLost \/ UNCHANGED vars
           \/ \E reset \in BOOLEAN : Certify(reset)
  BY <1>3, <1>8, ZenonT(30) DEF Revoke, Tick, Start, StartFailed, DeviceComplete, ServeStop,
                    ServeReset, TaskLost, Certify, Close
<1>9. CASE Poll
  BY <1>3, <1>9, ZenonT(30) DEF Poll, PollFault, PollIdle, PollReject, PollSync, PollAsync,
                    PollTransmit, PollRetain, Retained, PollTransmitFault, Pop, Close
<1> QED
  BY <1>4, <1>5, <1>6, <1>7, <1>8, <1>9 DEF Next, Protocol, Owner, Serve

(* Every reply sender is conserved: a request waits exactly while the      *)
(* mailbox, the control channel or the awaited completion holds it, and    *)
(* both queues keep their bounds, for every capacity.                      *)
THEOREM RepliesAreConserved == Spec => []RepliesConserved
<1>1. Init => HeldInv /\ BoundInv
  <2>1. Senders(<<>>) = {} /\ SendersDistinct(<<>>) /\ IdsOf({}) = {}
    BY DEF Senders, SendersDistinct, IdsOf
  <2>2. IsFiniteSet({}) /\ Cardinality({}) = 0 /\ Len(<<>>) = 0
    BY FS_EmptySet
  <2> QED
    BY <2>1, <2>2 DEF Init, HeldInv, BoundInv, Bounded, NoOp
<1>2. OrderInv => Numbered
  BY SMTT(30) DEF OrderInv
<1>3. HeldInv /\ BoundInv => RepliesConserved
  BY ZenonT(30) DEF HeldInv, BoundInv, RepliesConserved, NoReplyLost, Held, ControlIds, Senders
<1> QED
  BY <1>1, <1>2, <1>3, HeldStep, BoundStep, TypeCorrect, OrderAlways, PTL DEF Spec
-----------------------------------------------------------------------------
(* What an ended task guarantees: its mailbox is closed and empty, and a   *)
(* result of Ok means the device has been stopped or reset and is idle.    *)
EndInv ==
    /\ closed <=> task \in {"returned", "lost"}
    /\ closed => queue = {}
    /\ task \in {"serving", "returned"} => device # "fresh"
    /\ device \in {"stopped", "reset"} => closed /\ outstanding = {}
    /\ reset_completed => device = "reset"
    /\ result = "ok" => device \in {"stopped", "reset"}

(* Every step keeps it. *)
LEMMA EndStep ==
    ASSUME TypeOK, StopOwed, EndInv, [Next]_vars
    PROVE  EndInv'
<1> USE DEF EndInv, StopOwed, vars, authority, mailbox, channel, actor, exit,
            hardware, requests, history
<1>1. CASE \/ \E l \in Lifetimes : Revoke(l)
           \/ Tick \/ Owner \/ UNCHANGED vars
  <2>1. UNCHANGED <<queue, closed, task, result, device, outstanding,
                    reset_completed>>
    BY <1>1, Zenon DEF Revoke, Tick, Owner, OwnerSend, RequestStop, DropOwner
  <2> QED
    BY <2>1, SMTT(30)
<1>2. CASE Protocol
  <2>1. ~closed /\ UNCHANGED <<closed, task, result, device, outstanding,
                               reset_completed>>
    BY <1>2 DEF Protocol, Send
  <2> QED
    BY <2>1
<1>3. CASE Start
  <2>1. ~closed /\ ~closed' /\ task' = "serving" /\ device' = "started"
        /\ UNCHANGED <<result, reset_completed>>
    BY <1>3 DEF Start
  <2>2. result # "ok" /\ ~reset_completed
    BY <2>1 DEF TypeOK
  <2> QED
    BY <2>1, <2>2
<1>4. CASE StartFailed
  BY <1>4 DEF StartFailed, Close
<1>5. ASSUME NEW id \in Ids, DeviceComplete(id) PROVE EndInv'
  BY <1>5 DEF DeviceComplete
<1>6. CASE ServeLink \/ ServeFinishAttempt \/ ServePowerSave
  <2>1. task = "serving" /\ UNCHANGED <<queue, closed, task, result, device,
                                        reset_completed>>
    BY <1>6, Zenon DEF ServeLink, ServeFinishAttempt, ServePowerSave, Command, Answer
  <2> QED
    BY <2>1, SMTT(30)
<1>7. ASSUME NEW status, StopDevice(status), task \in {"serving", "returned"},
             closed', queue' = {}
      PROVE  /\ device' \in {"stopped", "reset"} => outstanding' = {}
             /\ reset_completed' => device' = "reset"
             /\ status = "ok" => device' \in {"stopped", "reset"}
             /\ device' # "fresh"
  BY <1>7 DEF StopDevice, TypeOK
<1>8. ASSUME NEW status, ResetDevice(status), task \in {"serving", "returned"},
             closed', queue' = {}
      PROVE  /\ device' \in {"stopped", "reset"} => outstanding' = {}
             /\ reset_completed' => device' = "reset"
             /\ status = "ok" => device' \in {"stopped", "reset"}
             /\ device' # "fresh"
  BY <1>8, SMTT(30) DEF ResetDevice, TypeOK
<1>9. CASE ServeStop \/ ServeReset \/ TaskLost \/ \E reset \in BOOLEAN : Certify(reset)
  <2>1. /\ task \in {"serving", "returned"} /\ task' \in {"returned", "lost"}
        /\ closed' /\ queue' = {}
    BY <1>9 DEF ServeStop, ServeReset, TaskLost, Certify, Command, Close
  <2> QED
    BY <1>7, <1>8, <1>9, <2>1, SMTT(30) DEF ServeStop, ServeReset, TaskLost, Certify
<1>10. CASE PollFault \/ \E m \in queue : PollTransmitFault(m)
  <2>1. /\ task = "serving" /\ task' = "returned" /\ result' = "error"
        /\ closed' /\ queue' = {}
        /\ UNCHANGED <<device, outstanding, reset_completed>>
    BY <1>10, Zenon DEF PollFault, PollTransmitFault, Polling, Close
  <2> QED
    BY <2>1, SMTT(30)
<1>11. CASE PollIdle
  BY <1>11 DEF PollIdle
<1>12. ASSUME NEW m \in queue,
              \/ PollReject(m) \/ PollSync(m) \/ PollAsync(m)
              \/ PollTransmit(m) \/ PollRetain(m)
       PROVE  EndInv'
  <2>1. task = "serving" /\ UNCHANGED <<closed, task, result, device,
                                        reset_completed>>
    BY <1>12, Zenon DEF PollReject, PollSync, PollAsync, PollTransmit, PollRetain,
                 Polling, Pop
  <2> QED
    BY <2>1
<1> QED
  BY <1>1, <1>2, <1>3, <1>4, <1>5, <1>6, <1>9, <1>10, <1>11, <1>12, ZenonT(30)
     DEF Next, Serve, Poll

(* It always holds. *)
LEMMA EndAlways == Spec => []EndInv
<1>1. Init => EndInv
  BY DEF Init, EndInv
<1> QED
  BY <1>1, EndStep, TypeCorrect, StopStaysOwed, PTL DEF Spec
=============================================================================
