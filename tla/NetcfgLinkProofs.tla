-------------------------- MODULE NetcfgLinkProofs --------------------------
(***************************************************************************)
(* Proofs about NetcfgLink, for any number of links and interface changes  *)
(* and any room in the provider's channel, with and without faults.        *)
(***************************************************************************)
EXTENDS NetcfgLink, SequenceTheorems, TLAPS

USE LinkAssumption DEF LinkAssumption

LinkIds == 0 .. MaxLinks

Flag == BOOLEAN

WifiRecords == [installed : LinkIds, active : LinkIds, closed : Flag]

LifeRecords == [kind : {"Install", "Revoke"}, link : Links]

Operations == [kind : {"Watch", "Attach", "Offline", "Revoke", "Close"}, link : LinkIds]

RequestRecords == [kind : {"Watch", "Attach", "Detach"}, link : LinkIds]

ReplyRecords == [kind : {"Report", "Applied", "Rejected"}, link : Nat]

NetcfgRecords ==
    [at : {"loop", "completed", "exited"}, op : Operations, active : LinkIds, last : LinkIds,
     link : LinkIds, lastLink : LinkIds, monitor : LinkIds, seen : Nat, present : Flag,
     why : {"none", "timeout", "stop", "provider"}]

Acks == {<<>>} \cup {<<m>> : m \in ReplyRecords}

ProviderRecords ==
    [alive : Flag, device : LinkIds, active : LinkIds, last : LinkIds, watch : Flag,
     reported : Nat, blocked : Flag, ack : Acks, revision : Nat, changes : Nat]

(* Every variable has its type; the errors netcfg may have met are those   *)
(* of a signal, a timeout or a dead provider.                              *)
Ranges ==
    /\ wifi \in WifiRecords /\ frames \subseteq Links /\ life \in Seq(LifeRecords)
    /\ netcfg \in NetcfgRecords /\ provider \in ProviderRecords
    /\ requests \in Seq(RequestRecords) /\ Len(requests) <= 1
    /\ replies \in Seq(ReplyRecords) /\ Len(replies) <= Room

(* The active link once the operation under way is acknowledged. *)
Coming(n) ==
    IF n.at = "completed" /\ n.op.kind = "Attach" THEN n.op.link
    ELSE IF n.at = "completed" /\ n.op.kind \in {"Revoke", "Close"} THEN None
    ELSE n.active

(* The lifecycle channel s, of which netcfg has seen the links up to last: *)
(* links only grow, a Revoke follows the Install of its link, at once, and *)
(* the latest record is about the link that is active.                     *)
Ordered(s, last) ==
    /\ \A i \in 1 .. Len(s) : s[i].kind = "Install" => last < s[i].link
    /\ \A i, j \in 1 .. Len(s) : i < j /\ s[j].kind = "Install" => s[i].link < s[j].link
    /\ \A i, j \in 1 .. Len(s) : j = i + 1 /\ s[j].kind = "Revoke" =>
          s[i].kind = "Install" /\ s[i].link = s[j].link

Latest(s, coming, active) ==
    active # None =>
        /\ s = <<>> => coming = active
        /\ s # <<>> => s[Len(s)].kind = "Install" /\ s[Len(s)].link = active

LifeSound(w, s, last, coming) ==
    /\ \A i \in 1 .. Len(s) : s[i].link <= w.installed
    /\ last <= w.installed /\ w.active <= w.installed
    /\ Ordered(s, last)
    /\ s # <<>> /\ s[1].kind = "Revoke" => coming = s[1].link
    /\ ~w.closed => Latest(s, coming, w.active)

(* What WifiLifecycleReceiver and ProviderInterfaces hold between them.    *)
Shape(n) ==
    /\ n.active = None => n.link = None
    /\ n.active # None => n.lastLink = n.active /\ n.link \in {None, n.active}
    /\ n.at = "loop" => n.monitor = n.link
    /\ n.at = "completed" =>
          /\ n.op.kind = "Watch" => n.op.link = None /\ n.active = None /\ n.monitor = None
          /\ n.op.kind = "Attach" => n.op.link = n.last /\ n.monitor = n.last /\ n.last # None
          /\ n.op.kind \in {"Offline", "Revoke", "Close"} =>
                n.op.link # None /\ n.link = n.op.link /\ n.monitor = n.link

(* The replies on their way: reports only, or among them one answer.       *)
Reports(s) == \A i \in 1 .. Len(s) : s[i].kind = "Report"

OneAnswer(s, m) ==
    \E k \in 1 .. Len(s) : s[k] = m /\ \A i \in 1 .. Len(s) : i # k => s[i].kind = "Report"

(* The conversation on the provider's channel: at most one request is      *)
(* under way, and it is asked, done or answered.  The provider's active    *)
(* link is netcfg's until the request is done and then what it asks for.   *)
RequestOf(op) == Message(IF op.kind \in {"Watch", "Attach"} THEN op.kind ELSE "Detach", op.link)

Goal(n) ==
    IF n.op.kind = "Watch" THEN n.link ELSE IF n.op.kind = "Attach" THEN n.op.link ELSE None

Asked(n, rq, rp, p) ==
    /\ rq = <<RequestOf(n.op)>> /\ p.ack = <<>> /\ Reports(rp)
    /\ p.alive => p.active = n.link
    /\ n.op.kind = "Attach" => p.last < n.op.link

Done(n, rq, rp, p) ==
    /\ rq = <<>> /\ p.ack = <<Message("Applied", n.op.link)>> /\ Reports(rp)
    /\ p.alive => p.active = Goal(n)

Answered(n, rq, rp, p) ==
    /\ rq = <<>> /\ p.ack = <<>> /\ OneAnswer(rp, Message("Applied", n.op.link))
    /\ p.alive => p.active = Goal(n)

Silent(n, rq, rp, p) ==
    /\ rq = <<>> /\ p.ack = <<>> /\ Reports(rp)
    /\ p.alive => p.active = n.link

Conversation(n, rq, rp, p) ==
    /\ n.at = "loop" => Silent(n, rq, rp, p)
    /\ n.at = "completed" => Asked(n, rq, rp, p) \/ Done(n, rq, rp, p) \/ Answered(n, rq, rp, p)
    /\ p.last <= n.last

LinkInv ==
    /\ Ranges /\ provider.device \in {None, provider.active}
    /\ netcfg.at # "exited" =>
          /\ LifeSound(wifi, life, netcfg.last, Coming(netcfg))
          /\ Shape(netcfg)
          /\ Conversation(netcfg, requests, replies, provider)
-----------------------------------------------------------------------------
(* A record appended to a channel is its last element and disturbs none    *)
(* before it.                                                              *)
LEMMA Appended ==
    ASSUME NEW S, NEW s \in Seq(S), NEW m \in S
    PROVE  /\ Append(s, m) \in Seq(S) /\ Len(Append(s, m)) = Len(s) + 1
           /\ Append(s, m) # <<>> /\ Append(s, m)[Len(s) + 1] = m
           /\ \A i \in 1 .. Len(s) : Append(s, m)[i] = s[i]
OBVIOUS

(* A record taken from a channel leaves the others in their order. *)
LEMMA Taken ==
    ASSUME NEW S, NEW s \in Seq(S), s # <<>>
    PROVE  /\ Tail(s) \in Seq(S) /\ Len(s) \in Nat /\ Len(s) >= 1 /\ Len(Tail(s)) = Len(s) - 1
           /\ Head(s) = s[1] /\ s[1] \in S
           /\ \A i \in 1 .. Len(s) - 1 : Tail(s)[i] = s[i + 1]
OBVIOUS

(* The length of a channel is a number. *)
LEMMA LenNat == ASSUME NEW S, NEW s \in Seq(S) PROVE Len(s) \in Nat
OBVIOUS

(* A record names a link. *)
LEMMA LifeLinks ==
    ASSUME NEW s \in Seq(LifeRecords), NEW i \in 1 .. Len(s) PROVE s[i].link \in Nat
<1>1. s[i] \in LifeRecords
  BY Zenon, ElementOfSeq
<1> QED
  BY <1>1 DEF LifeRecords, Links

(* The Wi-Fi service installs a link newer than any it has announced. *)
LEMMA LifeInstall ==
    ASSUME NEW w \in WifiRecords, NEW s \in Seq(LifeRecords), NEW last \in LinkIds, NEW coming,
           LifeSound(w, s, last, coming), NEW link \in Links, link = w.installed + 1,
           NEW v \in WifiRecords, v.installed = link, v.active = link
    PROVE  LifeSound(v, Append(s, Message("Install", link)), last, coming)
<1> DEFINE m == Message("Install", link)
           t == Append(s, m)
<1>0. m \in LifeRecords /\ m.kind = "Install" /\ m.link = link
  BY DEF Message, LifeRecords
<1> HIDE DEF m
<1>1. /\ Len(t) = Len(s) + 1 /\ t # <<>> /\ t[Len(s) + 1] = m /\ Len(s) \in Nat
      /\ \A i \in 1 .. Len(s) : t[i] = s[i]
  BY <1>0, Appended, LenNat
<1> HIDE DEF t
<1>2. link \in Nat /\ w.installed \in Nat /\ w.installed < link
  BY DEF WifiRecords, LinkIds, Links
<1>3. \A i \in 1 .. Len(t) : t[i].link <= link
  BY <1>0, <1>1, <1>2, LifeLinks DEF LifeSound
<1>4. last <= link
  BY <1>2 DEF LifeSound, LinkIds
<1>5. Ordered(t, last)
  <2>1. \A i \in 1 .. Len(t) : t[i].kind = "Install" => last < t[i].link
    <3>1. last < link
      BY <1>2 DEF LifeSound, LinkIds
    <3>2. ASSUME NEW i \in 1 .. Len(t), t[i].kind = "Install" PROVE last < t[i].link
      <4>1. CASE i = Len(s) + 1
        BY <1>0, <1>1, <3>1, <4>1
      <4>2. CASE i # Len(s) + 1
        BY <1>1, <3>2, <4>2 DEF LifeSound, Ordered
      <4> QED
        BY <4>1, <4>2
    <3> QED
      BY <3>2
  <2>2. ASSUME NEW i \in 1 .. Len(t), NEW j \in 1 .. Len(t), i < j, t[j].kind = "Install"
        PROVE  t[i].link < t[j].link
    <3>1. CASE j = Len(s) + 1
      <4>1. i \in 1 .. Len(s) /\ t[i] = s[i]
        BY <1>1, <2>2, <3>1
      <4>2. s[i].link \in Nat /\ s[i].link <= w.installed
        BY <4>1, LifeLinks DEF LifeSound
      <4>3. t[j].link = link
        BY <1>0, <1>1, <3>1
      <4> QED
        BY <1>2, <4>1, <4>2, <4>3
    <3>2. CASE j # Len(s) + 1
      <4>1. i \in 1 .. Len(s) /\ j \in 1 .. Len(s) /\ t[i] = s[i] /\ t[j] = s[j]
        BY <1>1, <2>2, <3>2
      <4> QED
        BY <2>2, <4>1 DEF LifeSound, Ordered
    <3> QED
      BY <3>1, <3>2
  <2>3. ASSUME NEW i \in 1 .. Len(t), NEW j \in 1 .. Len(t), j = i + 1, t[j].kind = "Revoke"
        PROVE  t[i].kind = "Install" /\ t[i].link = t[j].link
    BY <1>0, <1>1, <2>3 DEF LifeSound, Ordered
  <2> QED
    BY <2>1, <2>2, <2>3 DEF Ordered
<1>6. t[1].kind = "Revoke" => coming = t[1].link
  <2>1. CASE s = <<>>
    BY <1>0, <1>1, <2>1
  <2>2. CASE s # <<>>
    BY <1>1, <2>2, Taken DEF LifeSound
  <2> QED
    BY <2>1, <2>2
<1>7. Latest(t, coming, link)
  BY <1>0, <1>1 DEF Latest
<1> QED
  BY <1>1, <1>2, <1>3, <1>4, <1>5, <1>6, <1>7 DEF LifeSound, t, m

(* The Wi-Fi service revokes its active link, whose Install is the latest  *)
(* record or was the last one netcfg took.                                 *)
LEMMA LifeRevoke ==
    ASSUME NEW w \in WifiRecords, NEW s \in Seq(LifeRecords), NEW last \in LinkIds, NEW coming,
           LifeSound(w, s, last, coming), ~w.closed, w.active # None,
           NEW v \in WifiRecords, v.installed = w.installed, v.active = None
    PROVE  LifeSound(v, Append(s, Message("Revoke", w.active)), last, coming)
<1> DEFINE m == Message("Revoke", w.active)
           t == Append(s, m)
<1>0. m \in LifeRecords /\ m.kind = "Revoke" /\ m.link = w.active
  BY DEF Message, LifeRecords, WifiRecords, LinkIds, Links, None
<1> HIDE DEF m
<1>1. /\ Len(t) = Len(s) + 1 /\ t # <<>> /\ t[Len(s) + 1] = m /\ Len(s) \in Nat
      /\ \A i \in 1 .. Len(s) : t[i] = s[i]
  BY <1>0, Appended, LenNat
<1> HIDE DEF t
<1>2. Latest(s, coming, w.active)
  BY DEF LifeSound
<1>3. \A i \in 1 .. Len(t) : t[i].link <= w.installed
  BY <1>0, <1>1 DEF LifeSound
<1>4. Ordered(t, last)
  <2>1. \A i \in 1 .. Len(t) : t[i].kind = "Install" => last < t[i].link
    BY <1>0, <1>1 DEF LifeSound, Ordered
  <2>2. ASSUME NEW i \in 1 .. Len(t), NEW j \in 1 .. Len(t), i < j, t[j].kind = "Install"
        PROVE  t[i].link < t[j].link
    BY <1>0, <1>1, <2>2 DEF LifeSound, Ordered
  <2>3. ASSUME NEW i \in 1 .. Len(t), NEW j \in 1 .. Len(t), j = i + 1, t[j].kind = "Revoke"
        PROVE  t[i].kind = "Install" /\ t[i].link = t[j].link
    <3>1. CASE j = Len(s) + 1
      <4>1. i = Len(s) /\ s # <<>> /\ t[i] = s[i]
        BY <1>1, <2>3, <3>1
      <4> QED
        BY <1>0, <1>1, <1>2, <3>1, <4>1 DEF Latest
    <3>2. CASE j # Len(s) + 1
      BY <1>1, <2>3, <3>2 DEF LifeSound, Ordered
    <3> QED
      BY <3>1, <3>2
  <2> QED
    BY <2>1, <2>2, <2>3 DEF Ordered
<1>5. t[1].kind = "Revoke" => coming = t[1].link
  <2>1. CASE s = <<>>
    BY <1>0, <1>1, <1>2, <2>1 DEF Latest
  <2>2. CASE s # <<>>
    BY <1>1, <2>2, Taken DEF LifeSound
  <2> QED
    BY <2>1, <2>2
<1>6. None <= w.installed /\ Latest(t, coming, None)
  BY DEF WifiRecords, LinkIds, None, Latest
<1> QED
  BY <1>1, <1>3, <1>4, <1>5, <1>6 DEF LifeSound, t, m

(* netcfg takes the oldest record: what it then expects is in order. *)
LEMMA LifeTaken ==
    ASSUME NEW w \in WifiRecords, NEW s \in Seq(LifeRecords), NEW last \in LinkIds, NEW coming,
           LifeSound(w, s, last, coming), s # <<>>, NEW l, NEW c,
           \/ s[1].kind = "Install" /\ l = s[1].link /\ c = s[1].link
           \/ s[1].kind = "Revoke" /\ l = last /\ c = None
    PROVE  LifeSound(w, Tail(s), l, c)
<1> DEFINE t == Tail(s)
<1>1. /\ t \in Seq(LifeRecords) /\ Len(s) \in Nat /\ Len(s) >= 1 /\ Len(t) = Len(s) - 1
      /\ s[1] \in LifeRecords /\ \A i \in 1 .. Len(s) - 1 : t[i] = s[i + 1]
  BY Taken
<1> HIDE DEF t
<1>2. \A i \in 1 .. Len(t) : t[i].link <= w.installed
  BY <1>1 DEF LifeSound
<1>3. l <= w.installed
  BY <1>1 DEF LifeSound
<1>4. Ordered(t, l)
  <2>1. ASSUME NEW i \in 1 .. Len(t), t[i].kind = "Install" PROVE l < t[i].link
    BY <1>1, <2>1 DEF LifeSound, Ordered
  <2>2. ASSUME NEW i \in 1 .. Len(t), NEW j \in 1 .. Len(t), i < j, t[j].kind = "Install"
        PROVE  t[i].link < t[j].link
    <3>1. i + 1 \in 1 .. Len(s) /\ j + 1 \in 1 .. Len(s) /\ i + 1 < j + 1
          /\ t[i] = s[i + 1] /\ t[j] = s[j + 1]
      BY <1>1, <2>2
    <3> QED
      BY <2>2, <3>1 DEF LifeSound, Ordered
  <2>3. ASSUME NEW i \in 1 .. Len(t), NEW j \in 1 .. Len(t), j = i + 1, t[j].kind = "Revoke"
        PROVE  t[i].kind = "Install" /\ t[i].link = t[j].link
    <3>1. i + 1 \in 1 .. Len(s) /\ j + 1 \in 1 .. Len(s) /\ j + 1 = (i + 1) + 1
          /\ t[i] = s[i + 1] /\ t[j] = s[j + 1]
      BY <1>1, <2>3
    <3> QED
      BY <2>3, <3>1 DEF LifeSound, Ordered
  <2> QED
    BY <2>1, <2>2, <2>3 DEF Ordered
<1>5. t # <<>> /\ t[1].kind = "Revoke" => c = t[1].link
  <2> SUFFICES ASSUME t # <<>>, t[1].kind = "Revoke" PROVE c = t[1].link
    OBVIOUS
  <2>1. Len(t) >= 1
    BY <1>1, Taken
  <2>2. 1 \in 1 .. Len(s) /\ 2 \in 1 .. Len(s) /\ 2 = 1 + 1 /\ t[1] = s[2]
    BY <1>1, <2>1
  <2>3. s[1].kind = "Install" /\ s[1].link = s[2].link
    BY <2>2 DEF LifeSound, Ordered
  <2> QED
    BY <2>2, <2>3
<1>6. ASSUME ~w.closed PROVE Latest(t, c, w.active)
  <2>1. w.active # None => s[Len(s)].kind = "Install" /\ s[Len(s)].link = w.active
    BY <1>6 DEF LifeSound, Latest
  <2>2. CASE t = <<>>
    <3>1. Len(s) = 1
      BY <1>1, <2>2
    <3> QED
      BY <2>1, <2>2, <3>1 DEF Latest
  <2>3. CASE t # <<>>
    <3>1. Len(t) >= 1 /\ t[Len(t)] = s[Len(s)]
      BY <1>1, <2>3, Taken
    <3> QED
      BY <2>1, <2>3, <3>1 DEF Latest
  <2> QED
    BY <2>2, <2>3
<1> QED
  BY <1>2, <1>3, <1>4, <1>5, <1>6 DEF LifeSound, t
-----------------------------------------------------------------------------
(* Reports come and go without touching the answer among them. *)
LEMMA ReportSent ==
    ASSUME NEW s \in Seq(ReplyRecords), NEW r \in ReplyRecords, r.kind = "Report", NEW m
    PROVE  /\ Reports(s) => Reports(Append(s, r))
           /\ OneAnswer(s, m) => OneAnswer(Append(s, r), m)
<1> DEFINE t == Append(s, r)
<1>1. /\ Len(t) = Len(s) + 1 /\ t[Len(s) + 1] = r /\ Len(s) \in Nat
      /\ \A i \in 1 .. Len(s) : t[i] = s[i]
  BY Appended, LenNat
<1> HIDE DEF t
<1>2. ASSUME Reports(s) PROVE Reports(t)
  BY <1>1, <1>2 DEF Reports
<1>3. ASSUME OneAnswer(s, m) PROVE OneAnswer(t, m)
  <2>1. PICK k \in 1 .. Len(s) :
           s[k] = m /\ \A i \in 1 .. Len(s) : i # k => s[i].kind = "Report"
    BY <1>3 DEF OneAnswer
  <2>2. k \in 1 .. Len(t) /\ t[k] = m
    BY <1>1, <2>1
  <2>3. ASSUME NEW i \in 1 .. Len(t), i # k PROVE t[i].kind = "Report"
    BY <1>1, <2>1, <2>3
  <2> QED
    BY <2>2, <2>3 DEF OneAnswer
<1> QED
  BY <1>2, <1>3 DEF t

(* An answer sent among reports is the only one. *)
LEMMA AnswerSent ==
    ASSUME NEW s \in Seq(ReplyRecords), NEW m \in ReplyRecords, Reports(s)
    PROVE  OneAnswer(Append(s, m), m)
<1> DEFINE t == Append(s, m)
<1>1. /\ Len(t) = Len(s) + 1 /\ t[Len(s) + 1] = m /\ Len(s) \in Nat
      /\ \A i \in 1 .. Len(s) : t[i] = s[i]
  BY Appended, LenNat
<1> HIDE DEF t
<1>2. ASSUME NEW i \in 1 .. Len(t), i # Len(s) + 1 PROVE t[i].kind = "Report"
  BY <1>1, <1>2 DEF Reports
<1>3. Len(s) + 1 \in 1 .. Len(t)
  BY <1>1
<1> QED
  BY <1>1, <1>2, <1>3 DEF OneAnswer, t

(* Reading one reply: a report leaves what is awaited, and the only other  *)
(* thing that can come is the answer, which leaves reports.                *)
LEMMA ReplyRead ==
    ASSUME NEW s \in Seq(ReplyRecords), s # <<>>, NEW m
    PROVE  /\ Reports(s) => Head(s).kind = "Report" /\ Reports(Tail(s))
           /\ OneAnswer(s, m) =>
                 \/ Head(s).kind = "Report" /\ OneAnswer(Tail(s), m)
                 \/ Head(s) = m /\ Reports(Tail(s))
<1> DEFINE t == Tail(s)
<1>1. /\ Len(s) \in Nat /\ Len(s) >= 1 /\ Len(t) = Len(s) - 1 /\ Head(s) = s[1]
      /\ \A i \in 1 .. Len(s) - 1 : t[i] = s[i + 1]
  BY Taken
<1> HIDE DEF t
<1>2. ASSUME Reports(s) PROVE Head(s).kind = "Report" /\ Reports(t)
  BY <1>1, <1>2 DEF Reports
<1>3. ASSUME OneAnswer(s, m)
      PROVE  \/ Head(s).kind = "Report" /\ OneAnswer(t, m)
             \/ Head(s) = m /\ Reports(t)
  <2>1. PICK k \in 1 .. Len(s) :
           s[k] = m /\ \A i \in 1 .. Len(s) : i # k => s[i].kind = "Report"
    BY <1>3 DEF OneAnswer
  <2>2. CASE k = 1
    BY <1>1, <2>1, <2>2 DEF Reports
  <2>3. CASE k # 1
    <3>1. Head(s).kind = "Report"
      BY <1>1, <2>1, <2>3
    <3>2. k - 1 \in 1 .. Len(t) /\ t[k - 1] = m
      BY <1>1, <2>1, <2>3
    <3>3. ASSUME NEW i \in 1 .. Len(t), i # k - 1 PROVE t[i].kind = "Report"
      BY <1>1, <2>1, <2>3, <3>3
    <3> QED
      BY <3>1, <3>2, <3>3 DEF OneAnswer
  <2> QED
    BY <2>2, <2>3
<1> QED
  BY <1>2, <1>3 DEF t
-----------------------------------------------------------------------------
(* The parts of a turn of the provider's loop.                             *)
DeviceOfLink(p) == p.device \in {None, p.active}

SameLink(p, q) ==
    /\ q.alive = p.alive /\ q.active = p.active /\ q.last = p.last /\ q.ack = p.ack

(* A request is acknowledged; a valid one is applied. *)
LEMMA AppliedStep ==
    ASSUME NEW p \in ProviderRecords, NEW r \in RequestRecords, NEW q, q = Applied(p, r),
           DeviceOfLink(p)
    PROVE  /\ q \in ProviderRecords /\ DeviceOfLink(q) /\ q.alive = p.alive
           /\ Valid(p, r) =>
                 /\ q.ack = <<Message("Applied", r.link)>>
                 /\ r.kind = "Watch" => q.active = p.active /\ q.last = p.last
                 /\ r.kind = "Attach" => q.active = r.link /\ q.last = r.link
                 /\ r.kind = "Detach" => q.active = None /\ q.last = p.last
<1> DEFINE yes == Message("Applied", r.link)
           no == Message("Rejected", r.link)
           v == p.revision + 1
<1>1. <<yes>> \in Acks /\ <<no>> \in Acks
  <2>1. yes \in ReplyRecords /\ no \in ReplyRecords
    BY DEF Message, ReplyRecords, RequestRecords, LinkIds
  <2> QED
    BY Zenon, <2>1 DEF Acks
<1>2. r.link \in LinkIds /\ r.kind \in {"Watch", "Attach", "Detach"}
  BY DEF RequestRecords
<1>7. v \in Nat
  BY DEF ProviderRecords
<1> HIDE DEF yes, no, v
<1>3. CASE ~Valid(p, r)
  <2>1. q = [p EXCEPT !.ack = <<no>>]
    BY <1>3 DEF Applied, no
  <2> QED
    BY <1>1, <1>3, <2>1 DEF ProviderRecords, DeviceOfLink
<1>4. CASE Valid(p, r) /\ r.kind = "Watch"
  <2> DEFINE b == TRUE
             z == 0
  <2>1. q = [p EXCEPT !.watch = b, !.reported = z, !.ack = <<yes>>]
    BY <1>4 DEF Applied, yes
  <2>2. b \in Flag /\ z \in Nat
    BY DEF Flag
  <2> HIDE DEF b, z
  <2>3. q \in ProviderRecords
    BY <1>1, <2>1, <2>2 DEF ProviderRecords
  <2> QED
    BY <1>4, <2>1, <2>3 DEF ProviderRecords, DeviceOfLink, yes
<1>5. CASE Valid(p, r) /\ r.kind = "Attach"
  <2>1. q = [p EXCEPT !.device = r.link, !.active = r.link, !.last = r.link,
                      !.revision = v, !.ack = <<yes>>]
    BY <1>5 DEF Applied, yes, v
  <2>2. q \in ProviderRecords
    BY <1>1, <1>2, <1>7, <2>1 DEF ProviderRecords
  <2> QED
    BY <1>5, <2>1, <2>2 DEF ProviderRecords, DeviceOfLink, yes
<1>6. CASE Valid(p, r) /\ r.kind = "Detach"
  <2>1. q = [p EXCEPT !.device = None, !.active = None, !.revision = v, !.ack = <<yes>>]
    BY <1>6 DEF Applied, yes, v
  <2>2. None \in LinkIds
    BY DEF None, LinkIds
  <2>3. q \in ProviderRecords
    BY <1>1, <1>7, <2>1, <2>2 DEF ProviderRecords
  <2> QED
    BY <1>6, <2>1, <2>3 DEF ProviderRecords, DeviceOfLink, yes
<1> QED
  BY Zenon, <1>2, <1>3, <1>4, <1>5, <1>6

(* A frame device that is lost leaves the link generation as it is. *)
LEMMA FrameLostStep ==
    ASSUME NEW p \in ProviderRecords, DeviceOfLink(p), NEW q, q = FrameLost(p)
    PROVE  q \in ProviderRecords /\ DeviceOfLink(q) /\ SameLink(p, q)
<1>1. None \in LinkIds
  BY DEF None, LinkIds
<1>2. CASE q = p
  BY <1>2 DEF SameLink
<1>3. CASE q = [p EXCEPT !.device = None, !.revision = @ + 1]
  <2> DEFINE v == p.revision + 1
  <2>1. v \in Nat /\ q = [p EXCEPT !.device = None, !.revision = v]
    BY <1>3 DEF ProviderRecords
  <2> HIDE DEF v
  <2>2. q \in ProviderRecords
    BY <1>1, <2>1 DEF ProviderRecords
  <2> QED
    BY <1>3, <2>2 DEF ProviderRecords, DeviceOfLink, SameLink
<1> QED
  BY <1>2, <1>3 DEF FrameLost

Outputs == [p : ProviderRecords, out : Seq(ReplyRecords)]

(* The acknowledgement is sent whole or stays with the provider. *)
LEMMA AckedStep ==
    ASSUME NEW w \in Outputs, Len(w.out) <= Room, DeviceOfLink(w.p), NEW x, x = Acked(w)
    PROVE  /\ x \in Outputs /\ Len(x.out) <= Room /\ DeviceOfLink(x.p)
           /\ \/ x = w
              \/ /\ x.p.alive = w.p.alive /\ x.p.active = w.p.active /\ x.p.last = w.p.last
                 /\ x.p.ack = <<>>
                 /\ \E m \in ReplyRecords : w.p.ack = <<m>> /\ x.out = Append(w.out, m)
<1>1. CASE x = w
  BY <1>1
<1>2. CASE w.p.ack # <<>> /\ Len(w.out) < Room
  <2> DEFINE a == <<>>
             q == [w.p EXCEPT !.ack = a]
  <2>1. w.p \in ProviderRecords /\ w.out \in Seq(ReplyRecords)
    BY DEF Outputs
  <2>2. PICK m \in ReplyRecords : w.p.ack = <<m>>
    <3>1. w.p.ack \in Acks
      BY <2>1 DEF ProviderRecords
    <3> QED
      BY Zenon, <1>2, <3>1 DEF Acks
  <2>3. w.out \o <<m>> = Append(w.out, m)
    BY Zenon, <2>1, AppendIsConcat
  <2>4. x = [p |-> q, out |-> Append(w.out, m)]
    BY <1>2, <2>2, <2>3 DEF Acked
  <2>5. a \in Acks
    BY DEF Acks
  <2> HIDE DEF a
  <2>6. q \in ProviderRecords
    BY <2>1, <2>5 DEF ProviderRecords
  <2>7. /\ q.ack = a /\ q.alive = w.p.alive /\ q.active = w.p.active /\ q.last = w.p.last
        /\ q.device = w.p.device
    BY <2>1 DEF ProviderRecords
  <2> HIDE DEF q
  <2>8. /\ Append(w.out, m) \in Seq(ReplyRecords) /\ Len(Append(w.out, m)) <= Room
    <3>1. PICK k \in Nat : k = Len(w.out)
      BY <2>1, LenNat
    <3>2. k + 1 <= Room
      BY <1>2, <3>1
    <3> QED
      BY <2>1, <3>1, <3>2, Appended
  <2>9. x \in Outputs /\ x.p = q /\ x.out = Append(w.out, m)
    BY <2>4, <2>6, <2>8 DEF Outputs
  <2>10. DeviceOfLink(x.p)
    BY <2>7, <2>9 DEF DeviceOfLink
  <2> QED
    BY <2>2, <2>7, <2>8, <2>9, <2>10 DEF a
<1> QED
  BY <1>1, <1>2 DEF Acked

(* A report takes what room is left and says nothing about the link. *)
LEMMA ReportedStep ==
    ASSUME NEW w \in Outputs, Len(w.out) <= Room, DeviceOfLink(w.p), NEW x, x = Reported(w)
    PROVE  /\ x \in Outputs /\ Len(x.out) <= Room /\ DeviceOfLink(x.p) /\ SameLink(w.p, x.p)
           /\ \/ x.out = w.out
              \/ \E r \in ReplyRecords : r.kind = "Report" /\ x.out = Append(w.out, r)
<1>0. w.p \in ProviderRecords /\ w.out \in Seq(ReplyRecords) /\ w.p.revision \in Nat
  BY DEF Outputs, ProviderRecords
<1>1. CASE x = w
  BY <1>1 DEF SameLink
<1>2. CASE Len(w.out) < Room /\ x = Report(w)
  <2> DEFINE b == FALSE
             v == w.p.revision
             q == [w.p EXCEPT !.reported = v, !.blocked = b]
             r == Message("Report", v)
  <2>1. r \in ReplyRecords /\ r.kind = "Report"
    BY <1>0 DEF Message, ReplyRecords
  <2>2. x = [p |-> q, out |-> Append(w.out, r)]
    BY <1>2 DEF Report
  <2>3. b \in Flag /\ v \in Nat
    BY <1>0 DEF Flag
  <2> HIDE DEF b, v, r
  <2>4. q \in ProviderRecords
    BY <1>0, <2>3 DEF ProviderRecords
  <2>5. SameLink(w.p, q) /\ q.device = w.p.device
    BY <1>0 DEF ProviderRecords, SameLink
  <2> HIDE DEF q
  <2>6. /\ Append(w.out, r) \in Seq(ReplyRecords) /\ Len(Append(w.out, r)) <= Room
    <3>1. PICK k \in Nat : k = Len(w.out)
      BY <1>0, LenNat
    <3>2. k + 1 <= Room
      BY <1>2, <3>1
    <3> QED
      BY <1>0, <2>1, <3>1, <3>2, Appended
  <2>7. x \in Outputs /\ x.p = q /\ x.out = Append(w.out, r)
    BY <2>2, <2>4, <2>6 DEF Outputs
  <2>8. DeviceOfLink(x.p)
    BY <2>5, <2>7 DEF DeviceOfLink, SameLink
  <2> QED
    BY <2>1, <2>5, <2>6, <2>7, <2>8
<1>3. CASE x = [w EXCEPT !.p.blocked = TRUE]
  <2> DEFINE b == TRUE
             q == [w.p EXCEPT !.blocked = b]
  <2>1. x = [p |-> q, out |-> w.out]
    BY <1>3 DEF Outputs
  <2>2. b \in Flag
    BY DEF Flag
  <2> HIDE DEF b
  <2>3. q \in ProviderRecords
    BY <1>0, <2>2 DEF ProviderRecords
  <2>4. SameLink(w.p, q) /\ q.device = w.p.device
    BY <1>0 DEF ProviderRecords, SameLink
  <2> HIDE DEF q
  <2>5. x \in Outputs /\ x.p = q /\ x.out = w.out
    BY <1>0, <2>1, <2>3 DEF Outputs
  <2> QED
    BY <2>4, <2>5 DEF DeviceOfLink, SameLink
<1> QED
  BY <1>1, <1>2, <1>3 DEF Reported

(* netcfg has not exited. *)
Awake(n) == n.at \in {"loop", "completed"}

(* What these parts do to the conversation: a report and a lost device     *)
(* leave it as it is, ...                                                  *)
LEMMA TalkKept ==
    ASSUME NEW n, NEW rq, NEW rp \in Seq(ReplyRecords), NEW p, NEW q, NEW out,
           Conversation(n, rq, rp, p), SameLink(p, q),
           out = rp \/ \E r \in ReplyRecords : r.kind = "Report" /\ out = Append(rp, r)
    PROVE  Conversation(n, rq, out, q)
<1> DEFINE m == Message("Applied", n.op.link)
<1>1. (Reports(rp) => Reports(out)) /\ (OneAnswer(rp, m) => OneAnswer(out, m))
  BY Zenon, ReportSent
<1> HIDE DEF m
<1> QED
  BY <1>1 DEF Conversation, Silent, Asked, Done, Answered, SameLink, m

(* ... the acknowledgement that is sent becomes the answer, ...            *)
LEMMA TalkAcked ==
    ASSUME NEW n, Awake(n), NEW rq, NEW rp \in Seq(ReplyRecords), NEW p,
           NEW q, Conversation(n, rq, rp, p), NEW m \in ReplyRecords, p.ack = <<m>>,
           q.alive = p.alive, q.active = p.active, q.last = p.last, q.ack = <<>>
    PROVE  Conversation(n, rq, Append(rp, m), q)
<1>1. p.ack # <<>>
  OBVIOUS
<1>2. n.at = "completed" /\ Done(n, rq, rp, p)
  BY <1>1 DEF Awake, Conversation, Silent, Asked, Answered
<1>3. m = Message("Applied", n.op.link)
  BY <1>2 DEF Done
<1>4. OneAnswer(Append(rp, m), m)
  BY <1>2, AnswerSent DEF Done
<1>5. Answered(n, rq, Append(rp, m), q)
  BY <1>2, <1>3, <1>4 DEF Answered, Done
<1> QED
  BY <1>2, <1>5 DEF Conversation

(* ... and the request is the one netcfg waits for, and valid.             *)
LEMMA TalkApplied ==
    ASSUME NEW n \in NetcfgRecords, Awake(n), Shape(n),
           NEW rq \in Seq(RequestRecords), Len(rq) <= 1, rq # <<>>, NEW rp,
           NEW p \in ProviderRecords, DeviceOfLink(p), p.alive,
           Conversation(n, rq, rp, p), NEW q, q = Applied(p, Head(rq))
    PROVE  Conversation(n, Tail(rq), rp, q)
<1> DEFINE r == RequestOf(n.op)
<1>1. n.at = "completed" /\ Asked(n, rq, rp, p)
  BY DEF Awake, Conversation, Silent, Done, Answered
<1>2. rq = <<r>> /\ Head(rq) = r /\ Tail(rq) = <<>>
  BY <1>1 DEF Asked
<1>3. r \in RequestRecords
  BY <1>2
<1>4. /\ n.op.kind \in {"Watch", "Attach", "Offline", "Revoke", "Close"} /\ r.link = n.op.link
      /\ n.op.kind = "Watch" => r.kind = "Watch"
      /\ n.op.kind = "Attach" => r.kind = "Attach"
      /\ n.op.kind \notin {"Watch", "Attach"} => r.kind = "Detach"
  BY DEF NetcfgRecords, Operations, RequestOf, Message
<1> HIDE DEF r
<1>5. p.active = n.link /\ (n.op.kind = "Attach" => p.last < n.op.link) /\ Reports(rp)
  BY <1>1 DEF Asked
<1>6. Valid(p, r)
  <2>1. CASE n.op.kind = "Watch"
    BY <1>4, <2>1 DEF Valid
  <2>2. CASE n.op.kind = "Attach"
    <3>1. r.link > p.last
      BY <1>4, <1>5, <2>2 DEF ProviderRecords, NetcfgRecords, Operations, LinkIds
    <3> QED
      BY <1>4, <2>2, <3>1 DEF Valid
  <2>3. CASE n.op.kind \notin {"Watch", "Attach"}
    BY <1>1, <1>4, <1>5, <2>3 DEF Valid, Shape
  <2> QED
    BY <2>1, <2>2, <2>3
<1>7. /\ q.ack = <<Message("Applied", r.link)>> /\ q.alive = p.alive
      /\ r.kind = "Watch" => q.active = p.active /\ q.last = p.last
      /\ r.kind = "Attach" => q.active = r.link /\ q.last = r.link
      /\ r.kind = "Detach" => q.active = None /\ q.last = p.last
  <2>1. q = Applied(p, r)
    BY Zenon, <1>2
  <2> QED
    BY Zenon, <1>3, <1>6, <2>1, AppliedStep
<1>8. q.active = Goal(n)
  BY <1>4, <1>5, <1>7 DEF Goal
<1>9. q.last <= n.last
  <2>1. n.last \in Nat /\ p.last <= n.last
    BY DEF Conversation, NetcfgRecords, LinkIds
  <2>2. n.op.kind = "Attach" => r.link = n.last
    BY <1>1, <1>4 DEF Shape
  <2> QED
    BY <1>4, <1>7, <2>1, <2>2
<1>10. Done(n, Tail(rq), rp, q)
  BY <1>2, <1>4, <1>5, <1>7, <1>8 DEF Done
<1> QED
  BY <1>1, <1>9, <1>10 DEF Conversation

(* A turn of the provider's loop, whatever it takes, loses and sends. *)
LEMMA TurnStep ==
    ASSUME LinkInv, ProviderTurn
    PROVE  LinkInv'
<1> DEFINE taken == provider.ack = <<>> /\ requests # <<>>
           p1 == IF taken THEN Applied(provider, Head(requests)) ELSE provider
           rq == IF taken THEN Tail(requests) ELSE requests
           p2 == FrameLost(p1)
           w2 == [p |-> p2, out |-> replies]
           w3 == Acked(w2)
           w4 == Reported(w3)
           on == netcfg.at # "exited"
<1>1. /\ provider' = w4.p /\ replies' = w4.out /\ requests' = rq
      /\ UNCHANGED <<wifi, frames, life, netcfg>> /\ provider.alive
  BY DEF ProviderTurn, Turn
<1>2. /\ requests \in Seq(RequestRecords) /\ Len(requests) <= 1
      /\ replies \in Seq(ReplyRecords) /\ Len(replies) <= Room
      /\ netcfg \in NetcfgRecords /\ provider \in ProviderRecords /\ DeviceOfLink(provider)
  BY DEF LinkInv, Ranges, DeviceOfLink
<1>3. on => /\ Awake(netcfg) /\ Shape(netcfg)
            /\ Conversation(netcfg, requests, replies, provider)
  BY <1>2 DEF LinkInv, NetcfgRecords, Awake
<1>4. /\ p1 \in ProviderRecords /\ DeviceOfLink(p1) /\ rq \in Seq(RequestRecords) /\ Len(rq) <= 1
      /\ on => Conversation(netcfg, rq, replies, p1)
  <2>1. CASE taken
    <3>1. Head(requests) \in RequestRecords /\ Tail(requests) \in Seq(RequestRecords)
          /\ Len(Tail(requests)) <= 1
      BY <1>2, <2>1, Taken
    <3>2. p1 \in ProviderRecords /\ DeviceOfLink(p1)
      BY Zenon, <1>2, <2>1, <3>1, AppliedStep
    <3>3. ASSUME on PROVE Conversation(netcfg, rq, replies, p1)
      BY Zenon, <1>1, <1>2, <1>3, <2>1, <3>3, TalkApplied
    <3> QED
      BY <2>1, <3>1, <3>2, <3>3
  <2>2. CASE ~taken
    BY <1>2, <1>3, <2>2
  <2> QED
    BY <2>1, <2>2
<1> HIDE DEF p1, rq
<1>5. p2 \in ProviderRecords /\ DeviceOfLink(p2) /\ SameLink(p1, p2)
  BY <1>4, FrameLostStep
<1> HIDE DEF p2
<1>6. on => Conversation(netcfg, rq, replies, p2)
  BY Zenon, <1>2, <1>4, <1>5, TalkKept
<1>7. w2 \in Outputs /\ w2.p = p2 /\ w2.out = replies
  BY <1>2, <1>5 DEF Outputs
<1> HIDE DEF w2
<1>8. /\ w3 \in Outputs /\ Len(w3.out) <= Room /\ DeviceOfLink(w3.p)
      /\ \/ w3 = w2
         \/ /\ w3.p.alive = w2.p.alive /\ w3.p.active = w2.p.active /\ w3.p.last = w2.p.last
            /\ w3.p.ack = <<>>
            /\ \E m \in ReplyRecords : w2.p.ack = <<m>> /\ w3.out = Append(w2.out, m)
  BY <1>2, <1>5, <1>7, AckedStep
<1> HIDE DEF w3
<1>9. on => Conversation(netcfg, rq, w3.out, w3.p)
  <2>1. CASE w3 = w2
    BY Zenon, <1>6, <1>7, <2>1
  <2>2. CASE w3 # w2
    <3>1. PICK m \in ReplyRecords : w2.p.ack = <<m>> /\ w3.out = Append(w2.out, m)
      BY Zenon, <1>8, <2>2
    <3>2. p2.ack = <<m>> /\ w3.out = Append(replies, m) /\ w3.p.alive = p2.alive
          /\ w3.p.active = p2.active /\ w3.p.last = p2.last /\ w3.p.ack = <<>>
      BY Zenon, <1>7, <1>8, <2>2, <3>1
    <3> HIDE DEF on
    <3>3. ASSUME on PROVE Conversation(netcfg, rq, Append(replies, m), w3.p)
      <4>1. Awake(netcfg) /\ Conversation(netcfg, rq, replies, p2)
        BY Zenon, <1>3, <1>6, <3>3
      <4> QED
        BY Zenon, <1>2, <3>2, <4>1, TalkAcked
    <3> QED
      BY Zenon, <3>2, <3>3
  <2> QED
    BY <2>1, <2>2
<1>10. /\ w4 \in Outputs /\ Len(w4.out) <= Room /\ DeviceOfLink(w4.p) /\ SameLink(w3.p, w4.p)
       /\ \/ w4.out = w3.out
          \/ \E r \in ReplyRecords : r.kind = "Report" /\ w4.out = Append(w3.out, r)
  BY Zenon, <1>8, ReportedStep
<1> HIDE DEF w4
<1>11. w3.out \in Seq(ReplyRecords) /\ w4.out \in Seq(ReplyRecords) /\ w4.p \in ProviderRecords
  BY <1>8, <1>10 DEF Outputs
<1>12. on => Conversation(netcfg, rq, w4.out, w4.p)
  BY Zenon, <1>9, <1>10, <1>11, TalkKept
<1>13. Ranges'
  BY <1>1, <1>4, <1>10, <1>11 DEF LinkInv, Ranges
<1>14. provider'.device \in {None, provider'.active}
  BY <1>1, <1>10 DEF DeviceOfLink
<1> QED
  BY <1>1, <1>12, <1>13, <1>14 DEF LinkInv

(* The stack's interfaces change, or the provider is gone. *)
LEMMA ProviderElse ==
    ASSUME LinkInv, InterfacesChange \/ ProviderDies
    PROVE  LinkInv'
<1>1. provider \in ProviderRecords
  BY DEF LinkInv, Ranges
<1>2. CASE InterfacesChange
  <2> DEFINE c == provider.changes + 1
             v == provider.revision + 1
  <2>1. c \in Nat /\ v \in Nat
    BY <1>1 DEF ProviderRecords
  <2>2. provider' = [provider EXCEPT !.changes = c, !.revision = v]
    BY <1>2 DEF InterfacesChange
  <2> HIDE DEF c, v
  <2>3. provider' \in ProviderRecords
    BY <1>1, <2>1, <2>2 DEF ProviderRecords
  <2>4. SameLink(provider, provider') /\ provider'.device = provider.device
    BY <1>1, <2>2 DEF ProviderRecords, SameLink
  <2>5. UNCHANGED <<wifi, frames, life, netcfg, requests, replies>>
    BY <1>2 DEF InterfacesChange
  <2>6. netcfg.at # "exited" => Conversation(netcfg, requests, replies, provider')
    BY Zenon, <2>4, TalkKept DEF LinkInv, Ranges
  <2>7. Ranges'
    BY <2>3, <2>5 DEF LinkInv, Ranges
  <2>8. provider'.device \in {None, provider'.active}
    BY <2>4 DEF SameLink, LinkInv
  <2> QED
    BY <2>5, <2>6, <2>7, <2>8 DEF LinkInv
<1>3. CASE ProviderDies
  <2> DEFINE b == FALSE
  <2>1. provider' = [provider EXCEPT !.alive = b, !.device = None, !.active = None]
    BY <1>3 DEF ProviderDies
  <2>2. b \in Flag /\ None \in LinkIds
    BY DEF Flag, None, LinkIds
  <2> HIDE DEF b
  <2>3. provider' \in ProviderRecords
    BY <1>1, <2>1, <2>2 DEF ProviderRecords
  <2>4. /\ provider'.alive = b /\ provider'.device = None /\ provider'.last = provider.last
        /\ provider'.ack = provider.ack
    BY <1>1, <2>1 DEF ProviderRecords
  <2>5. UNCHANGED <<wifi, frames, life, netcfg, requests, replies>>
    BY <1>3 DEF ProviderDies
  <2>6. netcfg.at # "exited" => Conversation(netcfg, requests, replies, provider')
    BY <2>4 DEF LinkInv, Conversation, Silent, Asked, Done, Answered, b
  <2>7. Ranges'
    BY <2>3, <2>5 DEF LinkInv, Ranges
  <2> QED
    BY <2>4, <2>5, <2>6, <2>7 DEF LinkInv
<1> QED
  BY <1>2, <1>3
-----------------------------------------------------------------------------
(* The Wi-Fi service and the driver's end of a frame channel. *)
LEMMA WifiStep ==
    ASSUME LinkInv, Install \/ Revoke \/ FrameCloses \/ WifiEnds
    PROVE  LinkInv'
<1>1. /\ UNCHANGED <<netcfg, requests, replies, provider>>
      /\ wifi \in WifiRecords /\ life \in Seq(LifeRecords) /\ netcfg.last \in LinkIds
      /\ netcfg.at # "exited" => LifeSound(wifi, life, netcfg.last, Coming(netcfg))
  BY DEF Install, Revoke, FrameCloses, WifiEnds, LinkInv, Ranges, NetcfgRecords
<1>2. SUFFICES /\ wifi' \in WifiRecords /\ life' \in Seq(LifeRecords) /\ frames' \subseteq Links
               /\ netcfg.at # "exited" => LifeSound(wifi', life', netcfg.last, Coming(netcfg))
  BY <1>1 DEF LinkInv, Ranges
<1>3. CASE Install
  <2> DEFINE link == wifi.installed + 1
  <2>1. link \in Links /\ link \in LinkIds /\ wifi.installed \in Nat
    BY <1>1, <1>3 DEF Install, WifiRecords, LinkIds, Links
  <2>2. /\ wifi' = [wifi EXCEPT !.installed = link, !.active = link]
        /\ frames' = frames \cup {link} /\ life' = Append(life, Message("Install", link))
    BY <1>3 DEF Install
  <2>3. link = wifi.installed + 1
    OBVIOUS
  <2> HIDE DEF link
  <2>4. wifi' \in WifiRecords /\ wifi'.installed = link /\ wifi'.active = link
    BY <1>1, <2>1, <2>2 DEF WifiRecords
  <2>5. Message("Install", link) \in LifeRecords
    BY <2>1 DEF Message, LifeRecords
  <2>6. life' \in Seq(LifeRecords)
    BY Zenon, <1>1, <2>2, <2>5, Appended
  <2>7. frames' \subseteq Links
    BY <2>1, <2>2 DEF LinkInv, Ranges
  <2>8. netcfg.at # "exited" => LifeSound(wifi', life', netcfg.last, Coming(netcfg))
    BY Zenon, <1>1, <2>1, <2>2, <2>3, <2>4, LifeInstall
  <2> QED
    BY <2>4, <2>6, <2>7, <2>8
<1>4. CASE Revoke
  <2>1. /\ wifi' = [wifi EXCEPT !.active = None] /\ frames' = frames
        /\ life' = Append(life, Message("Revoke", wifi.active)) /\ ~wifi.closed
        /\ wifi.active # None
    BY <1>4 DEF Revoke
  <2>2. wifi' \in WifiRecords /\ wifi'.installed = wifi.installed /\ wifi'.active = None
    BY <1>1, <2>1 DEF WifiRecords, LinkIds, None
  <2>3. Message("Revoke", wifi.active) \in LifeRecords
    BY <1>1, <2>1 DEF Message, LifeRecords, WifiRecords, Links, LinkIds, None
  <2>4. life' \in Seq(LifeRecords)
    BY Zenon, <1>1, <2>1, <2>3, Appended
  <2>5. frames' \subseteq Links
    BY <2>1 DEF LinkInv, Ranges
  <2>6. netcfg.at # "exited" => LifeSound(wifi', life', netcfg.last, Coming(netcfg))
    BY Zenon, <1>1, <2>1, <2>2, LifeRevoke
  <2> QED
    BY <2>2, <2>4, <2>5, <2>6
<1>5. CASE FrameCloses
  BY <1>1, <1>5 DEF FrameCloses, LinkInv, Ranges
<1>6. CASE WifiEnds
  <2> DEFINE b == TRUE
  <2>1. wifi' = [wifi EXCEPT !.closed = b] /\ frames' = frames /\ life' = life
    BY <1>6 DEF WifiEnds
  <2>2. b \in Flag /\ b
    BY DEF Flag
  <2> HIDE DEF b
  <2>3. /\ wifi' \in WifiRecords /\ wifi'.installed = wifi.installed /\ wifi'.active = wifi.active
        /\ wifi'.closed = b
    BY <1>1, <2>1, <2>2 DEF WifiRecords
  <2>4. netcfg.at # "exited" => LifeSound(wifi', life', netcfg.last, Coming(netcfg))
    BY <1>1, <2>1, <2>2, <2>3 DEF LifeSound
  <2>5. frames' \subseteq Links
    BY <2>1 DEF LinkInv, Ranges
  <2> QED
    BY <1>1, <2>1, <2>3, <2>4, <2>5
<1> QED
  BY <1>3, <1>4, <1>5, <1>6
-----------------------------------------------------------------------------
(* The reasons for giving up that are no peer's fault. *)
Excuses == {"none", "timeout", "stop", "provider"}

(* netcfg gives up: nothing is promised of it any more but its type. *)
LEMMA Exits ==
    ASSUME LinkInv, UNCHANGED <<wifi, frames, provider>>, netcfg' \in NetcfgRecords,
           netcfg'.at = "exited", life' \in Seq(LifeRecords),
           requests' \in Seq(RequestRecords), Len(requests') <= 1,
           replies' \in Seq(ReplyRecords), Len(replies') <= Room
    PROVE  LinkInv'
BY DEF LinkInv, Ranges

(* Fail keeps netcfg's type. *)
LEMMA Fails ==
    ASSUME NEW n \in NetcfgRecords, NEW why \in Excuses
    PROVE  /\ [n EXCEPT !.at = "exited", !.why = why] \in NetcfgRecords
           /\ [n EXCEPT !.at = "exited", !.why = why].at = "exited"
BY DEF NetcfgRecords, Excuses

(* In its loop netcfg knows of no request under way. *)
LEMMA InLoop ==
    ASSUME LinkInv, netcfg.at = "loop"
    PROVE  /\ wifi \in WifiRecords /\ life \in Seq(LifeRecords) /\ netcfg \in NetcfgRecords
           /\ provider \in ProviderRecords
           /\ LifeSound(wifi, life, netcfg.last, netcfg.active) /\ Shape(netcfg)
           /\ requests = <<>> /\ provider.ack = <<>> /\ Reports(replies)
           /\ provider.alive => provider.active = netcfg.link
           /\ provider.last <= netcfg.last /\ netcfg.monitor = netcfg.link
           /\ replies \in Seq(ReplyRecords) /\ Len(replies) <= Room
<1>1. /\ LifeSound(wifi, life, netcfg.last, Coming(netcfg)) /\ Shape(netcfg)
      /\ Conversation(netcfg, requests, replies, provider) /\ Ranges
  BY DEF LinkInv
<1>2. Coming(netcfg) = netcfg.active
  BY DEF Coming
<1> QED
  BY <1>1, <1>2 DEF Shape, Conversation, Silent, Ranges

(* An Install is newer than what netcfg attached, so the provider takes    *)
(* the Attach that it sends.                                               *)
LEMMA AttachStep ==
    ASSUME LinkInv, netcfg.at = "loop", life # <<>>, Head(life).kind = "Install",
           life' = Tail(life), SendAttach([netcfg EXCEPT !.last = Head(life).link], Head(life).link),
           UNCHANGED <<wifi, frames, replies, provider>>
    PROVE  LinkInv'
<1> DEFINE link == life[1].link
           op == Message("Attach", link)
<1>1. /\ wifi \in WifiRecords /\ life \in Seq(LifeRecords) /\ netcfg \in NetcfgRecords
      /\ provider \in ProviderRecords /\ LifeSound(wifi, life, netcfg.last, netcfg.active)
      /\ Shape(netcfg) /\ requests = <<>> /\ provider.ack = <<>> /\ Reports(replies)
      /\ provider.alive => provider.active = netcfg.link
      /\ provider.last <= netcfg.last
  BY InLoop
<1>2. /\ Tail(life) \in Seq(LifeRecords) /\ Head(life) = life[1] /\ life[1] \in LifeRecords
      /\ Len(life) \in Nat /\ Len(life) >= 1
  BY <1>1, Taken
<1>3. link \in Links /\ link \in LinkIds /\ link \in Nat /\ link # None
  BY <1>2 DEF LifeRecords, Links, LinkIds, None
<1>4. netcfg.last < link
  BY <1>1, <1>2 DEF LifeSound, Ordered
<1>5. LifeSound(wifi, Tail(life), link, link)
  BY Zenon, <1>1, <1>2, LifeTaken DEF NetcfgRecords
<1>6. op \in Operations /\ op \in RequestRecords /\ op.kind = "Attach" /\ op.link = link
      /\ RequestOf(op) = op
  BY <1>3 DEF Operations, RequestRecords, RequestOf, Message
<1>7. /\ requests' = <<op>>
      /\ netcfg' = [netcfg EXCEPT !.last = link, !.at = "completed", !.op = op, !.monitor = link]
  <2>1. /\ requests' = Append(<<>>, op)
        /\ netcfg' = [[netcfg EXCEPT !.last = link] EXCEPT !.at = "completed", !.op = op,
                                                          !.monitor = link]
    BY Zenon, <1>1, <1>2 DEF SendAttach
  <2> HIDE DEF link, op
  <2>2. <<op>> = Append(<<>>, op)
    OBVIOUS
  <2> QED
    BY <1>1, <2>1, <2>2 DEF NetcfgRecords
<1> HIDE DEF link, op
<1>8. netcfg' \in NetcfgRecords
  BY <1>1, <1>3, <1>6, <1>7 DEF NetcfgRecords
<1>9. /\ netcfg'.at = "completed" /\ netcfg'.op = op /\ netcfg'.last = link
      /\ netcfg'.monitor = link /\ netcfg'.active = netcfg.active /\ netcfg'.link = netcfg.link
      /\ netcfg'.lastLink = netcfg.lastLink
  BY <1>1, <1>7 DEF NetcfgRecords
<1>10. Shape(netcfg')
  BY <1>1, <1>3, <1>6, <1>9 DEF Shape
<1>11. Coming(netcfg') = link
  BY <1>6, <1>9 DEF Coming
<1>12. provider.last < link /\ provider.last <= link
  <2>1. provider.last \in Nat /\ netcfg.last \in Nat
    BY <1>1 DEF ProviderRecords, NetcfgRecords, LinkIds
  <2> QED
    BY <1>1, <1>3, <1>4, <2>1
<1>13. Conversation(netcfg', requests', replies', provider')
  BY <1>1, <1>6, <1>7, <1>9, <1>12 DEF Conversation, Asked
<1>14. requests' \in Seq(RequestRecords) /\ Len(requests') <= 1
  BY <1>6, <1>7
<1>15. Ranges'
  BY <1>2, <1>8, <1>14 DEF LinkInv, Ranges
<1> QED
  BY <1>5, <1>9, <1>10, <1>11, <1>13, <1>15 DEF LinkInv

(* A Revoke, the end of the lifecycle channel or a closed frame channel:   *)
(* the link is the provider's, or it is offline already.                   *)
LEMMA DetachStep ==
    ASSUME LinkInv, netcfg.at = "loop", NEW x \in Nat, NEW link, NEW op,
           SendDetach([netcfg EXCEPT !.seen = x], link, op),
           link # None,
           \/ op = "Offline" /\ link = netcfg.link
           \/ op \in {"Revoke", "Close"} /\ link = netcfg.active,
           UNCHANGED <<wifi, frames, provider>>,
           life' \in Seq(LifeRecords), replies' \in Seq(ReplyRecords), Len(replies') <= Room,
           Reports(replies'),
           LifeSound(wifi, life', netcfg.last, IF op = "Offline" THEN netcfg.active ELSE None)
    PROVE  LinkInv'
<1> DEFINE o == Message(op, link)
           r == Message("Detach", link)
<1>1. /\ wifi \in WifiRecords /\ life \in Seq(LifeRecords) /\ netcfg \in NetcfgRecords
      /\ provider \in ProviderRecords /\ Shape(netcfg) /\ requests = <<>> /\ provider.ack = <<>>
      /\ provider.alive => provider.active = netcfg.link
      /\ provider.last <= netcfg.last /\ netcfg.monitor = netcfg.link
  BY InLoop
<1>2. link \in LinkIds
  BY <1>1 DEF NetcfgRecords
<1>3. netcfg.active # None /\ netcfg.lastLink = netcfg.active /\ link = netcfg.active
  BY <1>1 DEF Shape
<1>4. CASE AlreadyOffline(link)
  <2>1. op # "Offline" /\ netcfg.link = None
    BY <1>4 DEF AlreadyOffline
  <2> DEFINE b == FALSE
             at == IF op = "Close" THEN "exited" ELSE "loop"
  <2>2. /\ requests' = requests
        /\ netcfg' = [netcfg EXCEPT !.seen = x, !.active = None, !.present = b, !.at = at]
    BY <1>1, <1>4 DEF SendDetach, NetcfgRecords
  <2>3. b \in Flag /\ None \in LinkIds /\ at \in {"loop", "exited"}
    BY DEF Flag, None, LinkIds
  <2> HIDE DEF b, at
  <2>4. netcfg' \in NetcfgRecords
    BY <1>1, <2>2, <2>3 DEF NetcfgRecords
  <2>5. /\ netcfg'.at = at /\ netcfg'.active = None /\ netcfg'.link = netcfg.link
        /\ netcfg'.monitor = netcfg.monitor /\ netcfg'.last = netcfg.last
    BY <1>1, <2>2 DEF NetcfgRecords
  <2>6. requests' \in Seq(RequestRecords) /\ Len(requests') <= 1
    BY <1>1, <2>2
  <2>7. CASE at = "exited"
    BY Zenon, <2>4, <2>5, <2>6, <2>7, Exits
  <2>8. CASE at = "loop"
    <3>1. Shape(netcfg')
      BY <1>1, <2>1, <2>5, <2>8 DEF Shape
    <3>2. Coming(netcfg') = None
      BY <2>5, <2>8 DEF Coming
    <3>3. Conversation(netcfg', requests', replies', provider')
      BY <1>1, <2>1, <2>2, <2>5, <2>8 DEF Conversation, Silent
    <3>4. Ranges'
      BY <1>1, <2>4, <2>6 DEF LinkInv, Ranges
    <3>5. LifeSound(wifi', life', netcfg'.last, Coming(netcfg'))
      BY <2>1, <2>5, <3>2
    <3> QED
      BY <3>1, <3>3, <3>4, <3>5 DEF LinkInv
  <2> QED
    BY <2>3, <2>7, <2>8
<1>5. CASE ~AlreadyOffline(link)
  <2>1. netcfg.link = link
    BY <1>1, <1>3, <1>5 DEF AlreadyOffline, Shape
  <2>2. /\ o \in Operations /\ o.kind = op /\ o.link = link /\ r \in RequestRecords
        /\ RequestOf(o) = r
    BY <1>2 DEF Operations, RequestRecords, RequestOf, Message
  <2>3. /\ requests' = <<r>>
        /\ netcfg' = [netcfg EXCEPT !.seen = x, !.at = "completed", !.op = o]
    BY <1>1, <1>5, <2>1 DEF SendDetach, NetcfgRecords
  <2> HIDE DEF o, r
  <2>4. netcfg' \in NetcfgRecords
    BY <1>1, <2>2, <2>3 DEF NetcfgRecords
  <2>5. /\ netcfg'.at = "completed" /\ netcfg'.op = o /\ netcfg'.active = netcfg.active
        /\ netcfg'.link = netcfg.link /\ netcfg'.lastLink = netcfg.lastLink
        /\ netcfg'.monitor = netcfg.monitor /\ netcfg'.last = netcfg.last
    BY <1>1, <2>3 DEF NetcfgRecords
  <2>6. Shape(netcfg')
    BY <1>1, <1>3, <2>1, <2>2, <2>5 DEF Shape
  <2>7. Coming(netcfg') = IF op = "Offline" THEN netcfg.active ELSE None
    BY <2>2, <2>5 DEF Coming
  <2>8. Conversation(netcfg', requests', replies', provider')
    BY <1>1, <2>1, <2>2, <2>3, <2>5 DEF Conversation, Asked
  <2>9. requests' \in Seq(RequestRecords) /\ Len(requests') <= 1
    BY <2>2, <2>3
  <2>10. Ranges'
    BY <1>1, <2>4, <2>9 DEF LinkInv, Ranges
  <2>11. LifeSound(wifi', life', netcfg'.last, Coming(netcfg'))
    BY <2>5, <2>7
  <2> QED
    BY <2>6, <2>8, <2>10, <2>11 DEF LinkInv
<1> QED
  BY <1>4, <1>5

(* One lifecycle record, or the end of the channel. *)
LEMMA ReceiveStep ==
    ASSUME LinkInv, Receive
    PROVE  LinkInv'
<1>1. /\ wifi \in WifiRecords /\ life \in Seq(LifeRecords) /\ netcfg \in NetcfgRecords
      /\ LifeSound(wifi, life, netcfg.last, netcfg.active)
      /\ requests = <<>> /\ Reports(replies)
      /\ replies \in Seq(ReplyRecords) /\ Len(replies) <= Room
      /\ netcfg.at = "loop" /\ UNCHANGED <<wifi, frames, replies, provider>>
  BY InLoop DEF Receive
<1> DEFINE x == netcfg.seen
<1>2. x \in Nat /\ netcfg = [netcfg EXCEPT !.seen = x]
  BY <1>1 DEF NetcfgRecords
<1>3. CASE life # <<>>
  <2>1. /\ Tail(life) \in Seq(LifeRecords) /\ Head(life) = life[1] /\ life[1] \in LifeRecords
        /\ Len(life) \in Nat /\ Len(life) >= 1
    BY <1>1, <1>3, Taken
  <2>2. life[1].link \in Nat /\ life[1].link # None
    BY <2>1 DEF LifeRecords, Links, None
  <2>3. CASE life[1].kind = "Install"
    <3>1. ~InstallOutOfOrder(life[1].link)
      <4>1. netcfg.last \in Nat /\ netcfg.last < life[1].link
        BY <1>1, <2>1, <2>3 DEF LifeSound, Ordered, NetcfgRecords, LinkIds
      <4> QED
        BY <2>2, <4>1 DEF InstallOutOfOrder
    <3>2. /\ life' = Tail(life)
          /\ SendAttach([netcfg EXCEPT !.last = Head(life).link], Head(life).link)
      BY <1>3, <2>1, <2>3, <3>1 DEF Receive, ReceiveInstall
    <3> QED
      BY Zenon, <1>1, <1>3, <2>1, <2>3, <3>2, AttachStep
  <2>4. CASE life[1].kind = "Revoke"
    <3>1. netcfg.active = life[1].link
      BY <1>1, <1>3, <2>4 DEF LifeSound
    <3>2. life' = Tail(life) /\ SendDetach(netcfg, life[1].link, "Revoke")
      BY <1>3, <2>1, <2>4, <3>1 DEF Receive, ReceiveRevoke
    <3>3. LifeSound(wifi, Tail(life), netcfg.last, None)
      BY Zenon, <1>1, <1>3, <2>4, LifeTaken DEF NetcfgRecords
    <3>4. SendDetach([netcfg EXCEPT !.seen = x], life[1].link, "Revoke")
      BY Zenon, <1>2, <3>2
    <3> QED
      BY <1>1, <1>2, <2>1, <2>2, <3>1, <3>2, <3>3, <3>4, DetachStep
  <2> QED
    BY <2>1, <2>3, <2>4 DEF LifeRecords
<1>4. CASE life = <<>>
  <2>1. life' = life /\ wifi.closed /\ ReceiveClosed
    BY <1>4 DEF Receive
  <2>2. CASE netcfg.active = None
    <3> DEFINE b == FALSE
    <3>1. netcfg' = [netcfg EXCEPT !.at = "exited", !.present = b] /\ requests' = requests
      BY <2>1, <2>2 DEF ReceiveClosed
    <3>2. b \in Flag
      BY DEF Flag
    <3> HIDE DEF b
    <3>3. netcfg' \in NetcfgRecords /\ netcfg'.at = "exited"
      BY <1>1, <3>1, <3>2 DEF NetcfgRecords
    <3>4. requests' \in Seq(RequestRecords) /\ Len(requests') <= 1
      BY <1>1, <3>1
    <3> QED
      BY <1>1, <2>1, <3>3, <3>4, Exits
  <2>3. CASE netcfg.active # None
    <3>1. SendDetach(netcfg, netcfg.active, "Close")
      BY <2>1, <2>3 DEF ReceiveClosed
    <3>2. SendDetach([netcfg EXCEPT !.seen = x], netcfg.active, "Close")
      BY Zenon, <1>2, <3>1
    <3>3. LifeSound(wifi, life', netcfg.last, None)
      BY <1>1, <1>4, <2>1 DEF LifeSound
    <3> QED
      BY <1>1, <1>2, <2>1, <2>3, <3>2, <3>3, DetachStep
  <2> QED
    BY <2>2, <2>3
<1> QED
  BY <1>3, <1>4

(* A poll of the idle loop: what it reads is a report, and a frame channel *)
(* that closed is that of the link it holds.                               *)
LEMMA PollStep ==
    ASSUME LinkInv, Poll
    PROVE  LinkInv'
<1>1. /\ life \in Seq(LifeRecords) /\ netcfg \in NetcfgRecords
      /\ LifeSound(wifi, life, netcfg.last, netcfg.active) /\ Shape(netcfg)
      /\ requests = <<>> /\ provider.ack = <<>> /\ Reports(replies)
      /\ provider.alive => provider.active = netcfg.link
      /\ provider.last <= netcfg.last /\ netcfg.monitor = netcfg.link
      /\ replies \in Seq(ReplyRecords) /\ Len(replies) <= Room
      /\ netcfg.at = "loop" /\ UNCHANGED <<wifi, frames, life, provider>>
  BY InLoop DEF Poll
<1> DEFINE report == replies # <<>> /\ Head(replies).kind = "Report"
           x == IF report THEN Head(replies).link ELSE netcfg.seen
           n == [netcfg EXCEPT !.seen = x]
<1>2. /\ report <=> replies # <<>>
      /\ replies' \in Seq(ReplyRecords) /\ Len(replies') <= Room /\ Reports(replies') /\ x \in Nat
  <2>1. netcfg.seen \in Nat
    BY <1>1 DEF NetcfgRecords
  <2>2. CASE replies = <<>>
    BY <1>1, <2>1, <2>2 DEF Poll
  <2>3. CASE replies # <<>>
    <3>1. /\ Tail(replies) \in Seq(ReplyRecords) /\ Len(replies) \in Nat
          /\ Len(Tail(replies)) = Len(replies) - 1 /\ Head(replies) \in ReplyRecords
      BY <1>1, <2>3, Taken
    <3>2. Head(replies).kind = "Report" /\ Reports(Tail(replies))
      BY Zenon, <1>1, <2>3, ReplyRead
    <3>3. replies' = Tail(replies)
      BY <2>3 DEF Poll
    <3>4. Head(replies).link \in Nat
      BY <3>1 DEF ReplyRecords
    <3> QED
      BY <1>1, <2>3, <3>1, <3>2, <3>3, <3>4
  <2> QED
    BY <2>2, <2>3
<1>3. n = IF report THEN [netcfg EXCEPT !.seen = Head(replies).link] ELSE netcfg
  BY <1>1 DEF NetcfgRecords
<1>4. IF ~provider.alive THEN Fail("provider") /\ UNCHANGED requests
      ELSE IF MonitorHung /\ netcfg.link = None THEN Fail("panic") /\ UNCHANGED requests
      ELSE IF MonitorHung THEN SendDetach(n, netcfg.link, "Offline")
      ELSE netcfg' = n /\ UNCHANGED requests
  BY <1>2, <1>3 DEF Poll
<1> HIDE DEF report, x
<1>5. n \in NetcfgRecords
  BY <1>1, <1>2 DEF NetcfgRecords
<1>6. MonitorHung => netcfg.link # None
  BY <1>1 DEF MonitorHung
<1>7. CASE ~provider.alive
  <2>1. netcfg' = [netcfg EXCEPT !.at = "exited", !.why = "provider"] /\ requests' = requests
    BY <1>4, <1>7 DEF Fail
  <2>2. netcfg' \in NetcfgRecords /\ netcfg'.at = "exited"
    BY <1>1, <2>1, Fails DEF Excuses
  <2>3. requests' \in Seq(RequestRecords) /\ Len(requests') <= 1
    BY <1>1, <2>1
  <2> QED
    BY <1>1, <1>2, <2>2, <2>3, Exits
<1>8. CASE provider.alive /\ MonitorHung
  <2>1. SendDetach(n, netcfg.link, "Offline")
    BY <1>4, <1>6, <1>8
  <2> QED
    BY <1>1, <1>2, <1>6, <1>8, <2>1, DetachStep
<1>9. CASE provider.alive /\ ~MonitorHung
  <2>1. netcfg' = n /\ requests' = requests
    BY <1>4, <1>9
  <2>2. /\ n.at = "loop" /\ n.active = netcfg.active /\ n.link = netcfg.link
        /\ n.lastLink = netcfg.lastLink /\ n.monitor = netcfg.monitor /\ n.last = netcfg.last
    BY <1>1 DEF NetcfgRecords
  <2> HIDE DEF n
  <2>3. Shape(n)
    BY <1>1, <2>2 DEF Shape
  <2>4. Coming(n) = netcfg.active
    BY <2>2 DEF Coming
  <2>5. Conversation(n, requests', replies', provider')
    BY <1>1, <1>2, <2>1, <2>2 DEF Conversation, Silent
  <2>6. requests' \in Seq(RequestRecords) /\ Len(requests') <= 1
    BY <1>1, <2>1
  <2>7. Ranges'
    BY <1>1, <1>2, <1>5, <2>1, <2>6 DEF LinkInv, Ranges
  <2> QED
    BY <1>1, <2>1, <2>2, <2>3, <2>4, <2>5, <2>7 DEF LinkInv
<1> QED
  BY <1>7, <1>8, <1>9

(* The answer completes the operation: netcfg's link is then what the      *)
(* provider made of its own.                                               *)
LEMMA CompletedStep ==
    ASSUME NEW rq, NEW rp, NEW p, netcfg \in NetcfgRecords, netcfg.at = "completed",
           Shape(netcfg), rq = <<>>, p.ack = <<>>, Reports(rp), p.last <= netcfg.last,
           p.alive => p.active = Goal(netcfg), NEW n, n = Completed(netcfg.op)
    PROVE  /\ n \in NetcfgRecords /\ n.last = netcfg.last
           /\ n.at # "exited" => /\ Shape(n) /\ Conversation(n, rq, rp, p)
                                 /\ Coming(n) = Coming(netcfg)
<1> DEFINE op == netcfg.op
           yes == TRUE
           no == FALSE
<1>1. /\ op \in Operations /\ op.link \in LinkIds /\ None \in LinkIds
      /\ yes \in Flag /\ no \in Flag
      /\ op.kind \in {"Watch", "Attach", "Offline", "Revoke", "Close"}
  BY DEF NetcfgRecords, Operations, None, LinkIds, Flag
<1>2. CASE op.kind = "Watch"
  <2>1. n = [netcfg EXCEPT !.at = "loop"]
    BY <1>2 DEF Completed
  <2>2. n \in NetcfgRecords /\ n.last = netcfg.last /\ n.at = "loop" /\ n.active = netcfg.active
        /\ n.link = netcfg.link /\ n.lastLink = netcfg.lastLink /\ n.monitor = netcfg.monitor
    BY <2>1 DEF NetcfgRecords
  <2>3. Shape(n)
    BY <1>2, <2>2 DEF Shape
  <2>4. Conversation(n, rq, rp, p)
    BY <1>2, <2>2 DEF Conversation, Silent, Goal
  <2> QED
    BY <1>2, <2>2, <2>3, <2>4 DEF Coming
<1>3. CASE op.kind = "Attach"
  <2>1. n = [netcfg EXCEPT !.at = "loop", !.link = op.link, !.lastLink = op.link,
                           !.active = op.link, !.present = yes]
    BY <1>3 DEF Completed
  <2> HIDE DEF yes
  <2>2. n \in NetcfgRecords
    BY <1>1, <2>1 DEF NetcfgRecords
  <2>3. n.last = netcfg.last /\ n.at = "loop" /\ n.active = op.link
        /\ n.link = op.link /\ n.lastLink = op.link /\ n.monitor = netcfg.monitor
    BY <2>1 DEF NetcfgRecords
  <2>4. Shape(n)
    BY <1>3, <2>3 DEF Shape
  <2>5. Conversation(n, rq, rp, p)
    BY <1>3, <2>3 DEF Conversation, Silent, Goal
  <2> QED
    BY <1>3, <2>2, <2>3, <2>4, <2>5 DEF Coming
<1>4. CASE op.kind = "Offline"
  <2>1. n = [netcfg EXCEPT !.at = "loop", !.link = None, !.monitor = None]
    BY <1>4 DEF Completed
  <2>2. n \in NetcfgRecords
    BY <1>1, <2>1 DEF NetcfgRecords
  <2>3. n.last = netcfg.last /\ n.at = "loop" /\ n.active = netcfg.active
        /\ n.link = None /\ n.lastLink = netcfg.lastLink /\ n.monitor = None
    BY <2>1 DEF NetcfgRecords
  <2>4. Shape(n)
    BY <1>4, <2>3 DEF Shape
  <2>5. Conversation(n, rq, rp, p)
    BY <1>4, <2>3 DEF Conversation, Silent, Goal
  <2> QED
    BY <1>4, <2>2, <2>3, <2>4, <2>5 DEF Coming
<1>5. CASE op.kind \in {"Revoke", "Close"}
  <2> DEFINE at == IF op.kind = "Revoke" THEN "loop" ELSE "exited"
  <2>1. n = [netcfg EXCEPT !.at = at, !.link = None, !.monitor = None, !.active = None,
                           !.present = no]
    BY <1>5 DEF Completed
  <2>2. at \in {"loop", "exited"}
    OBVIOUS
  <2> HIDE DEF no, at
  <2>3. n \in NetcfgRecords
    BY <1>1, <2>1, <2>2 DEF NetcfgRecords
  <2>4. n.last = netcfg.last /\ n.at = at /\ n.active = None /\ n.link = None /\ n.monitor = None
    BY <2>1 DEF NetcfgRecords
  <2>5. at = "loop" => Shape(n)
    BY <2>4 DEF Shape
  <2>6. at = "loop" => Conversation(n, rq, rp, p)
    BY <1>5, <2>4 DEF Conversation, Silent, Goal
  <2>7. at = "loop" => Coming(n) = Coming(netcfg)
    BY <1>5, <2>4 DEF Coming
  <2> QED
    BY <2>2, <2>3, <2>4, <2>5, <2>6, <2>7
<1> QED
  BY <1>1, <1>2, <1>3, <1>4, <1>5

(* netcfg reads one reply while it waits. *)
LEMMA AwaitStep ==
    ASSUME LinkInv, AwaitReply
    PROVE  LinkInv'
<1> DEFINE r == Head(replies)
           m == Message("Applied", netcfg.op.link)
<1>1. /\ netcfg \in NetcfgRecords /\ replies \in Seq(ReplyRecords) /\ Len(replies) <= Room
      /\ LifeSound(wifi, life, netcfg.last, Coming(netcfg)) /\ Shape(netcfg)
      /\ Conversation(netcfg, requests, replies, provider)
      /\ netcfg.at = "completed" /\ replies # <<>> /\ replies' = Tail(replies)
      /\ UNCHANGED <<wifi, frames, life, requests, provider>>
  BY DEF AwaitReply, LinkInv, Ranges
<1>2. /\ Tail(replies) \in Seq(ReplyRecords) /\ Len(Tail(replies)) <= Room /\ r \in ReplyRecords
  <2>1. /\ Tail(replies) \in Seq(ReplyRecords) /\ Len(replies) \in Nat
        /\ Len(Tail(replies)) = Len(replies) - 1 /\ r \in ReplyRecords
    BY <1>1, Taken
  <2> QED
    BY <1>1, <2>1
<1>3. /\ Reports(replies) => r.kind = "Report" /\ Reports(Tail(replies))
      /\ OneAnswer(replies, m) => \/ r.kind = "Report" /\ OneAnswer(Tail(replies), m)
                                  \/ r = m /\ Reports(Tail(replies))
  BY Zenon, <1>1, ReplyRead
<1>4. m.kind = "Applied" /\ m.link = netcfg.op.link
  BY DEF Message
<1> HIDE DEF m
<1>5. \/ /\ r.kind = "Report" /\ Conversation(netcfg, requests, Tail(replies), provider)
      \/ /\ r = m /\ Reports(Tail(replies)) /\ requests = <<>> /\ provider.ack = <<>>
         /\ provider.alive => provider.active = Goal(netcfg)
  BY <1>1, <1>3 DEF Conversation, Asked, Done, Answered, m
<1>6. CASE r.kind = "Report"
  <2> DEFINE x == r.link
  <2>1. x \in Nat /\ netcfg' = [netcfg EXCEPT !.seen = x]
    BY <1>2, <1>6 DEF AwaitReply, ReplyRecords
  <2> HIDE DEF x
  <2>2. netcfg' \in NetcfgRecords
    BY <1>1, <2>1 DEF NetcfgRecords
  <2>3. /\ netcfg'.at = "completed" /\ netcfg'.op = netcfg.op /\ netcfg'.active = netcfg.active
        /\ netcfg'.link = netcfg.link /\ netcfg'.lastLink = netcfg.lastLink
        /\ netcfg'.monitor = netcfg.monitor /\ netcfg'.last = netcfg.last
    BY <1>1, <2>1 DEF NetcfgRecords
  <2>4. Conversation(netcfg, requests, Tail(replies), provider)
    BY <1>4, <1>5, <1>6
  <2>5. Conversation(netcfg', requests', replies', provider')
    BY <1>1, <2>3, <2>4 DEF Conversation, Asked, Done, Answered, Goal
  <2>6. Shape(netcfg')
    BY <1>1, <2>3 DEF Shape
  <2>7. Coming(netcfg') = Coming(netcfg)
    BY <1>1, <2>3 DEF Coming
  <2>8. Ranges'
    BY <1>1, <1>2, <2>2 DEF LinkInv, Ranges
  <2> QED
    BY <1>1, <2>3, <2>5, <2>6, <2>7, <2>8 DEF LinkInv
<1>7. CASE r.kind # "Report"
  <2>1. /\ r = m /\ Reports(Tail(replies)) /\ requests = <<>> /\ provider.ack = <<>>
        /\ provider.alive => provider.active = Goal(netcfg)
    BY <1>5, <1>7
  <2>2. netcfg' = Completed(netcfg.op)
    BY <1>4, <2>1 DEF AwaitReply
  <2>3. provider.last <= netcfg.last
    BY <1>1 DEF Conversation
  <2>4. /\ netcfg' \in NetcfgRecords /\ netcfg'.last = netcfg.last
        /\ netcfg'.at # "exited" =>
              /\ Shape(netcfg') /\ Conversation(netcfg', requests, Tail(replies), provider)
              /\ Coming(netcfg') = Coming(netcfg)
    BY <1>1, <2>1, <2>2, <2>3, CompletedStep
  <2>5. Ranges'
    BY <1>1, <1>2, <2>4 DEF LinkInv, Ranges
  <2> QED
    BY <1>1, <2>4, <2>5 DEF LinkInv
<1> QED
  BY <1>6, <1>7

(* A signal, or no answer in time. *)
LEMMA GiveUpStep ==
    ASSUME LinkInv, GiveUp
    PROVE  LinkInv'
<1>1. /\ UNCHANGED <<wifi, frames, life, requests, replies, provider>>
      /\ Fail("timeout") \/ Fail("stop")
  BY DEF GiveUp, LinkInv
<1>2. /\ netcfg \in NetcfgRecords /\ life \in Seq(LifeRecords) /\ requests \in Seq(RequestRecords)
      /\ Len(requests) <= 1 /\ replies \in Seq(ReplyRecords) /\ Len(replies) <= Room
  BY DEF LinkInv, Ranges
<1>3. netcfg' \in NetcfgRecords /\ netcfg'.at = "exited"
  BY <1>1, <1>2, Fails DEF Fail, Excuses
<1> QED
  BY <1>1, <1>2, <1>3, Exits

(* The services start with netcfg asking to watch the interfaces. *)
LEMMA InitLinkInv == Init => LinkInv
<1> SUFFICES ASSUME Init PROVE LinkInv
  OBVIOUS
<1> DEFINE w == Message("Watch", None)
<1>1. w \in Operations /\ w \in RequestRecords /\ w.kind = "Watch" /\ w.link = None
      /\ RequestOf(w) = w
  BY DEF Message, Operations, RequestRecords, RequestOf, LinkIds, None
<1> HIDE DEF w
<1>2. TRUE \in Flag /\ FALSE \in Flag /\ None \in LinkIds /\ None = 0 /\ <<>> \in Acks
  BY DEF Flag, None, LinkIds, Acks
<1>3. wifi \in WifiRecords
  BY <1>2 DEF Init, WifiRecords, LinkIds
<1>4. netcfg \in NetcfgRecords
  BY <1>1, <1>2 DEF Init, NetcfgRecords, w
<1>5. provider \in ProviderRecords
  BY <1>2 DEF Init, ProviderRecords
<1>6. /\ life = <<>> /\ replies = <<>> /\ requests = <<w>> /\ frames = {}
      /\ netcfg.op = w /\ netcfg.at = "completed" /\ netcfg.active = None /\ netcfg.last = None
      /\ netcfg.link = None /\ netcfg.monitor = None
      /\ provider.device = None /\ provider.active = None /\ provider.last = None
      /\ provider.ack = <<>> /\ wifi.installed = 0 /\ wifi.active = None
  BY DEF Init, w
<1>7. Ranges
  BY <1>1, <1>3, <1>4, <1>5, <1>6 DEF Ranges
<1>8. LifeSound(wifi, life, netcfg.last, Coming(netcfg))
  BY <1>2, <1>6 DEF LifeSound, Ordered, Latest
<1>9. Shape(netcfg)
  BY <1>1, <1>6 DEF Shape
<1>10. Conversation(netcfg, requests, replies, provider)
  BY <1>1, <1>2, <1>6 DEF Conversation, Asked, Reports
<1> QED
  BY <1>6, <1>7, <1>8, <1>9, <1>10 DEF LinkInv

(* The invariant holds of every behaviour of the two services. *)
LEMMA LinkInvariant == Spec => []LinkInv
<1>1. ASSUME LinkInv, [Next]_vars PROVE LinkInv'
  <2>1. CASE UNCHANGED vars
    BY <1>1, <2>1 DEF vars, LinkInv, Ranges
  <2>2. CASE Next
    BY Zenon, <1>1, <2>1, <2>2, WifiStep, ReceiveStep, PollStep, AwaitStep, GiveUpStep,
       TurnStep, ProviderElse DEF Next, Netcfg, Quiet
  <2> QED
    BY <1>1, <2>1, <2>2
<1> QED
  BY <1>1, InitLinkInv, PTL DEF Spec

(* What the two services promise each other follows from it. *)
LEMMA LinkInvIsSafe == LinkInv => LinkSafe
<1> SUFFICES ASSUME LinkInv PROVE LinkSafe
  OBVIOUS
<1>1. /\ wifi \in WifiRecords /\ netcfg \in NetcfgRecords /\ provider \in ProviderRecords /\ Ranges
  BY DEF LinkInv, Ranges
<1>2. TypeOK
  BY <1>1 DEF TypeOK, Ranges, WifiRecords, NetcfgRecords, ProviderRecords, LinkIds
<1>3. NoFalseError
  BY <1>1 DEF NoFalseError, NetcfgRecords
<1>4. LinkAgreement
  BY InLoop DEF LinkAgreement, LinkInv
<1> QED
  BY <1>2, <1>3, <1>4 DEF LinkSafe

(* netcfg and the provider agree on the Wi-Fi link whenever netcfg is in   *)
(* its loop, whatever frame channels close, records queue up and reports   *)
(* are held back meanwhile; and neither the order of records nor that of   *)
(* replies ever makes netcfg take a faithful peer for a faulty one (the    *)
(* Err returns of WifiLifecycleReceiver::receive,                          *)
(* ProviderInterfaces::completed and serve).                               *)
THEOREM LinkIsSafe == Spec => []LinkSafe
BY LinkInvariant, LinkInvIsSafe, PTL
=============================================================================
