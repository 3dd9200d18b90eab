---------------------------- MODULE Mt7921Proofs ----------------------------
(***************************************************************************)
(* Proofs about Mt7921Client, for every set of tokens, peers and traffic   *)
(* identifiers and every bound on packet numbers, generations and          *)
(* unrecorded effects; about Mt7921Ownership, for every number of attempts *)
(* and every delay; and about ActiveAuthority, for every maximum of the    *)
(* generation, lineage and observation counters and every set of           *)
(* fingerprints.                                                           *)
(***************************************************************************)
EXTENDS Mt7921Client, Mt7921Ownership, ActiveAuthority, TLAPS

USE ClientAssumption DEF ClientAssumption

PeerRecords == [on : BOOLEAN, qos : BOOLEAN, mfp : BOOLEAN]

(* The truth values, a name the provers are given BOOLEAN for only where   *)
(* they need it.                                                           *)
Flag == BOOLEAN

(* The replay counters of one key. *)
ReplayCounters == [Tids -> 0 .. MaxPn]

Records ==
    [joined : Nat, bss : Flag, preauth : Flag, assoc : PeerRecords, edca : Flag,
     iface : Flag, filter : Flag, rlm : Flag, ptk : Flag, ptkDirty : Flag,
     gtk : Flag, igtk : Flag, bcDirty : Flag, port : Flag, uncertain : Flag,
     minted : Nat, assocGen : Nat, authGen : Nat, tx : SUBSET (Tokens \X Nat),
     ptkPn : ReplayCounters, gtkPn : ReplayCounters, wcid : Flag]

Firmware == [bss : Flag, wcid : Flag, ptk : Flag, bc : Flag, filter : Flag]

(* The truth values are flags. *)
LEMMA Flags == TRUE \in Flag /\ FALSE \in Flag
BY DEF Flag

(* An install leaves replay counters, and so does their removal. *)
LEMMA CountersSet ==
    /\ \A rsc \in 0 .. MaxPn : Counters(rsc) \in ReplayCounters
    /\ NoCounters \in ReplayCounters
BY DEF Counters, NoCounters, ReplayCounters

(* The fields have their types and the generations their bounds. *)
Bounded(s, f) ==
    /\ s \in Records /\ f \in Firmware
    /\ s.joined <= MaxGeneration /\ s.minted <= MaxGeneration
    /\ s.assocGen <= s.minted /\ s.authGen <= s.minted

(* The record s accounts for all the firmware f holds: a key is dirty and  *)
(* its association on, a peer has its slot, and what teardown would not    *)
(* undo is among the effects h a lost reply left without a record.         *)
Accounted(s, f, h) ==
    /\ f.ptk => s.ptkDirty /\ s.assoc.on
    /\ f.bc => s.bcDirty /\ s.assoc.on
    /\ f.wcid => s.wcid
    /\ s.preauth => s.wcid
    /\ f.wcid => s.preauth \/ s.assoc.on \/ "wcid" \in h
    /\ f.bss => s.bss \/ s.assoc.on \/ "bss" \in h
    /\ f.filter => s.filter \/ "filter" \in h
    /\ s.bss \/ s.preauth \/ s.filter \/ s.assoc.on => s.joined # 0

(* While nothing is uncertain an acknowledged key is in the firmware. *)
Certain(s, f) == ~s.uncertain => (s.ptk => f.ptk) /\ (s.gtk => f.bc)

(* The port is open exactly under a generation, with every key it needs. *)
Authorised(s, f) ==
    /\ s.port = (s.authGen # 0)
    /\ s.port => /\ s.assoc.on /\ s.ptk /\ s.gtk /\ (s.assoc.mfp => s.igtk)
                 /\ f.ptk /\ f.bc

(* Generations belong to the association, and so do the frames in flight. *)
Owned(s) ==
    /\ s.assocGen # 0 => s.assoc.on
    /\ s.authGen # 0 => s.authGen >= s.assocGen
    /\ s.tx # {} => s.assoc.on
    /\ \A x \in s.tx : x[2] >= s.assocGen

(* The packet numbers used up under an installed key are behind its        *)
(* counter for their traffic identifier.                                   *)
Counted(s, t) ==
    /\ s.ptk => \A x \in t : x[1] = "ptk" => x[3] <= s.ptkPn[x[2]]
    /\ s.gtk => \A x \in t : x[1] = "gtk" => x[3] <= s.gtkPn[x[2]]

(* A record, the firmware and the effects without a record agree. *)
Sound(s, f, h) ==
    Bounded(s, f) /\ Accounted(s, f, h) /\ Certain(s, f) /\ Authorised(s, f) /\ Owned(s)

(* The inductive invariant.  ClientSafe alone is not inductive: opening    *)
(* the port reads acknowledged keys, so Certain ties them to the firmware; *)
(* teardown erases by its own record, so Accounted says what that covers.  *)
ClientInv ==
    /\ Sound(st, fw, hidden) /\ Counted(st, taken) /\ ~replayed
    /\ lease \in 1 .. MaxGeneration
    /\ taken \subseteq {"ptk", "gtk"} \X Tids \X Nat

(* What teardown revokes before it submits anything. *)
LEMMA RevokedFields ==
    ASSUME NEW s \in Records
    PROVE  /\ Revoked(s) \in Records
           /\ Revoked(s).port = FALSE /\ Revoked(s).authGen = 0
           /\ Revoked(s).joined = s.joined /\ Revoked(s).bss = s.bss
           /\ Revoked(s).preauth = s.preauth /\ Revoked(s).assoc = s.assoc
           /\ Revoked(s).filter = s.filter /\ Revoked(s).ptk = s.ptk
           /\ Revoked(s).ptkDirty = s.ptkDirty /\ Revoked(s).gtk = s.gtk
           /\ Revoked(s).igtk = s.igtk /\ Revoked(s).bcDirty = s.bcDirty
           /\ Revoked(s).uncertain = s.uncertain /\ Revoked(s).minted = s.minted
           /\ Revoked(s).assocGen = s.assocGen /\ Revoked(s).tx = s.tx
           /\ Revoked(s).ptkPn = s.ptkPn /\ Revoked(s).gtkPn = s.gtkPn
           /\ Revoked(s).wcid = s.wcid
<1>1. Revoked(s) \in Records
  BY Flags, Zenon DEF Revoked, Records
<1> QED
  BY <1>1 DEF Revoked, Records

(* A channel lease is given. *)
LEMMA RetuneStep ==
    ASSUME ClientInv, Retune
    PROVE  ClientInv'
<1>1. st' \in Records /\ fw' \in Firmware
  BY Flags DEF Retune, ClientInv, Sound, Bounded, Records, PeerRecords, Firmware
<1>2. Sound(st', fw', hidden')
  BY <1>1 DEF Retune, ClientInv, Records, Firmware, Sound, Bounded, Accounted, Certain, Authorised, Owned
<1>3. Counted(st', taken')
  BY <1>1 DEF Retune, ClientInv, Records, Sound, Bounded, Accounted, Certain, Authorised, Owned, Counted
<1> QED
  BY <1>2, <1>3 DEF Retune, ClientInv

(* The join is bound to the lease. *)
LEMMA BindJoinStep ==
    ASSUME ClientInv, BindJoin
    PROVE  ClientInv'
<1>1. st' \in Records /\ fw' \in Firmware
  BY Flags DEF BindJoin, ClientInv, Sound, Bounded, Records, PeerRecords, Firmware
<1>2. Sound(st', fw', hidden')
  BY <1>1 DEF BindJoin, ClientInv, Records, Firmware, Sound, Bounded, Accounted, Certain, Authorised, Owned
<1>3. Counted(st', taken')
  BY <1>1 DEF BindJoin, ClientInv, Records, Sound, Bounded, Accounted, Certain, Authorised, Owned, Counted
<1> QED
  BY <1>2, <1>3 DEF BindJoin, ClientInv

(* The peer slot is allocated. *)
LEMMA AllocateStep ==
    ASSUME ClientInv, AllocatePeerWcid
    PROVE  ClientInv'
<1>1. st' \in Records /\ fw' \in Firmware
  BY Flags, Zenon DEF AllocatePeerWcid, ClientInv, Sound, Bounded, Records, PeerRecords, Firmware
<1>2. Sound(st', fw', hidden')
  BY <1>1 DEF AllocatePeerWcid, ClientInv, Records, Firmware, Sound, Bounded, Accounted, Certain, Authorised, Owned
<1>3. Counted(st', taken')
  BY <1>1 DEF AllocatePeerWcid, ClientInv, Records, Sound, Bounded, Accounted, Certain, Authorised, Owned, Counted
<1> QED
  BY <1>2, <1>3 DEF AllocatePeerWcid, ClientInv

(* The peer record for authentication, set up or rolled back. *)
LEMMA PreauthStep ==
    ASSUME ClientInv, NEW at \in 0 .. 4, NEW landed \in BOOLEAN, NEW rw \in Outcome, NEW rb \in Outcome,
           PreparePreauthPeer(at, landed, rw, rb)
    PROVE  ClientInv'
<1>1. /\ st.joined = lease /\ st.joined # 0 /\ st.wcid /\ st \in Records /\ fw \in Firmware
      /\ ~st.assoc.on /\ ~st.bss /\ ~st.uncertain /\ ~st.preauth
      /\ ~fw.ptk /\ ~fw.bc /\ ~st.ptk /\ ~st.gtk
  BY DEF PreparePreauthPeer, ClientInv, Records, Firmware, Sound, Bounded, Accounted, Certain, Authorised, Owned
<1>2. Sound(st', fw', hidden') /\ st'.ptk = st.ptk /\ st'.gtk = st.gtk
  <2>1. CASE at = 0
    <3>1. /\ st' = [st EXCEPT !.bss = TRUE, !.preauth = TRUE]
          /\ fw' = [fw EXCEPT !.wcid = TRUE, !.bss = TRUE] /\ hidden' = hidden
      BY <2>1 DEF PreparePreauthPeer
    <3>2. st' \in Records
      BY Flags, <1>1, <3>1, Zenon DEF Records
    <3>3. fw' \in Firmware
      BY Flags, <1>1, <3>1, Zenon DEF Firmware
    <3> QED
      BY <1>1, <3>1, <3>2, <3>3 DEF ClientInv, Records, Firmware, Sound, Bounded, Accounted, Certain, Authorised, Owned
  <2>2. CASE at # 0
    <3> DEFINE clean == rw = "ok" /\ rb = "ok"
               b == IF at > 2 THEN ~clean ELSE FALSE
               u == ~clean
               w == IF clean THEN FALSE ELSE st.wcid
               fp == (fw.wcid \/ at > 1 \/ landed) /\ ~Lands(rw)
               fb == fw.bss \/ (at = 2 /\ landed) \/ (at > 2 /\ ~Lands(rb))
    <3>1. st' = [st EXCEPT !.bss = b, !.uncertain = u, !.wcid = w]
      <4>1. CASE at > 2
        BY <1>1, <2>2, <4>1 DEF PreparePreauthPeer, PreauthRolledBack, Records
      <4>2. CASE ~(at > 2)
        <5>1. rb = "ok" /\ st' = [PreauthRolledBack(rw, "ok") EXCEPT !.bss = FALSE]
          BY <2>2, <4>2 DEF PreparePreauthPeer
        <5>2. PreauthRolledBack(rw, "ok") = [st EXCEPT !.bss = ~clean, !.uncertain = u, !.wcid = w]
          BY <5>1 DEF PreauthRolledBack
        <5> HIDE DEF clean, u, w
        <5>3. st' = [st EXCEPT !.bss = FALSE, !.uncertain = u, !.wcid = w]
          BY <1>1, <5>1, <5>2, Zenon DEF Records
        <5> QED
          BY <4>2, <5>3
      <4> QED
        BY <4>1, <4>2
    <3>2. fw' = [fw EXCEPT !.wcid = fp, !.bss = fb]
      BY <2>2 DEF PreparePreauthPeer
    <3>3. /\ b \in Flag /\ u \in Flag /\ w \in Flag /\ fp \in Flag /\ fb \in Flag
          /\ hidden \subseteq hidden'
          /\ fp => w /\ "wcid" \in hidden'
          /\ fb => fw.bss \/ b \/ "bss" \in hidden'
      BY <1>1, <2>2, Zenon DEF PreparePreauthPeer, Lands, Outcome, Flag, Records
    <3> HIDE DEF clean, b, u, w, fp, fb
    <3>4. st' \in Records
      BY Flags, <1>1, <3>1, <3>3, Zenon DEF Records
    <3>5. fw' \in Firmware
      BY Flags, <1>1, <3>2, <3>3, Zenon DEF Firmware
    <3> QED
      BY <1>1, <3>1, <3>2, <3>3, <3>4, <3>5 DEF ClientInv, Records, Firmware, Sound, Bounded, Accounted, Certain, Authorised, Owned
  <2> QED
    BY <2>1, <2>2
<1> QED
  BY <1>1, <1>2 DEF PreparePreauthPeer, ClientInv, Counted

(* The association, set up or rolled back. *)
LEMMA AssociateStep ==
    ASSUME ClientInv, NEW p \in Peers, NEW at \in 0 .. 4, NEW rw \in Outcome, NEW rb \in Outcome,
           Associate(Peer(p[1], p[2]), at, rw, rb)
    PROVE  ClientInv'
<1>1. /\ st.joined = lease /\ st.joined # 0 /\ st \in Records /\ fw \in Firmware
      /\ ~st.assoc.on /\ st.bss /\ ~st.uncertain /\ st.preauth /\ st.minted < MaxGeneration
      /\ ~fw.ptk /\ ~fw.bc /\ ~st.ptk /\ ~st.gtk /\ ~st.port /\ st.authGen = 0
      /\ st.tx = {} /\ hidden' = hidden
  BY Zenon DEF Associate, ClientInv, Records, Firmware, Sound, Bounded, Accounted, Certain, Authorised, Owned
<1>2. Sound(st', fw', hidden') /\ st'.ptk = st.ptk /\ st'.gtk = st.gtk
  <2>1. CASE at = 0
    <3> DEFINE g == st.minted + 1
               peer == Peer(p[1], p[2])
    <3>1. /\ st' = [st EXCEPT !.assoc = peer, !.rlm = TRUE, !.minted = g, !.assocGen = g]
          /\ fw' = [fw EXCEPT !.bss = TRUE, !.wcid = TRUE]
      BY <2>1 DEF Associate
    <3>2. g \in Nat /\ g # 0 /\ g <= MaxGeneration /\ g > st.minted
      BY <1>1 DEF Records
    <3>3. peer \in PeerRecords /\ peer.on
      BY DEF Peer, PeerRecords
    <3> HIDE DEF g, peer
    <3>4. st' \in Records
      BY Flags, <1>1, <3>1, <3>2, <3>3, Zenon DEF Records
    <3>5. fw' \in Firmware
      BY Flags, <1>1, <3>1, Zenon DEF Firmware
    <3>6. st.wcid
      BY <1>1 DEF ClientInv, Sound, Accounted
    <3>A. Bounded(st', fw') /\ Accounted(st', fw', hidden')
      BY <1>1, <3>1, <3>2, <3>3, <3>4, <3>5, <3>6 DEF ClientInv, Records, Firmware, Sound, Bounded, Accounted
    <3>B. Certain(st', fw') /\ Authorised(st', fw')
      BY <1>1, <3>1, <3>2, <3>3, <3>4, <3>5, <3>6 DEF ClientInv, Records, Firmware, Sound, Bounded, Certain, Authorised
    <3>C. Owned(st') /\ st'.ptk = st.ptk /\ st'.gtk = st.gtk
      BY <1>1, <3>1, <3>2, <3>3, <3>4, <3>5, <3>6 DEF ClientInv, Records, Sound, Bounded, Owned
    <3> QED
      BY <3>A, <3>B, <3>C DEF Sound
  <2>2. CASE at # 0
    <3> DEFINE b == rb # "ok"
               l == IF at < 3 THEN st.rlm ELSE rb # "ok"
               o == IF at = 4 THEN FALSE ELSE st.port
               a == st.preauth /\ ~(at = 4 /\ rw = "ok")
               w == st.wcid /\ ~(at = 4 /\ rw = "ok")
               u == rb # "ok" \/ rw # "ok"
               fb == ~Lands(rb)
               fp == fw.wcid /\ ~(at = 4 /\ Lands(rw))
    <3>1. st' = [st EXCEPT !.bss = b, !.rlm = l, !.port = o, !.preauth = a, !.wcid = w,
                           !.uncertain = u]
      BY <2>2 DEF Associate
    <3>2. fw' = [fw EXCEPT !.bss = fb, !.wcid = fp]
      BY <2>2 DEF Associate
    <3>F. /\ b \in Flag /\ l \in Flag /\ a \in Flag /\ w \in Flag /\ u \in Flag
          /\ o \in Flag
      BY <1>1, Zenon DEF Records, Flag
    <3>3. /\ fb \in Flag /\ fp \in Flag /\ o = FALSE /\ (fb => b) /\ (fp => w /\ a) /\ (a => w)
      BY <1>1, <2>2 DEF Lands, Outcome, ClientInv, Sound, Accounted, Records, Flag
    <3> HIDE DEF b, l, o, a, w, u, fb, fp
    <3>S. st \in Records
      BY <1>1
    <3>4. st' \in Records
      BY <3>S, <3>1, <3>F, Zenon DEF Records
    <3>5. fw' \in Firmware
      BY Flags, <1>1, <3>2, <3>3, Zenon DEF Firmware
    <3>A. Bounded(st', fw') /\ Accounted(st', fw', hidden')
      BY <1>1, <3>1, <3>2, <3>3, <3>4, <3>5 DEF ClientInv, Records, Firmware, Sound, Bounded, Accounted
    <3>B. Certain(st', fw') /\ Authorised(st', fw')
      BY <1>1, <3>1, <3>2, <3>3, <3>4, <3>5, ZenonT(30) DEF ClientInv, Records, Firmware, Sound, Bounded, Certain, Authorised
    <3>C. Owned(st') /\ st'.ptk = st.ptk /\ st'.gtk = st.gtk
      BY <1>1, <3>1, <3>2, <3>3, <3>4, <3>5 DEF ClientInv, Records, Sound, Bounded, Owned
    <3> QED
      BY <3>A, <3>B, <3>C DEF Sound
  <2> QED
    BY <2>1, <2>2
<1> QED
  BY <1>1, <1>2 DEF Associate, ClientInv, Counted

(* The access categories. *)
LEMMA EdcaStep ==
    ASSUME ClientInv, NEW o \in Outcome, ProgramEdca(o)
    PROVE  ClientInv'
<1> DEFINE e == o = "ok"
           u == o # "ok"
<1>1. /\ st' = [st EXCEPT !.edca = e, !.uncertain = u]
      /\ ~st.uncertain /\ e \in Flag /\ u \in Flag
  BY DEF ProgramEdca, Flag
<1> HIDE DEF e, u
<1>2. st' \in Records
  BY Flags, <1>1, Zenon DEF ClientInv, Sound, Bounded, Records
<1>3. Sound(st', fw', hidden')
  BY <1>1, <1>2 DEF ProgramEdca, ClientInv, Records, Sound, Bounded, Accounted, Certain, Authorised, Owned
<1>4. Counted(st', taken')
  BY <1>1, <1>2 DEF ClientInv, Records, Sound, Bounded, Accounted, Certain, Authorised, Owned, Counted, ProgramEdca
<1> QED
  BY <1>3, <1>4 DEF ProgramEdca, ClientInv

(* The interface and the receive filter. *)
LEMMA InterfaceStep ==
    ASSUME ClientInv, NEW at \in 0 .. 3, NEW landed \in BOOLEAN,
           CompletePostAssocInterface(at, landed)
    PROVE  ClientInv'
<1> DEFINE i == at \in {0, 2, 3}
           l == at = 0
           u == at # 0
           r == fw.filter \/ at = 0 \/ (at = 3 /\ landed)
<1>1. /\ st' = [st EXCEPT !.iface = i, !.filter = l, !.uncertain = u]
      /\ fw' = [fw EXCEPT !.filter = r]
      /\ i \in Flag /\ l \in Flag /\ u \in Flag /\ r \in Flag
      /\ st.assoc.on /\ ~st.uncertain /\ ~st.filter
      /\ r => fw.filter \/ l \/ "filter" \in hidden'
      /\ hidden \subseteq hidden'
  BY DEF CompletePostAssocInterface, Flag
<1> HIDE DEF i, l, u, r
<1>2. st' \in Records /\ fw' \in Firmware
  <2>1. st' \in Records
    BY Flags, <1>1, Zenon DEF ClientInv, Sound, Bounded, Records
  <2>2. fw' \in Firmware
    BY Flags, <1>1 DEF ClientInv, Sound, Bounded, Firmware
  <2> QED
    BY <2>1, <2>2
<1>3. Sound(st', fw', hidden')
  BY <1>1, <1>2 DEF ClientInv, Records, Firmware, Sound, Bounded, Accounted, Certain, Authorised, Owned
<1>4. Counted(st', taken')
  BY <1>1, <1>2 DEF ClientInv, Records, Sound, Bounded, Accounted, Certain, Authorised, Owned, Counted, CompletePostAssocInterface
<1> QED
  BY <1>3, <1>4 DEF CompletePostAssocInterface, ClientInv

(* The port closes. *)
LEMMA ClosePortStep ==
    ASSUME ClientInv, ClosePort
    PROVE  ClientInv'
<1>1. st' = [st EXCEPT !.port = FALSE, !.authGen = 0] /\ UNCHANGED <<fw, hidden>>
  BY DEF ClosePort
<1>2. st' \in Records
  BY Flags, <1>1, Zenon DEF ClientInv, Sound, Bounded, Records
<1>3. Sound(st', fw', hidden')
  <2>1. Bounded(st', fw') /\ Accounted(st', fw', hidden')
    BY <1>1, <1>2 DEF ClientInv, Records, Sound, Bounded, Accounted
  <2>2. Certain(st', fw') /\ Authorised(st', fw')
    BY <1>1, <1>2, Zenon DEF ClientInv, Records, Sound, Bounded, Certain, Authorised
  <2>3. Owned(st')
    BY <1>1, <1>2 DEF ClientInv, Records, Sound, Bounded, Owned
  <2> QED
    BY <2>1, <2>2, <2>3 DEF Sound
<1>4. Counted(st', taken')
  BY <1>1, <1>2 DEF ClientInv, Records, Sound, Bounded, Accounted, Certain, Authorised, Owned, Counted, ClosePort
<1> QED
  BY <1>3, <1>4 DEF ClosePort, ClientInv

(* The port opens under a new generation. *)
LEMMA OpenPortStep ==
    ASSUME ClientInv, OpenPort
    PROVE  ClientInv'
<1> DEFINE g == st.minted + 1
<1>1. /\ st' = [st EXCEPT !.port = TRUE, !.minted = g, !.authGen = g] /\ UNCHANGED <<fw, hidden>>
      /\ st.assoc.on /\ ~st.uncertain /\ st.ptk /\ st.gtk /\ (st.assoc.mfp => st.igtk)
      /\ g \in Nat /\ g # 0 /\ g <= MaxGeneration /\ g > st.minted
  BY DEF OpenPort, ClientInv, Sound, Bounded, Records
<1> HIDE DEF g
<1>2. st' \in Records
  BY Flags, <1>1, Zenon DEF ClientInv, Sound, Bounded, Records
<1>3. Sound(st', fw', hidden')
  <2>1. Bounded(st', fw') /\ Accounted(st', fw', hidden')
    BY <1>1, <1>2 DEF ClientInv, Records, Sound, Bounded, Accounted
  <2>2. Certain(st', fw') /\ Authorised(st', fw')
    BY <1>1, <1>2, Zenon DEF ClientInv, Records, Sound, Bounded, Certain, Authorised
  <2>3. Owned(st')
    BY <1>1, <1>2 DEF ClientInv, Records, Sound, Bounded, Owned
  <2> QED
    BY <2>1, <2>2, <2>3 DEF Sound
<1>4. Counted(st', taken')
  BY <1>1, <1>2 DEF ClientInv, Records, Sound, Bounded, Accounted, Certain, Authorised, Owned, Counted, OpenPort
<1> QED
  BY <1>3, <1>4 DEF OpenPort, ClientInv

(* A frame is published. *)
LEMMA PublishStep ==
    ASSUME ClientInv, NEW token \in Tokens, NEW eapol \in BOOLEAN,
           PublishTx(token, eapol)
    PROVE  ClientInv'
<1> DEFINE g == Generation(eapol)
<1>1. /\ st' = [st EXCEPT !.tx = @ \cup {<<token, g>>}] /\ UNCHANGED <<fw, hidden>>
      /\ g # 0 /\ g \in Nat /\ g >= st.assocGen /\ st.assoc.on
      /\ st \in Records
  <2>1. /\ st \in Records /\ st.assocGen \in Nat /\ st.authGen \in Nat
        /\ st.assocGen # 0 => st.assoc.on
        /\ st.authGen # 0 => st.authGen >= st.assocGen /\ st.assoc.on
    BY Zenon DEF ClientInv, Sound, Bounded, Authorised, Owned, Records
  <2>2. g # 0 /\ st' = [st EXCEPT !.tx = @ \cup {<<token, g>>}] /\ UNCHANGED <<fw, hidden>>
    BY DEF PublishTx
  <2> QED
    BY <2>1, <2>2 DEF Generation
<1> HIDE DEF g
<1>2. st' \in Records
  BY <1>1 DEF Records
<1>3. Sound(st', fw', hidden')
  <2>1. Bounded(st', fw') /\ Accounted(st', fw', hidden')
    BY <1>1, <1>2 DEF ClientInv, Records, Sound, Bounded, Accounted
  <2>2. Certain(st', fw') /\ Authorised(st', fw')
    BY <1>1, <1>2 DEF ClientInv, Records, Sound, Bounded, Certain, Authorised
  <2>3. Owned(st')
    BY <1>1, <1>2 DEF ClientInv, Records, Sound, Bounded, Owned
  <2> QED
    BY <2>1, <2>2, <2>3 DEF Sound
<1>4. Counted(st', taken')
  BY <1>1, <1>2 DEF ClientInv, Records, Sound, Bounded, Accounted, Certain, Authorised, Owned, Counted, PublishTx
<1> QED
  BY <1>3, <1>4 DEF PublishTx, ClientInv

(* A frame completes. *)
LEMMA CompleteStep ==
    ASSUME ClientInv, NEW token \in Tokens, CompleteTx(token)
    PROVE  ClientInv'
<1>1. st' \in Records /\ fw' \in Firmware
  BY Flags DEF CompleteTx, ClientInv, Sound, Bounded, Records, PeerRecords, Firmware
<1>2. Sound(st', fw', hidden')
  BY <1>1 DEF CompleteTx, ClientInv, Records, Firmware, Sound, Bounded, Accounted, Certain, Authorised, Owned
<1>3. Counted(st', taken')
  BY <1>1 DEF CompleteTx, ClientInv, Records, Sound, Bounded, Accounted, Certain, Authorised, Owned, Counted
<1> QED
  BY <1>2, <1>3 DEF CompleteTx, ClientInv

(* What a teardown forgets of a record once the steps in done are          *)
(* acknowledged.                                                           *)
LEMMA ForgottenFields ==
    ASSUME NEW s \in Records, NEW done, NEW t, t = Forgotten(s, done)
    PROVE  /\ t \in Records
           /\ t.joined = s.joined /\ t.assoc = s.assoc /\ t.port = s.port
           /\ t.uncertain = s.uncertain /\ t.minted = s.minted /\ t.assocGen = s.assocGen
           /\ t.authGen = s.authGen /\ t.tx = s.tx
           /\ t.filter = (s.filter /\ "filter" \notin done)
           /\ t.bcDirty = (s.bcDirty /\ "bc" \notin done)
           /\ t.ptkDirty = (s.ptkDirty /\ "ptk" \notin done)
           /\ t.gtk = (s.gtk /\ "bc" \notin done) /\ t.gtkPn = IF "bc" \in done THEN NoCounters ELSE s.gtkPn
           /\ t.ptk = (s.ptk /\ "ptk" \notin done) /\ t.ptkPn = IF "ptk" \in done THEN NoCounters ELSE s.ptkPn
           /\ t.preauth = (s.preauth /\ ~(~s.assoc.on /\ "wcid" \in done))
           /\ t.wcid = (s.wcid /\ ~(~s.assoc.on /\ "wcid" \in done))
           /\ t.bss = (s.bss /\ ~(~s.assoc.on /\ "bss" \in done))
<1> DEFINE a == s.filter /\ "filter" \notin done
           b == s.gtk /\ "bc" \notin done
           c == s.igtk /\ "bc" \notin done
           d == s.bcDirty /\ "bc" \notin done
           e == IF "bc" \in done THEN NoCounters ELSE s.gtkPn
           g == s.ptk /\ "ptk" \notin done
           h == s.ptkDirty /\ "ptk" \notin done
           i == IF "ptk" \in done THEN NoCounters ELSE s.ptkPn
           j == s.preauth /\ ~(~s.assoc.on /\ "wcid" \in done)
           k == s.wcid /\ ~(~s.assoc.on /\ "wcid" \in done)
           l == s.bss /\ ~(~s.assoc.on /\ "bss" \in done)
<1>1. t = [s EXCEPT !.filter = a, !.gtk = b, !.igtk = c, !.bcDirty = d, !.gtkPn = e, !.ptk = g,
                    !.ptkDirty = h, !.ptkPn = i, !.preauth = j, !.wcid = k, !.bss = l]
  BY DEF Forgotten
<1>2. /\ a \in Flag /\ b \in Flag /\ c \in Flag /\ d \in Flag /\ g \in Flag /\ h \in Flag
      /\ j \in Flag /\ k \in Flag /\ l \in Flag
  BY DEF Flag
<1>3. e \in ReplayCounters /\ i \in ReplayCounters
  BY CountersSet, Zenon DEF Records
<1> HIDE DEF a, b, c, d, e, g, h, i, j, k, l
<1>4. t \in Records
  <2> DEFINE u == [s EXCEPT !.filter = a, !.gtk = b, !.igtk = c, !.bcDirty = d]
             v == [u EXCEPT !.gtkPn = e, !.ptk = g, !.ptkDirty = h, !.ptkPn = i]
  <2>1. u \in Records
    BY <1>2, Zenon DEF Records
  <2>2. t = [v EXCEPT !.preauth = j, !.wcid = k, !.bss = l]
    BY <1>1
  <2> HIDE DEF u
  <2>3. v \in Records
    BY <1>2, <1>3, <2>1, Zenon DEF Records
  <2> HIDE DEF v
  <2>4. [v EXCEPT !.preauth = j, !.wcid = k, !.bss = l] \in Records
    BY <1>2, <2>3, Zenon DEF Records
  <2> QED
    BY <2>2, <2>4
<1>5. /\ t.joined = s.joined /\ t.assoc = s.assoc /\ t.port = s.port
      /\ t.uncertain = s.uncertain /\ t.minted = s.minted /\ t.assocGen = s.assocGen
      /\ t.authGen = s.authGen /\ t.tx = s.tx
  BY <1>1 DEF Records
<1>6. /\ t.filter = a /\ t.gtk = b /\ t.bcDirty = d /\ t.gtkPn = e /\ t.ptk = g
      /\ t.ptkDirty = h /\ t.ptkPn = i /\ t.preauth = j /\ t.wcid = k /\ t.bss = l
  BY <1>1 DEF Records
<1> QED
  BY <1>4, <1>5, <1>6 DEF a, b, d, e, g, h, i, j, k, l

(* What the acknowledged or landed steps erase in the firmware. *)
LEMMA ErasedFields ==
    ASSUME NEW f \in Firmware, NEW done, NEW t, t = Erased(f, done)
    PROVE  /\ t \in Firmware
           /\ t.filter = (f.filter /\ "filter" \notin done) /\ t.bc = (f.bc /\ "bc" \notin done)
           /\ t.ptk = (f.ptk /\ "ptk" \notin done) /\ t.wcid = (f.wcid /\ "wcid" \notin done)
           /\ t.bss = (f.bss /\ "bss" \notin done)
<1> DEFINE a == f.filter /\ "filter" \notin done
           b == f.bc /\ "bc" \notin done
           c == f.ptk /\ "ptk" \notin done
           d == f.wcid /\ "wcid" \notin done
           e == f.bss /\ "bss" \notin done
<1>1. t = [f EXCEPT !.filter = a, !.bc = b, !.ptk = c, !.wcid = d, !.bss = e]
  BY DEF Erased
<1>2. a \in Flag /\ b \in Flag /\ c \in Flag /\ d \in Flag /\ e \in Flag
  BY DEF Flag
<1> HIDE DEF a, b, c, d, e
<1>3. t \in Firmware /\ t.filter = a /\ t.bc = b /\ t.ptk = c /\ t.wcid = d /\ t.bss = e
  BY <1>1, <1>2, Zenon DEF Firmware
<1> QED
  BY <1>3 DEF a, b, c, d, e

(* A key that record t still holds is held by s, with the same counter. *)
Drops(t, s) ==
    /\ t.ptk => s.ptk /\ t.ptkPn = s.ptkPn
    /\ t.gtk => s.gtk /\ t.gtkPn = s.gtkPn

(* What a record must satisfy for teardown to be entered with it, whatever *)
(* the port and the keys it records.                                       *)
Entered(s, f, h) == Bounded(s, f) /\ Accounted(s, f, h) /\ Owned(s)

(* The steps teardown submits for a record. *)
LEMMA StepsOf ==
    ASSUME NEW s
    PROVE  /\ "filter" \in TeardownSteps(s) <=> s.filter
           /\ "bc" \in TeardownSteps(s) <=> s.assoc.on /\ s.bcDirty
           /\ "ptk" \in TeardownSteps(s) <=> s.assoc.on /\ s.ptkDirty
           /\ "wcid" \in TeardownSteps(s) <=> s.assoc.on \/ s.preauth
           /\ "bss" \in TeardownSteps(s) <=> s.assoc.on \/ s.bss
BY DEF TeardownSteps

(* Teardown, entered with frames in flight: refused, nothing submitted. *)
LEMMA TeardownRefused ==
    ASSUME NEW s, NEW f, NEW h, Entered(s, f, h), NEW t, t = [Revoked(s) EXCEPT !.uncertain = TRUE]
    PROVE  Sound(t, f, h) /\ Drops(t, s)
<1> DEFINE r == Revoked(s)
<1>1. s \in Records
  BY DEF Entered, Bounded
<1>2. /\ r \in Records /\ r.port = FALSE /\ r.authGen = 0
      /\ r.joined = s.joined /\ r.bss = s.bss /\ r.preauth = s.preauth /\ r.assoc = s.assoc
      /\ r.filter = s.filter /\ r.ptk = s.ptk /\ r.ptkDirty = s.ptkDirty /\ r.gtk = s.gtk
      /\ r.bcDirty = s.bcDirty /\ r.minted = s.minted /\ r.assocGen = s.assocGen
      /\ r.tx = s.tx /\ r.ptkPn = s.ptkPn /\ r.gtkPn = s.gtkPn /\ r.wcid = s.wcid
  BY <1>1, RevokedFields, Zenon
<1>3. t = [r EXCEPT !.uncertain = TRUE]
  OBVIOUS
<1> HIDE DEF r
<1>4. [r EXCEPT !.uncertain = TRUE] \in Records
  BY <1>2, Flags, Zenon DEF Records
<1>5. /\ t \in Records /\ t.port = FALSE /\ t.authGen = 0 /\ t.uncertain = TRUE
      /\ t.joined = s.joined /\ t.bss = s.bss /\ t.preauth = s.preauth /\ t.assoc = s.assoc
      /\ t.filter = s.filter /\ t.ptk = s.ptk /\ t.ptkDirty = s.ptkDirty /\ t.gtk = s.gtk
      /\ t.bcDirty = s.bcDirty /\ t.minted = s.minted /\ t.assocGen = s.assocGen
      /\ t.tx = s.tx /\ t.ptkPn = s.ptkPn /\ t.gtkPn = s.gtkPn /\ t.wcid = s.wcid
  BY <1>2, <1>3, <1>4, ZenonT(30) DEF Records
<1>6. Bounded(t, f)
  BY <1>1, <1>5 DEF Entered, Bounded, Records
<1>7. Accounted(t, f, h) /\ Certain(t, f) /\ Authorised(t, f) /\ Owned(t)
  BY <1>1, <1>5, ZenonT(30) DEF Entered, Accounted, Certain, Authorised, Owned, Records
<1> QED
  BY <1>5, <1>6, <1>7 DEF Sound, Drops

(* Teardown, stopped at a command that is not acknowledged: the steps in   *)
(* done are forgotten, those in wide, which adds the one that may have     *)
(* landed, are erased.                                                     *)
LEMMA TeardownPartial ==
    ASSUME NEW s, NEW f, NEW h, Entered(s, f, h), NEW done, NEW wide, done \subseteq wide,
           NEW t, t = [Forgotten(Revoked(s), done) EXCEPT !.uncertain = TRUE],
           NEW g, g = Erased(f, wide)
    PROVE  Sound(t, g, h) /\ Drops(t, s)
<1> DEFINE r == Revoked(s)
           k == Forgotten(r, done)
<1>1. s \in Records /\ f \in Firmware
  BY DEF Entered, Bounded
<1>2. /\ r \in Records /\ r.port = FALSE /\ r.authGen = 0
      /\ r.joined = s.joined /\ r.bss = s.bss /\ r.preauth = s.preauth /\ r.assoc = s.assoc
      /\ r.filter = s.filter /\ r.ptk = s.ptk /\ r.ptkDirty = s.ptkDirty /\ r.gtk = s.gtk
      /\ r.bcDirty = s.bcDirty /\ r.minted = s.minted /\ r.assocGen = s.assocGen
      /\ r.tx = s.tx /\ r.ptkPn = s.ptkPn /\ r.gtkPn = s.gtkPn /\ r.wcid = s.wcid
  BY <1>1, RevokedFields, Zenon
<1> HIDE DEF r
<1>3. /\ k \in Records
      /\ k.joined = s.joined /\ k.assoc = s.assoc /\ k.port = FALSE
      /\ k.minted = s.minted /\ k.assocGen = s.assocGen /\ k.authGen = 0 /\ k.tx = s.tx
      /\ k.filter = (s.filter /\ "filter" \notin done)
      /\ k.bcDirty = (s.bcDirty /\ "bc" \notin done)
      /\ k.ptkDirty = (s.ptkDirty /\ "ptk" \notin done)
      /\ k.gtk = (s.gtk /\ "bc" \notin done) /\ k.gtkPn = IF "bc" \in done THEN NoCounters ELSE s.gtkPn
      /\ k.ptk = (s.ptk /\ "ptk" \notin done) /\ k.ptkPn = IF "ptk" \in done THEN NoCounters ELSE s.ptkPn
      /\ k.preauth = (s.preauth /\ ~(~s.assoc.on /\ "wcid" \in done))
      /\ k.wcid = (s.wcid /\ ~(~s.assoc.on /\ "wcid" \in done))
      /\ k.bss = (s.bss /\ ~(~s.assoc.on /\ "bss" \in done))
  BY <1>2, ForgottenFields
<1>4. t = [k EXCEPT !.uncertain = TRUE]
  BY DEF r
<1> HIDE DEF k
<1>5. [k EXCEPT !.uncertain = TRUE] \in Records
  BY <1>3, Flags, Zenon DEF Records
<1>6. /\ t \in Records /\ t.port = FALSE /\ t.authGen = 0 /\ t.uncertain = TRUE
      /\ t.joined = k.joined /\ t.bss = k.bss /\ t.preauth = k.preauth /\ t.assoc = k.assoc
      /\ t.filter = k.filter /\ t.ptk = k.ptk /\ t.ptkDirty = k.ptkDirty /\ t.gtk = k.gtk
      /\ t.bcDirty = k.bcDirty /\ t.minted = k.minted /\ t.assocGen = k.assocGen
      /\ t.tx = k.tx /\ t.ptkPn = k.ptkPn /\ t.gtkPn = k.gtkPn /\ t.wcid = k.wcid
  BY <1>3, <1>4, <1>5, ZenonT(30) DEF Records
<1>7. /\ g \in Firmware
      /\ g.filter = (f.filter /\ "filter" \notin wide) /\ g.bc = (f.bc /\ "bc" \notin wide)
      /\ g.ptk = (f.ptk /\ "ptk" \notin wide) /\ g.wcid = (f.wcid /\ "wcid" \notin wide)
      /\ g.bss = (f.bss /\ "bss" \notin wide)
  BY <1>1, ErasedFields
<1>8. Bounded(t, g)
  <2>1. /\ t.joined = s.joined /\ t.minted = s.minted /\ t.assocGen = s.assocGen /\ t.authGen = 0
    BY <1>3, <1>6
  <2>2. s.minted \in Nat
    BY <1>1 DEF Records
  <2> QED
    BY <1>6, <1>7, <2>1, <2>2 DEF Entered, Bounded
<1>9. Accounted(t, g, h)
  BY <1>3, <1>6, <1>7, ZenonT(30) DEF Entered, Accounted
<1>10. Certain(t, g) /\ Authorised(t, g)
  BY <1>6, Zenon DEF Certain, Authorised
<1>11. Owned(t)
  BY <1>3, <1>6 DEF Entered, Owned
<1> QED
  BY <1>3, <1>6, <1>8, <1>9, <1>10, <1>11, Zenon DEF Sound, Drops

(* Teardown carried through. *)
LEMMA TeardownComplete ==
    ASSUME NEW s, NEW f, NEW h, Entered(s, f, h), s.tx = {},
           NEW t, t = TornDown(Revoked(s)),
           NEW g, g = Erased(f, TeardownSteps(Revoked(s)))
    PROVE  Sound(t, g, h) /\ Drops(t, s)
<1> DEFINE r == Revoked(s)
           done == TeardownSteps(r)
           k == Forgotten(r, done)
           w == IF r.assoc.on THEN FALSE ELSE k.wcid
           u == [k EXCEPT !.joined = 0, !.bss = FALSE, !.preauth = FALSE, !.assoc = NoPeer,
                          !.assocGen = 0, !.wcid = w]
           v == [u EXCEPT !.uncertain = FALSE, !.gtk = FALSE, !.ptk = FALSE, !.igtk = FALSE,
                          !.ptkDirty = FALSE]
<1>1. s \in Records /\ f \in Firmware
  BY DEF Entered, Bounded
<1>2. /\ r \in Records /\ r.port = FALSE /\ r.authGen = 0
      /\ r.joined = s.joined /\ r.bss = s.bss /\ r.preauth = s.preauth /\ r.assoc = s.assoc
      /\ r.filter = s.filter /\ r.ptkDirty = s.ptkDirty /\ r.bcDirty = s.bcDirty
      /\ r.minted = s.minted /\ r.tx = s.tx /\ r.wcid = s.wcid
  BY <1>1, RevokedFields, Zenon
<1>3. /\ "filter" \in done <=> s.filter
      /\ "bc" \in done <=> s.assoc.on /\ s.bcDirty
      /\ "ptk" \in done <=> s.assoc.on /\ s.ptkDirty
      /\ "wcid" \in done <=> s.assoc.on \/ s.preauth
      /\ "bss" \in done <=> s.assoc.on \/ s.bss
  BY <1>2, StepsOf
<1>4. t = [v EXCEPT !.bcDirty = FALSE, !.ptkPn = NoCounters, !.gtkPn = NoCounters]
  BY DEF TornDown
<1>5. g = Erased(f, done)
  OBVIOUS
<1> HIDE DEF r, done
<1>6. /\ k \in Records /\ k.port = FALSE /\ k.minted = s.minted /\ k.authGen = 0 /\ k.tx = s.tx
      /\ k.filter = (s.filter /\ "filter" \notin done)
      /\ k.wcid = (s.wcid /\ ~(~s.assoc.on /\ "wcid" \in done))
  BY <1>2, ForgottenFields
<1> HIDE DEF k
<1>7. w \in Flag
  BY <1>6, Flags, Zenon DEF Records
<1>8. w = IF s.assoc.on THEN FALSE ELSE k.wcid
  BY <1>2
<1>9. NoPeer \in PeerRecords /\ ~NoPeer.on
  BY DEF NoPeer, PeerRecords
<1> HIDE DEF w
<1>10. u \in Records
  BY <1>6, <1>7, <1>9, Flags, ZenonT(30) DEF Records
<1>11. /\ u.joined = 0 /\ u.bss = FALSE /\ u.preauth = FALSE /\ u.assoc = NoPeer /\ u.assocGen = 0
       /\ u.wcid = w /\ u.port = k.port /\ u.minted = k.minted /\ u.authGen = k.authGen
       /\ u.tx = k.tx /\ u.filter = k.filter
  BY <1>6 DEF Records
<1> HIDE DEF u
<1>12. v \in Records
  BY <1>10, Flags, Zenon DEF Records
<1>13. /\ v.joined = 0 /\ v.bss = FALSE /\ v.preauth = FALSE /\ v.assoc = NoPeer /\ v.assocGen = 0
       /\ v.wcid = w /\ v.port = k.port /\ v.minted = k.minted /\ v.authGen = k.authGen
       /\ v.tx = k.tx /\ v.filter = k.filter /\ v.gtk = FALSE /\ v.ptk = FALSE
  BY <1>10, <1>11 DEF Records
<1> HIDE DEF v
<1>14. [v EXCEPT !.bcDirty = FALSE, !.ptkPn = NoCounters, !.gtkPn = NoCounters] \in Records
  BY <1>12, Flags, CountersSet, Zenon DEF Records
<1>15. /\ t \in Records
       /\ t.joined = 0 /\ t.bss = FALSE /\ t.preauth = FALSE /\ t.assoc = NoPeer /\ t.assocGen = 0
       /\ t.wcid = w /\ t.port = FALSE /\ t.minted = s.minted /\ t.authGen = 0
       /\ t.tx = {} /\ t.filter = k.filter /\ t.gtk = FALSE /\ t.ptk = FALSE
  BY <1>2, <1>4, <1>6, <1>12, <1>13, <1>14 DEF Records
<1>16. /\ g \in Firmware
       /\ g.filter = (f.filter /\ "filter" \notin done) /\ g.bc = (f.bc /\ "bc" \notin done)
       /\ g.ptk = (f.ptk /\ "ptk" \notin done) /\ g.wcid = (f.wcid /\ "wcid" \notin done)
       /\ g.bss = (f.bss /\ "bss" \notin done)
  BY <1>1, <1>5, ErasedFields
<1>17. Bounded(t, g)
  <2>1. s.minted \in Nat
    BY <1>1 DEF Records
  <2> QED
    BY <1>15, <1>16, <2>1 DEF Entered, Bounded
<1>18. Accounted(t, g, h)
  BY <1>3, <1>6, <1>8, <1>9, <1>15, <1>16, Zenon DEF Entered, Accounted
<1>19. Certain(t, g) /\ Authorised(t, g) /\ Owned(t)
  BY <1>15, Zenon DEF Certain, Authorised, Owned
<1> QED
  BY <1>15, <1>17, <1>18, <1>19 DEF Sound, Drops

(* Teardown, whichever of its commands stops it. *)
LEMMA TeardownSound ==
    ASSUME NEW s, NEW f, Entered(s, f, hidden), NEW at \in Stops, NEW landed \in BOOLEAN,
           Teardown(s, f, at, landed), UNCHANGED hidden
    PROVE  Sound(st', fw', hidden') /\ Drops(st', s)
<1>1. CASE ~Contained(s)
  <2>1. st' = [Revoked(s) EXCEPT !.uncertain = TRUE] /\ fw' = f
    BY <1>1 DEF Teardown
  <2> QED
    BY <2>1, TeardownRefused
<1>2. CASE Contained(s) /\ at = 6
  <2>1. s.tx = {} /\ st' = TornDown(Revoked(s)) /\ fw' = Erased(f, TeardownSteps(Revoked(s)))
    BY <1>2 DEF Teardown, Contained
  <2> QED
    BY <2>1, TeardownComplete
<1>3. CASE Contained(s) /\ at # 6
  <2> DEFINE done == {x \in TeardownSteps(Revoked(s)) : Order(x) < at}
             next == {x \in TeardownSteps(Revoked(s)) : Order(x) = at}
             wide == IF landed THEN done \cup next ELSE done
  <2>1. st' = [Forgotten(Revoked(s), done) EXCEPT !.uncertain = TRUE] /\ fw' = Erased(f, wide)
    BY <1>3 DEF Teardown
  <2>2. done \subseteq wide
    OBVIOUS
  <2> HIDE DEF done, next, wide
  <2> QED
    BY <2>1, <2>2, TeardownPartial
<1> QED
  BY <1>1, <1>2, <1>3

(* Packet numbers stay behind the counters while keys are only dropped. *)
LEMMA KeysDropped ==
    ASSUME NEW s, Counted(s, taken), NEW t, Drops(t, s)
    PROVE  Counted(t, StillTaken) /\ StillTaken \subseteq taken
BY DEF Counted, Drops, StillTaken

(* Teardown on request. *)
LEMMA TeardownStep ==
    ASSUME ClientInv, NEW at \in Stops, NEW landed \in BOOLEAN, TeardownAll(at, landed)
    PROVE  ClientInv'
<1>1. /\ Entered(st, fw, hidden) /\ Teardown(st, fw, at, landed) /\ UNCHANGED hidden
      /\ taken' = StillTaken
  BY DEF ClientInv, Sound, Entered, TeardownAll
<1>2. Sound(st', fw', hidden') /\ Drops(st', st)
  BY <1>1, TeardownSound
<1>3. Counted(st', taken') /\ taken' \subseteq taken
  BY <1>1, <1>2, KeysDropped DEF ClientInv
<1> QED
  BY <1>1, <1>2, <1>3 DEF ClientInv, TeardownAll

(* A record marked dirty before a key is submitted, and the firmware       *)
(* whether or not the key landed there.                                    *)
LEMMA DirtiedEntered ==
    ASSUME ClientInv, st.assoc.on, NEW key \in {"ptk", "gtk", "igtk"}, NEW o, NEW d, d = Dirtied(st, key, o),
           NEW f, f \in {fw, IF key = "ptk" THEN [fw EXCEPT !.ptk = TRUE] ELSE [fw EXCEPT !.bc = TRUE]}
    PROVE  /\ d \in Records /\ f \in Firmware
           /\ Bounded(d, f) /\ Accounted(d, f, hidden) /\ Owned(d)
           /\ d.ptk = st.ptk /\ d.gtk = st.gtk /\ d.igtk = st.igtk /\ d.port = st.port
           /\ d.ptkPn = st.ptkPn /\ d.gtkPn = st.gtkPn /\ d.authGen = st.authGen
           /\ d.assoc = st.assoc /\ d.uncertain = st.uncertain
           /\ (fw.ptk => f.ptk) /\ (fw.bc => f.bc)
<1>1. st \in Records /\ fw \in Firmware
  BY DEF ClientInv, Sound, Bounded
<1>2. /\ f \in Firmware /\ f.wcid = fw.wcid /\ f.bss = fw.bss /\ f.filter = fw.filter
      /\ f.ptk => fw.ptk \/ key = "ptk"
      /\ f.bc => fw.bc \/ key # "ptk"
      /\ (fw.ptk => f.ptk) /\ (fw.bc => f.bc)
  BY <1>1, Flags, Zenon DEF Firmware
<1>3. /\ d \in Records
      /\ d.joined = st.joined /\ d.assoc = st.assoc /\ d.port = st.port
      /\ d.uncertain = st.uncertain /\ d.minted = st.minted /\ d.assocGen = st.assocGen
      /\ d.authGen = st.authGen /\ d.tx = st.tx /\ d.filter = st.filter
      /\ d.gtk = st.gtk /\ d.igtk = st.igtk /\ d.gtkPn = st.gtkPn
      /\ d.ptk = st.ptk /\ d.ptkPn = st.ptkPn
      /\ d.preauth = st.preauth /\ d.wcid = st.wcid /\ d.bss = st.bss
      /\ (st.ptkDirty \/ key = "ptk" => d.ptkDirty) /\ (st.bcDirty \/ key # "ptk" => d.bcDirty)
  <2>1. CASE key = "ptk"
    <3>1. d = [st EXCEPT !.ptkDirty = TRUE]
      BY <2>1 DEF Dirtied
    <3>2. [st EXCEPT !.ptkDirty = TRUE] \in Records
      BY <1>1, Flags, Zenon DEF Records
    <3> QED
      BY <1>1, <2>1, <3>1, <3>2, ZenonT(30) DEF Records
  <2>2. CASE key # "ptk"
    <3>1. d = [st EXCEPT !.bcDirty = TRUE]
      BY <2>2 DEF Dirtied
    <3>2. [st EXCEPT !.bcDirty = TRUE] \in Records
      BY <1>1, Flags, Zenon DEF Records
    <3> QED
      BY <1>1, <2>2, <3>1, <3>2, ZenonT(30) DEF Records
  <2> QED
    BY <2>1, <2>2
<1>4. Bounded(d, f)
  BY <1>2, <1>3 DEF ClientInv, Sound, Bounded
<1>5. Accounted(d, f, hidden)
  BY <1>2, <1>3 DEF ClientInv, Sound, Accounted
<1>6. Owned(d)
  BY <1>3 DEF ClientInv, Sound, Owned
<1> QED
  BY <1>2, <1>3, <1>4, <1>5, <1>6

(* A key installed, or not acknowledged and torn down. *)
LEMMA InstallStep ==
    ASSUME ClientInv, NEW key \in {"ptk", "gtk", "igtk"}, NEW rsc \in 0 .. MaxPn,
           NEW o \in Outcome, NEW at \in Stops, NEW landed \in BOOLEAN,
           InstallKey(key, rsc, o, at, landed)
    PROVE  ClientInv'
<1> DEFINE d == Dirtied(st, key, o)
           landing == IF key = "ptk" THEN [fw EXCEPT !.ptk = TRUE] ELSE [fw EXCEPT !.bc = TRUE]
           f == IF ~Lands(o) THEN fw ELSE landing
<1>1. st.assoc.on /\ UNCHANGED <<lease, replayed, hidden>> /\ (key = "igtk" => st.gtk)
  BY DEF InstallKey
<1>2. f \in {fw, landing}
  OBVIOUS
<1>3. CASE o # "ok"
  <2> DEFINE s == [d EXCEPT !.port = FALSE, !.uncertain = TRUE]
  <2>1. Teardown(s, f, at, landed) /\ taken' = StillTaken
    BY <1>3 DEF InstallKey
  <2>2. /\ d \in Records /\ Bounded(d, f) /\ Accounted(d, f, hidden) /\ Owned(d)
        /\ d.ptk = st.ptk /\ d.gtk = st.gtk /\ d.ptkPn = st.ptkPn /\ d.gtkPn = st.gtkPn
    BY <1>1, <1>2, DirtiedEntered
  <2> HIDE DEF d, f
  <2>3. s \in Records
    BY <2>2, Flags, Zenon DEF Records
  <2>4. /\ s.joined = d.joined /\ s.assoc = d.assoc /\ s.minted = d.minted
        /\ s.assocGen = d.assocGen /\ s.authGen = d.authGen /\ s.tx = d.tx /\ s.filter = d.filter
        /\ s.gtk = d.gtk /\ s.gtkPn = d.gtkPn /\ s.ptk = d.ptk /\ s.ptkPn = d.ptkPn
        /\ s.preauth = d.preauth /\ s.wcid = d.wcid /\ s.bss = d.bss
        /\ s.ptkDirty = d.ptkDirty /\ s.bcDirty = d.bcDirty
    BY <2>2 DEF Records
  <2> HIDE DEF s
  <2>5. Entered(s, f, hidden)
    BY <2>2, <2>3, <2>4 DEF Entered, Bounded, Accounted, Owned
  <2>6. Sound(st', fw', hidden') /\ Drops(st', s)
    BY <1>1, <2>1, <2>5, TeardownSound
  <2>7. Counted(s, taken)
    BY <2>2, <2>4 DEF ClientInv, Counted
  <2>8. Counted(st', taken') /\ taken' \subseteq taken
    BY <2>1, <2>6, <2>7, KeysDropped
  <2> QED
    BY <1>1, <2>1, <2>6, <2>8 DEF ClientInv
<1>4. CASE o = "ok"
  <2> DEFINE others == {x \in taken : x[1] # key}
             announced == {key} \X Tids \X (1 .. rsc)
  <2>1. /\ st' = CASE key = "ptk" -> [d EXCEPT !.ptk = TRUE, !.ptkPn = Counters(rsc)]
                   [] key = "gtk" -> [d EXCEPT !.gtk = TRUE, !.gtkPn = Counters(rsc)]
                   [] key = "igtk" -> [d EXCEPT !.igtk = TRUE]
        /\ fw' = landing /\ taken' = others \cup announced
        /\ key = "igtk" => rsc = 0
    BY <1>4 DEF InstallKey, Lands
  <2>2. /\ d \in Records /\ landing \in Firmware
        /\ Bounded(d, landing) /\ Accounted(d, landing, hidden) /\ Owned(d)
        /\ d.ptk = st.ptk /\ d.gtk = st.gtk /\ d.igtk = st.igtk /\ d.port = st.port
        /\ d.ptkPn = st.ptkPn /\ d.gtkPn = st.gtkPn /\ d.authGen = st.authGen
        /\ d.assoc = st.assoc /\ d.uncertain = st.uncertain
        /\ (fw.ptk => landing.ptk) /\ (fw.bc => landing.bc)
    BY <1>1, DirtiedEntered
  <2>3. (key = "ptk" => landing.ptk) /\ (key # "ptk" => landing.bc)
    BY DEF ClientInv, Sound, Bounded, Firmware
  <2> HIDE DEF d, landing
  <2>4. /\ st' \in Records
        /\ st'.joined = d.joined /\ st'.assoc = d.assoc /\ st'.minted = d.minted
        /\ st'.assocGen = d.assocGen /\ st'.authGen = d.authGen /\ st'.tx = d.tx
        /\ st'.filter = d.filter /\ st'.preauth = d.preauth /\ st'.wcid = d.wcid
        /\ st'.bss = d.bss /\ st'.ptkDirty = d.ptkDirty /\ st'.bcDirty = d.bcDirty
        /\ st'.port = d.port /\ st'.uncertain = d.uncertain
        /\ IF key = "ptk" THEN st'.ptk = TRUE /\ st'.ptkPn = Counters(rsc)
                          ELSE st'.ptk = d.ptk /\ st'.ptkPn = d.ptkPn
        /\ IF key = "gtk" THEN st'.gtk = TRUE /\ st'.gtkPn = Counters(rsc)
                          ELSE st'.gtk = d.gtk /\ st'.gtkPn = d.gtkPn
        /\ st'.igtk = IF key = "igtk" THEN TRUE ELSE d.igtk
    <3>1. CASE key = "ptk"
      <4>1. st' = [d EXCEPT !.ptk = TRUE, !.ptkPn = Counters(rsc)]
        BY <2>1, <3>1
      <4>2. [d EXCEPT !.ptk = TRUE, !.ptkPn = Counters(rsc)] \in Records
        BY <2>2, Flags, CountersSet, Zenon DEF Records
      <4> QED
        BY <2>2, <3>1, <4>1, <4>2 DEF Records
    <3>2. CASE key = "gtk"
      <4>1. st' = [d EXCEPT !.gtk = TRUE, !.gtkPn = Counters(rsc)]
        BY <2>1, <3>2
      <4>2. [d EXCEPT !.gtk = TRUE, !.gtkPn = Counters(rsc)] \in Records
        BY <2>2, Flags, CountersSet, Zenon DEF Records
      <4> QED
        BY <2>2, <3>2, <4>1, <4>2 DEF Records
    <3>3. CASE key = "igtk"
      <4>1. st' = [d EXCEPT !.igtk = TRUE]
        BY <2>1, <3>3
      <4>2. [d EXCEPT !.igtk = TRUE] \in Records
        BY <2>2, Flags, Zenon DEF Records
      <4> QED
        BY <2>2, <3>3, <4>1, <4>2 DEF Records
    <3> QED
      BY <3>1, <3>2, <3>3, Zenon
  <2>5. Bounded(st', fw')
    BY <2>1, <2>2, <2>4 DEF Bounded
  <2>6. Accounted(st', fw', hidden') /\ Owned(st')
    BY <1>1, <2>1, <2>2, <2>4 DEF Accounted, Owned
  <2>7. Certain(st', fw')
    BY <1>1, <2>1, <2>2, <2>3, <2>4 DEF ClientInv, Sound, Certain
  <2>8. Authorised(st', fw')
    BY <2>1, <2>2, <2>3, <2>4 DEF ClientInv, Sound, Authorised
  <2>9. /\ \A x \in announced : x[1] = key /\ x[2] \in Tids /\ x[3] <= Counters(rsc)[x[2]]
        /\ key = "igtk" => announced = {}
    BY <2>1 DEF Counters
  <2>10. others \cup announced \subseteq {"ptk", "gtk"} \X Tids \X Nat
    <3>1. others \subseteq {"ptk", "gtk"} \X Tids \X Nat
      BY DEF ClientInv
    <3>2. announced \subseteq {"ptk", "gtk"} \X Tids \X Nat
      BY <2>9
    <3> QED
      BY <3>1, <3>2
  <2>11. \A x \in others : x \in taken /\ x[1] # key
    OBVIOUS
  <2> HIDE DEF others, announced
  <2>12. Counted(st', taken')
    BY <2>1, <2>2, <2>4, <2>9, <2>11 DEF ClientInv, Counted
  <2> QED
    BY <1>1, <2>1, <2>5, <2>6, <2>7, <2>8, <2>10, <2>12 DEF ClientInv, Sound
<1> QED
  BY <1>3, <1>4

(* A counter moves to the packet number of an accepted frame, which is     *)
(* beyond all those used up for its key and traffic identifier.            *)
LEMMA ReceiveStep ==
    ASSUME ClientInv, NEW key \in {"ptk", "gtk"}, NEW tid \in Tids, NEW pn \in 1 .. MaxPn,
           Accepted(key, tid, pn),
           IF key = "ptk" THEN st.ptk /\ pn > st.ptkPn[tid] /\ st' = [st EXCEPT !.ptkPn[tid] = pn]
                          ELSE st.gtk /\ pn > st.gtkPn[tid] /\ st' = [st EXCEPT !.gtkPn[tid] = pn]
    PROVE  ClientInv'
<1>1. /\ st \in Records /\ fw' = fw /\ hidden' = hidden /\ lease' = lease
      /\ taken' = taken \cup {<<key, tid, pn>>} /\ replayed' = (replayed \/ <<key, tid, pn>> \in taken)
  BY DEF ClientInv, Sound, Bounded, Accepted
<1> DEFINE moved(c) == [c EXCEPT ![tid] = pn]
<1>2. /\ st.ptkPn \in ReplayCounters /\ st.gtkPn \in ReplayCounters
      /\ moved(st.ptkPn) \in ReplayCounters /\ moved(st.gtkPn) \in ReplayCounters
  BY <1>1 DEF Records, ReplayCounters
<1>3. st' = IF key = "ptk" THEN [st EXCEPT !.ptkPn = moved(st.ptkPn)]
                           ELSE [st EXCEPT !.gtkPn = moved(st.gtkPn)]
  BY <1>1 DEF Records
<1>4. \A c \in ReplayCounters, u \in Tids :
         /\ c[u] \in Nat /\ moved(c)[u] = IF u = tid THEN pn ELSE c[u]
  BY DEF ReplayCounters
<1> HIDE DEF moved
<1>5. /\ st' \in Records
      /\ st'.joined = st.joined /\ st'.assoc = st.assoc /\ st'.minted = st.minted
      /\ st'.assocGen = st.assocGen /\ st'.authGen = st.authGen /\ st'.tx = st.tx
      /\ st'.filter = st.filter /\ st'.preauth = st.preauth /\ st'.wcid = st.wcid
      /\ st'.bss = st.bss /\ st'.ptkDirty = st.ptkDirty /\ st'.bcDirty = st.bcDirty
      /\ st'.port = st.port /\ st'.uncertain = st.uncertain
      /\ st'.ptk = st.ptk /\ st'.gtk = st.gtk /\ st'.igtk = st.igtk
      /\ st'.ptkPn = IF key = "ptk" THEN moved(st.ptkPn) ELSE st.ptkPn
      /\ st'.gtkPn = IF key = "gtk" THEN moved(st.gtkPn) ELSE st.gtkPn
  BY <1>1, <1>2, <1>3 DEF Records
<1>6. Bounded(st', fw')
  BY <1>1, <1>5 DEF ClientInv, Sound, Bounded
<1>7. Accounted(st', fw', hidden') /\ Certain(st', fw') /\ Authorised(st', fw') /\ Owned(st')
  BY <1>1, <1>5 DEF ClientInv, Sound, Accounted, Certain, Authorised, Owned
<1>8. \A x \in taken : x[1] \in {"ptk", "gtk"} /\ x[2] \in Tids /\ x[3] \in Nat
  BY DEF ClientInv
<1>9. Counted(st', taken')
  <2>1. \A x \in taken' : x \in taken \/ (x[1] = key /\ x[2] = tid /\ x[3] = pn)
    BY <1>1
  <2>2. ASSUME st.ptk, NEW x \in taken', x[1] = "ptk" PROVE x[3] <= st'.ptkPn[x[2]]
    BY <1>2, <1>4, <1>5, <1>8, <2>1, <2>2 DEF ClientInv, Counted
  <2>3. ASSUME st.gtk, NEW x \in taken', x[1] = "gtk" PROVE x[3] <= st'.gtkPn[x[2]]
    BY <1>2, <1>4, <1>5, <1>8, <2>1, <2>3 DEF ClientInv, Counted
  <2> QED
    BY <1>5, <2>2, <2>3 DEF Counted
<1>10. <<key, tid, pn>> \notin taken
  BY <1>2, <1>4 DEF ClientInv, Counted
<1>11. ~replayed' /\ taken' \subseteq {"ptk", "gtk"} \X Tids \X Nat
  <2>1. ~replayed /\ taken \subseteq {"ptk", "gtk"} \X Tids \X Nat
    BY DEF ClientInv
  <2>2. ~replayed'
    BY <1>1, <1>10, <2>1, Zenon
  <2>3. <<key, tid, pn>> \in {"ptk", "gtk"} \X Tids \X Nat
    OBVIOUS
  <2> QED
    BY <1>1, <2>1, <2>2, <2>3
<1>12. Sound(st', fw', hidden')
  BY <1>6, <1>7 DEF Sound
<1> QED
  BY <1>1, <1>9, <1>11, <1>12 DEF ClientInv

(* ClientInv holds initially, is kept by every step, and holds throughout. *)
LEMMA ClientInvariant == ClientSpec => []ClientInv
<1>1. ClientInit => ClientInv
  <2> SUFFICES ASSUME ClientInit
               PROVE  ClientInv
    OBVIOUS
  <2>1. Fresh \in Records
    BY Flags, CountersSet, Zenon DEF Fresh, Records, NoPeer, PeerRecords
  <2>2. fw \in Firmware
    BY Flags, Zenon DEF ClientInit, Firmware
  <2>3. Bounded(st, fw) /\ Accounted(st, fw, hidden)
    BY <2>1, <2>2 DEF ClientInit, Fresh, NoPeer, Bounded, Accounted
  <2>4. Certain(st, fw) /\ Authorised(st, fw) /\ Owned(st) /\ Counted(st, taken)
    BY Zenon DEF ClientInit, Fresh, Certain, Authorised, Owned, Counted
  <2> QED
    BY <2>3, <2>4 DEF ClientInit, ClientInv, Sound
<1>2. ClientInv /\ [ClientNext]_clientVars => ClientInv'
  <2> SUFFICES ASSUME ClientInv, [ClientNext]_clientVars
               PROVE  ClientInv'
    OBVIOUS
  <2>1. CASE UNCHANGED clientVars
    BY <2>1 DEF clientVars, ClientInv
  <2>2. CASE Retune \/ BindJoin \/ AllocatePeerWcid
    BY <2>2, RetuneStep, BindJoinStep, AllocateStep
  <2>3. ASSUME NEW at \in 0 .. 4, NEW landed \in BOOLEAN, NEW rw \in Outcome, NEW rb \in Outcome,
               PreparePreauthPeer(at, landed, rw, rb)
        PROVE  ClientInv'
    BY <2>3, PreauthStep
  <2>4. ASSUME NEW p \in Peers, NEW at \in 0 .. 4, NEW rw \in Outcome, NEW rb \in Outcome,
               Associate(Peer(p[1], p[2]), at, rw, rb)
        PROVE  ClientInv'
    BY <2>4, AssociateStep
  <2>5. ASSUME NEW o \in Outcome, ProgramEdca(o)
        PROVE  ClientInv'
    BY <2>5, EdcaStep
  <2>6. ASSUME NEW at \in 0 .. 3, NEW landed \in BOOLEAN, CompletePostAssocInterface(at, landed)
        PROVE  ClientInv'
    BY <2>6, InterfaceStep
  <2>7. ASSUME NEW at \in Stops, NEW landed \in BOOLEAN, TeardownAll(at, landed)
        PROVE  ClientInv'
    BY <2>7, TeardownStep
  <2>8. ASSUME NEW key \in {"ptk", "gtk", "igtk"}, NEW rsc \in 0 .. MaxPn, NEW o \in Outcome,
               NEW at \in Stops, NEW landed \in BOOLEAN, InstallKey(key, rsc, o, at, landed)
        PROVE  ClientInv'
    BY <2>8, InstallStep
  <2>9. CASE ClosePort \/ OpenPort
    BY <2>9, ClosePortStep, OpenPortStep
  <2>10. ASSUME NEW token \in Tokens, NEW eapol \in BOOLEAN, PublishTx(token, eapol)
         PROVE  ClientInv'
    BY <2>10, PublishStep
  <2>11. ASSUME NEW token \in Tokens, CompleteTx(token)
         PROVE  ClientInv'
    BY <2>11, CompleteStep
  <2>12. ASSUME NEW eapol \in BOOLEAN, NEW group \in BOOLEAN, NEW tid \in Tids,
                NEW pn \in 1 .. MaxPn, DeliverRx(eapol, group, tid, pn)
         PROVE  ClientInv'
    BY <2>12, ReceiveStep DEF DeliverRx
  <2>13. ASSUME NEW tid \in Tids, NEW pn \in 1 .. MaxPn, DeliverProtectedManagementRx(tid, pn)
         PROVE  ClientInv'
    BY <2>13, ReceiveStep DEF DeliverProtectedManagementRx
  <2> QED
    BY <2>1, <2>2, <2>3, <2>4, <2>5, <2>6, <2>7, <2>8, <2>9, <2>10, <2>11, <2>12, <2>13
       DEF ClientNext
<1> QED
  BY <1>1, <1>2, PTL DEF ClientSpec

(* Whatever commands fail or lose their reply, the keys, the slot, the     *)
(* port and the frames of the one association stay accounted for in        *)
(* ClientFirmwareEffectsState, nothing recorded is left behind by a        *)
(* teardown, and between two installs of a key no packet number is         *)
(* accepted twice on one traffic identifier, or at all when the install    *)
(* announced it as used.                                                   *)
THEOREM ClientIsSafe == ClientSpec => []ClientSafe
<1>1. ClientInv => ClientSafe
  <2> SUFFICES ASSUME ClientInv
               PROVE  ClientSafe
    OBVIOUS
  <2>1. ClientTypeOK
    <3>1. st \in Records /\ Bounded(st, fw)
      BY DEF ClientInv, Sound, Bounded
    <3>2. /\ st.ptkPn \in [Tids -> 0 .. MaxPn] /\ st.gtkPn \in [Tids -> 0 .. MaxPn]
          /\ st.joined \in Nat /\ st.minted \in Nat /\ st.assocGen \in Nat /\ st.authGen \in Nat
          /\ st.tx \in SUBSET (Tokens \X Nat)
      BY <3>1, Zenon DEF Records, ReplayCounters
    <3> QED
      BY <3>1, <3>2 DEF Bounded, ClientTypeOK
  <2>2. KeysAccounted /\ SlotNotReused /\ CleanWhenIdle
    BY DEF ClientInv, Sound, Accounted, KeysAccounted, SlotNotReused, CleanWhenIdle
  <2>3. PortAuthorised /\ TxInsideAssociation /\ NoReplay
    BY DEF ClientInv, Sound, Authorised, Owned, PortAuthorised, TxInsideAssociation, NoReplay
  <2> QED
    BY <2>1, <2>2, <2>3 DEF ClientSafe
<1> QED
  BY <1>1, ClientInvariant, PTL
-----------------------------------------------------------------------------
(* Ownership of the chip's low-power control (Mt7921Ownership).            *)
HIDE ClientAssumption DEF ClientAssumption

Trips ==
    [phase : {"snapshot", "acquire", "restore", "done"}, at : {"write", "read"},
     attempt : 1 .. DRIVER_OWN_ATTEMPTS, deadline : Nat,
     initial : {"none", "firmware", "driver"},
     acquire : {"none", "snapshot", "ok", "transport", "timeout"},
     restore : {"none", "ok", "timeout", "transport", "transport_timeout"},
     err : Flag, aspm : Flag]

Polls ==
    [status : {"none", "pending", "deadline", "revoked", "transport", "unexpected",
               "acquired"},
     epoch : Nat, deadline : Nat, attempts : 0 .. DRIVER_OWN_ATTEMPTS,
     attempt_deadline : Nat, next_poll : Nat]

(* A round trip t with command c pending and the chip the firmware's or    *)
(* not (s).  On the way back the last command is the one that gives the    *)
(* chip back, unless a write failed, which err remembers.                  *)
TripSound(t, c, s) ==
    /\ t.phase = "snapshot" => t.acquire = "none"
    /\ t.phase \in {"snapshot", "acquire"} => t.restore = "none" /\ ~t.err
    /\ t.phase = "acquire" => t.initial # "none"
    /\ t.phase = "restore" =>
          /\ t.initial = "firmware" /\ t.restore = "none"
          /\ t.acquire \in {"ok", "transport", "timeout"}
          /\ t.at = "read" /\ ~t.err => c # "clr"
    /\ t.phase = "done" /\ t.restore = "none" =>
          ~t.err /\ (t.initial = "driver" \/ t.acquire = "snapshot")
    /\ t.phase = "done" /\ t.restore = "ok" => ~t.err /\ s /\ c # "clr"

(* A polled machine p that last wrote a command at time w: its attempt     *)
(* ends no sooner than an attempt lasts, or with its authority.            *)
PollSound(p, w) ==
    /\ p.status = "none" => p.attempts = 0
    /\ p.status = "pending" => p.next_poll <= p.deadline
    /\ p.status \in {"none", "pending"} /\ p.attempts = 0 => w = Never
    /\ p.status = "pending" /\ p.attempts # 0 =>
          /\ w \in Nat
          /\ p.attempt_deadline >= p.deadline
                \/ p.attempt_deadline >= w + DRIVER_OWN_ATTEMPT_MS

OwnershipInv ==
    /\ user \in {"round_trip", "wake", "sleep"}
    /\ sync \in Flag /\ odd \in Flag /\ command \in {"none", "set", "clr"}
    /\ now \in Nat /\ trip \in Trips /\ poll \in Polls
    /\ user # "round_trip" => trip.phase = "snapshot"
    /\ user = "round_trip" => poll.status = "none"
    /\ TripSound(trip, command, sync)
    /\ PollSound(poll, lastWrite)

(* It holds at first. *)
LEMMA OwnershipStart == OwnershipInit => OwnershipInv
<1> SUFFICES ASSUME OwnershipInit PROVE OwnershipInv
  OBVIOUS
<1>1. FALSE \in Flag /\ sync \in Flag /\ odd \in Flag
  BY Zenon DEF Flag, OwnershipInit
<1>2. 1 \in 1 .. DRIVER_OWN_ATTEMPTS /\ 0 \in 0 .. DRIVER_OWN_ATTEMPTS
  BY OwnershipAssumption DEF OwnershipAssumption
<1>3. trip \in Trips /\ trip.phase = "snapshot" /\ TripSound(trip, command, sync)
  BY <1>1, <1>2, Zenon DEF OwnershipInit, Trips, TripSound
<1>4. poll \in Polls /\ poll.status = "none" /\ PollSound(poll, lastWrite)
  BY <1>2 DEF OwnershipInit, Polls, PollSound
<1> QED
  BY <1>1, <1>3, <1>4 DEF OwnershipInit, OwnershipInv

(* What a step of the round trip has to keep. *)
LEMMA TripStep ==
    ASSUME OwnershipInv, TripRest, trip.phase # "snapshot" \/ user = "round_trip",
           trip' \in Trips, now' \in Nat, command' \in {"none", "set", "clr"},
           sync' = sync, TripSound(trip', command', sync)
    PROVE  OwnershipInv'
BY DEF OwnershipInv, TripRest

(* The chip obeys the last command, and nothing that was given back is     *)
(* taken away by it.                                                       *)
LEMMA ChipObeysStep ==
    ASSUME OwnershipInv, ChipObeys
    PROVE  OwnershipInv'
<1>1. sync' \in Flag
  BY Zenon DEF ChipObeys, Flag
<1>2. TripSound(trip, command', sync')
  BY Zenon DEF ChipObeys, OwnershipInv, TripSound
<1> QED
  BY <1>1, <1>2 DEF ChipObeys, OwnershipInv

(* The first read of the round trip. *)
LEMMA SnapshotStep ==
    ASSUME OwnershipInv, Snapshot
    PROVE  OwnershipInv'
<1>1. trip \in Trips /\ TripSound(trip, command, sync) /\ BOOLEAN = Flag
  BY Zenon DEF OwnershipInv, Flag
<1>2. CASE trip' = [trip EXCEPT !.phase = "done", !.acquire = "snapshot"]
  <2>1. trip' \in Trips
    BY <1>1, <1>2, Zenon DEF Trips
  <2>2. trip.phase = "snapshot" /\ trip'.phase = "done" /\ trip'.acquire = "snapshot"
    BY <1>1, <1>2 DEF Snapshot, Trips
  <2>3. trip'.restore = trip.restore /\ trip'.err = trip.err
    BY <1>1, <1>2 DEF Trips
  <2>4. TripSound(trip', command, sync)
    BY <1>1, <2>2, <2>3 DEF TripSound
  <2> QED
    BY <2>1, <2>4, TripStep, Zenon DEF Snapshot, OwnershipInv
<1>3. ASSUME NEW aspm \in Flag, NEW o \in {"firmware", "driver"},
             trip' = [trip EXCEPT !.phase = "acquire", !.aspm = aspm, !.initial = o]
      PROVE  OwnershipInv'
  <2>1. trip' \in Trips
    BY <1>1, <1>3, Zenon DEF Trips
  <2>2. trip.phase = "snapshot" /\ trip'.phase = "acquire" /\ trip'.initial # "none"
    BY <1>1, <1>3, Zenon DEF Snapshot, Trips
  <2>3. trip'.restore = trip.restore /\ trip'.err = trip.err
    BY <1>1, <1>3 DEF Trips
  <2>4. TripSound(trip', command, sync)
    BY <1>1, <2>2, <2>3, Zenon DEF TripSound
  <2> QED
    BY <2>1, <2>4, TripStep, Zenon DEF Snapshot, OwnershipInv
<1>4. \/ trip' = [trip EXCEPT !.phase = "done", !.acquire = "snapshot"]
      \/ \E aspm \in Flag, o \in {"firmware", "driver"} :
            trip' = [trip EXCEPT !.phase = "acquire", !.aspm = aspm, !.initial = o]
  BY <1>1, Zenon DEF Snapshot
<1> QED
  BY <1>2, <1>3, <1>4, Zenon

(* How taking ownership ends: a chip that was the firmware's is given back *)
(* whatever the outcome.                                                   *)
LEMMA AcquireEndsSound ==
    ASSUME OwnershipInv, trip.phase = "acquire", NEW r \in {"ok", "transport", "timeout"},
           AcquireEnds(r), NEW c
    PROVE  trip' \in Trips /\ TripSound(trip', c, sync)
<1>1. 1 \in 1 .. DRIVER_OWN_ATTEMPTS
  BY OwnershipAssumption DEF OwnershipAssumption
<1>2. trip \in Trips /\ TripSound(trip, command, sync)
  BY DEF OwnershipInv
<1> QED
  BY <1>1, <1>2, Zenon DEF AcquireEnds, Trips, TripSound

(* A command to take ownership. *)
LEMMA AcquireWriteStep ==
    ASSUME OwnershipInv, AcquireWrite
    PROVE  OwnershipInv'
<1>1. now' \in Nat /\ now' + DRIVER_OWN_ATTEMPT_MS \in Nat
  BY OwnershipAssumption DEF OwnershipAssumption, AcquireWrite, OwnershipInv
<1>2. command' \in {"none", "set", "clr"} /\ sync' = sync /\ TripRest
  BY DEF AcquireWrite, WriteCommand, OwnershipInv
<1>3. trip.phase = "acquire" /\ trip \in Trips /\ TripSound(trip, command, sync)
  BY DEF AcquireWrite, OwnershipInv
<1>4. CASE trip' = [trip EXCEPT !.at = "read", !.deadline = now' + DRIVER_OWN_ATTEMPT_MS]
  <2>1. trip' \in Trips /\ TripSound(trip', command', sync)
    BY <1>1, <1>3, <1>4, Zenon DEF Trips, TripSound
  <2> QED
    BY <1>1, <1>2, <1>3, <2>1, TripStep
<1>5. CASE AcquireEnds("transport")
  <2>1. trip' \in Trips /\ TripSound(trip', command', sync)
    BY <1>3, <1>5, AcquireEndsSound
  <2> QED
    BY <1>1, <1>2, <1>3, <2>1, TripStep
<1> QED
  BY <1>4, <1>5 DEF AcquireWrite

(* A read that did not show the wanted owner: the clock stays a number,    *)
(* and the machine waits, tries again or ends.                             *)
LEMMA Retried ==
    ASSUME OwnershipInv, NEW ends \in BOOLEAN, RetryOr(ends)
    PROVE  /\ now' \in Nat
           /\ \/ trip' = trip
              \/ /\ trip' = [trip EXCEPT !.attempt = @ + 1, !.at = "write"]
                 /\ trip.attempt + 1 \in 1 .. DRIVER_OWN_ATTEMPTS
              \/ ends
<1>1. now \in Nat /\ trip.attempt \in 1 .. DRIVER_OWN_ATTEMPTS /\ trip.deadline \in Nat
  BY DEF OwnershipInv, Trips
<1> QED
  BY <1>1, OwnershipAssumption DEF OwnershipAssumption, RetryOr, Min2

(* A read while taking ownership. *)
LEMMA AcquireReadStep ==
    ASSUME OwnershipInv, AcquireRead
    PROVE  OwnershipInv'
<1>1. /\ command' = command /\ sync' = sync /\ TripRest
      /\ trip.phase = "acquire" /\ trip \in Trips /\ TripSound(trip, command, sync)
      /\ command \in {"none", "set", "clr"} /\ now \in Nat
  BY DEF AcquireRead, OwnershipInv
<1>2. ASSUME NEW r \in {"ok", "transport", "timeout"}, AcquireEnds(r)
      PROVE  trip' \in Trips /\ TripSound(trip', command, sync)
  BY <1>1, <1>2, AcquireEndsSound
<1>3. CASE RetryOr(AcquireEnds("timeout"))
  <2>1. AcquireEnds("timeout") \in BOOLEAN
    BY Zenon DEF AcquireEnds
  <2>2. now' \in Nat
    BY <1>3, <2>1, Retried
  <2>3. \/ trip' = trip
        \/ /\ trip' = [trip EXCEPT !.attempt = @ + 1, !.at = "write"]
           /\ trip.attempt + 1 \in 1 .. DRIVER_OWN_ATTEMPTS
        \/ AcquireEnds("timeout")
    BY <1>3, <2>1, Retried
  <2>4. trip' \in Trips /\ TripSound(trip', command, sync)
    BY <1>1, <1>2, <2>3, Zenon DEF Trips, TripSound
  <2> QED
    BY <1>1, <2>2, <2>4, TripStep
<1>4. CASE (AcquireEnds("transport") \/ AcquireEnds("ok")) /\ UNCHANGED now
  <2>1. trip' \in Trips /\ TripSound(trip', command, sync)
    BY <1>2, <1>4
  <2> QED
    BY <1>1, <1>4, <2>1, TripStep
<1> QED
  BY <1>3, <1>4 DEF AcquireRead

(* A command to give the chip back. *)
LEMMA RestoreWriteStep ==
    ASSUME OwnershipInv, RestoreWrite
    PROVE  OwnershipInv'
<1>1. now + DRIVER_OWN_ATTEMPT_MS \in Nat /\ now' \in Nat
  BY OwnershipAssumption DEF OwnershipAssumption, RestoreWrite, OwnershipInv
<1>2. command' \in {"none", "set", "clr"} /\ sync' = sync /\ TripRest
  BY DEF RestoreWrite, WriteCommand, OwnershipInv
<1>3. trip.phase = "restore" /\ trip \in Trips /\ TripSound(trip, command, sync)
  BY Zenon DEF RestoreWrite, OwnershipInv
<1>4. PICK ok \in BOOLEAN :
          /\ WriteCommand("set", ok)
          /\ trip' = [trip EXCEPT !.at = "read", !.err = @ \/ ~ok,
                                  !.deadline = now + DRIVER_OWN_ATTEMPT_MS]
  BY Zenon DEF RestoreWrite
<1> DEFINE e == trip.err \/ ~ok
<1>5. e \in Flag /\ (~e => command' = "set")
  BY <1>4, Zenon DEF Flag, WriteCommand
<1>6. trip' = [trip EXCEPT !.at = "read", !.err = e, !.deadline = now + DRIVER_OWN_ATTEMPT_MS]
  BY <1>3, <1>4 DEF Trips
<1> HIDE DEF e
<1>7. trip' \in Trips /\ trip'.err = e
  BY <1>1, <1>3, <1>5, <1>6, Zenon DEF Trips
<1>8. TripSound(trip', command', sync)
  BY <1>3, <1>5, <1>6, <1>7 DEF Trips, TripSound
<1> QED
  BY <1>1, <1>2, <1>3, <1>7, <1>8, TripStep

(* How giving the chip back ends: a success is reported only for a chip    *)
(* that was seen to be the firmware's, when no error was met on the way.   *)
LEMMA RestoreEndsSound ==
    ASSUME OwnershipInv, trip.phase = "restore", trip.at = "read", NEW seen \in BOOLEAN,
           NEW err \in Flag, RestoreEnds(seen, err), seen => sync, trip.err => err
    PROVE  trip' \in Trips /\ TripSound(trip', command, sync)
<1>1. trip \in Trips /\ TripSound(trip, command, sync)
  BY DEF OwnershipInv
<1> DEFINE r == IF ~seen THEN IF err THEN "transport_timeout" ELSE "timeout"
                ELSE IF err THEN "transport" ELSE "ok"
<1>2. /\ r \in {"ok", "timeout", "transport", "transport_timeout"}
      /\ r = "ok" => seen /\ ~err
  OBVIOUS
<1>3. trip' = [trip EXCEPT !.phase = "done", !.err = err, !.restore = r]
  BY Zenon DEF RestoreEnds
<1> HIDE DEF r
<1>4. trip' \in Trips
  BY <1>1, <1>2, <1>3, Zenon DEF Trips
<1>5. trip'.phase = "done" /\ trip'.err = err /\ trip'.restore = r
  BY <1>1, <1>3 DEF Trips
<1>6. r = "ok" => ~err /\ sync /\ command # "clr"
  BY <1>1, <1>2, Zenon DEF TripSound
<1>7. r # "none"
  BY <1>2
<1> QED
  BY <1>4, <1>5, <1>6, <1>7 DEF TripSound

(* A read while giving the chip back. *)
LEMMA RestoreReadStep ==
    ASSUME OwnershipInv, RestoreRead
    PROVE  OwnershipInv'
<1>1. /\ command' = command /\ sync' = sync /\ TripRest
      /\ trip.phase = "restore" /\ trip.at = "read" /\ trip \in Trips
      /\ TripSound(trip, command, sync)
      /\ command \in {"none", "set", "clr"} /\ now \in Nat /\ trip.err \in Flag
  BY DEF RestoreRead, OwnershipInv, Trips
<1>2. TRUE \in Flag
  BY Zenon DEF Flag
<1>3. CASE RetryOr(RestoreEnds(FALSE, trip.err))
  <2>1. RestoreEnds(FALSE, trip.err) \in BOOLEAN
    BY Zenon DEF RestoreEnds
  <2>2. now' \in Nat
    BY <1>3, <2>1, Retried, Zenon
  <2>3. \/ trip' = trip
        \/ /\ trip' = [trip EXCEPT !.attempt = @ + 1, !.at = "write"]
           /\ trip.attempt + 1 \in 1 .. DRIVER_OWN_ATTEMPTS
        \/ RestoreEnds(FALSE, trip.err)
    BY <1>3, <2>1, Retried, Zenon
  <2>4. CASE RestoreEnds(FALSE, trip.err)
    <3>1. trip' \in Trips /\ TripSound(trip', command, sync)
      BY <1>1, <2>4, RestoreEndsSound, Zenon
    <3> QED
      BY <1>1, <2>2, <3>1, TripStep
  <2>5. CASE trip' = trip
    BY <1>1, <2>2, <2>5, TripStep
  <2>6. CASE /\ trip' = [trip EXCEPT !.attempt = @ + 1, !.at = "write"]
             /\ trip.attempt + 1 \in 1 .. DRIVER_OWN_ATTEMPTS
    <3>1. trip' \in Trips /\ TripSound(trip', command, sync)
      BY <1>1, <2>6, Zenon DEF Trips, TripSound
    <3> QED
      BY <1>1, <2>2, <3>1, TripStep
  <2> QED
    BY <2>3, <2>4, <2>5, <2>6, Zenon
<1>4. CASE sync /\ RestoreEnds(TRUE, trip.err) /\ UNCHANGED now
  <2>1. trip' \in Trips /\ TripSound(trip', command, sync)
    BY <1>1, <1>4, RestoreEndsSound, Zenon
  <2> QED
    BY <1>1, <1>4, <2>1, TripStep
<1>5. CASE RestoreEnds(FALSE, TRUE) /\ UNCHANGED now
  <2>1. trip' \in Trips /\ TripSound(trip', command, sync)
    BY <1>1, <1>2, <1>5, RestoreEndsSound, Zenon
  <2> QED
    BY <1>1, <1>5, <2>1, TripStep
<1>6. CASE /\ now < trip.deadline
           /\ now' = now + Min2(DRIVER_OWN_POLL_MS, trip.deadline - now)
           /\ trip' = [trip EXCEPT !.err = TRUE]
  <2>1. now' \in Nat
    BY <1>1, <1>6, OwnershipAssumption DEF OwnershipAssumption, Min2, Trips
  <2>2. trip' \in Trips /\ TripSound(trip', command, sync)
    BY <1>1, <1>2, <1>6, Zenon DEF Trips, TripSound
  <2> QED
    BY <1>1, <2>1, <2>2, TripStep
<1>7. CASE /\ trip.attempt < DRIVER_OWN_ATTEMPTS /\ UNCHANGED now
           /\ trip' = [trip EXCEPT !.attempt = @ + 1, !.at = "write", !.err = TRUE]
  <2>1. trip.attempt + 1 \in 1 .. DRIVER_OWN_ATTEMPTS
    BY <1>1, <1>7, OwnershipAssumption DEF OwnershipAssumption, Trips
  <2>2. trip' \in Trips /\ TripSound(trip', command, sync)
    BY <1>1, <1>2, <1>7, <2>1, Zenon DEF Trips, TripSound
  <2> QED
    BY <1>1, <1>7, <2>2, TripStep
<1>8. \A raw \in Raw : raw.fw = sync
  BY DEF Raw
<1> QED
  BY <1>3, <1>4, <1>5, <1>6, <1>7, <1>8, Zenon DEF RestoreRead

-----------------------------------------------------------------------------
(* What a step of a polled machine has to keep. *)
LEMMA PollStep ==
    ASSUME OwnershipInv, user # "round_trip", PollRest, now' = now,
           command' \in {"none", "set", "clr"}, poll' \in Polls, PollSound(poll', lastWrite')
    PROVE  OwnershipInv'
<1>1. TripSound(trip, command', sync)
  BY DEF OwnershipInv, TripSound
<1> QED
  BY <1>1 DEF OwnershipInv, PollRest

(* A machine is made. *)
LEMMA NewPollStep ==
    ASSUME OwnershipInv, NEW d \in 0 .. MaxDeadline, NewPoll(d)
    PROVE  OwnershipInv'
<1>1. /\ poll \in Polls /\ PollSound(poll, lastWrite) /\ now \in Nat /\ d \in Nat
      /\ lastWrite' = lastWrite
  BY OwnershipAssumption DEF OwnershipAssumption, OwnershipInv, NewPoll
<1>2. poll' \in Polls
  BY <1>1, Zenon DEF NewPoll, Polls
<1>3. PollSound(poll', lastWrite')
  <2>1. CASE now >= d
    BY <1>1, <2>1 DEF NewPoll, Polls, PollSound
  <2>2. CASE ~(now >= d)
    BY <1>1, <2>2 DEF NewPoll, Polls, PollSound
  <2> QED
    BY <2>1, <2>2
<1> QED
  BY <1>2, <1>3, PollStep DEF NewPoll, OwnershipInv

(* The read half of a poll ends the machine or names the next poll, within *)
(* the deadline.                                                           *)
LEMMA ReadOwnerSound ==
    ASSUME NEW p \in Polls, NEW w, p.status = "pending", PollSound(p, w), now \in Nat,
           NEW wanted, ReadOwner(p, wanted)
    PROVE  poll' \in Polls /\ PollSound(poll', w)
<1>1. CASE poll' = p
  BY <1>1
<1>2. ASSUME NEW s \in {"transport", "unexpected", "acquired"}, poll' = [p EXCEPT !.status = s]
      PROVE  poll' \in Polls /\ PollSound(poll', w)
  BY <1>2 DEF Polls, PollSound
<1> DEFINE n == Min2(Min2(now + DRIVER_OWN_POLL_MS, p.attempt_deadline), p.deadline)
<1>3. n \in Nat /\ n <= p.deadline
  BY OwnershipAssumption DEF OwnershipAssumption, Min2, Polls
<1>4. \/ poll' = p
      \/ \E s \in {"transport", "unexpected", "acquired"} : poll' = [p EXCEPT !.status = s]
      \/ poll' = [p EXCEPT !.next_poll = n]
  BY Zenon DEF ReadOwner
<1> HIDE DEF n
<1>5. CASE poll' = [p EXCEPT !.next_poll = n]
  BY <1>3, <1>5 DEF Polls, PollSound
<1> QED
  BY <1>1, <1>2, <1>4, <1>5

(* What the machine is after its command was written. *)
Started(p, q) ==
    /\ q \in Polls /\ q.status = "pending" /\ q.deadline = p.deadline
    /\ q.attempts # 0 /\ q.next_poll <= q.deadline
    /\ q.attempt_deadline >= q.deadline \/ q.attempt_deadline >= now + DRIVER_OWN_ATTEMPT_MS

(* A poll, with what the caller wants. *)
LEMMA PollOwnershipStep ==
    ASSUME OwnershipInv, user # "round_trip", NEW c \in {"set", "clr"}, NEW q, NEW wanted,
           PollOwnership(c, q, wanted),
           poll.attempts # DRIVER_OWN_ATTEMPTS /\ now < poll.deadline => Started(poll, q)
    PROVE  OwnershipInv'
<1>1. /\ poll \in Polls /\ PollSound(poll, lastWrite) /\ now \in Nat
      /\ command \in {"none", "set", "clr"}
      /\ poll.status = "pending" /\ PollRest /\ now' = now
  BY DEF OwnershipInv, PollOwnership
<1>2. ASSUME NEW s \in {"revoked", "deadline", "transport"}, NEW w,
             poll' = [poll EXCEPT !.status = s]
      PROVE  poll' \in Polls /\ PollSound(poll', w)
  BY <1>1, <1>2 DEF Polls, PollSound
<1>3. CASE /\ poll' = [poll EXCEPT !.status = "revoked"] \/ poll' = [poll EXCEPT !.status = "deadline"]
           /\ UNCHANGED <<command, lastWrite>>
  <2>1. poll' \in Polls /\ PollSound(poll', lastWrite')
    BY <1>2, <1>3
  <2> QED
    BY <1>1, <1>3, <2>1, PollStep
<1>4. CASE ReadOwner(poll, wanted) /\ UNCHANGED <<command, lastWrite>>
  <2>1. poll' \in Polls /\ PollSound(poll', lastWrite')
    BY <1>1, <1>4, ReadOwnerSound
  <2> QED
    BY <1>1, <1>4, <2>1, PollStep
<1>5. ASSUME NEW ok \in BOOLEAN, WriteCommand(c, ok), lastWrite' = now,
             poll.attempts # DRIVER_OWN_ATTEMPTS, ~(now >= poll.deadline),
             IF ok THEN ReadOwner(q, wanted) ELSE poll' = [poll EXCEPT !.status = "transport"]
      PROVE  OwnershipInv'
  <2>1. command' \in {"none", "set", "clr"}
    BY <1>1, <1>5 DEF WriteCommand
  <2>2. Started(poll, q)
    BY <1>1, <1>5 DEF Polls
  <2>3. PollSound(q, lastWrite')
    BY <1>1, <1>5, <2>2 DEF Started, PollSound, Polls
  <2>4. poll' \in Polls /\ PollSound(poll', lastWrite')
    <3>1. CASE ok
      BY <1>1, <1>5, <2>2, <2>3, <3>1, ReadOwnerSound DEF Started
    <3>2. CASE ~ok
      BY <1>2, <1>5, <3>2
    <3> QED
      BY <3>1, <3>2
  <2> QED
    BY <1>1, <2>1, <2>4, PollStep
<1> QED
  BY <1>3, <1>4, <1>5 DEF PollOwnership

(* A wake command leaves the chip its settling time, a sleep command none. *)
LEMMA StartedMachines ==
    ASSUME OwnershipInv, poll.status = "pending", poll.attempts # DRIVER_OWN_ATTEMPTS,
           now < poll.deadline
    PROVE  Started(poll, WakeStarted(poll)) /\ Started(poll, SleepStarted(poll))
<1>1. poll \in Polls /\ now \in Nat
  BY DEF OwnershipInv
<1>2. poll.attempts + 1 \in 0 .. DRIVER_OWN_ATTEMPTS /\ poll.attempts + 1 # 0
  BY <1>1, OwnershipAssumption DEF OwnershipAssumption, Polls
<1> DEFINE first == Min2(now + ASPM_DELAY_MS, poll.deadline)
           late == Min2(first + DRIVER_OWN_ATTEMPT_MS, poll.deadline)
           soon == Min2(now + DRIVER_OWN_ATTEMPT_MS, poll.deadline)
<1>3. /\ first \in Nat /\ first <= poll.deadline /\ now <= poll.deadline
      /\ late \in Nat /\ (late >= poll.deadline \/ late >= now + DRIVER_OWN_ATTEMPT_MS)
      /\ soon \in Nat /\ (soon >= poll.deadline \/ soon >= now + DRIVER_OWN_ATTEMPT_MS)
  BY <1>1, OwnershipAssumption DEF OwnershipAssumption, Polls, Min2
<1>4. /\ WakeStarted(poll) = [poll EXCEPT !.attempts = @ + 1, !.next_poll = first,
                                          !.attempt_deadline = late]
      /\ SleepStarted(poll) = [poll EXCEPT !.attempts = @ + 1, !.next_poll = now,
                                           !.attempt_deadline = soon]
  BY Zenon DEF WakeStarted, SleepStarted
<1> HIDE DEF first, late, soon
<1>5. Started(poll, WakeStarted(poll))
  BY <1>1, <1>2, <1>3, <1>4, Zenon DEF Started, Polls
<1>6. Started(poll, SleepStarted(poll))
  BY <1>1, <1>2, <1>3, <1>4, Zenon DEF Started, Polls
<1> QED
  BY <1>5, <1>6

(* Every step keeps the invariant. *)
LEMMA OwnershipStep == OwnershipInv /\ [OwnershipNext]_ownershipVars => OwnershipInv'
<1> SUFFICES ASSUME OwnershipInv, [OwnershipNext]_ownershipVars PROVE OwnershipInv'
  OBVIOUS
<1>1. CASE PollWake
  <2>1. poll.status = "pending"
    BY <1>1 DEF PollWake, PollOwnership
  <2>2. poll.attempts # DRIVER_OWN_ATTEMPTS /\ now < poll.deadline => Started(poll, WakeStarted(poll))
    BY <2>1, StartedMachines
  <2> QED
    BY <1>1, <2>2, PollOwnershipStep, Zenon DEF PollWake
<1>2. CASE PollSleep
  <2>1. poll.status = "pending"
    BY <1>2 DEF PollSleep, PollOwnership
  <2>2. poll.attempts # DRIVER_OWN_ATTEMPTS /\ now < poll.deadline => Started(poll, SleepStarted(poll))
    BY <2>1, StartedMachines
  <2> QED
    BY <1>2, <2>2, PollOwnershipStep, Zenon DEF PollSleep
<1>3. CASE Tick
  BY <1>3 DEF Tick, OwnershipInv
<1>4. CASE Revoke
  BY <1>4 DEF Revoke, OwnershipInv
<1>5. CASE UNCHANGED ownershipVars
  BY <1>5 DEF ownershipVars, OwnershipInv
<1> QED
  BY <1>1, <1>2, <1>3, <1>4, <1>5, ChipObeysStep, SnapshotStep, AcquireWriteStep,
     AcquireReadStep, RestoreWriteStep, RestoreReadStep, NewPollStep DEF OwnershipNext

LEMMA OwnershipInvariant == OwnershipSpec => []OwnershipInv
  BY OwnershipStart, OwnershipStep, PTL DEF OwnershipSpec

(* round_trip_driver_ownership gives a chip that was the firmware's back   *)
(* unless it says that it could not, and reports a transport error met on  *)
(* the way; a polled machine asks to be called before its deadline, for    *)
(* every number of attempts and every delay.                               *)
THEOREM OwnershipIsSafe == OwnershipSpec => []OwnershipSafe
<1>1. OwnershipInv => OwnershipTypeOK /\ NextPollWithinDeadline
  BY DEF OwnershipInv, Trips, Polls, PollSound, OwnershipTypeOK, NextPollWithinDeadline
<1>2. OwnershipInv => RoundTripGivesBack /\ RoundTripHonest
  BY DEF OwnershipInv, Trips, TripSound, TripResult, RoundTripGivesBack, RoundTripHonest
<1> QED
  BY <1>1, <1>2, OwnershipInvariant, PTL DEF OwnershipSafe

(* The polled machines never write two ownership commands closer together  *)
(* than one attempt lasts, nor one after their deadline or revocation      *)
(* (DriverOwnershipWake::poll, FirmwareOwnershipSleep::poll).              *)
THEOREM CommandsAreSpaced == OwnershipSpec => CommandsSpaced
<1> DEFINE Spaced == lastWrite' # lastWrite =>
                        /\ lastWrite = Never \/ now - lastWrite >= DRIVER_OWN_ATTEMPT_MS
                        /\ now < poll.deadline
                        /\ epoch = poll.epoch
<1>1. OwnershipInv /\ [OwnershipNext]_ownershipVars => Spaced
  <2> SUFFICES ASSUME OwnershipInv, OwnershipNext, lastWrite' # lastWrite PROVE Spaced
    BY Zenon DEF ownershipVars, Spaced
  <2>1. PICK c, q, wanted : PollOwnership(c, q, wanted)
    BY Zenon DEF OwnershipNext, ChipObeys, Snapshot, AcquireWrite, AcquireRead, RestoreWrite,
       RestoreRead, TripRest, NewPoll, Tick, Revoke, PollWake, PollSleep
  <2>2. /\ poll.status = "pending" /\ epoch = poll.epoch /\ ~(now >= poll.deadline)
        /\ poll.attempts = 0 \/ now >= poll.attempt_deadline
    BY <2>1 DEF PollOwnership, StartDue
  <2>3. PollSound(poll, lastWrite) /\ poll \in Polls /\ now \in Nat
    BY Zenon DEF OwnershipInv
  <2> QED
    BY <2>2, <2>3, OwnershipAssumption DEF OwnershipAssumption, PollSound, Polls
<1> QED
  BY <1>1, OwnershipInvariant, PTL DEF OwnershipSpec, CommandsSpaced
-----------------------------------------------------------------------------
(* ActiveAuthority. *)
USE AuthorityAssumption DEF AuthorityAssumption

Marks == Fingerprints \cup {0}

Observations ==
    [id : Nat, fingerprint : Marks, at : [ObservedAxes -> Nat], target : Nat, sealed : Flag]

EvidenceRecords == [beacon : Flag, power : Flag, lease : Flag, authorized : Flag]

TargetRecords ==
    [is : {"None", "Pending", "Current", "Unknown"}, generation : Nat, discovery : Nat,
     fingerprint : Marks, final : Nat]

Active == {"Live", "Staged", "Committing", "InFlight"}

AttemptRecords ==
    [is : Active \cup {"None", "Revoked", "Spent"}, generation : Nat, abort : Flag, sent : Flag]

(* Every variable has its type and no counter passes its maximum. *)
Ranges ==
    /\ gen \in [Axes -> Nat] /\ \A a \in Axes : gen[a] <= Last(a)
    /\ axis \in [Axes -> {"Current", "Pending", "Unknown"}]
    /\ discovery \in Observations /\ final \in Observations
    /\ evidence \in EvidenceRecords /\ target \in TargetRecords /\ attempt \in AttemptRecords
    /\ nextObs \in 1 .. MaxObservation

(* What the evidence rests on.  A seal binds the final observation to the  *)
(* present target; the beacon evidence stands only on such an observation; *)
(* whatever authorises a transmission stands on both kinds of evidence.    *)
Grounded ==
    /\ evidence.power => axis["Power"] = "Current"
    /\ final.sealed => final.target = gen["Target"]
    /\ evidence.beacon =>
          /\ target.is = "Current" /\ target.final = final.id /\ target.generation = gen["Target"]
          /\ final.sealed /\ ObservationIsCurrent(final) /\ axis["Target"] = "Current"
    /\ evidence.lease \/ evidence.authorized \/ attempt.is \in {"Live", "Staged"} =>
          ~faulted /\ evidence.beacon /\ evidence.power

(* The attempts form one lineage: the present one has the newest number,   *)
(* is published only past its commit and has its terminal result exactly   *)
(* once it is over.                                                        *)
Lineage ==
    /\ attempt.generation = gen["Attempt"]
    /\ published \subseteq 0 .. gen["Attempt"]
    /\ attempt.is = "None" => gen["Attempt"] = 0
    /\ attempt.is \in Active => terminal = "none"
    /\ attempt.is \in {"Live", "Staged"} => attempt.generation \notin published
    /\ attempt.is = "Spent" => terminal # "none"
    /\ evidence.authorized => LineageClosed

AuthorityInv == Ranges /\ Grounded /\ Lineage /\ PublicationNotDenied /\ FaultIsFinal

(* What the rules of INVALIDATION_RULES have in common: every cause revokes *)
(* the lease and the attempt, an axis never advances while evidence made    *)
(* under it stands, and attempts are numbered by none of them.              *)
LEMMA RuleFacts ==
    ASSUME NEW cause \in DOMAIN Rules
    PROVE  /\ Rules[cause].axes \subseteq Axes /\ "Attempt" \notin Rules[cause].axes
           /\ "lease" \in Rules[cause].clears /\ "attempt" \in Rules[cause].clears
           /\ "Power" \in Rules[cause].axes => "power" \in Rules[cause].clears
           /\ "Target" \in Rules[cause].axes => "final" \in Rules[cause].clears
           /\ \A a \in ObservedAxes \cup {"Target"} :
                 a \in Rules[cause].axes => "beacon" \in Rules[cause].clears
           /\ "final" \in Rules[cause].clears <=> "beacon" \in Rules[cause].clears
<1>1. DOMAIN Rules = {"Device", "Reset", "Firmware", "Ownership", "Domain", "Channel", "Power",
                      "Scan", "Target"}
  BY Zenon DEF Rules
<1>2. /\ Rules["Device"].axes = Axes \ {"Attempt"} /\ Rules["Device"].clears = Kinds
      /\ Rules["Reset"].axes = {"Reset", "Firmware", "Ownership", "Power", "Scan", "Target"}
      /\ Rules["Reset"].clears = Kinds
      /\ Rules["Firmware"].axes = {"Firmware"} /\ Rules["Firmware"].clears = Kinds
      /\ Rules["Ownership"].axes = {"Ownership"} /\ Rules["Ownership"].clears = Kinds
      /\ Rules["Domain"].axes = {"Domain", "Power", "Scan", "Target"}
      /\ Rules["Domain"].clears = Kinds
  BY Zenon DEF Rules
<1>3. /\ Rules["Channel"].axes = {"Channel", "Power", "Scan"}
      /\ Rules["Channel"].clears = Kinds \ {"discovery"}
      /\ Rules["Power"].axes = {"Power"} /\ Rules["Power"].clears = {"power", "lease", "attempt"}
      /\ Rules["Scan"].axes = {"Scan"} /\ Rules["Scan"].clears = {"final", "beacon", "lease", "attempt"}
      /\ Rules["Target"].axes = {"Target"} /\ Rules["Target"].clears = Kinds \ {"discovery"}
  BY Zenon DEF Rules
<1> USE DEF Axes, ObservedAxes, Kinds
<1>4. CASE cause \in {"Device", "Reset"}
  BY <1>2, <1>4
<1>5. CASE cause \in {"Firmware", "Ownership", "Domain"}
  BY <1>2, <1>5
<1>6. CASE cause \in {"Channel", "Target"}
  BY <1>3, <1>6
<1>7. CASE cause \in {"Power", "Scan"}
  BY <1>3, <1>7
<1> QED
  BY <1>1, <1>4, <1>5, <1>6, <1>7, Zenon

(* A revoked attempt keeps its number and remembers whether it was         *)
(* committed.                                                              *)
LEMMA RevokedFacts ==
    ASSUME attempt \in AttemptRecords, NEW r, r = RevokedAttempt(attempt)
    PROVE  /\ r \in AttemptRecords /\ r.generation = attempt.generation /\ r.is \notin Active
           /\ attempt.is \notin Active => r = attempt
           /\ attempt.is \in Active => r.is = "Revoked"
           /\ attempt.is \in {"Committing", "InFlight"} => r.sent
<1> DEFINE c == attempt.is \in {"Committing", "InFlight"}
<1>1. CASE attempt.is \in Active
  <2>1. r = [attempt EXCEPT !.is = "Revoked", !.abort = FALSE, !.sent = c]
    BY <1>1 DEF RevokedAttempt, Active
  <2>2. c \in Flag
    BY DEF Flag
  <2>3. r.sent = c /\ r.is = "Revoked" /\ r.generation = attempt.generation
    BY <2>1 DEF AttemptRecords
  <2> HIDE DEF c
  <2>4. [attempt EXCEPT !.is = "Revoked", !.abort = FALSE, !.sent = c] \in AttemptRecords
    BY <2>2, Flags, Zenon DEF AttemptRecords
  <2> QED
    BY <1>1, <2>1, <2>3, <2>4, Zenon DEF Active, c
<1>2. CASE attempt.is \notin Active
  <2>1. r = attempt
    BY <1>2 DEF RevokedAttempt, Active
  <2> QED
    BY <1>2, <2>1 DEF Active
<1> QED
  BY <1>1, <1>2

(* What clearing leaves, with the lease and the attempt among the kinds. *)
LEMMA ClearedFacts ==
    ASSUME Ranges, NEW kinds, "lease" \in kinds, "attempt" \in kinds, Cleared(kinds)
    PROVE  /\ discovery' \in Observations /\ final' \in Observations
           /\ "final" \notin kinds => final' = final
           /\ final'.sealed => final' = final /\ "final" \notin kinds
           /\ evidence' \in EvidenceRecords /\ evidence'.lease = FALSE /\ evidence'.authorized = FALSE
           /\ evidence'.beacon = (evidence.beacon /\ "beacon" \notin kinds)
           /\ evidence'.power = (evidence.power /\ "power" \notin kinds)
           /\ attempt' = RevokedAttempt(attempt)
<1>1. NoObservation \in Observations /\ ~NoObservation.sealed
  BY Flags, Zenon DEF NoObservation, Observations, Marks
<1>2. /\ discovery' \in Observations /\ final' \in Observations
      /\ "final" \notin kinds => final' = final
      /\ final'.sealed => final' = final /\ "final" \notin kinds
  BY <1>1 DEF Cleared, Ranges
<1> DEFINE b == evidence.beacon /\ "beacon" \notin kinds
           p == evidence.power /\ "power" \notin kinds
           l == evidence.lease /\ "lease" \notin kinds /\ "attempt" \notin kinds
           z == evidence.authorized /\ "lease" \notin kinds
<1>3. evidence' = [beacon |-> b, power |-> p, lease |-> l, authorized |-> z]
  BY DEF Cleared
<1>4. b \in Flag /\ p \in Flag /\ l = FALSE /\ z = FALSE
  BY DEF Flag
<1> HIDE DEF b, p, l, z
<1>5. evidence' \in EvidenceRecords
  BY <1>3, <1>4, Flags, Zenon DEF EvidenceRecords
<1>6. evidence'.beacon = b /\ evidence'.power = p /\ evidence'.lease = l /\ evidence'.authorized = z
  BY <1>3
<1>7. attempt' = RevokedAttempt(attempt)
  BY DEF Cleared
<1> QED
  BY <1>2, <1>4, <1>5, <1>6, <1>7 DEF b, p

(* The lineage survives a revocation. *)
LEMMA RevokedLineage ==
    ASSUME Ranges, Lineage, PublicationNotDenied, attempt' = RevokedAttempt(attempt),
           evidence'.authorized = FALSE, gen'["Attempt"] = gen["Attempt"], UNCHANGED <<terminal, published>>
    PROVE  attempt' \in AttemptRecords /\ attempt'.is \notin Active /\ Lineage' /\ PublicationNotDenied'
<1>1. attempt \in AttemptRecords
  BY DEF Ranges
<1>2. /\ attempt' \in AttemptRecords /\ attempt'.generation = attempt.generation
      /\ attempt'.is \notin Active
      /\ attempt.is \notin Active => attempt' = attempt
      /\ attempt.is \in Active => attempt'.is = "Revoked"
      /\ attempt.is \in {"Committing", "InFlight"} => attempt'.sent
  BY <1>1, RevokedFacts
<1>3. Lineage'
  BY <1>2 DEF Lineage, Active
<1>4. PublicationNotDenied'
  BY <1>2 DEF Lineage, PublicationNotDenied, Active
<1> QED
  BY <1>2, <1>3, <1>4

(* The target there is before any is chosen. *)
LEMMA BlankTarget == NoTarget \in TargetRecords
BY DEF NoTarget, TargetRecords, Marks

(* A fault takes all evidence with it. *)
LEMMA FaultStep ==
    ASSUME AuthorityInv, Fault
    PROVE  AuthorityInv'
<1>1. Ranges /\ Grounded /\ Lineage /\ PublicationNotDenied
  BY DEF AuthorityInv
<1>2. Cleared(Kinds) /\ "lease" \in Kinds /\ "attempt" \in Kinds /\ "final" \in Kinds
      /\ "beacon" \in Kinds /\ "power" \in Kinds
  BY DEF Fault, Kinds
<1>3. /\ discovery' \in Observations /\ final' \in Observations /\ ~final'.sealed
      /\ evidence' \in EvidenceRecords /\ evidence'.lease = FALSE /\ evidence'.authorized = FALSE
      /\ ~evidence'.beacon /\ ~evidence'.power /\ attempt' = RevokedAttempt(attempt)
  BY <1>1, <1>2, ClearedFacts, Zenon
<1>4. /\ target' = NoTarget /\ axis' = [a \in Axes |-> "Unknown"] /\ faulted' = TRUE
      /\ UNCHANGED <<gen, terminal, nextObs, published>>
  BY DEF Fault
<1>5. attempt' \in AttemptRecords /\ attempt'.is \notin Active /\ Lineage' /\ PublicationNotDenied'
  BY <1>1, <1>3, <1>4, RevokedLineage, Zenon
<1>6. Ranges'
  <2>1. axis' \in [Axes -> {"Current", "Pending", "Unknown"}]
    BY <1>4
  <2> QED
    BY <1>1, <1>3, <1>4, <1>5, <2>1, BlankTarget, Zenon DEF Ranges
<1>7. Grounded'
  BY <1>3, <1>5 DEF Grounded, Active
<1>8. evidence' = NoEvidence
  BY <1>3 DEF EvidenceRecords, NoEvidence, Flag
<1>9. FaultIsFinal'
  BY <1>4, <1>5, <1>8 DEF FaultIsFinal, Active
<1> QED
  BY <1>5, <1>6, <1>7, <1>9 DEF AuthorityInv

(* An invalidation: evidence made under an axis that advances is gone, and *)
(* what stays is still as fresh as it was.                                 *)
LEMMA InvalidatedStep ==
    ASSUME AuthorityInv, ~faulted, NEW cause \in DOMAIN Rules, NEW t \in TargetRecords,
           NEW x \in {"Pending", "Unknown"}, Invalidated(cause, t, x),
           "beacon" \notin Rules[cause].clears => t = target
    PROVE  AuthorityInv'
<1> DEFINE axes == Rules[cause].axes
           clears == Rules[cause].clears
<1>1. Ranges /\ Grounded /\ Lineage /\ PublicationNotDenied
  BY DEF AuthorityInv
<1>2. /\ axes \subseteq Axes /\ "Attempt" \notin axes
      /\ "lease" \in clears /\ "attempt" \in clears
      /\ "Power" \in axes => "power" \in clears
      /\ "Target" \in axes => "final" \in clears
      /\ \A a \in ObservedAxes \cup {"Target"} : a \in axes => "beacon" \in clears
      /\ "final" \in clears <=> "beacon" \in clears
  BY RuleFacts, Zenon
<1>3. CASE \E a \in axes : gen[a] = Last(a)
  BY <1>3, FaultStep DEF Invalidated
<1>4. CASE ~\E a \in axes : gen[a] = Last(a)
  <2>1. /\ Cleared(clears) /\ target' = t /\ UNCHANGED <<terminal, nextObs, faulted, published>>
        /\ gen' = [a \in Axes |-> IF a \in axes THEN gen[a] + 1 ELSE gen[a]]
        /\ axis' = [a \in Axes |-> IF a \in axes THEN x ELSE axis[a]]
    BY <1>4 DEF Invalidated
  <2> HIDE DEF axes, clears
  <2>2. /\ discovery' \in Observations /\ final' \in Observations
        /\ "final" \notin clears => final' = final
        /\ final'.sealed => final' = final /\ "final" \notin clears
        /\ evidence' \in EvidenceRecords /\ evidence'.lease = FALSE /\ evidence'.authorized = FALSE
        /\ evidence'.beacon = (evidence.beacon /\ "beacon" \notin clears)
        /\ evidence'.power = (evidence.power /\ "power" \notin clears)
        /\ attempt' = RevokedAttempt(attempt)
    BY <1>1, <1>2, <2>1, ClearedFacts, Zenon
  <2>3. /\ gen \in [Axes -> Nat] /\ \A a \in Axes : gen[a] <= Last(a) /\ Last(a) \in Nat
        /\ axis \in [Axes -> {"Current", "Pending", "Unknown"}]
    BY <1>1 DEF Ranges, Last
  <2>4. gen' \in [Axes -> Nat] /\ axis' \in [Axes -> {"Current", "Pending", "Unknown"}]
    <3>1. \A a \in Axes : gen[a] \in Nat /\ gen[a] + 1 \in Nat
      BY <2>3
    <3>2. gen' \in [Axes -> Nat]
      BY <2>1, <3>1, Zenon
    <3>3. x \in {"Current", "Pending", "Unknown"}
      OBVIOUS
    <3>4. axis' \in [Axes -> {"Current", "Pending", "Unknown"}]
      BY <2>1, <2>3, <3>3, Zenon
    <3> QED
      BY <3>2, <3>4
  <2>5. \A a \in Axes : gen'[a] <= Last(a)
    <3> SUFFICES ASSUME NEW a \in Axes
                 PROVE  gen'[a] <= Last(a)
      OBVIOUS
    <3>1. gen'[a] = IF a \in axes THEN gen[a] + 1 ELSE gen[a]
      BY <2>1, Zenon
    <3>2. gen[a] \in Nat /\ Last(a) \in Nat /\ gen[a] <= Last(a)
      BY <2>3, Zenon
    <3>3. a \in axes => gen[a] # Last(a)
      BY <1>4, Zenon
    <3> QED
      BY <3>1, <3>2, <3>3
  <2>6. gen'["Attempt"] = gen["Attempt"]
    BY <1>2, <2>1 DEF Axes
  <2>7. attempt' \in AttemptRecords /\ attempt'.is \notin Active /\ Lineage' /\ PublicationNotDenied'
    BY <1>1, <2>1, <2>2, <2>6, RevokedLineage, Zenon
  <2>8. Ranges'
    BY <1>1, <2>1, <2>2, <2>4, <2>5, <2>7, Zenon DEF Ranges
  <2>9. Grounded'
    <3>1. evidence'.power => axis'["Power"] = "Current"
      BY <1>1, <1>2, <2>1, <2>2, Zenon DEF Grounded, Axes
    <3>2. final'.sealed => final'.target = gen'["Target"]
      BY <1>1, <1>2, <2>1, <2>2, Zenon DEF Grounded, Axes
    <3>3. ASSUME evidence'.beacon
          PROVE  /\ target'.is = "Current" /\ target'.final = final'.id
                 /\ target'.generation = gen'["Target"]
                 /\ final'.sealed /\ ObservationIsCurrent(final)' /\ axis'["Target"] = "Current"
      <4>1. evidence.beacon /\ "beacon" \notin clears /\ t = target /\ final' = final
        BY <1>2, <2>2, <3>3, Zenon DEF clears
      <4>2. \A a \in ObservedAxes \cup {"Target"} : gen'[a] = gen[a] /\ axis'[a] = axis[a]
        BY <1>2, <2>1, <4>1, SMTT(30) DEF Axes
      <4>3. ObservationIsCurrent(final)'
        BY <1>1, <4>1, <4>2, SMTT(30) DEF Grounded, ObservationIsCurrent, CurrentForObservation
      <4> QED
        BY <1>1, <2>1, <4>1, <4>2, <4>3 DEF Grounded
    <3> QED
      BY <2>2, <2>7, <3>1, <3>2, <3>3 DEF Grounded, Active
  <2>10. FaultIsFinal'
    BY <2>1 DEF FaultIsFinal
  <2> QED
    BY <2>7, <2>8, <2>9, <2>10, Zenon DEF AuthorityInv
<1> QED
  BY <1>3, <1>4

(* begin_invalidation with its cause. *)
LEMMA BeginInvalidationStep ==
    ASSUME AuthorityInv, NEW cause \in DOMAIN Rules, BeginInvalidation(cause)
    PROVE  AuthorityInv'
<1> DEFINE t == IF Rules[cause].clears = Kinds THEN NoTarget ELSE target
<1>1. ~faulted /\ Invalidated(cause, t, "Pending")
  BY DEF BeginInvalidation
<1>2. t \in TargetRecords
  BY BlankTarget DEF AuthorityInv, Ranges
<1>3. "beacon" \notin Rules[cause].clears => t = target
  BY DEF Kinds
<1> QED
  BY <1>1, <1>2, <1>3, InvalidatedStep

(* A target is invalidated, by begin_final_target or by a join that does   *)
(* not match.                                                              *)
LEMMA TargetInvalidated ==
    ASSUME AuthorityInv, ~faulted, NEW t \in TargetRecords, NEW x \in {"Pending", "Unknown"},
           Invalidated("Target", t, x)
    PROVE  AuthorityInv'
<1>1. "Target" \in DOMAIN Rules /\ "beacon" \in Rules["Target"].clears
  BY Zenon DEF Rules, Kinds
<1> QED
  BY <1>1, InvalidatedStep, Zenon

(* begin_final_target puts the target on the observation that found it. *)
LEMMA BeginFinalTargetStep ==
    ASSUME AuthorityInv, BeginFinalTarget
    PROVE  AuthorityInv'
<1> DEFINE t == [is |-> "Pending", generation |-> gen["Target"] + 1, discovery |-> discovery.id,
                 fingerprint |-> discovery.fingerprint, final |-> 0]
<1>1. gen["Target"] \in Nat /\ discovery \in Observations
  BY DEF AuthorityInv, Ranges, Axes
<1>2. t \in TargetRecords
  BY <1>1 DEF TargetRecords, Observations
<1>3. ~faulted /\ Invalidated("Target", t, "Pending")
  BY DEF BeginFinalTarget
<1> HIDE DEF t
<1> QED
  BY <1>2, <1>3, TargetInvalidated

(* An axis is confirmed current. *)
LEMMA ConfirmStep ==
    ASSUME AuthorityInv, NEW a \in Axes, Confirm(a)
    PROVE  AuthorityInv'
<1>1. /\ ~faulted /\ axis \in [Axes -> {"Current", "Pending", "Unknown"}]
      /\ axis' = [axis EXCEPT ![a] = "Current"]
      /\ UNCHANGED <<gen, discovery, final, evidence, target, attempt, terminal, nextObs, faulted,
                     published>>
  BY DEF Confirm, AuthorityInv, Ranges
<1>2. Ranges'
  BY <1>1 DEF AuthorityInv, Ranges
<1>3. \A b \in Axes : axis[b] = "Current" => axis'[b] = "Current"
  BY <1>1, Zenon
<1>4. Grounded'
  BY <1>1, <1>3 DEF AuthorityInv, Grounded, ObservationIsCurrent, CurrentForObservation, Axes
<1>5. Lineage' /\ PublicationNotDenied'
  BY <1>1 DEF AuthorityInv, Lineage, LineageClosed, PublicationNotDenied
<1>6. FaultIsFinal'
  BY <1>1 DEF FaultIsFinal
<1> QED
  BY <1>2, <1>4, <1>5, <1>6 DEF AuthorityInv

(* An observation is made.  A final one replaces the final observation,    *)
(* which no evidence rests on while its target is pending.                 *)
LEMMA ObservesStep ==
    ASSUME AuthorityInv, NEW f \in Fingerprints, NEW g \in Nat, NEW last \in BOOLEAN,
           Observes(f, g, last), last => ~evidence.beacon
    PROVE  AuthorityInv'
<1> DEFINE m == [a \in ObservedAxes |-> gen[a]]
           o == [id |-> nextObs, fingerprint |-> f, at |-> m, target |-> g, sealed |-> FALSE]
<1>1. CASE nextObs = MaxObservation
  BY <1>1, FaultStep DEF Observes
<1>2. CASE nextObs # MaxObservation
  <2>1. /\ nextObs' = nextObs + 1
        /\ final' = (IF last THEN o ELSE final) /\ discovery' = (IF last THEN discovery ELSE o)
        /\ UNCHANGED <<gen, axis, evidence, target, attempt, terminal, faulted, published>>
    BY <1>2 DEF Observes
  <2>2. Ranges /\ Grounded /\ \A a \in ObservedAxes : gen[a] \in Nat
    BY DEF AuthorityInv, Ranges, Axes
  <2>3. o \in Observations /\ ~o.sealed
    <3>1. m \in [ObservedAxes -> Nat] /\ nextObs \in Nat /\ f \in Marks
      BY <2>2 DEF Ranges, Marks
    <3> HIDE DEF m
    <3> QED
      BY <3>1, Flags, Zenon DEF Observations
  <2> HIDE DEF o
  <2>4. Ranges'
    <3>1. nextObs' \in 1 .. MaxObservation
      BY <1>2, <2>1, <2>2 DEF Ranges
    <3>2. final' \in Observations /\ discovery' \in Observations
      BY <2>1, <2>2, <2>3, Zenon DEF Ranges
    <3> QED
      BY <2>1, <2>2, <3>1, <3>2, Zenon DEF Ranges
  <2>5. Grounded'
    BY <2>1, <2>2, <2>3, Zenon DEF Grounded, ObservationIsCurrent, CurrentForObservation
  <2>6. Lineage' /\ PublicationNotDenied' /\ FaultIsFinal'
    BY <2>1 DEF AuthorityInv, Lineage, LineageClosed, PublicationNotDenied, FaultIsFinal
  <2> QED
    BY <2>4, <2>5, <2>6 DEF AuthorityInv
<1> QED
  BY <1>1, <1>2

(* record_discovery and record_final_observation. *)
LEMMA RecordStep ==
    ASSUME AuthorityInv, NEW f \in Fingerprints, RecordDiscovery(f) \/ RecordFinalObservation(f)
    PROVE  AuthorityInv'
<1>1. CASE RecordDiscovery(f)
  BY <1>1, ObservesStep, Zenon DEF RecordDiscovery
<1>2. CASE RecordFinalObservation(f)
  <2>1. target.generation \in Nat /\ ~evidence.beacon
    BY <1>2 DEF RecordFinalObservation, AuthorityInv, Ranges, TargetRecords, Grounded
  <2> QED
    BY <1>2, <2>1, ObservesStep, Zenon DEF RecordFinalObservation
<1> QED
  BY <1>1, <1>2

(* The final observation is sealed. *)
LEMMA SealStep ==
    ASSUME AuthorityInv, SealFinalObservation
    PROVE  AuthorityInv'
<1>1. /\ final.target = gen["Target"] /\ final \in Observations
      /\ final' = [final EXCEPT !.sealed = TRUE]
      /\ UNCHANGED <<gen, axis, discovery, evidence, target, attempt, terminal, nextObs, faulted,
                     published>>
  BY DEF SealFinalObservation, AuthorityInv, Ranges
<1>2. /\ final' \in Observations /\ final'.sealed /\ final'.target = final.target
      /\ final'.id = final.id /\ final'.at = final.at
  BY <1>1, Flags, Zenon DEF Observations
<1>3. Ranges'
  BY <1>1, <1>2 DEF AuthorityInv, Ranges
<1>4. Grounded'
  BY <1>1, <1>2 DEF AuthorityInv, Grounded, ObservationIsCurrent, CurrentForObservation
<1>5. Lineage' /\ PublicationNotDenied' /\ FaultIsFinal'
  BY <1>1 DEF AuthorityInv, Lineage, LineageClosed, PublicationNotDenied, FaultIsFinal
<1> QED
  BY <1>3, <1>4, <1>5 DEF AuthorityInv

(* matching_join: the beacon evidence is granted on the sealed observation, *)
(* or the target is given up.                                              *)
LEMMA JoinStep ==
    ASSUME AuthorityInv, NEW named \in BOOLEAN, MatchingJoin(named)
    PROVE  AuthorityInv'
<1>1. /\ target.is = "Pending" /\ target \in TargetRecords /\ gen["Target"] \in Nat
      /\ final \in Observations /\ evidence \in EvidenceRecords
      /\ axis \in [Axes -> {"Current", "Pending", "Unknown"}]
  BY DEF MatchingJoin, AuthorityInv, Ranges, Axes
<1>2. CASE named /\ JoinMatches
  <2>1. /\ evidence' = [evidence EXCEPT !.beacon = TRUE]
        /\ target' = [target EXCEPT !.is = "Current", !.final = final.id]
        /\ axis' = [axis EXCEPT !["Target"] = "Current"]
        /\ UNCHANGED <<gen, discovery, final, attempt, terminal, nextObs, faulted, published>>
    BY <1>2, Zenon DEF MatchingJoin
  <2>2. /\ final.sealed /\ final.target = target.generation /\ ObservationIsCurrent(final)
        /\ final.target = gen["Target"]
    BY <1>2 DEF JoinMatches, AuthorityInv, Grounded
  <2>3. ~faulted
    BY <1>1 DEF AuthorityInv, FaultIsFinal, NoTarget
  <2>4. /\ evidence' \in EvidenceRecords /\ evidence'.beacon /\ evidence'.power = evidence.power
        /\ evidence'.lease = evidence.lease /\ evidence'.authorized = evidence.authorized
    BY <1>1, <2>1, Flags, Zenon DEF EvidenceRecords
  <2>5. /\ target' \in TargetRecords /\ target'.is = "Current" /\ target'.final = final.id
        /\ target'.generation = target.generation
    BY <1>1, <2>1, Zenon DEF TargetRecords, Observations
  <2>6. /\ axis' \in [Axes -> {"Current", "Pending", "Unknown"}]
        /\ axis'["Target"] = "Current" /\ axis'["Power"] = axis["Power"]
        /\ \A a \in ObservedAxes : axis'[a] = axis[a]
    BY <1>1, <2>1 DEF Axes, ObservedAxes
  <2>7. Ranges'
    BY <2>1, <2>4, <2>5, <2>6 DEF AuthorityInv, Ranges
  <2>8. ObservationIsCurrent(final)'
    BY <2>1, <2>2, <2>6 DEF ObservationIsCurrent, CurrentForObservation
  <2>9. Grounded'
    BY <2>1, <2>2, <2>3, <2>4, <2>5, <2>6, <2>8 DEF AuthorityInv, Grounded
  <2>10. Lineage' /\ PublicationNotDenied' /\ FaultIsFinal'
    BY <2>1, <2>3, <2>4 DEF AuthorityInv, Lineage, LineageClosed, PublicationNotDenied, FaultIsFinal
  <2> QED
    BY <2>7, <2>9, <2>10 DEF AuthorityInv
<1>3. CASE ~(named /\ JoinMatches)
  <2> DEFINE g == gen["Target"] + 1
             t == [NoTarget EXCEPT !.is = "Unknown", !.generation = g]
  <2>1. ~faulted /\ Invalidated("Target", t, "Unknown")
    BY <1>3 DEF MatchingJoin
  <2>2. g \in Nat
    BY <1>1
  <2> HIDE DEF g
  <2>3. t \in TargetRecords
    BY <2>2, BlankTarget, Zenon DEF TargetRecords
  <2> HIDE DEF t
  <2> QED
    BY <2>1, <2>3, TargetInvalidated
<1> QED
  BY <1>2, <1>3

(* Power evidence is installed, or an attempt is authorised. *)
LEMMA GrantStep ==
    ASSUME AuthorityInv, InstallPowerEvidence \/ AuthorizeAttempt
    PROVE  AuthorityInv'
<1>1. /\ UNCHANGED <<gen, axis, discovery, final, target, attempt, terminal, nextObs, faulted, published>>
      /\ target.is # "None"
  BY DEF InstallPowerEvidence, AuthorizeAttempt, Evident
<1>2. ~faulted /\ evidence \in EvidenceRecords
  BY <1>1 DEF AuthorityInv, FaultIsFinal, NoTarget, Ranges
<1>3. /\ evidence' \in EvidenceRecords
      /\ evidence'.beacon = evidence.beacon /\ evidence'.lease = evidence.lease
      /\ \/ /\ axis["Power"] = "Current" /\ evidence'.power
            /\ evidence'.authorized = evidence.authorized
         \/ /\ evidence'.power = evidence.power /\ evidence'.authorized
            /\ Evident /\ LineageClosed
  <2>1. CASE InstallPowerEvidence
    BY <1>2, <2>1, Flags, Zenon DEF InstallPowerEvidence, EvidenceRecords
  <2>2. CASE AuthorizeAttempt
    BY <1>2, <2>2, Flags, Zenon DEF AuthorizeAttempt, EvidenceRecords
  <2> QED
    BY <2>1, <2>2
<1>4. Ranges'
  BY <1>1, <1>3, Zenon DEF AuthorityInv, Ranges
<1>5. Grounded'
  BY <1>1, <1>2, <1>3, Zenon
  DEF AuthorityInv, Grounded, Evident, ObservationIsCurrent, CurrentForObservation
<1>6. Lineage'
  BY <1>1, <1>3 DEF AuthorityInv, Lineage, LineageClosed
<1>7. PublicationNotDenied' /\ FaultIsFinal'
  BY <1>1, <1>2 DEF AuthorityInv, PublicationNotDenied, FaultIsFinal
<1> QED
  BY <1>4, <1>5, <1>6, <1>7 DEF AuthorityInv

(* An attempt is reserved under a number no publication has. *)
LEMMA ReserveStep ==
    ASSUME AuthorityInv, ReserveAttempt
    PROVE  AuthorityInv'
<1>1. CASE gen["Attempt"] = Last("Attempt")
  BY <1>1, FaultStep DEF ReserveAttempt
<1>2. CASE gen["Attempt"] # Last("Attempt")
  <2>1. /\ gen' = [gen EXCEPT !["Attempt"] = @ + 1] /\ axis' = [axis EXCEPT !["Attempt"] = "Current"]
        /\ evidence' = [evidence EXCEPT !.authorized = FALSE, !.lease = TRUE]
        /\ terminal' = "none"
        /\ attempt' = [NoAttempt EXCEPT !.is = "Live", !.generation = gen["Attempt"] + 1]
        /\ UNCHANGED <<discovery, final, target, nextObs, faulted, published>>
        /\ ~faulted /\ evidence.beacon /\ evidence.power
    BY <1>2 DEF ReserveAttempt, Evident
  <2>2. /\ gen \in [Axes -> Nat] /\ axis \in [Axes -> {"Current", "Pending", "Unknown"}]
        /\ "Attempt" \in Axes /\ "Attempt" \notin ObservedAxes /\ ObservedAxes \subseteq Axes
        /\ evidence \in EvidenceRecords /\ \A a \in Axes : gen[a] <= Last(a)
    BY DEF AuthorityInv, Ranges, Axes, ObservedAxes
  <2>3. Last("Attempt") \in Nat
    BY DEF Last
  <2>4. /\ gen' \in [Axes -> Nat] /\ gen'["Attempt"] = gen["Attempt"] + 1
        /\ \A a \in Axes : a # "Attempt" => gen'[a] = gen[a]
        /\ axis' \in [Axes -> {"Current", "Pending", "Unknown"}]
        /\ \A a \in Axes : a # "Attempt" => axis'[a] = axis[a]
    BY <2>1, <2>2
  <2>5. \A a \in Axes : gen'[a] <= Last(a)
    <3> SUFFICES ASSUME NEW a \in Axes PROVE gen'[a] <= Last(a)
      OBVIOUS
    <3>1. CASE a = "Attempt"
      BY <1>2, <2>2, <2>3, <2>4, <3>1
    <3>2. CASE a # "Attempt"
      BY <2>2, <2>4, <3>2
    <3> QED
      BY <3>1, <3>2
  <2>6. /\ evidence' \in EvidenceRecords /\ evidence'.beacon = evidence.beacon
        /\ evidence'.power = evidence.power /\ evidence'.authorized = FALSE
    BY <2>1, <2>2, Flags, Zenon DEF EvidenceRecords
  <2>7. attempt' = [is |-> "Live", generation |-> gen["Attempt"] + 1, abort |-> FALSE, sent |-> FALSE]
    BY <2>1, Zenon DEF NoAttempt
  <2>8. attempt' \in AttemptRecords
    <3> DEFINE g == gen["Attempt"] + 1
    <3>1. g \in Nat /\ attempt' = [is |-> "Live", generation |-> g, abort |-> FALSE, sent |-> FALSE]
      BY <2>2, <2>7
    <3> HIDE DEF g
    <3> QED
      BY <3>1, Flags, Zenon DEF AttemptRecords, Active
  <2>9. Ranges'
    BY <2>1, <2>4, <2>5, <2>6, <2>8 DEF AuthorityInv, Ranges
  <2>10. \A a \in ObservedAxes \cup {"Power", "Target"} : gen'[a] = gen[a] /\ axis'[a] = axis[a]
    BY <2>4 DEF Axes, ObservedAxes
  <2>11. ObservationIsCurrent(final) => ObservationIsCurrent(final)'
    BY <2>1, <2>10 DEF ObservationIsCurrent, CurrentForObservation
  <2>12. Grounded'
    BY <2>1, <2>6, <2>10, <2>11 DEF AuthorityInv, Grounded
  <2>13. gen["Attempt"] \in Nat /\ published \subseteq 0 .. gen["Attempt"]
    BY <2>2 DEF AuthorityInv, Lineage
  <2>14. gen["Attempt"] + 1 \notin published /\ published \subseteq 0 .. gen'["Attempt"]
    BY <2>4, <2>13
  <2>15. Lineage'
    BY <2>1, <2>4, <2>6, <2>7, <2>14 DEF Lineage, Active
  <2>16. PublicationNotDenied' /\ FaultIsFinal'
    BY <2>1, <2>7 DEF PublicationNotDenied, FaultIsFinal
  <2> QED
    BY <2>9, <2>12, <2>15, <2>16 DEF AuthorityInv
<1> QED
  BY <1>1, <1>2

(* An attempt is staged, its commit decided, or its submission reported.   *)
LEMMA MovesStep ==
    ASSUME AuthorityInv, StageAttempt \/ Commit \/ Submitted
    PROVE  AuthorityInv'
<1>1. PICK from \in Active, to \in {"Staged", "Committing", "InFlight"} :
         /\ Moves(from, to)
         /\ to = "Staged" => from = "Live"
         /\ to = "Committing" => from = "Staged"
         /\ to = "InFlight" => from = "Committing"
  BY DEF StageAttempt, Commit, Submitted, Active
<1> DEFINE l == evidence.lease /\ to = "Staged"
<1>2. /\ attempt.is = from /\ attempt' = [attempt EXCEPT !.is = to]
      /\ evidence' = [evidence EXCEPT !.lease = l]
      /\ published' = IF to = "Committing" THEN published \cup {attempt.generation} ELSE published
      /\ UNCHANGED <<gen, axis, discovery, final, target, terminal, nextObs, faulted>>
  BY <1>1 DEF Moves
<1>3. attempt \in AttemptRecords /\ evidence \in EvidenceRecords /\ gen["Attempt"] \in Nat
  BY DEF AuthorityInv, Ranges, Axes
<1>4. /\ attempt' \in AttemptRecords /\ attempt'.is = to /\ attempt'.generation = attempt.generation
      /\ attempt'.sent = attempt.sent
  BY <1>2, <1>3 DEF AttemptRecords, Active
<1>5. l \in Flag /\ (l => evidence.lease)
  BY DEF Flag
<1> HIDE DEF l
<1>6. /\ evidence' \in EvidenceRecords /\ evidence'.lease = l /\ evidence'.beacon = evidence.beacon
      /\ evidence'.power = evidence.power /\ evidence'.authorized = evidence.authorized
  BY <1>2, <1>3, <1>5 DEF EvidenceRecords
<1>7. Ranges'
  BY <1>2, <1>4, <1>6 DEF AuthorityInv, Ranges
<1>8. Grounded'
  BY <1>1, <1>2, <1>4, <1>5, <1>6
  DEF AuthorityInv, Grounded, ObservationIsCurrent, CurrentForObservation
<1>9. Lineage'
  BY <1>1, <1>2, <1>3, <1>4, <1>6 DEF AuthorityInv, Lineage, LineageClosed, Active
<1>10. PublicationNotDenied' /\ FaultIsFinal'
  BY <1>1, <1>2, <1>4 DEF AuthorityInv, Lineage, PublicationNotDenied, FaultIsFinal, Active
<1> QED
  BY <1>7, <1>8, <1>9, <1>10 DEF AuthorityInv

(* A cancellation: final before the commit, a request to abort after it.   *)
LEMMA CancelStep ==
    ASSUME AuthorityInv, Cancel
    PROVE  AuthorityInv'
<1>1. /\ attempt \in AttemptRecords /\ evidence \in EvidenceRecords /\ attempt.is \in Active
      /\ UNCHANGED <<gen, axis, discovery, final, target, nextObs, faulted, published>>
  BY DEF AuthorityInv, Ranges, Cancel, Active
<1>2. /\ attempt' \in AttemptRecords /\ attempt'.generation = attempt.generation
      /\ evidence' \in EvidenceRecords /\ evidence'.beacon = evidence.beacon
      /\ evidence'.power = evidence.power /\ evidence'.authorized = evidence.authorized
      /\ \/ /\ attempt.is \in {"Live", "Staged"} /\ attempt'.is = "Revoked"
            /\ terminal' = "CancelledBeforePublish" /\ evidence'.lease = FALSE
         \/ /\ attempt.is \in {"Committing", "InFlight"} /\ attempt'.is = attempt.is
            /\ evidence' = evidence /\ terminal' = terminal
  <2>1. CASE attempt.is \in {"Live", "Staged"}
    <3>1. /\ attempt' = [attempt EXCEPT !.is = "Revoked", !.sent = FALSE]
          /\ evidence' = [evidence EXCEPT !.lease = FALSE] /\ terminal' = "CancelledBeforePublish"
      BY <2>1 DEF Cancel
    <3>2. /\ attempt' \in AttemptRecords /\ attempt'.generation = attempt.generation
          /\ attempt'.is = "Revoked"
      BY <1>1, <3>1, Flags, Zenon DEF AttemptRecords
    <3>3. /\ evidence' \in EvidenceRecords /\ evidence'.beacon = evidence.beacon
          /\ evidence'.power = evidence.power /\ evidence'.authorized = evidence.authorized
          /\ evidence'.lease = FALSE
      BY <1>1, <3>1, Flags, Zenon DEF EvidenceRecords
    <3> QED
      BY <2>1, <3>1, <3>2, <3>3
  <2>2. CASE attempt.is \in {"Committing", "InFlight"}
    <3>1. attempt' = [attempt EXCEPT !.abort = TRUE] /\ UNCHANGED <<evidence, terminal>>
      BY <2>2 DEF Cancel
    <3>2. /\ attempt' \in AttemptRecords /\ attempt'.generation = attempt.generation
          /\ attempt'.is = attempt.is
      BY <1>1, <3>1, Flags, ZenonT(30) DEF AttemptRecords
    <3> QED
      BY <1>1, <2>2, <3>1, <3>2
  <2> QED
    BY <1>1, <2>1, <2>2, Zenon DEF Active
<1>3. Ranges'
  BY <1>1, <1>2, Zenon DEF AuthorityInv, Ranges
<1>4. Grounded'
  BY <1>1, <1>2, ZenonT(30) DEF AuthorityInv, Grounded, ObservationIsCurrent, CurrentForObservation
<1>5. Lineage'
  BY <1>1, <1>2, Zenon DEF AuthorityInv, Lineage, LineageClosed, Active
<1>6. PublicationNotDenied' /\ FaultIsFinal'
  BY <1>1, <1>2 DEF AuthorityInv, Lineage, PublicationNotDenied, FaultIsFinal, Active
<1> QED
  BY <1>3, <1>4, <1>5, <1>6 DEF AuthorityInv

(* An attempt ends in its terminal result, by finish_attempt or once it    *)
(* was revoked.                                                            *)
LEMMA FinishStep ==
    ASSUME AuthorityInv, NEW result \in {"Completed", "MayHaveTransmitted", "Contained"},
           FinishAttempt(result) \/ FinishRevokedAttempt
    PROVE  AuthorityInv'
<1>1. /\ attempt \in AttemptRecords /\ evidence \in EvidenceRecords
      /\ attempt.is \in {"Committing", "InFlight", "Revoked"} /\ terminal = "none"
      /\ terminal' \in {"Completed", "MayHaveTransmitted", "Contained"}
      /\ attempt' = [attempt EXCEPT !.is = "Spent"]
      /\ UNCHANGED <<gen, axis, discovery, final, target, nextObs, faulted, published>>
  BY DEF AuthorityInv, Ranges, FinishAttempt, FinishRevokedAttempt
<1>2. /\ attempt' \in AttemptRecords /\ attempt'.generation = attempt.generation
      /\ attempt'.is = "Spent"
  BY <1>1 DEF AttemptRecords
<1>3. /\ evidence' \in EvidenceRecords /\ evidence'.beacon = evidence.beacon
      /\ evidence'.power = evidence.power /\ evidence'.authorized = evidence.authorized
      /\ evidence'.lease => evidence.lease
  <2>1. CASE FinishAttempt(result)
    BY <1>1, <2>1, Flags, Zenon DEF FinishAttempt, EvidenceRecords
  <2>2. CASE FinishRevokedAttempt
    BY <1>1, <2>2 DEF FinishRevokedAttempt
  <2> QED
    BY <2>1, <2>2
<1>4. Ranges'
  BY <1>1, <1>2, <1>3 DEF AuthorityInv, Ranges
<1>5. Grounded'
  BY <1>1, <1>2, <1>3 DEF AuthorityInv, Grounded, ObservationIsCurrent, CurrentForObservation
<1>6. Lineage'
  BY <1>1, <1>2, <1>3 DEF AuthorityInv, Lineage, LineageClosed, Active
<1>7. PublicationNotDenied'
  BY <1>1, <1>2 DEF PublicationNotDenied
<1>8. FaultIsFinal'
  <2>1. evidence = NoEvidence => evidence' = NoEvidence
    <3> SUFFICES ASSUME evidence = NoEvidence PROVE evidence' = NoEvidence
      OBVIOUS
    <3>1. ~evidence.beacon /\ ~evidence.power /\ ~evidence.lease /\ ~evidence.authorized
      BY DEF NoEvidence
    <3>2. ~evidence'.beacon /\ ~evidence'.power /\ ~evidence'.lease /\ ~evidence'.authorized
      BY <1>3, <3>1
    <3> QED
      BY <1>3, <3>2, Zenon DEF EvidenceRecords, NoEvidence, Flag
  <2> QED
    BY <1>1, <1>2, <2>1 DEF AuthorityInv, FaultIsFinal
<1> QED
  BY <1>4, <1>5, <1>6, <1>7, <1>8 DEF AuthorityInv

(* The initial state. *)
LEMMA InitStep ==
    ASSUME AuthorityInit
    PROVE  AuthorityInv
<1>1. NoObservation \in Observations /\ ~NoObservation.sealed
  BY Flags, Zenon DEF NoObservation, Observations, Marks
<1>2. /\ NoEvidence \in EvidenceRecords /\ ~NoEvidence.beacon /\ ~NoEvidence.power
      /\ ~NoEvidence.lease /\ ~NoEvidence.authorized
  BY Flags, Zenon DEF NoEvidence, EvidenceRecords
<1>3. NoAttempt \in AttemptRecords /\ NoAttempt.is = "None" /\ NoAttempt.generation = 0
  BY Flags, Zenon DEF NoAttempt, AttemptRecords
<1>4. \A a \in Axes : Last(a) \in Nat
  BY DEF Last
<1>5. Ranges
  <2>1. gen = [a \in Axes |-> 0] /\ axis = [a \in Axes |-> "Current"] /\ nextObs = 1
    BY Zenon DEF AuthorityInit
  <2>2. /\ gen \in [Axes -> Nat] /\ axis \in [Axes -> {"Current", "Pending", "Unknown"}]
        /\ \A a \in Axes : gen[a] = 0
    BY <2>1
  <2>3. \A a \in Axes : gen[a] <= Last(a)
    BY <1>4, <2>2
  <2>4. nextObs \in 1 .. MaxObservation
    BY <2>1
  <2>5. /\ discovery = NoObservation /\ final = NoObservation /\ evidence = NoEvidence
        /\ target = NoTarget /\ attempt = NoAttempt
    BY Zenon DEF AuthorityInit
  <2> QED
    BY <1>1, <1>2, <1>3, <2>2, <2>3, <2>4, <2>5, BlankTarget, Zenon DEF Ranges
<1>6. Grounded
  <2>1. evidence = NoEvidence /\ final = NoObservation /\ attempt = NoAttempt
    BY Zenon DEF AuthorityInit
  <2> QED
    BY <1>1, <1>2, <1>3, <2>1 DEF Grounded
<1>7. Lineage /\ PublicationNotDenied /\ FaultIsFinal
  BY <1>2, <1>3
  DEF AuthorityInit, Lineage, LineageClosed, PublicationNotDenied, FaultIsFinal, Active, Axes
<1> QED
  BY <1>5, <1>6, <1>7 DEF AuthorityInv

(* The invariant holds in every reachable state. *)
LEMMA AuthorityInvariant == AuthoritySpec => []AuthorityInv
<1>1. AuthorityInit => AuthorityInv
  BY InitStep
<1>2. AuthorityInv /\ [AuthorityNext]_authorityVars => AuthorityInv'
  <2> SUFFICES ASSUME AuthorityInv, [AuthorityNext]_authorityVars PROVE AuthorityInv'
    OBVIOUS
  <2>1. ASSUME NEW cause \in DOMAIN Rules, BeginInvalidation(cause) PROVE AuthorityInv'
    BY <2>1, BeginInvalidationStep
  <2>2. ASSUME NEW a \in Axes, Confirm(a) PROVE AuthorityInv'
    BY <2>2, ConfirmStep
  <2>3. ASSUME NEW a \in Axes, FailAxis(a) PROVE AuthorityInv'
    BY <2>3, FaultStep DEF FailAxis
  <2>4. ASSUME NEW f \in Fingerprints, RecordDiscovery(f) \/ RecordFinalObservation(f)
        PROVE  AuthorityInv'
    BY <2>4, RecordStep
  <2>5. CASE BeginFinalTarget
    BY <2>5, BeginFinalTargetStep
  <2>6. CASE SealFinalObservation
    BY <2>6, SealStep
  <2>7. ASSUME NEW named \in BOOLEAN, MatchingJoin(named) PROVE AuthorityInv'
    BY <2>7, JoinStep
  <2>8. CASE InstallPowerEvidence \/ AuthorizeAttempt
    BY <2>8, GrantStep
  <2>9. CASE ReserveAttempt
    BY <2>9, ReserveStep
  <2>10. CASE StageAttempt \/ Commit \/ Submitted
    BY <2>10, MovesStep
  <2>11. CASE Cancel
    BY <2>11, CancelStep
  <2>12. ASSUME NEW result \in {"Completed", "MayHaveTransmitted", "Contained"},
                FinishAttempt(result)
         PROVE  AuthorityInv'
    BY <2>12, FinishStep
  <2>13. CASE FinishRevokedAttempt
    BY <2>13, FinishStep, Zenon
  <2>14. CASE UNCHANGED authorityVars
    BY <2>14, ZenonT(30) DEF authorityVars, AuthorityInv, Ranges, Grounded, Lineage, LineageClosed,
                 PublicationNotDenied, FaultIsFinal, ObservationIsCurrent, CurrentForObservation
  <2> QED
    BY <2>1, <2>2, <2>3, <2>4, <2>5, <2>6, <2>7, <2>8, <2>9, <2>10, <2>11, <2>12, <2>13, <2>14, Zenon
    DEF AuthorityNext
<1> QED
  BY <1>1, <1>2, PTL DEF AuthoritySpec

(* An attempt to transmit stands on evidence that is current: whatever     *)
(* AuthorityModel leaves leased, authorised or staged rests on a sealed    *)
(* observation of the present target, made under the present generations,  *)
(* with power evidence.  A publication is never denied, counters never     *)
(* wrap and a fault is final.                                              *)
THEOREM AuthorityIsSafe == AuthoritySpec => []AuthoritySafe
<1>1. AuthorityInv => AuthoritySafe
  <2> SUFFICES ASSUME AuthorityInv PROVE AuthoritySafe
    OBVIOUS
  <2>1. AuthorityTypeOK
    <3>1. Ranges
      BY Zenon DEF AuthorityInv
    <3>2. \A a \in Axes : gen[a] \in Nat /\ gen[a] <= Last(a) /\ Last(a) \in Nat
      BY <3>1 DEF Ranges, Last
    <3>3. \A a \in Axes : gen[a] \in 0 .. Last(a)
      BY <3>2
    <3> QED
      BY <3>1, <3>3, Zenon DEF Ranges, AuthorityTypeOK
  <2>2. AttemptOnFreshEvidence
    BY DEF AuthorityInv, Grounded, AttemptOnFreshEvidence, Evident
  <2> QED
    BY <2>1, <2>2 DEF AuthorityInv, AuthoritySafe
<1> QED
  BY <1>1, AuthorityInvariant, PTL

(* finish_attempt, cancel and finish_revoked_attempt select a terminal     *)
(* result once, and reserve_attempt opens the next attempt only when the   *)
(* last one has its result.                                                *)
THEOREM TerminalSelectedOnce == AuthoritySpec => OneTerminalPerAttempt
<1> DEFINE Step == /\ terminal # "none" /\ terminal' # terminal => gen'["Attempt"] > gen["Attempt"]
                   /\ gen'["Attempt"] > gen["Attempt"] /\ gen["Attempt"] > 0 => terminal # "none"
<1>1. AuthorityInv /\ [AuthorityNext]_authorityVars => [Step]_authorityVars
  <2> SUFFICES ASSUME AuthorityInv, AuthorityNext PROVE Step
    OBVIOUS
  <2>1. gen \in [Axes -> Nat] /\ gen["Attempt"] \in Nat
    BY DEF AuthorityInv, Ranges, Axes
  <2>2. CASE gen'["Attempt"] = gen["Attempt"] /\ (terminal' = terminal \/ terminal = "none")
    BY <2>1, <2>2
  <2>3. Fault => terminal' = terminal /\ gen' = gen
    BY DEF Fault
  <2>4. ASSUME NEW cause \in DOMAIN Rules, NEW t, NEW x, Invalidated(cause, t, x)
        PROVE  gen'["Attempt"] = gen["Attempt"] /\ terminal' = terminal
    <3>1. "Attempt" \notin Rules[cause].axes
      BY RuleFacts, Zenon
    <3> QED
      BY <2>3, <2>4, <3>1, Zenon DEF Invalidated, Axes
  <2>5. "Target" \in DOMAIN Rules
    BY Zenon DEF Rules
  <2>6. ASSUME NEW cause \in DOMAIN Rules, BeginInvalidation(cause) PROVE Step
    BY <2>2, <2>4, <2>6 DEF BeginInvalidation
  <2>7. ASSUME NEW a \in Axes, Confirm(a) \/ FailAxis(a) PROVE Step
    BY <2>2, <2>3, <2>7, Zenon DEF Confirm, FailAxis
  <2>8. ASSUME NEW f \in Fingerprints, RecordDiscovery(f) \/ RecordFinalObservation(f) PROVE Step
    BY <2>2, <2>3, <2>8, Zenon DEF RecordDiscovery, RecordFinalObservation, Observes
  <2>9. ASSUME NEW named \in BOOLEAN, BeginFinalTarget \/ MatchingJoin(named) PROVE Step
    BY <2>2, <2>4, <2>5, <2>9 DEF BeginFinalTarget, MatchingJoin
  <2>10. CASE SealFinalObservation \/ InstallPowerEvidence \/ AuthorizeAttempt
    BY <2>2, <2>10 DEF SealFinalObservation, InstallPowerEvidence, AuthorizeAttempt
  <2>11. CASE ReserveAttempt
    <3>1. gen["Attempt"] > 0 => terminal # "none"
      BY <2>11 DEF ReserveAttempt, AuthorityInv, Lineage, LineageClosed
    <3>2. CASE gen["Attempt"] = Last("Attempt")
      BY <2>2, <2>3, <2>11, <3>2 DEF ReserveAttempt
    <3>3. CASE gen["Attempt"] # Last("Attempt")
      <4>1. gen'["Attempt"] = gen["Attempt"] + 1
        BY <2>1, <2>11, <3>3 DEF ReserveAttempt, Axes
      <4> QED
        BY <2>1, <3>1, <4>1
    <3> QED
      BY <3>2, <3>3
  <2>12. CASE StageAttempt \/ Commit \/ Submitted
    BY <2>2, <2>12 DEF StageAttempt, Commit, Submitted, Moves
  <2>13. CASE Cancel
    BY <2>2, <2>13 DEF Cancel
  <2>14. ASSUME NEW result \in {"Completed", "MayHaveTransmitted", "Contained"},
                FinishAttempt(result) \/ FinishRevokedAttempt
         PROVE  Step
    BY <2>2, <2>14 DEF FinishAttempt, FinishRevokedAttempt
  <2> HIDE DEF Step
  <2> QED
    BY <2>6, <2>7, <2>8, <2>9, <2>10, <2>11, <2>12, <2>13, <2>14, Zenon DEF AuthorityNext
<1> QED
  BY <1>1, AuthorityInvariant, PTL DEF AuthoritySpec, OneTerminalPerAttempt
=============================================================================
