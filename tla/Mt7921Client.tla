---- MODULE Mt7921Client ----
(***************************************************************************)
(* What the MT7921 driver believes the firmware holds for its one client    *)
(* association (ClientFirmwareEffectsState): the BSS, the peer record (WCID), *)
(* the keys, the receive filter, the controlled port and the generations    *)
(* that authorise frames.                                                   *)
(*                                                                         *)
(* Every submitted command has one of three outcomes: acknowledged, failed, *)
(* or "lost": carried out by the firmware although the driver sees an error. *)
(* What the firmware really holds is fw, which no handler reads.           *)
(***************************************************************************)
EXTENDS Integers, FiniteSets

CONSTANTS
    Tokens,          \* transmit tokens
    Peers,           \* the peers joined, each <<qos, mfp>>
    Tids,            \* traffic identifiers of received frames, below 16
    MaxPn,           \* largest packet number received or announced
    MaxGeneration,   \* bound: generations minted and channel leases given
    MaxHidden        \* bound: kinds of unrecorded effects

ASSUME ClientAssumption ==
    /\ Peers \subseteq BOOLEAN \X BOOLEAN
    /\ Tids \subseteq 0 .. 15
    /\ MaxPn \in Nat /\ MaxGeneration \in Nat \ {0} /\ MaxHidden \in Nat

VARIABLES
    st,        \* the fields of ClientFirmwareEffectsState
    fw,        \* what the firmware holds
    lease,     \* generation of the current channel lease
    taken,     \* <<key, tid, pn>> used up under the keys now installed: accepted
               \* since the last install, or announced as used by it
    replayed,  \* a packet number already used up was accepted
    hidden     \* what a lost reply left in the firmware without a record of it

clientVars == <<st, fw, lease, taken, replayed, hidden>>

Outcome == {"ok", "fail", "lost"}
Lands(o) == o \in {"ok", "lost"}

NoPeer == [on |-> FALSE, qos |-> FALSE, mfp |-> FALSE]
Peer(qos, mfp) == [on |-> TRUE, qos |-> qos, mfp |-> mfp]

\* A replay counter for each traffic identifier, as an install with rsc leaves them;
\* those of a key that is not installed (None) are never read.
Counters(rsc) == [tid \in Tids |-> rsc]
NoCounters == Counters(0)

Fresh == [joined |-> 0, bss |-> FALSE, preauth |-> FALSE, assoc |-> NoPeer, edca |-> FALSE,
          iface |-> FALSE, filter |-> FALSE, rlm |-> FALSE, ptk |-> FALSE, ptkDirty |-> FALSE,
          gtk |-> FALSE, igtk |-> FALSE, bcDirty |-> FALSE, port |-> FALSE, uncertain |-> FALSE,
          minted |-> 0, assocGen |-> 0, authGen |-> 0, tx |-> {}, ptkPn |-> NoCounters,
          gtkPn |-> NoCounters, wcid |-> FALSE]

ClientInit ==
    /\ st = Fresh
    /\ fw = [bss |-> FALSE, wcid |-> FALSE, ptk |-> FALSE, bc |-> FALSE, filter |-> FALSE]
    /\ lease = 1
    /\ taken = {}
    /\ replayed = FALSE
    /\ hidden = {}

(***************************************************************************)
(* Joining and the peer record used for authentication.                     *)
(***************************************************************************)
Retune ==
    /\ lease < MaxGeneration
    /\ lease' = lease + 1
    /\ UNCHANGED <<st, fw, taken, replayed, hidden>>

BindJoin ==
    /\ ~st.preauth /\ ~st.assoc.on /\ ~st.bss /\ ~st.uncertain
    /\ st.joined \in {0, lease}
    /\ st' = [st EXCEPT !.joined = lease]
    /\ UNCHANGED <<fw, lease, taken, replayed, hidden>>

AllocatePeerWcid ==
    /\ ~st.wcid /\ ~st.preauth /\ ~st.assoc.on
    /\ st' = [st EXCEPT !.wcid = TRUE]
    /\ UNCHANGED <<fw, lease, taken, replayed, hidden>>

\* Four commands: initial record, BSS, channel parameters, peer record.  The one
\* numbered at (0: none) is not acknowledged; the record is then always removed
\* again, the BSS only when its command was acknowledged.
PreauthRolledBack_FreesAnyway(rw, rb) ==
    [st EXCEPT !.bss = FALSE, !.uncertain = rw # "ok" \/ rb # "ok", !.wcid = FALSE]

PreauthRolledBack(rw, rb) ==
    LET clean == rw = "ok" /\ rb = "ok"
    IN  [st EXCEPT !.bss = ~clean, !.uncertain = ~clean, !.wcid = IF clean THEN FALSE ELSE @]

PreparePreauthPeer(at, landed, rw, rb) ==
    /\ st.joined = lease /\ st.wcid
    /\ ~st.assoc.on /\ ~st.bss /\ ~st.uncertain /\ ~st.preauth
    /\ at = 0 => rw = "ok" /\ ~landed
    /\ at <= 2 => rb = "ok"
    /\ IF at = 0
       THEN /\ st' = [st EXCEPT !.bss = TRUE, !.preauth = TRUE]
            /\ fw' = [fw EXCEPT !.wcid = TRUE, !.bss = TRUE]
            /\ UNCHANGED hidden
       ELSE /\ st' = IF at > 2 THEN PreauthRolledBack(rw, rb)
                     ELSE [PreauthRolledBack(rw, "ok") EXCEPT !.bss = FALSE]
            /\ fw' = [fw EXCEPT
                        !.wcid = (@ \/ at > 1 \/ landed) /\ ~Lands(rw),
                        !.bss = @ \/ (at = 2 /\ landed) \/ (at > 2 /\ ~Lands(rb))]
            /\ hidden' = hidden
                 \cup (IF at = 2 /\ landed THEN {"bss"} ELSE {})
                 \cup (IF rw # "ok" THEN {"wcid"} ELSE {})
            /\ Cardinality(hidden') <= MaxHidden
    /\ UNCHANGED <<lease, taken, replayed>>

(***************************************************************************)
(* Association: BSS, channel parameters, a host boundary, peer record.  The *)
(* BSS is recorded before it is submitted.                                 *)
(***************************************************************************)
Associate(peer, at, rw, rb) ==
    /\ st.joined = lease /\ st.preauth
    /\ ~st.assoc.on /\ st.bss /\ ~st.uncertain
    /\ st.minted < MaxGeneration
    /\ at = 0 => rb = "ok"
    /\ at # 4 => rw = "ok"
    /\ IF at = 0
       THEN /\ st' = [st EXCEPT !.assoc = peer, !.rlm = TRUE, !.minted = @ + 1,
                                !.assocGen = st.minted + 1]
            /\ fw' = [fw EXCEPT !.bss = TRUE, !.wcid = TRUE]
       ELSE /\ st' = [st EXCEPT !.bss = rb # "ok",
                                !.rlm = IF at < 3 THEN @ ELSE rb # "ok",
                                !.port = IF at = 4 THEN FALSE ELSE @,
                                !.preauth = @ /\ ~(at = 4 /\ rw = "ok"),
                                !.wcid = @ /\ ~(at = 4 /\ rw = "ok"),
                                !.uncertain = rb # "ok" \/ rw # "ok"]
            /\ fw' = [fw EXCEPT !.bss = ~Lands(rb), !.wcid = @ /\ ~(at = 4 /\ Lands(rw))]
    /\ UNCHANGED <<lease, taken, replayed, hidden>>

ProgramEdca(o) ==
    /\ st.assoc.on /\ st.assoc.qos /\ ~st.edca /\ ~st.uncertain
    /\ st' = [st EXCEPT !.edca = o = "ok", !.uncertain = o # "ok"]
    /\ UNCHANGED <<fw, lease, taken, replayed, hidden>>

\* Interface, power state, receive filter; the filter is recorded after it was
\* submitted and its command is not acknowledged.
CompletePostAssocInterface(at, landed) ==
    /\ landed => at = 3
    /\ st.assoc.on /\ st.rlm /\ ~st.iface /\ ~st.filter /\ ~st.uncertain
    /\ st.assoc.qos => st.edca
    /\ st' = [st EXCEPT !.iface = at \in {0, 2, 3}, !.filter = at = 0, !.uncertain = at # 0]
    /\ fw' = [fw EXCEPT !.filter = @ \/ at = 0 \/ (at = 3 /\ landed)]
    /\ hidden' = hidden \cup (IF at = 3 /\ landed THEN {"filter"} ELSE {})
    /\ Cardinality(hidden') <= MaxHidden
    /\ UNCHANGED <<lease, taken, replayed>>

(***************************************************************************)
(* teardown, as the commands it submits in order.  It stops at the first    *)
(* one that is not acknowledged (at), which may have landed; what the       *)
(* acknowledged ones undid is forgotten.                                   *)
(***************************************************************************)
Revoked(s) == [s EXCEPT !.port = FALSE, !.edca = FALSE, !.iface = FALSE, !.rlm = FALSE,
                        !.authGen = 0]

TeardownSteps(s) ==
    (IF s.filter THEN {"filter"} ELSE {})
    \cup (IF s.assoc.on
          THEN (IF s.bcDirty THEN {"bc"} ELSE {}) \cup (IF s.ptkDirty THEN {"ptk"} ELSE {})
               \cup {"wcid", "bss"}
          ELSE (IF s.preauth THEN {"wcid"} ELSE {}) \cup (IF s.bss THEN {"bss"} ELSE {}))

Order(x) == CASE x = "filter" -> 1 [] x = "bc" -> 2 [] x = "ptk" -> 3 [] x = "wcid" -> 4 [] x = "bss" -> 5

\* The record after the steps in done were acknowledged.  The peer record of an
\* association is forgotten only with its BSS.
Forgotten(s, done) ==
    LET plain == ~s.assoc.on
        gone == plain /\ "wcid" \in done
    IN  [s EXCEPT !.filter = @ /\ "filter" \notin done,
                  !.gtk = @ /\ "bc" \notin done, !.igtk = @ /\ "bc" \notin done,
                  !.bcDirty = @ /\ "bc" \notin done,
                  !.gtkPn = IF "bc" \in done THEN NoCounters ELSE @,
                  !.ptk = @ /\ "ptk" \notin done, !.ptkDirty = @ /\ "ptk" \notin done,
                  !.ptkPn = IF "ptk" \in done THEN NoCounters ELSE @,
                  !.preauth = @ /\ ~gone, !.wcid = @ /\ ~gone,
                  !.bss = @ /\ ~(plain /\ "bss" \in done)]

TornDown(s) ==
    [Forgotten(s, TeardownSteps(s)) EXCEPT
        !.joined = 0, !.bss = FALSE, !.preauth = FALSE, !.assoc = NoPeer, !.assocGen = 0,
        !.wcid = IF s.assoc.on THEN FALSE ELSE @, !.uncertain = FALSE,
        !.gtk = FALSE, !.ptk = FALSE, !.igtk = FALSE, !.ptkDirty = FALSE, !.bcDirty = FALSE,
        !.ptkPn = NoCounters, !.gtkPn = NoCounters]

Erased(f, done) ==
    [f EXCEPT !.filter = @ /\ "filter" \notin done, !.bc = @ /\ "bc" \notin done,
              !.ptk = @ /\ "ptk" \notin done, !.wcid = @ /\ "wcid" \notin done,
              !.bss = @ /\ "bss" \notin done]

Contained(s) == s.tx = {}

\* s: the record, f: the firmware when teardown is entered.  A key it removes ends the
\* history of what was accepted under it.
Teardown(s, f, at, landed) ==
    LET r == Revoked(s)
        steps == TeardownSteps(r)
        done == {x \in steps : Order(x) < at}
        next == {x \in steps : Order(x) = at}
    IN  IF ~Contained(s)
        THEN /\ at = 6
             /\ st' = [r EXCEPT !.uncertain = TRUE]
             /\ fw' = f
        ELSE IF at = 6
        THEN /\ st' = TornDown(r)
             /\ fw' = Erased(f, steps)
        ELSE /\ next # {}
             /\ st' = [Forgotten(r, done) EXCEPT !.uncertain = TRUE]
             /\ fw' = Erased(f, IF landed THEN done \cup next ELSE done)

StillTaken == {x \in taken : IF x[1] = "ptk" THEN st'.ptk ELSE st'.gtk}

TeardownAll(at, landed) ==
    /\ landed => at # 6
    /\ Teardown(st, fw, at, landed)
    /\ taken' = StillTaken
    /\ UNCHANGED <<lease, replayed, hidden>>

(***************************************************************************)
(* Keys.  A key is marked dirty before it is submitted; an install that is  *)
(* not acknowledged closes the port and tears everything down.  An         *)
(* acknowledged one sets all the key's replay counters to rsc, the receive  *)
(* sequence counter the authenticator announces, its reserved octets masked *)
(* away; nothing compares the key with the one it replaces, so installing   *)
(* the same key again starts its counters anew.                            *)
(***************************************************************************)
Dirtied(s, key, o) ==
    CASE key = "ptk" -> [s EXCEPT !.ptkDirty = TRUE]
      [] key \in {"gtk", "igtk"} -> [s EXCEPT !.bcDirty = TRUE]

InstallKey(key, rsc, o, at, landed) ==
    LET dirty == Dirtied(st, key, o)
        f == IF ~Lands(o) THEN fw ELSE IF key = "ptk" THEN [fw EXCEPT !.ptk = TRUE]
                                       ELSE [fw EXCEPT !.bc = TRUE]
    IN  /\ st.assoc.on
        /\ key = "igtk" => st.gtk
        /\ key = "igtk" \/ o # "ok" => rsc = 0
        /\ landed => at # 6
        /\ IF o = "ok"
           THEN /\ at = 6 /\ ~landed
                /\ st' = CASE key = "ptk" -> [dirty EXCEPT !.ptk = TRUE, !.ptkPn = Counters(rsc)]
                           [] key = "gtk" -> [dirty EXCEPT !.gtk = TRUE, !.gtkPn = Counters(rsc)]
                           [] key = "igtk" -> [dirty EXCEPT !.igtk = TRUE]
                /\ fw' = f
                /\ taken' = {x \in taken : x[1] # key} \cup ({key} \X Tids \X (1 .. rsc))
           ELSE /\ Teardown([dirty EXCEPT !.port = FALSE, !.uncertain = TRUE], f, at, landed)
                /\ taken' = StillTaken
        /\ UNCHANGED <<lease, replayed, hidden>>

(***************************************************************************)
(* The controlled port, transmission and reception.                        *)
(***************************************************************************)
ClosePort ==
    /\ st' = [st EXCEPT !.port = FALSE, !.authGen = 0]
    /\ UNCHANGED <<fw, lease, taken, replayed, hidden>>

OpenPort ==
    /\ ~st.port /\ st.assoc.on /\ ~st.uncertain
    /\ st.ptk /\ st.gtk /\ (st.assoc.mfp => st.igtk)
    /\ st.minted < MaxGeneration
    /\ st' = [st EXCEPT !.port = TRUE, !.minted = @ + 1, !.authGen = st.minted + 1]
    /\ UNCHANGED <<fw, lease, taken, replayed, hidden>>

\* tx_generation: EAPOL frames go with the association, data with the open port.
Generation(eapol) == IF eapol THEN st.assocGen ELSE st.authGen

PublishTx(token, eapol) ==
    /\ Generation(eapol) # 0
    /\ \A x \in st.tx : x[1] # token
    /\ st' = [st EXCEPT !.tx = @ \cup {<<token, Generation(eapol)>>}]
    /\ UNCHANGED <<fw, lease, taken, replayed, hidden>>

CompleteTx(token) ==
    /\ \E x \in st.tx : x[1] = token /\ st' = [st EXCEPT !.tx = @ \ {x}]
    /\ UNCHANGED <<fw, lease, taken, replayed, hidden>>

Accepted(key, tid, pn) ==
    /\ taken' = taken \cup {<<key, tid, pn>>}
    /\ replayed' = (replayed \/ <<key, tid, pn>> \in taken)
    /\ UNCHANGED <<fw, lease, hidden>>

\* deliver_rx with a protected frame of the key in use (a group frame under another
\* key id is refused); unprotected EAPOL changes nothing.
DeliverRx(eapol, group, tid, pn) ==
    /\ Generation(eapol) # 0
    /\ IF group THEN /\ st.gtk /\ pn > st.gtkPn[tid]
                     /\ st' = [st EXCEPT !.gtkPn[tid] = pn]
                     /\ Accepted("gtk", tid, pn)
       ELSE /\ st.ptk /\ pn > st.ptkPn[tid]
            /\ st' = [st EXCEPT !.ptkPn[tid] = pn]
            /\ Accepted("ptk", tid, pn)

\* Robust management frames share the pairwise counter of their traffic identifier
\* with data.
DeliverProtectedManagementRx(tid, pn) ==
    /\ st.assocGen # 0 /\ st.assoc.mfp /\ st.ptk /\ ~st.uncertain
    /\ pn > st.ptkPn[tid]
    /\ st' = [st EXCEPT !.ptkPn[tid] = pn]
    /\ Accepted("ptk", tid, pn)

Stops == 1 .. 6

ClientNext ==
    \/ Retune
    \/ BindJoin
    \/ AllocatePeerWcid
    \/ \E at \in 0 .. 4, landed \in BOOLEAN, rw, rb \in Outcome :
          PreparePreauthPeer(at, landed, rw, rb)
    \/ \E p \in Peers, at \in 0 .. 4, rw, rb \in Outcome : Associate(Peer(p[1], p[2]), at, rw, rb)
    \/ \E o \in Outcome : ProgramEdca(o)
    \/ \E at \in 0 .. 3, landed \in BOOLEAN : CompletePostAssocInterface(at, landed)
    \/ \E at \in Stops, landed \in BOOLEAN : TeardownAll(at, landed)
    \/ \E key \in {"ptk", "gtk", "igtk"}, rsc \in 0 .. MaxPn, o \in Outcome, at \in Stops,
          landed \in BOOLEAN : InstallKey(key, rsc, o, at, landed)
    \/ ClosePort
    \/ OpenPort
    \/ \E token \in Tokens, eapol \in BOOLEAN : PublishTx(token, eapol)
    \/ \E token \in Tokens : CompleteTx(token)
    \/ \E eapol, group \in BOOLEAN, tid \in Tids, pn \in 1 .. MaxPn :
          DeliverRx(eapol, group, tid, pn)
    \/ \E tid \in Tids, pn \in 1 .. MaxPn : DeliverProtectedManagementRx(tid, pn)

ClientSpec == ClientInit /\ [][ClientNext]_clientVars

(***************************************************************************)
(* Properties.                                                             *)
(***************************************************************************)

\* Fields stay in their ranges.
ClientTypeOK ==
    /\ st.joined \in 0 .. MaxGeneration /\ st.minted \in 0 .. MaxGeneration
    /\ st.assocGen \in 0 .. st.minted /\ st.authGen \in 0 .. st.minted
    /\ st.ptkPn \in [Tids -> 0 .. MaxPn] /\ st.gtkPn \in [Tids -> 0 .. MaxPn]
    /\ \A x \in st.tx : x[1] \in Tokens

\* A key the firmware may hold is recorded as dirty under a live association, so
\* that teardown cannot skip its removal: install_ptk, install_gtk and
\* install_igtk mark it before the command whose reply may be lost.
KeysAccounted ==
    /\ fw.ptk => st.ptkDirty /\ st.assoc.on
    /\ fw.bc => st.bcDirty /\ st.assoc.on

\* A peer slot (WCID) the firmware may still use is never handed out again:
\* it is freed only after the removal of its record was acknowledged.
SlotNotReused == fw.wcid => st.wcid

\* Without an association and with nothing left uncertain the firmware holds
\* neither BSS nor peer nor key nor filter, unless a lost reply left it there
\* unrecorded: the preauthentication BSS and the receive filter are recorded
\* after their command, and a failed removal of the preauthentication record is
\* forgotten by the next teardown.
CleanWhenIdle ==
    st.joined = 0 /\ ~st.uncertain =>
        /\ ~fw.ptk /\ ~fw.bc
        /\ fw.bss => "bss" \in hidden
        /\ fw.wcid => "wcid" \in hidden
        /\ fw.filter => "filter" \in hidden

\* Data frames are authorised exactly while the controlled port is open, and it is
\* open only with every mandatory key acknowledged and still in the firmware.
PortAuthorised ==
    /\ st.port = (st.authGen # 0)
    /\ st.port => /\ st.assoc.on /\ st.ptk /\ st.gtk /\ (st.assoc.mfp => st.igtk)
                  /\ fw.ptk /\ fw.bc

\* No frame is in flight across a teardown: each outstanding token belongs to the
\* live association (teardown refuses until transmission is contained).
TxInsideAssociation ==
    st.tx # {} => st.assoc.on /\ \A x \in st.tx : x[2] >= st.assocGen

\* Between two installs of a key no packet number is accepted twice on one traffic
\* identifier, whether it arrives as data or as a protected management frame, and
\* none that the install announced as used is accepted on any.  The counters are
\* kept for each traffic identifier (ptk_rx_pn, gtk_rx_pn): the same number is
\* accepted once on each of two, and again once its key has been reinstalled.
NoReplay == ~replayed

\* The keys, the slot, the port and the frames of the one association are accounted
\* for on both sides, whatever commands failed or lost their reply.
ClientSafe ==
    /\ ClientTypeOK /\ KeysAccounted /\ SlotNotReused /\ CleanWhenIdle /\ PortAuthorised
    /\ TxInsideAssociation /\ NoReplay
=============================================================================
