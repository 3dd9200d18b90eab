----------------------- MODULE Ath11kCopyEngineProofs -----------------------
(***************************************************************************)
(* Proofs about the copy-engine pipes, for every ring size, every number   *)
(* of frames and faults, and whether or not the device reports bad lengths. *)
(***************************************************************************)
EXTENDS Ath11kCopyEngine, FiniteSetTheorems, TLAPS

USE RingAssumption DEF RingAssumption

(* The truth values, a name the provers are given BOOLEAN for only where   *)
(* they need it.                                                           *)
Flag == BOOLEAN

Buffers == [frame : Nat, cpu : Flag, live : Flag]

Rings ==
    [head : Slots, reap : Slots, pub : Slots, tail : Slots, rdp : Slots,
     desc : [Slots -> Nat], slots : [Slots -> Buffers]]

StatusRings ==
    [head : Slots, tail : Slots, pub : Slots, length : [Slots -> {"zero", "ok", "bad"}]]

Pendings == [at : Slots, frame : Nat, cleared : Flag, some : Flag]

(* How far y lies behind x, going round the ring, and how far each entry   *)
(* lies behind x.                                                          *)
Dist(x, y) == IF x <= y THEN y - x ELSE y + Entries - x
Offsets(x) == [i \in Slots |-> Dist(x, i)]

(* The source ring r, counted from the first entry not yet reaped, when    *)
(* the device has sent the frames s.  The device's pointer as written back,*)
(* the device's pointer and the head follow each other; exactly the        *)
(* entries before the head hold a buffer, and they hold the frames in the  *)
(* order of their acceptance, the next one to be sent where the device     *)
(* stands.                                                                 *)
First(r) == Next1(r.reap)

Unsent(r, n) == {i \in Slots : r.slots[i].live /\ r.slots[i].frame > n}

SourceAt(r, s, o) ==
    /\ r \in Rings /\ s \in Seq(Nat) /\ InOrder(s)
    /\ r.pub = r.head
    /\ o[r.rdp] <= o[r.tail] /\ o[r.tail] <= o[r.head]
    /\ \A i \in Slots : r.slots[i].live <=> o[i] < o[r.head]
    /\ \A i \in Slots : r.slots[i].live =>
          /\ r.desc[i] = r.slots[i].frame
          /\ r.slots[i].frame = Len(s) + 1 + o[i] - o[r.tail]
    /\ Cardinality(Unsent(r, Len(s))) = o[r.head] - o[r.tail]

SourceSound(r, s) == SourceAt(r, s, Offsets(First(r)))

(* The destination ring d with its status ring t.  The software index is   *)
(* the status ring's tail and the device's pointer its head, so that the   *)
(* entries between them are the buffers filled and not completed; they     *)
(* hold the frames in order.  Behind them, up to the head, are the buffers *)
(* posted, which the CPU has not touched.  A kept payload is the one of    *)
(* the entry at the tail.                                                  *)
Live(d) == {i \in Slots : d.slots[i].live}

ReceiveShape(d, t, at, p, n, k, f, o) ==
    /\ d \in Rings /\ t \in StatusRings /\ at \in Slots /\ p \in Pendings
    /\ n \in Nat /\ k \in Seq(Nat) /\ f \in Nat /\ InOrder(k)
    /\ d.pub = d.head /\ t.pub = t.tail /\ t.tail = at /\ t.head = d.tail
    /\ o[d.tail] <= o[d.head]
    /\ n + o[d.head] = Entries - 2
    /\ f = Len(k) + o[d.tail]

ReceiveBuffers(d, o) ==
    /\ \A i \in Slots : d.slots[i].live <=> o[i] < o[d.head]
    /\ \A i \in Slots : o[d.tail] <= o[i] /\ o[i] < o[d.head] => ~d.slots[i].cpu
    /\ Cardinality(Live(d)) = o[d.head]

ReceiveFrames(d, t, at, p, k, bad, o) ==
    /\ \A i \in Slots : o[i] < o[d.tail] =>
          /\ d.slots[i].frame = Len(k) + 1 + o[i]
          /\ t.length[i] = "ok" \/ bad \/ (i = at /\ p.some)
    /\ p.some => p.at = at /\ at # d.tail /\ p.frame = Len(k) + 1

ReceiveAt(d, t, at, p, n, k, f, bad, o) ==
    /\ ReceiveShape(d, t, at, p, n, k, f, o) /\ ReceiveBuffers(d, o)
    /\ ReceiveFrames(d, t, at, p, k, bad, o)

ReceiveSound(d, t, at, p, n, k, f, bad) ==
    ReceiveAt(d, t, at, p, n, k, f, bad, Offsets(at))

(* A frame completed by receive_htc is the only one it holds, and nothing  *)
(* is held between two calls.                                              *)
Held ==
    /\ batch \in Seq(Nat)
    /\ pc = "refill" => Len(batch) = 1
    /\ pc \notin {"refill", "service_rx", "service_post"} => batch = <<>>

CeInv ==
    /\ SourceSound(src, seen)
    /\ ReceiveSound(dst, sts, soft, pending, needed, taken, filled, spoilt)
    /\ Held
    /\ error = "invalid" => spoilt

-----------------------------------------------------------------------------
(* The next entry: the one after, or the first. *)
LEMMA NextIs ==
    ASSUME NEW i \in Slots
    PROVE  Next1(i) \in Slots /\ Next1(i) = IF i + 1 = Entries THEN 0 ELSE i + 1
<1>1. CASE i + 1 = Entries
  <2>1. Entries % Entries = 0
    OBVIOUS
  <2> QED
    BY <1>1, <2>1 DEF Next1, Slots
<1>2. CASE i + 1 # Entries
  <2>1. i + 1 \in 0 .. Entries - 1
    BY <1>2 DEF Slots
  <2>2. (i + 1) % Entries = i + 1
    BY <2>1
  <2> QED
    BY <1>2, <2>1, <2>2, Zenon DEF Next1, Slots
<1> QED
  BY <1>1, <1>2, Zenon

(* The distance as Between computes it. *)
LEMMA DistIs ==
    ASSUME NEW x \in Slots, NEW y \in Slots
    PROVE  (y + Entries - x) % Entries = Dist(x, y)
<1>1. CASE x <= y
  <2>1. y - x \in 0 .. Entries - 1 /\ y + Entries - x = (y - x) + Entries
    BY <1>1 DEF Slots
  <2>2. ((y - x) + Entries) % Entries = y - x
    BY <2>1
  <2> QED
    BY <1>1, <2>1, <2>2, Zenon DEF Dist
<1>2. CASE ~(x <= y)
  <2>1. y + Entries - x \in 0 .. Entries - 1
    BY <1>2 DEF Slots
  <2>2. (y + Entries - x) % Entries = y + Entries - x
    BY <2>1
  <2> QED
    BY <1>2, <2>2, Zenon DEF Dist
<1> QED
  BY <1>1, <1>2, Zenon

(* Where the entries lie. *)
LEMMA OffsetFacts ==
    ASSUME NEW x \in Slots, NEW o, o = Offsets(x)
    PROVE  /\ o \in [Slots -> 0 .. Entries - 1] /\ o[x] = 0
           /\ \A i, j \in Slots : o[i] = o[j] => i = j
<1>1. \A i \in Slots : o[i] = Dist(x, i)
  BY Zenon DEF Offsets
<1>2. o \in [Slots -> 0 .. Entries - 1]
  BY DEF Offsets, Dist, Slots
<1>3. o[x] = 0 /\ \A i, j \in Slots : o[i] = o[j] => i = j
  BY <1>1 DEF Dist, Slots
<1> QED
  BY <1>2, <1>3, Zenon

(* The next entry lies one further, except past the last.                  *)
LEMMA OffsetNext ==
    ASSUME NEW x \in Slots, NEW i \in Slots, NEW o, o = Offsets(x)
    PROVE  /\ Next1(i) \in Slots /\ (o[i] + 1 < Entries => o[Next1(i)] = o[i] + 1)
           /\ Next1(i) = x => o[i] = Entries - 1
<1>1. Next1(i) \in Slots /\ Next1(i) = IF i + 1 = Entries THEN 0 ELSE i + 1
  BY NextIs, Zenon
<1>2. o[i] = Dist(x, i) /\ o[Next1(i)] = Dist(x, Next1(i))
  BY <1>1, Zenon DEF Offsets
<1> QED
  BY <1>1, <1>2 DEF Dist, Slots

(* Where they lie, counted from the next entry. *)
LEMMA OffsetShift ==
    ASSUME NEW x \in Slots, NEW i \in Slots, i # x
    PROVE  Offsets(Next1(x))[i] = Offsets(x)[i] - 1
<1>1. Next1(x) \in Slots /\ Next1(x) = IF x + 1 = Entries THEN 0 ELSE x + 1
  BY NextIs, Zenon
<1>2. Offsets(Next1(x))[i] = Dist(Next1(x), i) /\ Offsets(x)[i] = Dist(x, i)
  BY Zenon DEF Offsets
<1> QED
  BY <1>1, <1>2 DEF Dist, Slots

(* Between, counted from an entry that lies before both ends. *)
LEMMA BetweenIs ==
    ASSUME NEW b \in Slots, NEW x \in Slots, NEW y \in Slots, NEW o, o = Offsets(b), o[x] <= o[y],
           NEW i \in Between(x, y)
    PROVE  i \in Slots /\ o[x] <= o[i] /\ o[i] < o[y]
<1>1. i \in Slots /\ Dist(x, i) < Dist(x, y)
  BY DistIs, Zenon DEF Between
<1>2. o[x] = Dist(b, x) /\ o[y] = Dist(b, y) /\ o[i] = Dist(b, i)
  BY <1>1, Zenon DEF Offsets
<1> QED
  BY <1>1, <1>2 DEF Dist, Slots
-----------------------------------------------------------------------------
(* The truth values are flags. *)
LEMMA Flags == TRUE \in Flag /\ FALSE \in Flag
BY Zenon DEF Flag

(* Sets of entries are finite. *)
LEMMA SlotsFinite ==
    ASSUME NEW S \in SUBSET Slots
    PROVE  IsFiniteSet(S) /\ Cardinality(S) \in Nat
<1>1. IsFiniteSet(0 .. Entries - 1)
  BY FS_Interval
<1>2. IsFiniteSet(S)
  BY <1>1, FS_Subset, Zenon DEF Slots
<1> QED
  BY <1>2, FS_CardinalityType, Zenon

(* The frames appended in order stay in order. *)
LEMMA OrderKept ==
    ASSUME NEW s \in Seq(Nat), InOrder(s), NEW n, n = Len(s) + 1, NEW t, t = Append(s, n)
    PROVE  t \in Seq(Nat) /\ Len(t) = Len(s) + 1 /\ InOrder(t)
<1>1. Len(s) \in Nat /\ n \in Nat
  OBVIOUS
<1>2. t \in Seq(Nat) /\ Len(t) = Len(s) + 1
  BY <1>1
<1>3. \A i \in 1 .. Len(t) : t[i] = IF i <= Len(s) THEN s[i] ELSE n
  BY <1>1, <1>2
<1>4. InOrder(t)
  BY <1>1, <1>2, <1>3 DEF InOrder
<1> QED
  BY <1>2, <1>4, Zenon

(* The buffers of the model. *)
LEMMA BufferFacts ==
    /\ Empty \in Buffers /\ ~Empty.live /\ Posted \in Buffers /\ Posted.live /\ ~Posted.cpu
    /\ \A n \in Nat : Loaded(n) \in Buffers /\ Loaded(n).live /\ Loaded(n).frame = n
<1>1. Empty \in Buffers /\ ~Empty.live /\ ~Empty.cpu
  BY Flags, Zenon DEF Empty, Buffers
<1>3. Posted \in Buffers /\ Posted.live /\ ~Posted.cpu
  BY <1>1, Flags, Zenon DEF Posted, Buffers
<1>4. ASSUME NEW n \in Nat
      PROVE  Loaded(n) \in Buffers /\ Loaded(n).live /\ Loaded(n).frame = n
  BY <1>3, Zenon DEF Loaded, Buffers
<1> QED
  BY <1>1, <1>3, <1>4, Zenon

(* What the operations on a ring change. *)
IsPublished(t, r, b) ==
    /\ t \in Rings /\ t.head = Next1(r.head) /\ t.pub = Next1(r.head)
    /\ t.reap = r.reap /\ t.tail = r.tail /\ t.rdp = r.rdp
    /\ t.desc = [r.desc EXCEPT ![r.head] = b.frame]
    /\ t.slots = [r.slots EXCEPT ![r.head] = b]

IsWithdrawn(t, r, b) ==
    /\ t \in Rings /\ t.head = r.head /\ t.pub = r.pub
    /\ t.reap = r.reap /\ t.tail = r.tail /\ t.rdp = r.rdp
    /\ t.desc = [r.desc EXCEPT ![r.head] = b.frame]
    /\ t.slots = [r.slots EXCEPT ![r.head] = Empty]

(* A publication does so. *)
LEMMA PublishedFields ==
    ASSUME NEW r \in Rings, NEW b \in Buffers, NEW t, t = Published(r, b)
    PROVE  IsPublished(t, r, b)
<1> DEFINE d == [r.desc EXCEPT ![r.head] = b.frame]
           l == [r.slots EXCEPT ![r.head] = b]
           h == Next1(r.head)
<1>1. r.head \in Slots /\ r.desc \in [Slots -> Nat] /\ r.slots \in [Slots -> Buffers]
  BY Zenon DEF Rings
<1>2. d \in [Slots -> Nat] /\ l \in [Slots -> Buffers] /\ h \in Slots
  BY <1>1, NextIs, Zenon DEF Buffers
<1>3. t = [r EXCEPT !.desc = d, !.slots = l, !.head = h, !.pub = h]
  BY Zenon DEF Published, Rings
<1> HIDE DEF d, l, h
<1>4. /\ t \in Rings /\ t.head = h /\ t.pub = h /\ t.desc = d /\ t.slots = l
      /\ t.reap = r.reap /\ t.tail = r.tail /\ t.rdp = r.rdp
  BY <1>2, <1>3, Zenon DEF Rings
<1> QED
  BY <1>4, Zenon DEF d, l, h, IsPublished

(* The same of a withdrawal. *)
LEMMA WithdrawnFields ==
    ASSUME NEW r \in Rings, NEW b \in Buffers, NEW t, t = Withdrawn(r, b)
    PROVE  IsWithdrawn(t, r, b)
<1> DEFINE d == [r.desc EXCEPT ![r.head] = b.frame]
           l == [r.slots EXCEPT ![r.head] = Empty]
<1>1. r.head \in Slots /\ r.desc \in [Slots -> Nat] /\ r.slots \in [Slots -> Buffers]
  BY Zenon DEF Rings
<1>2. d \in [Slots -> Nat] /\ l \in [Slots -> Buffers]
  BY <1>1, BufferFacts, Zenon DEF Buffers
<1>3. t = [r EXCEPT !.desc = d, !.slots = l]
  BY Zenon DEF Withdrawn, Rings
<1> HIDE DEF d, l
<1>4. /\ t \in Rings /\ t.head = r.head /\ t.pub = r.pub /\ t.desc = d /\ t.slots = l
      /\ t.reap = r.reap /\ t.tail = r.tail /\ t.rdp = r.rdp
  BY <1>2, <1>3, Zenon DEF Rings
<1> QED
  BY <1>4, Zenon DEF d, l, IsWithdrawn

(* The same of a reclaimed entry. *)
LEMMA ReapedFields ==
    ASSUME NEW r \in Rings, NEW t, t = Reaped(r)
    PROVE  /\ t \in Rings /\ t.head = r.head /\ t.pub = r.pub /\ t.reap = First(r)
           /\ t.tail = r.tail /\ t.rdp = r.rdp /\ t.desc = r.desc
           /\ t.slots = [r.slots EXCEPT ![First(r)] = Empty]
<1> DEFINE l == [r.slots EXCEPT ![First(r)] = Empty]
           f == First(r)
<1>1. r.reap \in Slots /\ r.slots \in [Slots -> Buffers]
  BY Zenon DEF Rings
<1>2. l \in [Slots -> Buffers] /\ f \in Slots
  BY <1>1, BufferFacts, NextIs, Zenon DEF First
<1>3. t = [r EXCEPT !.reap = f, !.slots = l]
  BY Zenon DEF Reaped, ReapNext, First, Rings
<1> HIDE DEF l, f
<1>4. /\ t \in Rings /\ t.head = r.head /\ t.pub = r.pub /\ t.reap = f /\ t.slots = l
      /\ t.tail = r.tail /\ t.rdp = r.rdp /\ t.desc = r.desc
  BY <1>2, <1>3, Zenon DEF Rings
<1> QED
  BY <1>4, Zenon DEF l, f
-----------------------------------------------------------------------------
(* Distances that grow and shrink together. *)
LEMMA Shifts ==
    \A a, b, c \in Nat :
       /\ (a - b) - 1 = a - (b + 1) /\ (a - 1) - (b - 1) = a - b
       /\ c + 1 + (a - 1) - (b - 1) = c + 1 + a - b
OBVIOUS

(* The source ring's fields, and where its cursors lie. *)
SourceFields(r, s) ==
    /\ r.head \in Slots /\ r.tail \in Slots /\ r.rdp \in Slots /\ r.reap \in Slots
    /\ First(r) \in Slots /\ r.desc \in [Slots -> Nat] /\ r.slots \in [Slots -> Buffers]
    /\ Len(s) \in Nat /\ \A i \in Slots : r.slots[i].frame \in Nat

SourceOrder(r, o) ==
    /\ o \in [Slots -> Nat] /\ \A i \in Slots : o[i] < Entries
    /\ \A i \in Slots : i # First(r) => o[i] > 0
    /\ \A i \in Slots : i # r.head => o[i] # o[r.head]
    /\ \A i \in Slots : i # r.tail => o[i] # o[r.tail]
    /\ o[First(r)] = 0
    /\ r.head # r.reap => Next1(r.head) \in Slots /\ o[Next1(r.head)] = o[r.head] + 1
    /\ o[r.tail] < o[r.head] => Next1(r.tail) \in Slots /\ o[Next1(r.tail)] = o[r.tail] + 1

(* They do so in every sound ring. *)
LEMMA SourceFacts ==
    ASSUME NEW r, NEW s, NEW o, o = Offsets(First(r)), SourceAt(r, s, o)
    PROVE  SourceFields(r, s) /\ SourceOrder(r, o)
<1>1. r \in Rings /\ s \in Seq(Nat) /\ Len(s) \in Nat
  BY DEF SourceAt
<1>2. /\ r.head \in Slots /\ r.tail \in Slots /\ r.rdp \in Slots /\ r.reap \in Slots
      /\ r.desc \in [Slots -> Nat] /\ r.slots \in [Slots -> Buffers]
  BY <1>1, Zenon DEF Rings
<1>3. First(r) \in Slots /\ First(r) = Next1(r.reap)
  BY <1>2, NextIs, Zenon DEF First
<1>4. /\ o \in [Slots -> 0 .. Entries - 1] /\ o[First(r)] = 0
      /\ \A i, j \in Slots : o[i] = o[j] => i = j
  BY <1>3, OffsetFacts, Zenon
<1>5. /\ o \in [Slots -> Nat] /\ \A i \in Slots : o[i] < Entries
      /\ \A i \in Slots : i # First(r) => o[i] > 0
      /\ \A i \in Slots : i # r.head => o[i] # o[r.head]
      /\ \A i \in Slots : i # r.tail => o[i] # o[r.tail]
  BY <1>2, <1>3, <1>4
<1>6. /\ o[r.reap] = Entries - 1
      /\ Next1(r.head) \in Slots /\ (o[r.head] + 1 < Entries => o[Next1(r.head)] = o[r.head] + 1)
      /\ Next1(r.tail) \in Slots /\ (o[r.tail] + 1 < Entries => o[Next1(r.tail)] = o[r.tail] + 1)
  BY <1>2, <1>3, OffsetNext
<1>7. r.head # r.reap => o[Next1(r.head)] = o[r.head] + 1
  BY <1>2, <1>5, <1>6
<1>8. o[r.tail] < o[r.head] => o[Next1(r.tail)] = o[r.tail] + 1
  BY <1>2, <1>5, <1>6
<1>9. SourceOrder(r, o)
  BY <1>4, <1>5, <1>6, <1>7, <1>8, Zenon DEF SourceOrder
<1>10. \A i \in Slots : r.slots[i].frame \in Nat
  BY <1>2, Zenon DEF Buffers
<1> QED
  BY <1>1, <1>2, <1>3, <1>9, <1>10 DEF SourceFields

(* The frame accepted next. *)
Following(r, s, o) == Len(s) + 1 + o[r.head] - o[r.tail]

(* CePipes::send publishes the next frame at the head. *)
LEMMA PublishKeeps ==
    ASSUME NEW r, NEW s, NEW o, SourceFields(r, s), SourceOrder(r, o), SourceAt(r, s, o), CanSend(r),
           NEW n, n = Following(r, s, o), NEW t, t = Published(r, Loaded(n))
    PROVE  First(t) = First(r) /\ SourceAt(t, s, o)
<1> DEFINE h == r.head
<1>1. /\ h \in Slots /\ r.tail \in Slots /\ r.rdp \in Slots
      /\ o[h] \in Nat /\ o[r.tail] \in Nat /\ o[r.rdp] \in Nat /\ Len(s) \in Nat
      /\ o[Next1(h)] = o[h] + 1
  BY Zenon DEF SourceFields, SourceOrder, CanSend
<1>2. /\ r \in Rings /\ s \in Seq(Nat) /\ InOrder(s)
      /\ o[r.rdp] <= o[r.tail] /\ o[r.tail] <= o[h]
  BY Zenon DEF SourceAt
<1>3. n \in Nat /\ n > Len(s) /\ n = Len(s) + 1 + o[h] - o[r.tail]
  BY <1>1, <1>2 DEF Following
<1>4. /\ Loaded(n) \in Buffers /\ Loaded(n).live /\ Loaded(n).frame = n
  BY <1>3, BufferFacts, Zenon
<1>5. /\ t \in Rings /\ t.head = Next1(h) /\ t.pub = t.head /\ First(t) = First(r)
      /\ t.tail = r.tail /\ t.rdp = r.rdp /\ t.desc = [r.desc EXCEPT ![h] = n]
      /\ t.slots = [r.slots EXCEPT ![h] = Loaded(n)]
  BY <1>2, <1>4, PublishedFields DEF First, IsPublished
<1>11. /\ o[t.head] = o[h] + 1 /\ o[t.tail] = o[r.tail] /\ o[t.rdp] = o[r.rdp]
  BY <1>1, <1>5, Zenon
<1>6. /\ t.slots[h] = Loaded(n) /\ t.desc[h] = n
      /\ \A i \in Slots : i # h => t.slots[i] = r.slots[i] /\ t.desc[i] = r.desc[i]
  BY <1>1, <1>5, Zenon DEF SourceFields
<1>7. ASSUME NEW i \in Slots PROVE t.slots[i].live <=> o[i] < o[t.head]
  <2>1. CASE i = h
    BY <1>1, <1>4, <1>6, <1>11, <2>1
  <2>2. CASE i # h
    <3>1. o[i] \in Nat /\ o[i] # o[h] /\ (r.slots[i].live <=> o[i] < o[h])
      BY <2>2, Zenon DEF SourceOrder, SourceAt
    <3> QED
      BY <1>1, <1>6, <1>11, <2>2, <3>1
  <2> QED
    BY <2>1, <2>2, Zenon
<1>8. ASSUME NEW i \in Slots, t.slots[i].live
      PROVE  t.desc[i] = t.slots[i].frame /\ t.slots[i].frame = Len(s) + 1 + o[i] - o[t.tail]
  <2>1. CASE i = h
    <3>1. t.slots[i].frame = n /\ t.desc[i] = n /\ o[i] = o[h] /\ o[t.tail] = o[r.tail]
      BY <1>4, <1>6, <1>11, <2>1, Zenon
    <3> QED
      BY <1>3, <3>1, Zenon
  <2>2. CASE i # h
    <3>1. r.slots[i].live => r.desc[i] = r.slots[i].frame
                             /\ r.slots[i].frame = Len(s) + 1 + o[i] - o[r.tail]
      BY Zenon DEF SourceAt
    <3> QED
      BY <1>5, <1>6, <1>8, <2>2, <3>1
  <2> QED
    BY <2>1, <2>2, Zenon
<1>9. Cardinality(Unsent(t, Len(s))) = o[t.head] - o[t.tail]
  <2>1. ~r.slots[h].live
    BY <1>1 DEF SourceAt
  <2>2. Unsent(t, Len(s)) = Unsent(r, Len(s)) \cup {h} /\ h \notin Unsent(r, Len(s))
    <3>1. t.slots[h].live /\ t.slots[h].frame > Len(s)
      BY <1>3, <1>4, <1>6, Zenon
    <3> QED
      BY <1>1, <1>6, <2>1, <3>1, Zenon DEF Unsent
  <2>3. IsFiniteSet(Unsent(r, Len(s)))
    BY SlotsFinite, Zenon DEF Unsent
  <2>4. Cardinality(Unsent(r, Len(s)) \cup {h}) = Cardinality(Unsent(r, Len(s))) + 1
    BY <2>2, <2>3, FS_AddElement, Zenon
  <2>5. Cardinality(Unsent(r, Len(s))) = o[h] - o[r.tail]
    BY Zenon DEF SourceAt
  <2>6. Cardinality(Unsent(t, Len(s))) = Cardinality(Unsent(r, Len(s))) + 1
    BY <2>2, <2>4, Zenon
  <2>7. Cardinality(Unsent(t, Len(s))) = (o[h] - o[r.tail]) + 1
    BY <2>5, <2>6, Zenon
  <2>8. (o[h] - o[r.tail]) + 1 = (o[h] + 1) - o[r.tail]
    BY <1>1
  <2> QED
    BY <1>11, <2>7, <2>8, Zenon
<1>10. o[t.rdp] <= o[t.tail] /\ o[t.tail] <= o[t.head]
  BY <1>1, <1>2, <1>11
<1> QED
  BY <1>2, <1>5, <1>7, <1>8, <1>9, <1>10, Zenon DEF SourceAt

(* A failed send leaves the slot at the head empty, as it was. *)
LEMMA WithdrawKeeps ==
    ASSUME NEW r, NEW s, NEW o, SourceFields(r, s), SourceOrder(r, o), SourceAt(r, s, o),
           NEW b \in Buffers, NEW t, t = Withdrawn(r, b)
    PROVE  First(t) = First(r) /\ SourceAt(t, s, o)
<1> DEFINE h == r.head
<1>1. r \in Rings /\ h \in Slots /\ o[h] \in Nat
  BY Zenon DEF SourceFields, SourceOrder, SourceAt
<1>2. /\ t \in Rings /\ t.head = h /\ t.pub = r.pub /\ First(t) = First(r)
      /\ t.tail = r.tail /\ t.rdp = r.rdp /\ t.desc = [r.desc EXCEPT ![h] = b.frame]
      /\ t.slots = [r.slots EXCEPT ![h] = Empty]
  BY <1>1, WithdrawnFields DEF First, IsWithdrawn
<1>3. /\ ~t.slots[h].live
      /\ \A i \in Slots : i # h => t.slots[i] = r.slots[i] /\ t.desc[i] = r.desc[i]
  BY <1>1, <1>2, BufferFacts, Zenon DEF SourceFields
<1>4. ~r.slots[h].live
  BY <1>1 DEF SourceAt
<1>5. \A i \in Slots : t.slots[i].live <=> r.slots[i].live
  BY <1>3, <1>4, Zenon
<1>6. \A i \in Slots : t.slots[i].live => t.slots[i] = r.slots[i] /\ t.desc[i] = r.desc[i]
  BY <1>3, Zenon
<1>7. Unsent(t, Len(s)) = Unsent(r, Len(s))
  BY <1>5, <1>6, Zenon DEF Unsent
<1>8. \A i \in Slots : t.slots[i].live <=> o[i] < o[t.head]
  BY <1>2, <1>5, Zenon DEF SourceAt
<1>9. \A i \in Slots : t.slots[i].live =>
         t.desc[i] = t.slots[i].frame /\ t.slots[i].frame = Len(s) + 1 + o[i] - o[t.tail]
  BY <1>2, <1>5, <1>6 DEF SourceAt
<1>10. /\ s \in Seq(Nat) /\ InOrder(s) /\ t.pub = t.head
       /\ o[t.rdp] <= o[t.tail] /\ o[t.tail] <= o[t.head]
       /\ Cardinality(Unsent(t, Len(s))) = o[t.head] - o[t.tail]
  BY <1>2, <1>7, Zenon DEF SourceAt
<1> QED
  BY <1>2, <1>8, <1>9, <1>10, Zenon DEF SourceAt

(* completed_send_next takes back the entry before the device's pointer,   *)
(* whose frame was sent; the entries are counted from the next one.        *)
LEMMA ReapKeeps ==
    ASSUME NEW r, NEW s, SourceSound(r, s), CanReap(r), NEW t, t = Reaped(r)
    PROVE  SourceSound(t, s)
<1> DEFINE o == Offsets(First(r))
           f == First(r)
           q == Offsets(First(t))
<1>1. SourceAt(r, s, o) /\ SourceFields(r, s) /\ SourceOrder(r, o)
  BY SourceFacts, Zenon DEF SourceSound
<1>2. /\ t \in Rings /\ t.head = r.head /\ t.pub = r.pub /\ t.reap = f /\ t.tail = r.tail
      /\ t.rdp = r.rdp /\ t.desc = r.desc /\ t.slots = [r.slots EXCEPT ![f] = Empty]
  BY <1>1, ReapedFields, Zenon DEF SourceAt
<1>3. f \in Slots /\ First(t) = Next1(f)
  BY <1>1, <1>2, Zenon DEF SourceFields, First
<1>4. \A i \in Slots : i # f => q[i] = o[i] - 1
  BY <1>3, OffsetShift, Zenon
<1>5. q \in [Slots -> 0 .. Entries - 1] /\ q[f] = Entries - 1
  BY <1>3, OffsetFacts, OffsetNext
<1> HIDE DEF o, q, f
<1>6. /\ r.rdp \in Slots /\ r.tail \in Slots /\ r.head \in Slots /\ o[f] = 0
      /\ o[r.rdp] \in Nat /\ o[r.tail] \in Nat /\ o[r.head] \in Nat /\ Len(s) \in Nat
      /\ r.rdp # f
  BY <1>1, Zenon DEF SourceFields, SourceOrder, CanReap, ReapNext, First, f
<1>7. o[r.rdp] > 0 /\ o[r.rdp] <= o[r.tail] /\ o[r.tail] <= o[r.head] /\ o[r.head] < Entries
  BY <1>1, <1>6, Zenon DEF SourceOrder, SourceAt, f
<1>8. r.tail # f /\ r.head # f
  BY <1>6, <1>7
<1>9. /\ q[t.rdp] = o[r.rdp] - 1 /\ q[t.tail] = o[r.tail] - 1 /\ q[t.head] = o[r.head] - 1
  BY <1>2, <1>4, <1>6, <1>8
<1>10. /\ ~t.slots[f].live
       /\ \A i \in Slots : i # f => t.slots[i] = r.slots[i]
  BY <1>1, <1>2, <1>3, BufferFacts, Zenon DEF SourceFields
<1>11. ASSUME NEW i \in Slots PROVE t.slots[i].live <=> q[i] < q[t.head]
  <2>1. CASE i = f
    <3>1. PICK a \in Nat : a = o[r.head] /\ a < Entries
      BY <1>6, <1>7, Zenon
    <3>2. ~(Entries - 1 < a - 1)
      BY <3>1
    <3>3. q[i] = Entries - 1 /\ q[t.head] = a - 1
      BY <1>5, <1>9, <2>1, <3>1, Zenon
    <3> QED
      BY <1>10, <2>1, <3>2, <3>3, Zenon
  <2>2. CASE i # f
    <3>1. o[i] \in Nat /\ (r.slots[i].live <=> o[i] < o[r.head])
      BY <1>1, Zenon DEF SourceOrder, SourceAt
    <3> QED
      BY <1>4, <1>6, <1>9, <1>10, <2>2, <3>1
  <2> QED
    BY <2>1, <2>2, Zenon
<1>12. ASSUME NEW i \in Slots, t.slots[i].live
       PROVE  t.desc[i] = t.slots[i].frame /\ t.slots[i].frame = Len(s) + 1 + q[i] - q[t.tail]
  <2>1. i # f /\ t.slots[i] = r.slots[i]
    BY <1>10, <1>12, Zenon
  <2>2. /\ o[i] \in Nat /\ r.desc[i] = r.slots[i].frame
        /\ r.slots[i].frame = Len(s) + 1 + o[i] - o[r.tail]
    BY <1>1, <1>12, <2>1, Zenon DEF SourceOrder, SourceAt
  <2>3. Len(s) + 1 + q[i] - q[t.tail] = Len(s) + 1 + o[i] - o[r.tail]
    <3>1. q[i] = o[i] - 1 /\ q[t.tail] = o[r.tail] - 1 /\ o[i] \in Nat /\ o[r.tail] \in Nat
      BY <1>4, <1>6, <1>9, <2>1, <2>2, Zenon
    <3>2. Len(s) \in Nat
      BY <1>6, Zenon
    <3>3. PICK a \in Nat, b \in Nat, c \in Nat : a = o[i] /\ b = o[r.tail] /\ c = Len(s)
      BY <3>1, <3>2, Zenon
    <3>4. c + 1 + (a - 1) - (b - 1) = c + 1 + a - b
      OBVIOUS
    <3> QED
      BY <3>1, <3>3, <3>4, Zenon
  <2> QED
    BY <1>2, <2>1, <2>2, <2>3
<1>13. Unsent(t, Len(s)) = Unsent(r, Len(s))
  <2>1. r.slots[f].live => r.slots[f].frame = Len(s) + 1 + o[f] - o[r.tail]
    BY <1>1, <1>3, Zenon DEF SourceAt
  <2>2. r.slots[f].live => ~(r.slots[f].frame > Len(s))
    BY <1>6, <1>7, <2>1
  <2> QED
    BY <1>10, <2>2, Zenon DEF Unsent
<1>14. /\ q[t.rdp] <= q[t.tail] /\ q[t.tail] <= q[t.head]
       /\ o[r.head] - o[r.tail] = q[t.head] - q[t.tail]
  <2>1. o[r.rdp] \in Nat /\ o[r.tail] \in Nat /\ o[r.head] \in Nat
    BY <1>6, Zenon
  <2> QED
    BY <1>7, <1>9, <2>1, Shifts
<1>15. Cardinality(Unsent(t, Len(s))) = q[t.head] - q[t.tail]
  BY <1>1, <1>13, <1>14, Zenon DEF SourceAt
<1>16. s \in Seq(Nat) /\ InOrder(s) /\ t.pub = t.head
  BY <1>1, <1>2, Zenon DEF SourceAt
<1> QED
  BY <1>2, <1>11, <1>12, <1>14, <1>15, <1>16, Zenon DEF SourceAt, SourceSound, q

(* The device sends the frame its pointer names. *)
Advanced(r) == [r EXCEPT !.tail = Next1(r.tail)]
Frame(r) == IF r.slots[r.tail].live THEN r.desc[r.tail] ELSE 0

(* The ring stays sound with that frame sent. *)
LEMMA TransmitKeeps ==
    ASSUME NEW r, NEW s, NEW o, SourceFields(r, s), SourceOrder(r, o), SourceAt(r, s, o),
           r.tail # r.pub, NEW t, t = Advanced(r), NEW u, u = Append(s, Frame(r))
    PROVE  First(t) = First(r) /\ SourceAt(t, u, o)
<1> DEFINE l == r.tail
<1>1. /\ r \in Rings /\ s \in Seq(Nat) /\ InOrder(s) /\ l \in Slots /\ r.head \in Slots
      /\ o[l] \in Nat /\ o[r.head] \in Nat /\ o[r.rdp] \in Nat /\ Len(s) \in Nat
      /\ o[r.rdp] <= o[l] /\ r.pub = r.head
  BY DEF SourceFields, SourceOrder, SourceAt
<1>2. o[l] < o[r.head]
  <2>1. o[l] <= o[r.head] /\ o[l] # o[r.head]
    BY <1>1, Zenon DEF SourceOrder, SourceAt
  <2> QED
    BY <1>1, <2>1
<1>3. Next1(l) \in Slots /\ o[Next1(l)] = o[l] + 1
  BY <1>2, Zenon DEF SourceOrder
<1>4. /\ t \in Rings /\ t.tail = Next1(l) /\ t.head = r.head /\ t.pub = r.pub /\ t.rdp = r.rdp
      /\ t.slots = r.slots /\ t.desc = r.desc /\ First(t) = First(r)
  BY <1>1, <1>3, Zenon DEF Rings, First, Advanced
<1>5. r.slots[l].live /\ r.desc[l] = r.slots[l].frame /\ r.slots[l].frame = Len(s) + 1
  <2>1. r.slots[l].live
    BY <1>1, <1>2, Zenon DEF SourceAt
  <2>2. r.desc[l] = r.slots[l].frame /\ r.slots[l].frame = Len(s) + 1 + o[l] - o[l]
    BY <1>1, <2>1, Zenon DEF SourceAt
  <2> QED
    BY <1>1, <2>1, <2>2
<1>6. u \in Seq(Nat) /\ Len(u) = Len(s) + 1 /\ InOrder(u)
  <2>1. Frame(r) = Len(s) + 1
    BY <1>5, Zenon DEF Frame
  <2> QED
    BY <1>1, <2>1, OrderKept, Zenon
<1>7. ASSUME NEW i \in Slots, t.slots[i].live
      PROVE  t.desc[i] = t.slots[i].frame /\ t.slots[i].frame = Len(u) + 1 + o[i] - o[t.tail]
  <2>1. /\ o[i] \in Nat /\ r.desc[i] = r.slots[i].frame
        /\ r.slots[i].frame = Len(s) + 1 + o[i] - o[l]
    BY <1>4, <1>7, Zenon DEF SourceOrder, SourceAt
  <2>2. o[t.tail] = o[l] + 1
    BY <1>3, <1>4, Zenon
  <2>3. Len(u) + 1 + o[i] - o[t.tail] = Len(s) + 1 + o[i] - o[l]
    <3>1. o[i] \in Nat /\ o[l] \in Nat /\ Len(s) \in Nat
      BY <1>1, <2>1, Zenon
    <3>2. Len(u) = Len(s) + 1
      BY <1>6, Zenon
    <3>3. PICK a \in Nat, b \in Nat, c \in Nat : a = o[i] /\ b = o[l] /\ c = Len(s)
      BY <3>1, Zenon
    <3>4. (c + 1) + 1 + a - (b + 1) = c + 1 + a - b
      OBVIOUS
    <3> QED
      BY <2>2, <3>2, <3>3, <3>4, Zenon
  <2> QED
    BY <1>4, <2>1, <2>3, Zenon
<1>8. Cardinality(Unsent(t, Len(u))) = o[t.head] - o[t.tail]
  <2>1. ASSUME NEW i \in Slots, r.slots[i].live, i # l PROVE r.slots[i].frame # Len(s) + 1
    <3>1. o[i] \in Nat /\ o[i] # o[l] /\ r.slots[i].frame = Len(s) + 1 + o[i] - o[l]
      BY <2>1, Zenon DEF SourceOrder, SourceAt
    <3> QED
      BY <1>1, <3>1
  <2>2. \A i \in Slots : r.slots[i].frame \in Nat
    BY Zenon DEF SourceFields
  <2>3. Unsent(t, Len(u)) = Unsent(r, Len(s)) \ {l} /\ l \in Unsent(r, Len(s))
    BY <1>1, <1>4, <1>5, <1>6, <2>1, <2>2 DEF Unsent
  <2>4. IsFiniteSet(Unsent(r, Len(s))) /\ Cardinality(Unsent(r, Len(s))) \in Nat
    BY SlotsFinite, Zenon DEF Unsent
  <2>5. Cardinality(Unsent(r, Len(s)) \ {l}) = Cardinality(Unsent(r, Len(s))) - 1
    BY <2>3, <2>4, FS_RemoveElement, Zenon
  <2>6. Cardinality(Unsent(r, Len(s))) = o[r.head] - o[l]
    BY Zenon DEF SourceAt
  <2>7. Cardinality(Unsent(t, Len(u))) = (o[r.head] - o[l]) - 1
    BY <2>3, <2>5, <2>6, Zenon
  <2>8. (o[r.head] - o[l]) - 1 = o[r.head] - (o[l] + 1)
    <3>1. PICK a \in Nat, b \in Nat : a = o[r.head] /\ b = o[l]
      BY <1>1, Zenon
    <3>2. (a - b) - 1 = a - (b + 1)
      OBVIOUS
    <3> QED
      BY <3>1, <3>2, Zenon
  <2> QED
    BY <1>3, <1>4, <2>7, <2>8, Zenon
<1>9. o[t.rdp] <= o[t.tail] /\ o[t.tail] <= o[t.head]
  BY <1>1, <1>2, <1>3, <1>4
<1>10. \A i \in Slots : t.slots[i].live <=> o[i] < o[t.head]
  BY <1>4, Zenon DEF SourceAt
<1> QED
  BY <1>1, <1>4, <1>6, <1>7, <1>8, <1>9, <1>10, Zenon DEF SourceAt
-----------------------------------------------------------------------------
(* The destination ring's fields, and where its cursors lie. *)
ReceiveFields(d, t, k) ==
    /\ d.head \in Slots /\ d.tail \in Slots /\ d.slots \in [Slots -> Buffers]
    /\ t.head \in Slots /\ t.tail \in Slots /\ t.length \in [Slots -> {"zero", "ok", "bad"}]
    /\ Len(k) \in Nat /\ \A i \in Slots : d.slots[i].frame \in Nat

ReceiveOrder(d, at, o) ==
    /\ o \in [Slots -> Nat] /\ o[at] = 0
    /\ \A i \in Slots : o[i] < Entries
    /\ \A i \in Slots : i # at => o[i] > 0
    /\ \A i \in Slots : i # d.head => o[i] # o[d.head]
    /\ \A i \in Slots : i # d.tail => o[i] # o[d.tail]
    /\ o[d.head] + 1 < Entries => Next1(d.head) \in Slots /\ o[Next1(d.head)] = o[d.head] + 1
    /\ o[d.tail] < o[d.head] => Next1(d.tail) \in Slots /\ o[Next1(d.tail)] = o[d.tail] + 1

(* They do so whenever the rings are sound. *)
LEMMA ReceiveFacts ==
    ASSUME NEW d, NEW t, NEW at, NEW p, NEW n, NEW k, NEW f, NEW o, o = Offsets(at),
           ReceiveShape(d, t, at, p, n, k, f, o)
    PROVE  ReceiveFields(d, t, k) /\ ReceiveOrder(d, at, o)
<1>1. d \in Rings /\ t \in StatusRings /\ at \in Slots /\ k \in Seq(Nat) /\ Len(k) \in Nat
  BY DEF ReceiveShape
<1>2. d.head \in Slots /\ d.tail \in Slots /\ d.slots \in [Slots -> Buffers]
  BY <1>1, Zenon DEF Rings
<1>3. t.head \in Slots /\ t.tail \in Slots /\ t.length \in [Slots -> {"zero", "ok", "bad"}]
  BY <1>1, Zenon DEF StatusRings
<1>4. /\ o \in [Slots -> 0 .. Entries - 1] /\ o[at] = 0
      /\ \A i, j \in Slots : o[i] = o[j] => i = j
  BY <1>1, OffsetFacts, Zenon
<1>5. /\ o \in [Slots -> Nat] /\ \A i \in Slots : o[i] < Entries
      /\ \A i \in Slots : i # at => o[i] > 0
      /\ \A i \in Slots : i # d.head => o[i] # o[d.head]
      /\ \A i \in Slots : i # d.tail => o[i] # o[d.tail]
  BY <1>1, <1>2, <1>4
<1>6. /\ Next1(d.head) \in Slots /\ (o[d.head] + 1 < Entries => o[Next1(d.head)] = o[d.head] + 1)
      /\ Next1(d.tail) \in Slots /\ (o[d.tail] + 1 < Entries => o[Next1(d.tail)] = o[d.tail] + 1)
  BY <1>1, <1>2, OffsetNext
<1>7. o[d.tail] < o[d.head] => o[Next1(d.tail)] = o[d.tail] + 1
  BY <1>2, <1>5, <1>6
<1>8. ReceiveOrder(d, at, o)
  BY <1>4, <1>5, <1>6, <1>7, Zenon DEF ReceiveOrder
<1>9. \A i \in Slots : d.slots[i].frame \in Nat
  BY <1>2, Zenon DEF Buffers
<1> QED
  BY <1>1, <1>2, <1>3, <1>8, <1>9 DEF ReceiveFields

(* post_receive puts an empty buffer at the head. *)
LEMMA PostKeeps ==
    ASSUME NEW d, NEW t, NEW at, NEW p, NEW n, NEW k, NEW f, NEW bad, NEW o,
           ReceiveFields(d, t, k), ReceiveOrder(d, at, o), ReceiveAt(d, t, at, p, n, k, f, bad, o),
           n # 0, NEW e, e = Published(d, Posted)
    PROVE  ReceiveAt(e, t, at, p, n - 1, k, f, bad, o)
<1> DEFINE h == d.head
<1>1. /\ d \in Rings /\ h \in Slots /\ d.tail \in Slots /\ n \in Nat
      /\ o[h] \in Nat /\ o[d.tail] \in Nat /\ o[d.tail] <= o[h] /\ n + o[h] = Entries - 2
  BY Zenon DEF ReceiveFields, ReceiveOrder, ReceiveAt, ReceiveShape
<1>2. o[h] + 1 < Entries /\ n - 1 \in Nat /\ (n - 1) + (o[h] + 1) = Entries - 2
  BY <1>1
<1>3. Next1(h) \in Slots /\ o[Next1(h)] = o[h] + 1
  BY <1>2, Zenon DEF ReceiveOrder
<1>4. /\ e \in Rings /\ e.head = Next1(h) /\ e.pub = Next1(h) /\ e.tail = d.tail
      /\ e.slots = [d.slots EXCEPT ![h] = Posted]
  <2>1. Posted \in Buffers
    BY BufferFacts, Zenon
  <2>2. d \in Rings
    BY <1>1, Zenon
  <2>3. IsPublished(e, d, Posted)
    BY <2>1, <2>2, PublishedFields
  <2> QED
    BY <2>3, Zenon DEF IsPublished
<1>5. /\ e.slots[h] = Posted /\ \A i \in Slots : i # h => e.slots[i] = d.slots[i]
  BY <1>1, <1>4, Zenon DEF ReceiveFields
<1>6. o[e.head] = o[h] + 1 /\ o[e.tail] = o[d.tail]
  BY <1>3, <1>4, Zenon
<1>7. Posted.live /\ ~Posted.cpu
  BY BufferFacts, Zenon
<1>8. ReceiveShape(e, t, at, p, n - 1, k, f, o)
  <2>1. o[e.tail] <= o[e.head] /\ (n - 1) + o[e.head] = Entries - 2
    BY <1>1, <1>2, <1>6
  <2>2. f = Len(k) + o[e.tail] /\ e.pub = e.head /\ t.head = e.tail
    BY <1>4, <1>6, Zenon DEF ReceiveAt, ReceiveShape
  <2> QED
    BY <1>2, <1>4, <2>1, <2>2 DEF ReceiveAt, ReceiveShape
<1>9. ReceiveBuffers(e, o)
  <2>1. ASSUME NEW i \in Slots PROVE e.slots[i].live <=> o[i] < o[e.head]
    <3>1. CASE i = h
      BY <1>1, <1>5, <1>6, <1>7, <3>1
    <3>2. CASE i # h
      <4>1. o[i] \in Nat /\ o[i] # o[h] /\ (d.slots[i].live <=> o[i] < o[h])
        BY <3>2, Zenon DEF ReceiveOrder, ReceiveAt, ReceiveBuffers
      <4> QED
        BY <1>1, <1>5, <1>6, <3>2, <4>1
    <3> QED
      BY <3>1, <3>2, Zenon
  <2>2. ASSUME NEW i \in Slots, o[e.tail] <= o[i], o[i] < o[e.head] PROVE ~e.slots[i].cpu
    <3>1. CASE i = h
      BY <1>5, <1>7, <3>1, Zenon
    <3>2. CASE i # h
      <4>1. o[i] \in Nat /\ o[i] # o[h]
        BY <3>2, Zenon DEF ReceiveOrder
      <4>2. o[d.tail] <= o[i] /\ o[i] < o[h]
        BY <1>1, <1>6, <2>2, <4>1
      <4> QED
        BY <1>5, <3>2, <4>2 DEF ReceiveAt, ReceiveBuffers
    <3> QED
      BY <3>1, <3>2, Zenon
  <2>3. Cardinality(Live(e)) = o[e.head]
    <3>1. ~d.slots[h].live
      BY <1>1 DEF ReceiveAt, ReceiveBuffers
    <3>2. Live(e) = Live(d) \cup {h} /\ h \notin Live(d)
      BY <1>1, <1>5, <1>7, <3>1 DEF Live
    <3>3. IsFiniteSet(Live(d))
      BY SlotsFinite, Zenon DEF Live
    <3>4. Cardinality(Live(d) \cup {h}) = Cardinality(Live(d)) + 1
      BY <3>2, <3>3, FS_AddElement, Zenon
    <3>5. Cardinality(Live(d)) = o[h]
      BY Zenon DEF ReceiveAt, ReceiveBuffers
    <3> QED
      BY <1>6, <3>2, <3>4, <3>5
  <2> QED
    BY <2>1, <2>2, <2>3, Zenon DEF ReceiveBuffers
<1>10. ReceiveFrames(e, t, at, p, k, bad, o)
  <2>1. ASSUME NEW i \in Slots, o[i] < o[e.tail] PROVE o[i] < o[d.tail] /\ e.slots[i] = d.slots[i]
    <3>1. o[i] \in Nat /\ o[i] < o[d.tail]
      BY <1>6, <2>1, Zenon DEF ReceiveOrder
    <3>2. i # h
      BY <1>1, <3>1
    <3> QED
      BY <1>5, <3>1, <3>2, Zenon
  <2> QED
    BY <1>4, <2>1 DEF ReceiveAt, ReceiveFrames
<1> QED
  BY <1>8, <1>9, <1>10, Zenon DEF ReceiveAt

(* A ring with the same cursors, whose buffers are as much alive, hold the *)
(* same frames where filled and are as little the CPU's where posted.      *)
Similar(e, d, o) ==
    /\ e \in Rings /\ e.head = d.head /\ e.pub = d.pub /\ e.tail = d.tail
    /\ \A i \in Slots : e.slots[i].live = d.slots[i].live
    /\ \A i \in Slots : o[i] < o[d.tail] => e.slots[i].frame = d.slots[i].frame
    /\ \A i \in Slots : o[d.tail] <= o[i] /\ e.slots[i].cpu => d.slots[i].cpu

(* It is as sound. *)
LEMMA SimilarKeeps ==
    ASSUME NEW d, NEW t, NEW at, NEW p, NEW n, NEW k, NEW f, NEW bad, NEW o,
           ReceiveAt(d, t, at, p, n, k, f, bad, o), NEW e, Similar(e, d, o)
    PROVE  ReceiveAt(e, t, at, p, n, k, f, bad, o)
<1>1. ReceiveShape(e, t, at, p, n, k, f, o)
  BY Zenon DEF ReceiveAt, ReceiveShape, Similar
<1>2. ReceiveBuffers(e, o)
  <2>1. Live(e) = Live(d)
    BY Zenon DEF Similar, Live
  <2> QED
    BY <2>1, Zenon DEF ReceiveAt, ReceiveBuffers, Similar
<1>3. ReceiveFrames(e, t, at, p, k, bad, o)
  BY Zenon DEF ReceiveAt, ReceiveFrames, Similar
<1> QED
  BY <1>1, <1>2, <1>3, Zenon DEF ReceiveAt

(* A failed post leaves the slot at the head empty, as it was. *)
LEMMA UnpostKeeps ==
    ASSUME NEW d, NEW t, NEW at, NEW p, NEW n, NEW k, NEW f, NEW bad, NEW o,
           ReceiveFields(d, t, k), ReceiveOrder(d, at, o), ReceiveAt(d, t, at, p, n, k, f, bad, o),
           NEW e, e = Withdrawn(d, Posted)
    PROVE  ReceiveAt(e, t, at, p, n, k, f, bad, o)
<1>1. d \in Rings /\ d.head \in Slots /\ d.slots \in [Slots -> Buffers] /\ o[d.tail] <= o[d.head]
  BY Zenon DEF ReceiveAt, ReceiveShape, ReceiveFields
<1>2. Posted \in Buffers /\ ~Empty.live /\ ~Empty.cpu /\ Empty \in Buffers
  BY BufferFacts, Zenon DEF Empty
<1>3. IsWithdrawn(e, d, Posted)
  BY <1>1, <1>2, WithdrawnFields, Zenon
<1>4. /\ e \in Rings /\ e.head = d.head /\ e.pub = d.pub /\ e.tail = d.tail
      /\ e.slots[d.head] = Empty /\ \A i \in Slots : i # d.head => e.slots[i] = d.slots[i]
  BY <1>1, <1>3, Zenon DEF IsWithdrawn
<1>5. ~d.slots[d.head].live
  <2>1. o[d.head] \in Nat /\ (d.slots[d.head].live <=> o[d.head] < o[d.head])
    BY <1>1, Zenon DEF ReceiveAt, ReceiveBuffers, ReceiveOrder
  <2> QED
    BY <2>1
<1>6. d.slots[d.head].live = FALSE /\ Empty.live = FALSE
  <2>1. d.slots[d.head].live \in BOOLEAN
    BY <1>1, Zenon DEF Buffers, Flag
  <2> QED
    BY <1>5, <2>1, Zenon DEF Empty
<1>7. \A i \in Slots : e.slots[i].live = d.slots[i].live
  BY <1>4, <1>6, Zenon
<1>8. ASSUME NEW i \in Slots, o[i] < o[d.tail] PROVE e.slots[i].frame = d.slots[i].frame
  <2>1. i # d.head
    BY <1>1, <1>8 DEF ReceiveOrder, ReceiveFields
  <2> QED
    BY <1>4, <2>1, Zenon
<1>9. \A i \in Slots : e.slots[i].cpu => d.slots[i].cpu
  BY <1>2, <1>4, Zenon
<1>10. Similar(e, d, o)
  BY <1>4, <1>7, <1>8, <1>9, Zenon DEF Similar
<1> QED
  BY <1>10, SimilarKeeps, Zenon

(* The device writes its pointer back. *)
RdpWritten(r) == [r EXCEPT !.rdp = r.tail]

(* The rings stay sound, the source ring because its pointer has not       *)
(* passed the head.                                                        *)
LEMMA WriteBackKeeps ==
    ASSUME NEW r, r \in Rings, NEW e, e = RdpWritten(r)
    PROVE  /\ \A s, o : SourceAt(r, s, o) /\ o[r.tail] \in Nat => First(e) = First(r) /\ SourceAt(e, s, o)
           /\ \A o : Similar(e, r, o)
<1>1. /\ e \in Rings /\ e.head = r.head /\ e.pub = r.pub /\ e.tail = r.tail /\ e.rdp = r.tail
      /\ e.reap = r.reap /\ e.desc = r.desc /\ e.slots = r.slots
  BY Zenon DEF Rings, RdpWritten
<1>2. ASSUME NEW s, NEW o, SourceAt(r, s, o), o[r.tail] \in Nat
      PROVE  First(e) = First(r) /\ SourceAt(e, s, o)
  <2>1. Unsent(e, Len(s)) = Unsent(r, Len(s)) /\ First(e) = First(r)
    BY <1>1, Zenon DEF Unsent, First
  <2>2. o[e.rdp] <= o[e.tail]
    BY <1>1, <1>2
  <2> QED
    BY <1>1, <1>2, <2>1, <2>2 DEF SourceAt
<1>3. \A o : Similar(e, r, o)
  BY <1>1, Zenon DEF Similar
<1> QED
  BY <1>2, <1>3, Zenon

(* The buffer at the software index is acquired for the CPU.               *)
Touched(d, at) == [d EXCEPT !.slots[at].cpu = TRUE]

(* It is one the device has filled. *)
LEMMA AcquireKeeps ==
    ASSUME NEW d, NEW t, NEW at, NEW p, NEW n, NEW k, NEW f, NEW bad, NEW o,
           ReceiveFields(d, t, k), ReceiveOrder(d, at, o), ReceiveAt(d, t, at, p, n, k, f, bad, o),
           at # d.tail, NEW e, e = Touched(d, at)
    PROVE  ReceiveAt(e, t, at, p, n, k, f, bad, o)
<1>1. d \in Rings /\ at \in Slots /\ d.tail \in Slots /\ d.slots \in [Slots -> Buffers]
  BY Zenon DEF ReceiveAt, ReceiveShape, ReceiveFields
<1> DEFINE b == [d.slots[at] EXCEPT !.cpu = TRUE]
           l == [d.slots EXCEPT ![at] = b]
<1>2. b \in Buffers /\ b.live = d.slots[at].live /\ b.frame = d.slots[at].frame
  BY <1>1, Flags, Zenon DEF Buffers
<1>3. e = [d EXCEPT !.slots = l]
  BY <1>1, Zenon DEF Touched, Rings
<1> HIDE DEF b
<1>4. l \in [Slots -> Buffers]
  BY <1>1, <1>2, Zenon
<1>5. l[at] = b /\ \A i \in Slots : i # at => l[i] = d.slots[i]
  BY <1>1, Zenon
<1> HIDE DEF l
<1>6. /\ e \in Rings /\ e.head = d.head /\ e.pub = d.pub /\ e.tail = d.tail /\ e.slots = l
  BY <1>1, <1>3, <1>4 DEF Rings
<1>7. \A i \in Slots : e.slots[i].live = d.slots[i].live /\ e.slots[i].frame = d.slots[i].frame
  BY <1>2, <1>5, <1>6
<1>8. ~(o[d.tail] <= o[at])
  <2>1. o[at] = 0 /\ o[d.tail] \in Nat /\ o[d.tail] > 0
    BY <1>1, Zenon DEF ReceiveOrder
  <2> QED
    BY <2>1
<1>9. \A i \in Slots : o[d.tail] <= o[i] /\ e.slots[i].cpu => d.slots[i].cpu
  BY <1>5, <1>6, <1>8, Zenon
<1>10. Similar(e, d, o)
  BY <1>6, <1>7, <1>9, Zenon DEF Similar
<1> QED
  BY <1>10, SimilarKeeps, Zenon

(* The device fills the buffer its pointer names and reports its length.   *)
Filled(d, m) == [d EXCEPT !.tail = Next1(d.tail), !.slots[d.tail].frame = m]
Reporting(t, l) == [t EXCEPT !.head = Next1(t.head), !.length[t.head] = l]

(* The frame is the next in order. *)
LEMMA FillKeeps ==
    ASSUME NEW d, NEW t, NEW at, NEW p, NEW n, NEW k, NEW f, NEW bad, NEW o,
           ReceiveFields(d, t, k), ReceiveOrder(d, at, o), ReceiveAt(d, t, at, p, n, k, f, bad, o),
           d.tail # d.pub, NEW l \in {"ok", "bad"}, NEW c, c = (bad \/ l = "bad"),
           NEW e, e = Filled(d, f + 1), NEW u, u = Reporting(t, l)
    PROVE  ReceiveAt(e, u, at, p, n, k, f + 1, c, o)
<1> DEFINE w == d.tail
           m == f + 1
<1>1. /\ d \in Rings /\ t \in StatusRings /\ at \in Slots /\ w \in Slots /\ d.head \in Slots
      /\ d.slots \in [Slots -> Buffers] /\ d.pub = d.head /\ t.head = w /\ t.tail = at /\ t.pub = t.tail
      /\ t.length \in [Slots -> {"zero", "ok", "bad"}]
  BY Zenon DEF ReceiveAt, ReceiveShape, ReceiveFields
<1>2. /\ o[w] \in Nat /\ o[d.head] \in Nat /\ Len(k) \in Nat /\ f = Len(k) + o[w]
      /\ o[w] <= o[d.head] /\ o[w] # o[d.head] /\ o[at] = 0
  BY <1>1, Zenon DEF ReceiveAt, ReceiveShape, ReceiveOrder, ReceiveFields
<1>3. o[w] < o[d.head] /\ m \in Nat /\ m = Len(k) + 1 + o[w]
  BY <1>2
<1>4. Next1(w) \in Slots /\ o[Next1(w)] = o[w] + 1
  BY <1>3, Zenon DEF ReceiveOrder
<1> DEFINE b == [d.slots[w] EXCEPT !.frame = m]
           z == [d.slots EXCEPT ![w] = b]
           y == [t.length EXCEPT ![w] = l]
<1>5. e = [d EXCEPT !.tail = Next1(w), !.slots = z] /\ u = [t EXCEPT !.head = Next1(w), !.length = y]
  BY <1>1, Zenon DEF Filled, Reporting, Rings, StatusRings
<1> HIDE DEF m
<1>6. b \in Buffers /\ b.live = d.slots[w].live /\ b.cpu = d.slots[w].cpu /\ b.frame = m
  BY <1>1, <1>3 DEF Buffers
<1> HIDE DEF b
<1>7. /\ z \in [Slots -> Buffers] /\ z[w] = b /\ \A i \in Slots : i # w => z[i] = d.slots[i]
  BY <1>1, <1>6, Zenon
<1>8. /\ y \in [Slots -> {"zero", "ok", "bad"}] /\ y[w] = l
      /\ \A i \in Slots : i # w => y[i] = t.length[i]
  BY <1>1, Zenon
<1> HIDE DEF y, z
<1>9. /\ e \in Rings /\ e.tail = Next1(w) /\ e.head = d.head /\ e.pub = d.pub /\ e.slots = z
  BY <1>1, <1>4, <1>5, <1>7, Zenon DEF Rings
<1>10. /\ u \in StatusRings /\ u.head = Next1(w) /\ u.tail = t.tail /\ u.pub = t.pub /\ u.length = y
  BY <1>1, <1>4, <1>5, <1>8, Zenon DEF StatusRings
<1>11. o[e.tail] = o[w] + 1 /\ o[e.head] = o[d.head]
  BY <1>4, <1>9, Zenon
<1>12. ReceiveShape(e, u, at, p, n, k, f + 1, o)
  <2>1. o[e.tail] <= o[e.head] /\ f + 1 \in Nat /\ f + 1 = Len(k) + o[e.tail]
    <3>1. o[w] \in Nat /\ o[d.head] \in Nat /\ Len(k) \in Nat /\ f + 1 \in Nat
      BY <1>2
    <3>2. o[w] + 1 <= o[d.head]
      BY <1>3, <3>1
    <3>3. f + 1 = Len(k) + (o[w] + 1)
      BY <1>2, <3>1
    <3> QED
      BY <1>11, <3>1, <3>2, <3>3
  <2>2. p \in Pendings /\ n \in Nat /\ k \in Seq(Nat) /\ InOrder(k) /\ n + o[e.head] = Entries - 2
    BY <1>11, Zenon DEF ReceiveAt, ReceiveShape
  <2> QED
    BY <1>1, <1>9, <1>10, <2>1, <2>2 DEF ReceiveShape
<1>13. \A i \in Slots : e.slots[i].live = d.slots[i].live /\ e.slots[i].cpu = d.slots[i].cpu
  BY <1>6, <1>7, <1>9
<1>14. ReceiveBuffers(e, o)
  <2>1. Live(e) = Live(d)
    BY <1>13, Zenon DEF Live
  <2>2. ASSUME NEW i \in Slots, o[e.tail] <= o[i], o[i] < o[e.head] PROVE ~e.slots[i].cpu
    <3>1. o[i] \in Nat
      BY Zenon DEF ReceiveOrder
    <3>2. o[w] <= o[i] /\ o[i] < o[d.head]
      BY <1>2, <1>11, <2>2, <3>1
    <3> QED
      BY <1>13, <3>2, Zenon DEF ReceiveAt, ReceiveBuffers
  <2>3. \A i \in Slots : e.slots[i].live <=> o[i] < o[e.head]
    BY <1>11, <1>13 DEF ReceiveAt, ReceiveBuffers
  <2>4. Cardinality(Live(e)) = o[e.head]
    BY <1>11, <2>1 DEF ReceiveAt, ReceiveBuffers
  <2> QED
    BY <2>2, <2>3, <2>4 DEF ReceiveBuffers
<1>15. ReceiveFrames(e, u, at, p, k, c, o)
  <2>1. ASSUME NEW i \in Slots, o[i] < o[e.tail]
        PROVE  /\ e.slots[i].frame = Len(k) + 1 + o[i]
               /\ u.length[i] = "ok" \/ c \/ (i = at /\ p.some)
    <3>1. CASE i = w
      BY <1>3, <1>6, <1>7, <1>8, <1>9, <1>10, <3>1, Zenon
    <3>2. CASE i # w
      <4>1. o[i] \in Nat /\ o[i] # o[w]
        BY <3>2, Zenon DEF ReceiveOrder
      <4>2. o[i] < o[w]
        BY <1>2, <1>11, <2>1, <4>1
      <4>3. /\ d.slots[i].frame = Len(k) + 1 + o[i]
            /\ t.length[i] = "ok" \/ bad \/ (i = at /\ p.some)
        BY <4>2, Zenon DEF ReceiveAt, ReceiveFrames
      <4> QED
        BY <1>7, <1>8, <1>9, <1>10, <3>2, <4>3, Zenon
    <3> QED
      BY <3>1, <3>2
  <2>2. at # e.tail
    BY <1>2, <1>11
  <2> QED
    BY <2>1, <2>2 DEF ReceiveAt, ReceiveFrames
<1> QED
  BY <1>12, <1>14, <1>15 DEF ReceiveAt

(* A failed completion keeps the payload, perhaps with the length cleared. *)
Kept(p, t, b, c) ==
    IF p.some THEN [p EXCEPT !.cleared = @ \/ c]
    ELSE [at |-> t.tail, frame |-> b.frame, cleared |-> c, some |-> TRUE]
Blanked(t) == [t EXCEPT !.length[t.tail] = "zero"]

(* A kept payload has its type. *)
LEMMA PendingRecord ==
    ASSUME NEW x \in Slots, NEW z \in Nat, NEW c \in Flag
    PROVE  [at |-> x, frame |-> z, cleared |-> c, some |-> TRUE] \in Pendings
BY Flags, Zenon DEF Pendings

(* What is kept is the frame of the entry at the tail. *)
LEMMA KeptFacts ==
    ASSUME NEW d, NEW t, NEW at, NEW p, NEW n, NEW k, NEW f, NEW bad, NEW o,
           ReceiveFields(d, t, k), ReceiveOrder(d, at, o), ReceiveAt(d, t, at, p, n, k, f, bad, o),
           at # d.tail, NEW c \in Flag, NEW q, q = Kept(p, t, d.slots[at], c)
    PROVE  q \in Pendings /\ q.some /\ q.at = at /\ q.frame = Len(k) + 1
<1>1. /\ p \in Pendings /\ at \in Slots /\ d.tail \in Slots /\ t.tail = at /\ Len(k) \in Nat
      /\ d.slots \in [Slots -> Buffers]
  BY Zenon DEF ReceiveAt, ReceiveShape, ReceiveFields
<1>2. CASE p.some
  <2> DEFINE z == p.cleared \/ c
  <2>1. q = [p EXCEPT !.cleared = z]
    BY <1>2, Zenon DEF Kept
  <2>2. z \in Flag
    BY Zenon DEF Flag
  <2> HIDE DEF z
  <2>3. q \in Pendings /\ q.some = p.some /\ q.at = p.at /\ q.frame = p.frame
    BY <1>1, <2>1, <2>2 DEF Pendings
  <2> QED
    BY <1>2, <2>3, Zenon DEF ReceiveAt, ReceiveFrames
<1>3. CASE ~p.some
  <2> DEFINE z == d.slots[at].frame
  <2>1. q = [at |-> at, frame |-> z, cleared |-> c, some |-> TRUE]
    BY <1>1, <1>3, Zenon DEF Kept
  <2>2. o[at] = 0 /\ o[d.tail] \in Nat /\ o[d.tail] > 0
    BY <1>1, Zenon DEF ReceiveOrder
  <2>3. z = Len(k) + 1 + o[at]
    BY <1>1, <2>2, Zenon DEF ReceiveAt, ReceiveFrames
  <2>4. z = Len(k) + 1 /\ z \in Nat
    BY <1>1, <2>2, <2>3
  <2> HIDE DEF z
  <2>6. q \in Pendings
    <3>1. at \in Slots
      BY <1>1, Zenon
    <3> QED
      BY <2>1, <2>4, <3>1, PendingRecord
  <2> QED
    BY <2>1, <2>4, <2>6
<1> QED
  BY <1>2, <1>3, Zenon

(* Keeping it leaves the rings sound. *)
LEMMA KeepKeeps ==
    ASSUME NEW d, NEW t, NEW at, NEW p, NEW n, NEW k, NEW f, NEW bad, NEW o,
           ReceiveFields(d, t, k), ReceiveOrder(d, at, o), ReceiveAt(d, t, at, p, n, k, f, bad, o),
           at # d.tail, NEW q, q \in Pendings /\ q.some /\ q.at = at /\ q.frame = Len(k) + 1,
           NEW u, u = t \/ u = Blanked(t)
    PROVE  ReceiveAt(d, u, at, q, n, k, f, bad, o)
<1>1. /\ t \in StatusRings /\ at \in Slots /\ t.tail = at
      /\ t.length \in [Slots -> {"zero", "ok", "bad"}]
  BY Zenon DEF ReceiveAt, ReceiveShape, ReceiveFields
<1>2. /\ u \in StatusRings /\ u.head = t.head /\ u.tail = t.tail /\ u.pub = t.pub
      /\ \A i \in Slots : i # at => u.length[i] = t.length[i]
  <2>1. CASE u = t
    BY <1>1, <2>1, Zenon
  <2>2. CASE u = Blanked(t)
    <3> DEFINE y == [t.length EXCEPT ![at] = "zero"]
    <3>1. u = [t EXCEPT !.length = y]
      BY <1>1, <2>2, Zenon DEF Blanked, StatusRings
    <3>2. y \in [Slots -> {"zero", "ok", "bad"}] /\ \A i \in Slots : i # at => y[i] = t.length[i]
      BY <1>1, Zenon
    <3> HIDE DEF y
    <3> QED
      BY <1>1, <3>1, <3>2, Zenon DEF StatusRings
  <2> QED
    BY <2>1, <2>2, Zenon
<1>3. ReceiveShape(d, u, at, q, n, k, f, o)
  BY <1>2, Zenon DEF ReceiveAt, ReceiveShape
<1>4. ReceiveFrames(d, u, at, q, k, bad, o)
  BY <1>2, Zenon DEF ReceiveAt, ReceiveFrames
<1> QED
  BY <1>3, <1>4, Zenon DEF ReceiveAt

(* completed_recv_next completes the entry at the tail. *)
Emptied(d, at) == [d EXCEPT !.slots[at] = Empty]
Released(t) == [Blanked(t) EXCEPT !.tail = Next1(t.tail), !.pub = Next1(t.tail)]

(* Its frame is the next to be taken, and the entries are counted from the *)
(* one behind it.                                                          *)
LEMMA CompleteKeeps ==
    ASSUME NEW d, NEW t, NEW at, NEW p, NEW n, NEW k, NEW f, NEW bad,
           ReceiveSound(d, t, at, p, n, k, f, bad), at # d.tail,
           NEW e, e = Emptied(d, at), NEW u, u = Released(t), NEW v, v = Next1(at),
           NEW g, g = Append(k, Len(k) + 1)
    PROVE  ReceiveSound(e, u, v, NoPending, n + 1, g, f, bad)
<1> DEFINE o == Offsets(at)
           q == Offsets(v)
<1>1. ReceiveAt(d, t, at, p, n, k, f, bad, o) /\ ReceiveFields(d, t, k) /\ ReceiveOrder(d, at, o)
  BY ReceiveFacts, Zenon DEF ReceiveSound, ReceiveAt
<1>2. /\ d \in Rings /\ t \in StatusRings /\ at \in Slots /\ n \in Nat /\ f \in Nat
      /\ k \in Seq(Nat) /\ InOrder(k) /\ Len(k) \in Nat
      /\ d.tail \in Slots /\ d.head \in Slots /\ d.slots \in [Slots -> Buffers]
      /\ t.length \in [Slots -> {"zero", "ok", "bad"}]
      /\ d.pub = d.head /\ t.pub = t.tail /\ t.tail = at /\ t.head = d.tail
  BY <1>1, Zenon DEF ReceiveAt, ReceiveShape, ReceiveFields
<1>3. v \in Slots /\ q[at] = Entries - 1 /\ q \in [Slots -> 0 .. Entries - 1]
  <2>1. v \in Slots
    BY <1>2, NextIs, Zenon
  <2> QED
    BY <1>2, <2>1, OffsetFacts, OffsetNext
<1>4. \A i \in Slots : i # at => q[i] = o[i] - 1
  BY <1>2, OffsetShift, Zenon
<1> HIDE DEF o, q
<1>5. /\ o[at] = 0 /\ o[d.tail] \in Nat /\ o[d.head] \in Nat /\ o[d.tail] > 0
      /\ o[d.tail] <= o[d.head] /\ o[d.head] < Entries /\ n + o[d.head] = Entries - 2
      /\ f = Len(k) + o[d.tail]
  BY <1>1, <1>2, Zenon DEF ReceiveOrder, ReceiveAt, ReceiveShape
<1>6. d.head # at
  BY <1>5
<1>7. q[d.tail] = o[d.tail] - 1 /\ q[d.head] = o[d.head] - 1
  BY <1>2, <1>4, <1>6
<1> DEFINE z == [d.slots EXCEPT ![at] = Empty]
           y == [t.length EXCEPT ![at] = "zero"]
<1>8. /\ z \in [Slots -> Buffers] /\ ~z[at].live /\ \A i \in Slots : i # at => z[i] = d.slots[i]
  BY <1>2, BufferFacts, Zenon
<1>9. y \in [Slots -> {"zero", "ok", "bad"}] /\ \A i \in Slots : i # at => y[i] = t.length[i]
  BY <1>2, Zenon
<1>10. e = [d EXCEPT !.slots = z]
  BY <1>2, Zenon DEF Emptied, Rings
<1>11. u = [t EXCEPT !.length = y, !.tail = v, !.pub = v]
  BY <1>2, Zenon DEF Released, Blanked, StatusRings
<1> HIDE DEF y, z
<1>12. /\ e \in Rings /\ e.head = d.head /\ e.pub = d.pub /\ e.tail = d.tail /\ e.slots = z
  BY <1>2, <1>8, <1>10, Zenon DEF Rings
<1>13. /\ u \in StatusRings /\ u.head = t.head /\ u.tail = v /\ u.pub = v /\ u.length = y
  BY <1>2, <1>3, <1>9, <1>11, Zenon DEF StatusRings
<1>14. g \in Seq(Nat) /\ Len(g) = Len(k) + 1 /\ InOrder(g)
  BY <1>2, OrderKept, Zenon
<1>15. q[e.tail] = o[d.tail] - 1 /\ q[e.head] = o[d.head] - 1
  BY <1>7, <1>12
<1>16. NoPending \in Pendings /\ ~NoPending.some
  <2>1. 0 \in Slots
    BY DEF Slots
  <2> QED
    BY <2>1, Flags, Zenon DEF NoPending, Pendings
<1>17. ReceiveShape(e, u, v, NoPending, n + 1, g, f, q)
  <2>1. PICK a \in Nat, b \in Nat, c \in Nat, m \in Nat :
           a = o[d.tail] /\ b = o[d.head] /\ c = Len(k) /\ m = n
    BY <1>2, <1>5
  <2>5. a <= b /\ m + b = Entries - 2 /\ f = c + a
    BY <1>5, <2>1
  <2>6. a - 1 <= b - 1 /\ (m + 1) + (b - 1) = Entries - 2 /\ m + 1 \in Nat
    BY <2>5
  <2>7. f = (c + 1) + (a - 1)
    BY <2>5
  <2>2. o[d.tail] - 1 <= o[d.head] - 1 /\ (n + 1) + (o[d.head] - 1) = Entries - 2 /\ n + 1 \in Nat
    BY <2>1, <2>6, Zenon
  <2>3. f = (Len(k) + 1) + (o[d.tail] - 1)
    BY <2>1, <2>7
  <2>4. q[e.tail] <= q[e.head] /\ (n + 1) + q[e.head] = Entries - 2 /\ f = Len(g) + q[e.tail]
    BY <1>14, <1>15, <2>2, <2>3
  <2> QED
    BY <1>2, <1>3, <1>12, <1>13, <1>14, <1>16, <2>2, <2>4, Zenon DEF ReceiveShape
<1>20. ASSUME NEW i \in Slots, i # at
       PROVE  /\ q[i] = o[i] - 1 /\ o[i] \in Nat /\ e.slots[i] = d.slots[i] /\ u.length[i] = t.length[i]
              /\ q[i] < q[e.head] <=> o[i] < o[d.head]
              /\ q[i] < q[e.tail] <=> o[i] < o[d.tail]
              /\ q[e.tail] <= q[i] <=> o[d.tail] <= o[i]
  <2>1. o[i] \in Nat
    BY <1>1, Zenon DEF ReceiveOrder
  <2>2. PICK a \in Nat, b \in Nat, c \in Nat : a = o[i] /\ b = o[d.head] /\ c = o[d.tail]
    BY <1>5, <2>1, Zenon
  <2>3. q[i] = a - 1 /\ q[e.head] = b - 1 /\ q[e.tail] = c - 1
    BY <1>4, <1>15, <1>20, <2>2, Zenon
  <2>4. (a - 1 < b - 1 <=> a < b) /\ (a - 1 < c - 1 <=> a < c) /\ (c - 1 <= a - 1 <=> c <= a)
    OBVIOUS
  <2>5. e.slots[i] = d.slots[i] /\ u.length[i] = t.length[i]
    BY <1>8, <1>9, <1>12, <1>13, <1>20, Zenon
  <2> QED
    BY <2>1, <2>2, <2>3, <2>4, <2>5, Zenon
<1>21. ~(q[at] < q[e.head]) /\ ~(q[at] < q[e.tail]) /\ o[at] < o[d.head]
  <2>1. PICK b \in Nat, c \in Nat : b = o[d.head] /\ c = o[d.tail]
    BY <1>5, Zenon
  <2>2. q[at] = Entries - 1 /\ q[e.head] = b - 1 /\ q[e.tail] = c - 1 /\ o[at] = 0
    BY <1>3, <1>5, <1>15, <2>1, Zenon
  <2>3. b < Entries /\ c <= b /\ c > 0
    BY <1>5, <2>1, Zenon
  <2>4. ~(Entries - 1 < b - 1) /\ ~(Entries - 1 < c - 1) /\ 0 < b
    BY <2>3
  <2> QED
    BY <2>1, <2>2, <2>4, Zenon
<1>18. ReceiveBuffers(e, q)
  <2>1. ASSUME NEW i \in Slots PROVE e.slots[i].live <=> q[i] < q[e.head]
    <3>1. CASE i = at
      BY <1>8, <1>12, <1>21, <3>1, Zenon
    <3>2. CASE i # at
      <4>1. d.slots[i].live <=> o[i] < o[d.head]
        BY <1>1, Zenon DEF ReceiveAt, ReceiveBuffers
      <4> QED
        BY <1>20, <3>2, <4>1, Zenon
    <3> QED
      BY <3>1, <3>2, Zenon
  <2>2. ASSUME NEW i \in Slots, q[e.tail] <= q[i], q[i] < q[e.head] PROVE ~e.slots[i].cpu
    <3>1. i # at
      BY <1>21, <2>2, Zenon
    <3>2. o[d.tail] <= o[i] /\ o[i] < o[d.head] /\ e.slots[i] = d.slots[i]
      BY <1>20, <2>2, <3>1, Zenon
    <3> QED
      BY <1>1, <3>2, Zenon DEF ReceiveAt, ReceiveBuffers
  <2>3. Cardinality(Live(e)) = q[e.head]
    <3>1. d.slots[at].live
      BY <1>1, <1>2, <1>21, Zenon DEF ReceiveAt, ReceiveBuffers
    <3>2. Live(e) = Live(d) \ {at} /\ at \in Live(d)
      BY <1>2, <1>8, <1>12, <3>1, Zenon DEF Live
    <3>3. IsFiniteSet(Live(d))
      BY SlotsFinite, Zenon DEF Live
    <3>4. Cardinality(Live(d) \ {at}) = Cardinality(Live(d)) - 1
      BY <3>2, <3>3, FS_RemoveElement, Zenon
    <3>5. Cardinality(Live(d)) = o[d.head]
      BY <1>1, Zenon DEF ReceiveAt, ReceiveBuffers
    <3> QED
      BY <1>15, <3>2, <3>4, <3>5, Zenon
  <2> QED
    BY <2>1, <2>2, <2>3, Zenon DEF ReceiveBuffers
<1>19. ReceiveFrames(e, u, v, NoPending, g, bad, q)
  <2>1. ASSUME NEW i \in Slots, q[i] < q[e.tail]
        PROVE  e.slots[i].frame = Len(g) + 1 + q[i] /\ (u.length[i] = "ok" \/ bad)
    <3>1. i # at
      BY <1>21, <2>1, Zenon
    <3>2. /\ o[i] \in Nat /\ q[i] = o[i] - 1 /\ e.slots[i] = d.slots[i]
          /\ u.length[i] = t.length[i] /\ o[i] < o[d.tail]
      BY <1>20, <2>1, <3>1, Zenon
    <3>4. /\ d.slots[i].frame = Len(k) + 1 + o[i]
          /\ t.length[i] = "ok" \/ bad
      BY <1>1, <3>1, <3>2, Zenon DEF ReceiveAt, ReceiveFrames
    <3>5. Len(k) \in Nat
      BY <1>2, Zenon
    <3>6. (Len(k) + 1) + 1 + (o[i] - 1) = Len(k) + 1 + o[i]
      <4>1. PICK x \in Nat, j \in Nat : x = Len(k) /\ j = o[i]
        BY <3>2, <3>5, Zenon
      <4>2. (x + 1) + 1 + (j - 1) = x + 1 + j
        OBVIOUS
      <4> QED
        BY <4>1, <4>2, Zenon
    <3> QED
      BY <1>14, <3>2, <3>4, <3>6, Zenon
  <2> QED
    BY <1>16, <2>1, Zenon DEF ReceiveFrames
<1> QED
  BY <1>17, <1>18, <1>19, Zenon DEF ReceiveSound, ReceiveAt, q
-----------------------------------------------------------------------------
(* completed_send_next keeps the source ring sound. *)
LEMMA ReapStep ==
    ASSUME SourceSound(src, seen), NEW done, Reap(done)
    PROVE  SourceSound(src', seen)
<1>1. CASE CanReap(src) /\ src' = Reaped(src)
  BY <1>1, ReapKeeps, Zenon
<1>2. CASE UNCHANGED src
  BY <1>2, Zenon
<1> QED
  BY <1>1, <1>2, Zenon DEF Reap

(* The number of frames accepted, as the offsets give it. *)
LEMMA AcceptedIs ==
    ASSUME SourceSound(src, seen), NEW o, o = Offsets(First(src))
    PROVE  Accepted + 1 = Len(seen) + 1 + o[src.head] - o[src.tail] /\ Accepted + 1 \in Nat
<1>1. SourceAt(src, seen, o) /\ SourceFields(src, seen) /\ SourceOrder(src, o)
  BY SourceFacts, Zenon DEF SourceSound
<1>2. Accepted = Len(seen) + Cardinality(Unsent(src, Len(seen)))
  BY Zenon DEF Accepted, Unsent
<1>3. Cardinality(Unsent(src, Len(seen))) = o[src.head] - o[src.tail] /\ o[src.tail] <= o[src.head]
  BY <1>1, Zenon DEF SourceAt
<1>4. PICK a \in Nat, b \in Nat, c \in Nat : a = o[src.head] /\ b = o[src.tail] /\ c = Len(seen)
  BY <1>1, Zenon DEF SourceOrder, SourceFields
<1>5. Accepted = c + (a - b) /\ b <= a
  BY <1>2, <1>3, <1>4
<1>6. Accepted + 1 = c + 1 + a - b /\ Accepted + 1 \in Nat
  BY <1>5
<1> QED
  BY <1>4, <1>6, Zenon

(* CePipes::send, whether it succeeds, finds no room or fails. *)
LEMMA SendStep ==
    ASSUME SourceSound(src, seen), Send
    PROVE  SourceSound(src', seen)
<1> DEFINE o == Offsets(First(src))
           n == Accepted + 1
<1>1. SourceAt(src, seen, o) /\ SourceFields(src, seen) /\ SourceOrder(src, o)
  BY SourceFacts, Zenon DEF SourceSound
<1>2. n = Following(src, seen, o) /\ n \in Nat
  BY AcceptedIs, Zenon DEF Following
<1>3. Loaded(n) \in Buffers
  BY <1>2, BufferFacts, Zenon
<1>4. \/ CanSend(src) /\ src' = Published(src, Loaded(n))
      \/ src' = [src EXCEPT !.pub = src.head]
      \/ src' = src
      \/ src' = Withdrawn(src, Loaded(n))
  BY Zenon DEF Send, Attempted
<1> HIDE DEF n, o
<1>5. CASE CanSend(src) /\ src' = Published(src, Loaded(n))
  <2>1. First(src') = First(src) /\ SourceAt(src', seen, o)
    BY <1>1, <1>2, <1>5, PublishKeeps
  <2> QED
    BY <2>1, Zenon DEF SourceSound, o
<1>6. CASE src' = Withdrawn(src, Loaded(n))
  <2>1. First(src') = First(src) /\ SourceAt(src', seen, o)
    BY <1>1, <1>3, <1>6, WithdrawKeeps, Zenon
  <2> QED
    BY <2>1, Zenon DEF SourceSound, o
<1>7. CASE src' = [src EXCEPT !.pub = src.head]
  <2>1. src' = src
    BY <1>1, <1>7, Zenon DEF SourceAt, Rings
  <2> QED
    BY <2>1, Zenon
<1> QED
  BY <1>4, <1>5, <1>6, <1>7

(* rx_post_pipe, one round. *)
LEMMA PostStep ==
    ASSUME ReceiveSound(dst, sts, soft, pending, needed, taken, filled, spoilt),
           NEW enough, NEW failed, RxPost(enough, failed)
    PROVE  /\ ReceiveSound(dst', sts, soft, pending, needed', taken, filled, spoilt)
           /\ error' = error \/ error' \in {"credits", "fault"}
           /\ pc' \in {pc, enough, failed}
<1> DEFINE o == Offsets(soft)
<1>1. /\ ReceiveAt(dst, sts, soft, pending, needed, taken, filled, spoilt, o)
      /\ ReceiveFields(dst, sts, taken) /\ ReceiveOrder(dst, soft, o)
  BY ReceiveFacts, Zenon DEF ReceiveSound, ReceiveAt
<1>2. \/ needed # 0 /\ dst' = Published(dst, Posted) /\ needed' = needed - 1
      \/ dst' = Withdrawn(dst, Posted) /\ needed' = needed
      \/ dst' = dst /\ needed' = needed
  BY Zenon DEF RxPost, Refilled, Attempted
<1>3. /\ error' = error \/ error' \in {"credits", "fault"}
      /\ pc' \in {pc, enough, failed}
  BY Zenon DEF RxPost
<1> HIDE DEF o
<1>4. CASE needed # 0 /\ dst' = Published(dst, Posted) /\ needed' = needed - 1
  <2>1. ReceiveAt(dst', sts, soft, pending, needed - 1, taken, filled, spoilt, o)
    BY <1>1, <1>4, PostKeeps, Zenon
  <2> QED
    BY <1>3, <1>4, <2>1, Zenon DEF ReceiveSound, o
<1>5. CASE dst' = Withdrawn(dst, Posted) /\ needed' = needed
  <2>1. ReceiveAt(dst', sts, soft, pending, needed, taken, filled, spoilt, o)
    BY <1>1, <1>5, UnpostKeeps
  <2> QED
    BY <1>3, <1>5, <2>1 DEF ReceiveSound, o
<1> QED
  BY <1>2, <1>3, <1>4, <1>5

(* completed_recv_next, at whatever point it fails. *)
LEMMA ReceiveStep ==
    ASSUME ReceiveSound(dst, sts, soft, pending, needed, taken, filled, spoilt),
           NEW found, NEW none, NEW failed, CompletedRecvNext(found, none, failed)
    PROVE  /\ ReceiveSound(dst', sts', soft', pending', needed', taken', filled, spoilt)
           /\ error' = "invalid" => error = "invalid" \/ spoilt
           /\ \/ pc' = found /\ \E x \in Nat : batch' = Append(batch, x)
              \/ pc' \in {none, failed} /\ batch' = batch
<1> DEFINE o == Offsets(soft)
<1>1. /\ ReceiveAt(dst, sts, soft, pending, needed, taken, filled, spoilt, o)
      /\ ReceiveFields(dst, sts, taken) /\ ReceiveOrder(dst, soft, o)
  BY ReceiveFacts, Zenon DEF ReceiveSound, ReceiveAt
<1>2. sts.tail = soft /\ sts.head = dst.tail /\ soft \in Slots /\ dst.tail \in Slots /\ Len(taken) \in Nat
  BY <1>1, Zenon DEF ReceiveAt, ReceiveShape, ReceiveFields
<1> HIDE DEF o
<1>3. ASSUME sts.tail # sts.head, ~pending.some, sts.length[soft] # "ok" PROVE spoilt
  <2>1. o[soft] < o[dst.tail]
    BY <1>1, <1>2, <1>3 DEF ReceiveOrder
  <2> QED
    BY <1>1, <1>2, <1>3, <2>1 DEF ReceiveAt, ReceiveFrames
<1>4. Keeping(TRUE) = Kept(pending, sts, dst.slots[soft], TRUE)
      /\ Keeping(FALSE) = Kept(pending, sts, dst.slots[soft], FALSE)
  BY Zenon DEF Keeping, Kept, Slot
<1>5. Cleared = Blanked(sts) /\ Acquired = Touched(dst, soft)
  BY Zenon DEF Cleared, Blanked, Acquired, Touched
<1>6. ASSUME sts.tail # sts.head, NEW c \in Flag, NEW q, q = Kept(pending, sts, dst.slots[soft], c)
      PROVE  q \in Pendings /\ q.some /\ q.at = soft /\ q.frame = Len(taken) + 1
  BY <1>1, <1>2, <1>6, KeptFacts
<1> DEFINE Nothing == pc' = none /\ UNCHANGED <<dst, sts, soft, pending, needed, batch, taken, error>>
           Refused == /\ sts.tail # sts.head /\ pc' = failed
                      /\ error' = (IF InvalidEntry /\ Slot.live THEN "invalid" ELSE "fault")
                      /\ UNCHANGED <<dst, sts, soft, pending, needed, batch, taken>>
           Completed == /\ sts.tail # sts.head /\ pc' = found
                        /\ batch' = Append(batch, Keeping(TRUE).frame)
                        /\ taken' = Append(taken, Keeping(TRUE).frame)
                        /\ sts' = [Cleared EXCEPT !.tail = Next1(sts.tail), !.pub = Next1(sts.tail)]
                        /\ dst' = [dst EXCEPT !.slots[soft] = Empty]
                        /\ soft' = Next1(soft) /\ needed' = needed + 1
                        /\ pending' = NoPending /\ UNCHANGED error
           Failed == /\ pc' = failed /\ error' = "fault"
                     /\ UNCHANGED <<dst, sts, pending>> \/ (sts.tail # sts.head /\ FailedReceive)
                     /\ UNCHANGED <<soft, needed, batch, taken>>
<1>7. Nothing \/ Refused \/ Completed \/ Failed
  BY Zenon DEF CompletedRecvNext
<1>8. CASE Nothing
  BY <1>8, Zenon
<1>9. CASE Refused
  BY <1>2, <1>3, <1>9 DEF InvalidEntry, Reported
<1>10. CASE Completed
  <2>1. Keeping(TRUE).frame = Len(taken) + 1
    BY <1>4, <1>6, <1>10, Flags, Zenon
  <2>2. /\ pc' = found /\ batch' = Append(batch, Len(taken) + 1)
        /\ taken' = Append(taken, Len(taken) + 1)
    BY <1>10, <2>1, Zenon
  <2>3. sts' = Released(sts) /\ dst' = Emptied(dst, soft)
    BY <1>5, <1>10 DEF Released, Emptied
  <2>4. soft # dst.tail /\ soft' = Next1(soft) /\ needed' = needed + 1 /\ pending' = NoPending /\ error' = error
    BY <1>2, <1>10
  <2>5. ReceiveSound(dst', sts', soft', NoPending, needed + 1, taken', filled, spoilt)
    BY <2>2, <2>3, <2>4, CompleteKeeps, Zenon
  <2>6. Len(taken) + 1 \in Nat
    BY <1>2
  <2> QED
    BY <2>2, <2>4, <2>5, <2>6
<1>11. CASE Failed
  <2>1. ReceiveAt(dst', sts', soft, pending', needed, taken, filled, spoilt, o)
    <3>1. CASE UNCHANGED <<dst, sts, pending>>
      BY <1>1, <3>1, Zenon
    <3>2. CASE sts.tail # sts.head /\ FailedReceive
      <4>1. soft # dst.tail
        BY <1>2, <3>2
      <4>2. CASE UNCHANGED <<dst, sts, pending>>
        BY <1>1, <4>2, Zenon
      <4>3. CASE dst' = Touched(dst, soft)
        <5>1. ReceiveAt(dst', sts, soft, pending, needed, taken, filled, spoilt, o)
          BY <1>1, <4>1, <4>3, AcquireKeeps
        <5>2. ReceiveFields(dst', sts, taken) /\ ReceiveOrder(dst', soft, o)
          BY <5>1, ReceiveFacts, Zenon DEF ReceiveAt, o
        <5>3. dst'.tail = dst.tail
          BY <1>2, <5>1, Zenon DEF ReceiveAt, ReceiveShape
        <5>4. CASE UNCHANGED <<sts, pending>>
          BY <5>1, <5>4, Zenon
        <5>5. CASE pending' = Keeping(FALSE) /\ UNCHANGED sts
          <6>1. pending' \in Pendings /\ pending'.some /\ pending'.at = soft /\ pending'.frame = Len(taken) + 1
            BY <1>4, <1>6, <3>2, <5>5, Flags, Zenon
          <6> QED
            BY <4>1, <5>1, <5>2, <5>3, <5>5, <6>1, KeepKeeps, Zenon
        <5>6. CASE pending' = Keeping(TRUE) /\ sts' = Cleared
          <6>1. pending' \in Pendings /\ pending'.some /\ pending'.at = soft /\ pending'.frame = Len(taken) + 1
            BY <1>4, <1>6, <3>2, <5>6, Flags, Zenon
          <6> QED
            BY <1>5, <4>1, <5>1, <5>2, <5>3, <5>6, <6>1, KeepKeeps, Zenon
        <5> QED
          BY <1>5, <3>2, <4>2, <5>4, <5>5, <5>6, Zenon DEF FailedReceive
      <4> QED
        BY <1>5, <3>2, <4>2, <4>3, Zenon DEF FailedReceive
    <3> QED
      BY <1>11, <3>1, <3>2
  <2>2. ReceiveSound(dst', sts', soft', pending', needed', taken', filled, spoilt)
    BY <1>11, <2>1, Zenon DEF ReceiveSound, o
  <2> QED
    BY <1>11, <2>2, Zenon
<1> QED
  BY <1>7, <1>8, <1>9, <1>10, <1>11, Zenon

(* The device sends, fills and writes its pointers back. *)
LEMMA DeviceStep ==
    ASSUME CeInv, Device
    PROVE  CeInv'
<1> DEFINE o == Offsets(First(src))
           q == Offsets(soft)
<1>1. SourceAt(src, seen, o) /\ SourceFields(src, seen) /\ SourceOrder(src, o)
  BY SourceFacts, Zenon DEF CeInv, SourceSound
<1>2. /\ ReceiveAt(dst, sts, soft, pending, needed, taken, filled, spoilt, q)
      /\ ReceiveFields(dst, sts, taken) /\ ReceiveOrder(dst, soft, q)
  BY ReceiveFacts, Zenon DEF CeInv, ReceiveSound, ReceiveAt
<1>3. UNCHANGED <<pc, soft, pending, needed, batch, taken, error>>
  BY Zenon DEF Device, Transmit, Fill, WriteBack, host
<1>4. Held' /\ Held /\ (error' = "invalid" => spoilt)
  BY <1>3, Zenon DEF CeInv, Held
<1> HIDE DEF o, q
<1>5. CASE Transmit
  <2>1. /\ src.tail # src.pub /\ src' = Advanced(src) /\ seen' = Append(seen, Frame(src))
        /\ UNCHANGED <<dst, sts, filled, spoilt>>
    BY <1>5, Zenon DEF Transmit, Advanced, Frame
  <2>2. First(src') = First(src) /\ SourceAt(src', seen', o)
    BY <1>1, <2>1, TransmitKeeps, Zenon
  <2>3. SourceSound(src', seen')
    BY <2>2, Zenon DEF SourceSound, o
  <2> QED
    BY <1>3, <1>4, <2>1, <2>3 DEF CeInv
<1>6. CASE Fill
  <2>1. PICK l \in {"ok", "bad"} :
          /\ dst.tail # dst.pub /\ filled' = filled + 1 /\ dst' = Filled(dst, filled + 1)
          /\ sts' = Reporting(sts, l) /\ spoilt' = (spoilt \/ l = "bad")
          /\ UNCHANGED <<src, seen>>
    BY <1>6, Zenon DEF Fill, Filled, Reporting
  <2>2. ReceiveAt(dst', sts', soft, pending, needed, taken, filled + 1, spoilt', q)
    BY <1>2, <2>1, FillKeeps
  <2>3. ReceiveSound(dst', sts', soft', pending', needed', taken', filled', spoilt')
    BY <1>3, <2>1, <2>2 DEF ReceiveSound, q
  <2> QED
    BY <1>4, <2>1, <2>3, Zenon DEF CeInv
<1>7. CASE WriteBack
  <2>1. \/ src' = RdpWritten(src) /\ UNCHANGED <<dst, sts, seen, filled, spoilt>>
        \/ dst' = RdpWritten(dst) /\ UNCHANGED <<src, sts, seen, filled, spoilt>>
    BY <1>7, Zenon DEF WriteBack, RdpWritten
  <2>2. CASE src' = RdpWritten(src) /\ UNCHANGED <<dst, sts, seen, filled, spoilt>>
    <3>1. src \in Rings /\ o[src.tail] \in Nat
      BY <1>1, Zenon DEF SourceAt, SourceFields, SourceOrder
    <3>2. First(src') = First(src) /\ SourceAt(src', seen, o)
      BY <1>1, <2>2, <3>1, WriteBackKeeps
    <3>3. SourceSound(src', seen')
      BY <2>2, <3>2 DEF SourceSound, o
    <3> QED
      BY <1>3, <1>4, <2>2, <3>3 DEF CeInv
  <2>3. CASE dst' = RdpWritten(dst) /\ UNCHANGED <<src, sts, seen, filled, spoilt>>
    <3>1. dst \in Rings
      BY <1>2, Zenon DEF ReceiveAt, ReceiveShape
    <3>2. Similar(dst', dst, q)
      BY <2>3, <3>1, WriteBackKeeps
    <3>3. ReceiveAt(dst', sts, soft, pending, needed, taken, filled, spoilt, q)
      BY <1>2, <3>2, SimilarKeeps
    <3>4. ReceiveSound(dst', sts', soft', pending', needed', taken', filled', spoilt')
      BY <1>3, <2>3, <3>3 DEF ReceiveSound, q
    <3> QED
      BY <1>4, <2>3, <3>4 DEF CeInv
  <2> QED
    BY <2>1, <2>2, <2>3
<1> QED
  BY <1>5, <1>6, <1>7 DEF Device

(* The host's calls on the sending side, and those that only move between  *)
(* two rounds of a loop.                                                   *)
LEMMA SendingStep ==
    ASSUME CeInv,
           SendHtc \/ SendReap \/ Send \/ ReceiveHtc \/ Wait \/ RxPostBuf \/ PerEngineService \/ ServiceTx
    PROVE  CeInv'
<1>1. UNCHANGED <<dst, sts, soft, pending, needed, batch, taken, seen, filled, spoilt>>
  BY Zenon DEF SendHtc, SendReap, Send, ReceiveHtc, Wait, RxPostBuf, PerEngineService, ServiceTx
<1>2. SourceSound(src', seen')
  <2>1. SourceSound(src', seen)
    <3>1. CASE SendReap \/ ServiceTx
      BY <3>1, ReapStep, Zenon DEF CeInv, SendReap, ServiceTx
    <3>2. CASE Send
      BY <3>2, SendStep, Zenon DEF CeInv
    <3>3. CASE SendHtc \/ ReceiveHtc \/ Wait \/ RxPostBuf \/ PerEngineService
      BY <3>3, Zenon DEF CeInv, SendHtc, ReceiveHtc, Wait, RxPostBuf, PerEngineService
    <3> QED
      BY <3>1, <3>2, <3>3
  <2> QED
    BY <1>1, <2>1
<1>3. error' = error \/ error' # "invalid"
  BY Zenon DEF SendHtc, SendReap, Send, ReceiveHtc, Wait, RxPostBuf, PerEngineService, ServiceTx, Reap
<1>4. /\ pc \notin {"refill", "service_rx", "service_post"} /\ pc' # "refill"
  BY Zenon DEF SendHtc, SendReap, Send, ReceiveHtc, Wait, RxPostBuf, PerEngineService, ServiceTx, Reap
<1>5. Held'
  BY <1>1, <1>4, Zenon DEF CeInv, Held
<1> QED
  BY <1>1, <1>2, <1>3, <1>5 DEF CeInv

(* The host's calls that complete a receive buffer. *)
LEMMA ReceivingStep ==
    ASSUME CeInv, Poll \/ ServiceRx
    PROVE  CeInv'
<1>1. UNCHANGED <<src, seen, filled, spoilt>>
  BY Zenon DEF Poll, ServiceRx
<1>2. ASSUME NEW found, NEW none, NEW failed, CompletedRecvNext(found, none, failed)
      PROVE  /\ ReceiveSound(dst', sts', soft', pending', needed', taken', filled', spoilt')
             /\ error' = "invalid" => spoilt'
             /\ \/ pc' = found /\ \E x \in Nat : batch' = Append(batch, x)
                \/ pc' \in {none, failed} /\ batch' = batch
  BY <1>1, <1>2, ReceiveStep, Zenon DEF CeInv
<1>3. /\ ReceiveSound(dst', sts', soft', pending', needed', taken', filled', spoilt')
      /\ error' = "invalid" => spoilt'
  BY <1>2, Zenon DEF Poll, ServiceRx
<1>4. Held'
  <2>1. CASE Poll
    <3>1. batch = <<>>
      BY <2>1, Zenon DEF CeInv, Held, Poll
    <3>2. \/ pc' = "refill" /\ \E x \in Nat : batch' = Append(batch, x)
          \/ pc' \in {"wait", "idle"} /\ batch' = batch
      BY <1>2, <2>1 DEF Poll
    <3>3. CASE pc' = "refill" /\ \E x \in Nat : batch' = Append(batch, x)
      <4>1. PICK x \in Nat : batch' = Append(<<>>, x)
        BY <3>1, <3>3
      <4>2. batch' \in Seq(Nat) /\ Len(batch') = 1
        BY <4>1
      <4> QED
        BY <3>3, <4>2 DEF Held
    <3>4. CASE pc' \in {"wait", "idle"} /\ batch' = batch
      BY <3>1, <3>4 DEF Held
    <3> QED
      BY <3>2, <3>3, <3>4
  <2>2. CASE ServiceRx
    <3>1. batch \in Seq(Nat)
      BY Zenon DEF CeInv, Held
    <3>2. \/ pc' = "service_rx" /\ \E x \in Nat : batch' = Append(batch, x)
          \/ pc' = "service_post" /\ batch' = batch
      BY <1>2, <2>2 DEF ServiceRx
    <3>3. batch' \in Seq(Nat)
      BY <3>1, <3>2
    <3> QED
      BY <3>2, <3>3 DEF Held
  <2> QED
    BY <2>1, <2>2
<1> QED
  BY <1>1, <1>3, <1>4 DEF CeInv

(* The host's calls that post receive buffers. *)
LEMMA PostingStep ==
    ASSUME CeInv, Refill \/ Start \/ ServicePost
    PROVE  CeInv'
<1>1. UNCHANGED <<src, sts, soft, pending, taken, seen, filled, spoilt>> /\ RxPost("idle", "idle")
  BY Zenon DEF Refill, Start, ServicePost
<1>2. /\ ReceiveSound(dst', sts, soft, pending, needed', taken, filled, spoilt)
      /\ error' = error \/ error' \in {"credits", "fault"}
      /\ pc' \in {pc, "idle"}
  BY <1>1, PostStep, Zenon DEF CeInv
<1>3. Held'
  <2>1. CASE pc' = "idle"
    <3>1. batch' = <<>>
      BY <2>1, Zenon DEF CeInv, Held, Refill, Start, ServicePost
    <3> QED
      BY <2>1, <3>1 DEF Held
  <2>2. CASE pc' # "idle" /\ pc' = pc
    BY <2>2, Zenon DEF CeInv, Held, Refill, Start, ServicePost
  <2> QED
    BY <1>2, <2>1, <2>2
<1> QED
  BY <1>1, <1>2, <1>3 DEF CeInv

(* The rings are sound when they have been set up. *)
LEMMA InitSound ==
    ASSUME Init
    PROVE  CeInv
<1> DEFINE o == Offsets(0)
           none == [i \in Slots |-> Empty]
           zeros == [i \in Slots |-> 0]
<1>1. 0 \in Slots /\ Entries - 1 \in Slots /\ Entries - 2 \in Nat
  BY DEF Slots
<1>2. Empty \in Buffers /\ NoPending \in Pendings /\ ~NoPending.some
  BY <1>1, Flags, Zenon DEF Empty, Buffers, NoPending, Pendings
<1>3. none \in [Slots -> Buffers] /\ zeros \in [Slots -> Nat]
  BY <1>2, Zenon
<1>4. NewRing = [head |-> 0, reap |-> Entries - 1, pub |-> 0, tail |-> 0, rdp |-> 0,
                 desc |-> zeros, slots |-> none]
  BY Zenon DEF NewRing
<1>5. \A i \in Slots : ~none[i].live
  BY Zenon DEF Empty
<1> HIDE DEF none, zeros
<1>6. /\ NewRing \in Rings /\ NewRing.head = 0 /\ NewRing.tail = 0 /\ NewRing.pub = 0
      /\ NewRing.rdp = 0 /\ NewRing.reap = Entries - 1
      /\ \A i \in Slots : ~NewRing.slots[i].live
  BY <1>1, <1>3, <1>4, <1>5 DEF Rings
<1>7. o[0] = 0 /\ \A i \in Slots : o[i] \in Nat
  BY <1>1 DEF Offsets, Dist, Slots
<1>8. First(NewRing) = 0
  <2>1. Next1(Entries - 1) = 0
    BY <1>1, NextIs
  <2> QED
    BY <1>6, <2>1, Zenon DEF First
<1>9. /\ <<>> \in Seq(Nat) /\ Len(<<>>) = 0 /\ InOrder(<<>>)
  BY DEF InOrder
<1> HIDE DEF o
<1>10. SourceAt(NewRing, <<>>, o)
  <2>1. Unsent(NewRing, 0) = {}
    BY <1>6, Zenon DEF Unsent
  <2>2. Cardinality(Unsent(NewRing, 0)) = 0
    BY <2>1, FS_EmptySet
  <2>3. \A i \in Slots : ~(o[i] < 0)
    BY <1>7
  <2> QED
    BY <1>6, <1>7, <1>9, <2>2, <2>3 DEF SourceAt
<1>11. SourceSound(src, seen)
  BY <1>8, <1>10 DEF SourceSound, Init, o
<1> DEFINE z == [i \in Slots |-> "zero"]
           t == [head |-> 0, tail |-> 0, pub |-> 0, length |-> z]
<1>12. z \in [Slots -> {"zero", "ok", "bad"}]
  BY Zenon
<1> HIDE DEF z
<1>13. t \in StatusRings /\ t.head = 0 /\ t.tail = 0 /\ t.pub = 0
  BY <1>1, <1>12 DEF StatusRings
<1> HIDE DEF t
<1>14. ReceiveAt(NewRing, t, 0, NoPending, Entries - 2, <<>>, 0, FALSE, o)
  <2>1. Live(NewRing) = {}
    BY <1>6, Zenon DEF Live
  <2>2. Cardinality(Live(NewRing)) = 0
    BY <2>1, FS_EmptySet
  <2>3. \A i \in Slots : ~(o[i] < 0)
    BY <1>7
  <2>4. ReceiveShape(NewRing, t, 0, NoPending, Entries - 2, <<>>, 0, o)
    BY <1>1, <1>2, <1>6, <1>7, <1>9, <1>13 DEF ReceiveShape
  <2>5. ReceiveBuffers(NewRing, o)
    BY <1>6, <1>7, <2>2, <2>3 DEF ReceiveBuffers
  <2>6. ReceiveFrames(NewRing, t, 0, NoPending, <<>>, FALSE, o)
    BY <1>2, <1>6, <1>7, <2>3 DEF ReceiveFrames
  <2> QED
    BY <2>4, <2>5, <2>6, Zenon DEF ReceiveAt
<1>15. ReceiveSound(dst, sts, soft, pending, needed, taken, filled, spoilt)
  BY <1>14, Zenon DEF ReceiveSound, Init, o, t, z
<1> QED
  BY <1>9, <1>11, <1>15 DEF CeInv, Held, Init

(* The inductive invariant of the pipes. *)
LEMMA CeInvariant == Spec => []CeInv
<1>1. Init => CeInv
  BY InitSound, Zenon
<1>2. CeInv /\ [Next]_vars => CeInv'
  <2> SUFFICES ASSUME CeInv, [Next]_vars PROVE CeInv'
    BY Zenon
  <2>1. CASE UNCHANGED vars
    BY <2>1, Zenon DEF vars, CeInv, Held
  <2>2. CASE Device
    BY <2>2, DeviceStep, Zenon
  <2>3. CASE Host
    BY <2>3, SendingStep, ReceivingStep, PostingStep DEF Host
  <2> QED
    BY <2>1, <2>2, <2>3 DEF Next
<1> QED
  BY <1>1, <1>2, PTL DEF Spec

(* What the invariant says of the pipes: no entry the device can reach is  *)
(* empty or the CPU's, frames are sent and taken once and in order, a      *)
(* retry finds what the failed attempt left, no buffer is lost.            *)
LEMMA CeInvIsSafe ==
    ASSUME CeInv
    PROVE  CeSafe
<1> DEFINE o == Offsets(First(src))
           q == Offsets(soft)
<1>1. SourceAt(src, seen, o) /\ SourceFields(src, seen) /\ SourceOrder(src, o)
  BY SourceFacts, Zenon DEF CeInv, SourceSound
<1>2. /\ ReceiveAt(dst, sts, soft, pending, needed, taken, filled, spoilt, q)
      /\ ReceiveFields(dst, sts, taken) /\ ReceiveOrder(dst, soft, q)
  BY ReceiveFacts, Zenon DEF CeInv, ReceiveSound, ReceiveAt
<1>3. /\ src \in Rings /\ dst \in Rings /\ sts \in StatusRings /\ soft \in Slots /\ needed \in Nat
      /\ src.head \in Slots /\ src.tail \in Slots /\ src.reap \in Slots
      /\ dst.head \in Slots /\ dst.tail \in Slots
      /\ src.pub = src.head /\ dst.pub = dst.head
      /\ sts.pub = sts.tail /\ sts.tail = soft /\ sts.head = dst.tail
  BY <1>1, <1>2, Zenon DEF SourceAt, SourceFields, ReceiveAt, ReceiveShape, Rings
<1>4. First(src) \in Slots
  BY <1>3, NextIs DEF First
<1>5. needed + q[dst.head] = Entries - 2 /\ q[dst.head] \in Nat
  BY <1>2, <1>3, Zenon DEF ReceiveAt, ReceiveShape, ReceiveOrder
<1>6. CeTypeOK
  <2>1. needed \in 0 .. Entries - 2
    BY <1>3, <1>5
  <2>2. \A r \in {src, dst} : {r.head, r.reap, r.pub, r.tail, r.rdp} \subseteq Slots
    BY <1>3, Zenon DEF Rings
  <2>3. {sts.head, sts.tail, sts.pub, soft} \subseteq Slots
    BY <1>3, Zenon
  <2> QED
    BY <2>1, <2>2, <2>3 DEF CeTypeOK
<1>7. ReachableIsLive
  <2>1. ASSUME NEW i \in Between(src.tail, src.pub)
        PROVE  src.slots[i].live /\ src.slots[i].frame = src.desc[i]
    <3>1. o[src.tail] <= o[src.head]
      BY <1>1, Zenon DEF SourceAt
    <3>2. i \in Slots /\ o[i] < o[src.head]
      BY <1>3, <1>4, <2>1, <3>1, BetweenIs
    <3> QED
      BY <1>1, <3>2, Zenon DEF SourceAt
  <2>2. ASSUME NEW i \in Between(dst.tail, dst.pub)
        PROVE  dst.slots[i].live /\ ~dst.slots[i].cpu
    <3>1. q[dst.tail] <= q[dst.head]
      BY <1>2, Zenon DEF ReceiveAt, ReceiveShape
    <3>2. i \in Slots /\ q[dst.tail] <= q[i] /\ q[i] < q[dst.head]
      BY <1>3, <2>2, <3>1, BetweenIs
    <3> QED
      BY <1>2, <3>2, Zenon DEF ReceiveAt, ReceiveBuffers
  <2> QED
    BY <2>1, <2>2 DEF ReachableIsLive
<1>8. SentOnce
  BY <1>1, Zenon DEF SourceAt, SentOnce
<1> HIDE DEF o, q
<1>9. TakenOnce
  <2>1. InOrder(taken) /\ (pending.some => pending.at = sts.tail /\ sts.tail # sts.head)
    BY <1>2, <1>3, Zenon DEF ReceiveAt, ReceiveShape, ReceiveFrames
  <2>2. sts.tail # sts.head => Slot.live
    <3>1. SUFFICES ASSUME soft # dst.tail PROVE dst.slots[soft].live
      BY <1>3, Zenon DEF Slot
    <3>2. q[soft] = 0 /\ q[dst.tail] \in Nat /\ q[dst.tail] > 0 /\ q[dst.tail] <= q[dst.head]
      BY <1>2, <1>3, <3>1, Zenon DEF ReceiveAt, ReceiveShape, ReceiveOrder
    <3>3. q[soft] < q[dst.head]
      BY <1>5, <3>2
    <3> QED
      BY <1>2, <1>3, <3>3 DEF ReceiveAt, ReceiveBuffers
  <2> QED
    BY <2>1, <2>2, Zenon DEF TakenOnce, CeInv
<1>10. BuffersConserved
  <2>1. Cardinality(Live(dst)) = q[dst.head]
    BY <1>2, Zenon DEF ReceiveAt, ReceiveBuffers
  <2> QED
    BY <1>5, <2>1 DEF BuffersConserved, Live
<1> QED
  BY <1>6, <1>7, <1>8, <1>9, <1>10, Zenon DEF CeSafe

(* CePipes: for every ring size and number of frames and failures, and     *)
(* whatever lengths the device reports, each frame is sent once and taken  *)
(* once, in order; what the device can reach is alive; and no receive      *)
(* buffer is lost or posted twice.                                         *)
THEOREM CopyEngineIsSafe == Spec => []CeSafe
BY CeInvariant, CeInvIsSafe, PTL

(* receive_htc and per_engine_service: frames that were completed are      *)
(* either all returned or replaced by an error.                            *)
THEOREM LossIsReported == Spec => LossReported
<1>1. CeInv /\ [Next]_vars =>
        [batch # <<>> /\ batch' = <<>> =>
            error' # "none" \/ \A i \in 1 .. Len(batch) : batch[i] \in got']_vars
  <2> SUFFICES ASSUME CeInv, Next, batch # <<>>, batch' = <<>>
               PROVE  error' # "none" \/ \A i \in 1 .. Len(batch) : batch[i] \in got'
    BY Zenon DEF vars
  <2>1. batch' # batch
    BY Zenon
  <2>2. Poll \/ Refill \/ ServiceRx \/ ServicePost
    BY <2>1, Zenon DEF Next, Host, Device, SendHtc, SendReap, Send, ReceiveHtc, Wait, RxPostBuf, Start,
             PerEngineService, ServiceTx, Transmit, Fill, WriteBack, host
  <2>3. CASE Poll \/ ServiceRx
    <3>1. batch' = batch \/ \E x : batch' = Append(batch, x)
      BY <2>3, Zenon DEF Poll, ServiceRx, CompletedRecvNext
    <3>2. batch \in Seq(Nat)
      BY Zenon DEF CeInv, Held
    <3> QED
      BY <2>1, <3>1, <3>2
  <2>4. CASE Refill
    <3>1. Len(batch) = 1
      BY <2>4, Zenon DEF CeInv, Held, Refill
    <3>2. pc' = "idle" /\ (error' = "none" => batch[1] \in got')
      BY <2>1, <2>4, Zenon DEF Refill
    <3> QED
      BY <3>1, <3>2
  <2>5. CASE ServicePost
    BY <2>1, <2>5, Zenon DEF ServicePost
  <2> QED
    BY <2>2, <2>3, <2>4, <2>5
<1> QED
  BY <1>1, CeInvariant, PTL DEF Spec, LossReported
====
