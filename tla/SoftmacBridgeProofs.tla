------------------------- MODULE SoftmacBridgeProofs -------------------------
(***************************************************************************)
(* Proofs about SoftmacBridge, for every capacity of the callback queue    *)
(* and of the event channel and any number of epochs, ports and callbacks. *)
(***************************************************************************)
EXTENDS SoftmacBridge, FiniteSetTheorems, TLAPS

(* The truth values, a name the provers are given BOOLEAN for only where   *)
(* they need it.                                                           *)
Flag == BOOLEAN

Callbacks == [kind : {"raw", "loss", "result"}, born : Nat]

Controls == {"loss", "result"}

Queues ==
    [queue : Seq(Callbacks), live : Flag, overflowed : Flag, raw : Nat, epoch : Nat,
     permit : Flag]

(* Where the callbacks of kinds K are in a queue s. *)
Of(s, K) == {i \in 1 .. Len(s) : s[i].kind \in K}

(* The callback queue q with the counts c of control callbacks: what it    *)
(* counts is what it holds, and all of it arose in its epoch.              *)
QueueSound(q, c) ==
    /\ q \in Queues /\ Len(q.queue) <= Capacity
    /\ q.raw = Cardinality(Of(q.queue, {"raw"}))
    /\ \A i \in 1 .. Len(q.queue) : q.queue[i].born = q.epoch
    /\ c \in [pushed : Nat, taken : Nat]
    /\ q.live => c.pushed - c.taken = Cardinality(Of(q.queue, Controls))
-----------------------------------------------------------------------------
(* Counting in a queue. *)
LEMMA OfFinite ==
    ASSUME NEW s \in Seq(Callbacks), NEW K
    PROVE  IsFiniteSet(Of(s, K)) /\ Cardinality(Of(s, K)) \in Nat
<1>1. Len(s) \in Nat
  OBVIOUS
<1>2. IsFiniteSet(1 .. Len(s))
  BY <1>1, FS_Interval
<1>3. Of(s, K) \in SUBSET (1 .. Len(s))
  BY Zenon DEF Of
<1> QED
  BY <1>2, <1>3, FS_Subset, FS_CardinalityType

LEMMA OfEmpty ==
    ASSUME NEW K
    PROVE  Cardinality(Of(<<>>, K)) = 0
<1>1. Len(<<>>) = 0
  OBVIOUS
<1>2. Of(<<>>, K) = {}
  BY <1>1 DEF Of
<1> QED
  BY <1>2, FS_EmptySet

(* A callback more at the end. *)
LEMMA OfAppend ==
    ASSUME NEW s \in Seq(Callbacks), NEW x \in Callbacks, NEW K
    PROVE  Cardinality(Of(Append(s, x), K))
              = Cardinality(Of(s, K)) + (IF x.kind \in K THEN 1 ELSE 0)
<1> DEFINE n == Len(s) + 1
           t == Append(s, x)
<1>1. /\ Len(s) \in Nat /\ Len(t) = n /\ t[n] = x
      /\ \A i \in 1 .. Len(s) : t[i] = s[i]
  OBVIOUS
<1>2. IsFiniteSet(Of(s, K)) /\ Cardinality(Of(s, K)) \in Nat
  BY OfFinite
<1> HIDE DEF t
<1>3. n \notin Of(s, K)
  BY <1>1 DEF Of
<1>4. CASE x.kind \in K
  <2>1. Of(t, K) = Of(s, K) \cup {n}
    BY <1>1, <1>4 DEF Of
  <2> QED
    BY <1>2, <1>3, <1>4, <2>1, FS_AddElement, Zenon DEF t
<1>5. CASE x.kind \notin K
  <2>1. Of(t, K) = Of(s, K)
    BY <1>1, <1>5 DEF Of
  <2> QED
    BY <1>2, <1>5, <2>1 DEF t
<1> QED
  BY <1>4, <1>5

(* r is s without its k-th callback. *)
Without(r, s, k) ==
    /\ r \in Seq(Callbacks) /\ Len(r) = Len(s) - 1
    /\ \A i \in 1 .. Len(r) : r[i] = s[IF i < k THEN i ELSE i + 1]

(* A callback less: the others keep their order, so the places of r and    *)
(* the places of s other than k correspond one to one.                     *)
LEMMA OfWithout ==
    ASSUME NEW s \in Seq(Callbacks), NEW k \in 1 .. Len(s), NEW r, Without(r, s, k), NEW K
    PROVE  Cardinality(Of(r, K))
              = Cardinality(Of(s, K)) - (IF s[k].kind \in K THEN 1 ELSE 0)
<1>1. /\ Len(s) \in Nat /\ Len(r) \in Nat /\ Len(r) = Len(s) - 1 /\ k \in Nat
      /\ r \in Seq(Callbacks)
  BY DEF Without
<1> DEFINE at(i) == IF i < k THEN i ELSE i + 1
           f == [i \in Of(r, K) |-> at(i)]
           T == Of(s, K) \ {k}
<1>2. ASSUME NEW i \in Of(r, K) PROVE at(i) \in T
  <2>1. i \in 1 .. Len(r) /\ r[i].kind \in K /\ r[i] = s[at(i)]
    BY DEF Of, Without
  <2>2. at(i) \in 1 .. Len(s) /\ at(i) # k
    BY <1>1, <2>1
  <2> HIDE DEF at
  <2> QED
    BY <2>1, <2>2 DEF Of
<1>3. ASSUME NEW i \in Of(r, K), NEW j \in Of(r, K), at(i) = at(j) PROVE i = j
  BY <1>1, <1>3 DEF Of
<1>4. ASSUME NEW j \in T PROVE \E i \in Of(r, K) : at(i) = j
  <2> DEFINE i == IF j < k THEN j ELSE j - 1
  <2>1. j \in 1 .. Len(s) /\ s[j].kind \in K /\ j # k
    BY DEF Of
  <2>2. i \in 1 .. Len(r) /\ at(i) = j
    BY <1>1, <2>1
  <2>3. r[i] = s[at(i)]
    BY <2>2, SMTT(30) DEF Without
  <2> HIDE DEF i, at
  <2>4. i \in Of(r, K)
    BY <2>1, <2>2, <2>3 DEF Of
  <2> QED
    BY <2>2, <2>4
<1> HIDE DEF at
<1>5. f \in Bijection(Of(r, K), T)
  <2> HIDE DEF T
  <2>1. f \in [Of(r, K) -> T]
    BY <1>2
  <2>2. \A i, j \in Of(r, K) : f[i] = f[j] => i = j
    BY <1>3
  <2>3. \A j \in T : \E i \in Of(r, K) : f[i] = j
    BY <1>4
  <2> HIDE DEF f
  <2> QED
    BY <2>1, <2>2, <2>3 DEF Bijection, Injection, Surjection, IsInjective
<1>6. IsFiniteSet(Of(r, K)) /\ IsFiniteSet(Of(s, K)) /\ Cardinality(Of(s, K)) \in Nat
  BY <1>1, OfFinite
<1>7. Cardinality(T) = Cardinality(Of(r, K))
  <2>1. ExistsBijection(Of(r, K), T)
    BY <1>5, Zenon DEF ExistsBijection
  <2> QED
    BY <1>6, <2>1, FS_Bijection
<1>8. k \in Of(s, K) <=> s[k].kind \in K
  BY DEF Of
<1>9. Cardinality(T) = IF k \in Of(s, K) THEN Cardinality(Of(s, K)) - 1
                       ELSE Cardinality(Of(s, K))
  BY <1>6, FS_RemoveElement, Zenon
<1> HIDE DEF T
<1> QED
  BY <1>6, <1>7, <1>8, <1>9

(* Tail and Removed leave out one callback. *)
LEMMA TailWithout ==
    ASSUME NEW s \in Seq(Callbacks), s # <<>>
    PROVE  Without(Tail(s), s, 1) /\ 1 \in 1 .. Len(s) /\ Head(s) = s[1]
<1>1. Len(s) \in Nat \ {0}
  OBVIOUS
<1>2. /\ Tail(s) \in Seq(Callbacks) /\ Len(Tail(s)) = Len(s) - 1
      /\ \A i \in 1 .. Len(Tail(s)) : Tail(s)[i] = s[i + 1]
  OBVIOUS
<1> QED
  BY <1>1, <1>2 DEF Without

LEMMA RemovedWithout ==
    ASSUME NEW s \in Seq(Callbacks), NEW k \in 1 .. Len(s)
    PROVE  Without(Removed(s, k), s, k)
<1> DEFINE a == SubSeq(s, 1, k - 1)
           b == SubSeq(s, k + 1, Len(s))
<1>1. Len(s) \in Nat /\ k \in Nat /\ \A i \in 1 .. Len(s) : s[i] \in Callbacks
  OBVIOUS
<1>2. /\ a \in Seq(Callbacks) /\ Len(a) = k - 1
      /\ \A i \in 1 .. k - 1 : a[i] = s[i]
  <2>1. \A i \in 1 .. k - 1 : s[i] \in Callbacks
    BY <1>1
  <2>2. /\ a \in Seq(Callbacks) /\ Len(a) = IF 1 <= k - 1 THEN k - 1 - 1 + 1 ELSE 0
        /\ \A i \in 1 .. k - 1 - 1 + 1 : a[i] = s[1 + i - 1]
    BY <1>1, <2>1
  <2> HIDE DEF a
  <2> QED
    BY <1>1, <2>2
<1>3. /\ b \in Seq(Callbacks) /\ Len(b) = Len(s) - k
      /\ \A i \in 1 .. Len(s) - k : b[i] = s[k + i]
  <2>1. \A i \in k + 1 .. Len(s) : s[i] \in Callbacks
    BY <1>1
  <2>2. /\ b \in Seq(Callbacks)
        /\ Len(b) = IF k + 1 <= Len(s) THEN Len(s) - (k + 1) + 1 ELSE 0
        /\ \A i \in 1 .. Len(s) - (k + 1) + 1 : b[i] = s[k + 1 + i - 1]
    BY <1>1, <2>1
  <2> HIDE DEF b
  <2> QED
    BY <1>1, <2>2
<1>4. Removed(s, k) = a \o b
  BY Zenon DEF Removed
<1> HIDE DEF a, b
<1>5. /\ a \o b \in Seq(Callbacks) /\ Len(a \o b) = Len(a) + Len(b)
      /\ \A i \in 1 .. Len(a) + Len(b) :
            (a \o b)[i] = IF i <= Len(a) THEN a[i] ELSE b[i - Len(a)]
  <2>1. a \in Seq(Callbacks) /\ b \in Seq(Callbacks)
    BY <1>2, <1>3
  <2>2. a \o b \in Seq(Callbacks) /\ Len(a \o b) = Len(a) + Len(b)
    BY <2>1
  <2>3. \A i \in 1 .. Len(a) + Len(b) :
            (a \o b)[i] = IF i <= Len(a) THEN a[i] ELSE b[i - Len(a)]
    BY <2>1
  <2> QED
    BY <2>2, <2>3
<1> DEFINE r == a \o b
<1> HIDE DEF r
<1>6. r \in Seq(Callbacks) /\ Len(r) = Len(s) - 1
  BY <1>1, <1>2, <1>3, <1>5 DEF r
<1>7. ASSUME NEW i \in 1 .. Len(r) PROVE r[i] = s[IF i < k THEN i ELSE i + 1]
  <2>1. r[i] = IF i <= Len(a) THEN a[i] ELSE b[i - Len(a)]
    BY <1>1, <1>2, <1>3, <1>5, <1>6 DEF r
  <2>2. CASE i < k
    BY <1>1, <1>2, <2>1, <2>2
  <2>3. CASE ~(i < k)
    <3>1. i - (k - 1) \in 1 .. Len(s) - k /\ k + (i - (k - 1)) = i + 1 /\ ~(i <= k - 1)
      BY <1>1, <1>6, <2>3
    <3>2. r[i] = b[i - (k - 1)]
      BY <1>2, <2>1, <3>1
    <3> QED
      BY <1>3, <2>3, <3>1, <3>2, Zenon
  <2> QED
    BY <2>2, <2>3
<1> QED
  BY <1>4, <1>6, <1>7 DEF Without, r
-----------------------------------------------------------------------------
(* The operations of the callback queue. *)
LEMMA CallbackKinds ==
    ASSUME NEW x \in Callbacks
    PROVE  /\ IsRaw(x) <=> x.kind \in {"raw"}
           /\ IsRaw(x) <=> x.kind \notin Controls
BY DEF Callbacks, IsRaw, Controls

(* A queue that was emptied, whatever becomes of its flags. *)
LEMMA ClearedSound ==
    ASSUME NEW q \in Queues, NEW e \in Nat, NEW c \in [pushed : Nat, taken : Nat],
           NEW l \in Flag, l => c.pushed = c.taken, NEW o \in Flag, NEW p \in Flag
    PROVE  QueueSound([q EXCEPT !.queue = <<>>, !.raw = 0, !.epoch = e, !.live = l,
                                !.overflowed = o, !.permit = p], c)
<1> DEFINE z == [q EXCEPT !.queue = <<>>, !.raw = 0, !.epoch = e, !.live = l,
                          !.overflowed = o, !.permit = p]
<1>1. <<>> \in Seq(Callbacks) /\ Len(<<>>) = 0
  OBVIOUS
<1>2. z \in Queues /\ z.queue = <<>> /\ z.raw = 0 /\ z.live = l
  BY <1>1, Zenon DEF Queues
<1> HIDE DEF z
<1>3. /\ Cardinality(Of(<<>>, {"raw"})) = 0
      /\ Cardinality(Of(<<>>, Controls)) = 0
  BY OfEmpty
<1>4. Len(z.queue) <= Capacity
  BY <1>1, <1>2, BridgeAssumption DEF BridgeAssumption
<1>5. z.live => c.pushed - c.taken = 0
  BY <1>2
<1> QED
  BY <1>1, <1>2, <1>3, <1>4, <1>5 DEF QueueSound, z

(* A queue with other contents t, n of them raw. *)
Requeued(q, t, n, p) == [q EXCEPT !.queue = t, !.raw = n, !.permit = p]

LEMMA RequeuedSound ==
    ASSUME NEW q \in Queues, NEW t \in Seq(Callbacks), NEW n \in Nat, NEW p \in Flag,
           Len(t) <= Capacity, \A i \in 1 .. Len(t) : t[i].born = q.epoch,
           n = Cardinality(Of(t, {"raw"})), NEW c \in [pushed : Nat, taken : Nat],
           q.live => c.pushed - c.taken = Cardinality(Of(t, Controls))
    PROVE  QueueSound(Requeued(q, t, n, p), c)
<1> DEFINE z == Requeued(q, t, n, p)
<1>1. /\ z \in Queues /\ z.queue = t /\ z.raw = n /\ z.live = q.live /\ z.epoch = q.epoch
  BY Zenon DEF Queues, Requeued
<1> HIDE DEF z
<1> QED
  BY <1>1, Zenon DEF QueueSound, z

(* What is known of the contents s of a sound queue. *)
LEMMA Contents ==
    ASSUME NEW q, NEW c, QueueSound(q, c)
    PROVE  /\ q \in Queues /\ q.queue \in Seq(Callbacks) /\ q.raw \in Nat /\ q.epoch \in Nat
           /\ Len(q.queue) \in Nat /\ Len(q.queue) <= Capacity
           /\ q.raw = Cardinality(Of(q.queue, {"raw"}))
           /\ Cardinality(Of(q.queue, Controls)) \in Nat
           /\ \A i \in 1 .. Len(q.queue) : q.queue[i].born = q.epoch
           /\ c \in [pushed : Nat, taken : Nat] /\ c.pushed \in Nat /\ c.taken \in Nat
           /\ q.live => c.pushed - c.taken = Cardinality(Of(q.queue, Controls))
<1>1. q \in Queues /\ q.queue \in Seq(Callbacks) /\ q.raw \in Nat /\ q.epoch \in Nat
  BY Zenon DEF QueueSound, Queues
<1>2. Len(q.queue) \in Nat /\ Cardinality(Of(q.queue, Controls)) \in Nat
  BY <1>1, OfFinite
<1>3. c.pushed \in Nat /\ c.taken \in Nat
  BY DEF QueueSound
<1> QED
  BY <1>1, <1>2, <1>3, Zenon DEF QueueSound

(* A callback x of the epoch e goes to the end of the contents s. *)
LEMMA Appended ==
    ASSUME NEW s \in Seq(Callbacks), NEW x \in Callbacks, NEW e, x.born = e,
           \A i \in 1 .. Len(s) : s[i].born = e
    PROVE  /\ Append(s, x) \in Seq(Callbacks) /\ Len(Append(s, x)) = Len(s) + 1
           /\ \A i \in 1 .. Len(Append(s, x)) : Append(s, x)[i].born = e
           /\ Cardinality(Of(Append(s, x), {"raw"}))
                  = Cardinality(Of(s, {"raw"})) + (IF IsRaw(x) THEN 1 ELSE 0)
           /\ Cardinality(Of(Append(s, x), Controls))
                  = Cardinality(Of(s, Controls)) + (IF IsRaw(x) THEN 0 ELSE 1)
<1> DEFINE t == Append(s, x)
<1>1. /\ Len(s) \in Nat /\ t \in Seq(Callbacks) /\ Len(t) = Len(s) + 1
      /\ \A i \in 1 .. Len(s) : t[i] = s[i]
      /\ t[Len(s) + 1] = x
  OBVIOUS
<1>2. /\ Cardinality(Of(t, {"raw"}))
            = Cardinality(Of(s, {"raw"})) + (IF x.kind \in {"raw"} THEN 1 ELSE 0)
      /\ Cardinality(Of(t, Controls))
            = Cardinality(Of(s, Controls)) + (IF x.kind \in Controls THEN 1 ELSE 0)
  BY OfAppend
<1> HIDE DEF t
<1>3. \A i \in 1 .. Len(t) : t[i].born = e
  BY <1>1
<1>4. (IsRaw(x) <=> x.kind \in {"raw"}) /\ (IsRaw(x) <=> x.kind \notin Controls)
  BY CallbackKinds
<1>5. CASE IsRaw(x)
  BY <1>1, <1>2, <1>3, <1>4, <1>5 DEF t
<1>6. CASE ~IsRaw(x)
  BY <1>1, <1>2, <1>3, <1>4, <1>6 DEF t
<1> QED
  BY <1>5, <1>6

(* All of s arose in epoch e. *)
Born(s, e) == \A i \in 1 .. Len(s) : s[i].born = e

(* The k-th callback leaves the contents s, giving r. *)
LEMMA LeftOut ==
    ASSUME NEW s \in Seq(Callbacks), NEW k \in 1 .. Len(s), NEW r, Without(r, s, k), NEW e,
           Born(s, e)
    PROVE  /\ r \in Seq(Callbacks) /\ Len(r) = Len(s) - 1 /\ Len(r) \in Nat
           /\ Born(r, e)
           /\ Cardinality(Of(r, {"raw"}))
                  = Cardinality(Of(s, {"raw"})) - (IF IsRaw(s[k]) THEN 1 ELSE 0)
           /\ Cardinality(Of(r, Controls))
                  = Cardinality(Of(s, Controls)) - (IF IsRaw(s[k]) THEN 0 ELSE 1)
<1>1. /\ Len(s) \in Nat /\ r \in Seq(Callbacks) /\ Len(r) \in Nat /\ Len(r) = Len(s) - 1
      /\ s[k] \in Callbacks /\ k \in Nat
  BY DEF Without
<1>2. ASSUME NEW i \in 1 .. Len(r) PROVE r[i].born = e
  <2>1. r[i] = s[IF i < k THEN i ELSE i + 1]
    BY DEF Without
  <2>2. (IF i < k THEN i ELSE i + 1) \in 1 .. Len(s)
    BY <1>1
  <2> QED
    BY <2>1, <2>2, Zenon DEF Born
<1>3. /\ Cardinality(Of(r, {"raw"}))
            = Cardinality(Of(s, {"raw"})) - (IF s[k].kind \in {"raw"} THEN 1 ELSE 0)
      /\ Cardinality(Of(r, Controls))
            = Cardinality(Of(s, Controls)) - (IF s[k].kind \in Controls THEN 1 ELSE 0)
  BY OfWithout
<1>4. /\ IsRaw(s[k]) <=> s[k].kind \in {"raw"}
      /\ IsRaw(s[k]) <=> s[k].kind \notin Controls
  BY <1>1, CallbackKinds
<1>5. CASE IsRaw(s[k])
  BY <1>1, <1>2, <1>3, <1>4, <1>5 DEF Born
<1>6. CASE ~IsRaw(s[k])
  BY <1>1, <1>2, <1>3, <1>4, <1>6 DEF Born
<1> QED
  BY <1>5, <1>6

(* A raw frame is queued if there is room. *)
LEMMA PushRawSound ==
    ASSUME NEW c, QueueSound(up, c)
    PROVE  QueueSound(PushRaw(up), c)
<1>1. CASE ~(up.live /\ Len(up.queue) < Capacity)
  <2>1. PushRaw(up) = up
    BY <1>1 DEF PushRaw
  <2> QED
    BY <2>1
<1>2. CASE up.live /\ Len(up.queue) < Capacity
  <2> DEFINE x == Callback("raw")
             t == Append(up.queue, x)
  <2>1. up \in Queues /\ up.raw + 1 \in Nat /\ up.epoch \in Nat /\ up.queue \in Seq(Callbacks)
    BY Contents
  <2>2. x \in Callbacks /\ IsRaw(x) /\ x.born = up.epoch
    BY <2>1 DEF Callback, Callbacks, IsRaw
  <2>3. PushRaw(up) = Requeued(up, t, up.raw + 1, TRUE)
    BY <1>2, <2>1 DEF PushRaw, Requeued, Queues
  <2> HIDE DEF x
  <2>4. /\ t \in Seq(Callbacks) /\ Len(t) = Len(up.queue) + 1
        /\ \A i \in 1 .. Len(t) : t[i].born = up.epoch
        /\ Cardinality(Of(t, {"raw"})) = Cardinality(Of(up.queue, {"raw"})) + 1
        /\ Cardinality(Of(t, Controls)) = Cardinality(Of(up.queue, Controls)) + 0
    <3>1. up.queue \in Seq(Callbacks) /\ \A i \in 1 .. Len(up.queue) : up.queue[i].born = up.epoch
      BY Contents, Zenon
    <3> QED
      BY <2>2, <3>1, Appended
  <2> HIDE DEF t
  <2>5. Len(t) <= Capacity
    BY <1>2, <2>4, Contents, BridgeAssumption DEF BridgeAssumption
  <2>6. up.raw + 1 = Cardinality(Of(t, {"raw"}))
    BY <2>4, Contents
  <2>7. up.live => c.pushed - c.taken = Cardinality(Of(t, Controls))
    BY <2>4, Contents
  <2>8. TRUE \in Flag /\ c \in [pushed : Nat, taken : Nat]
    BY Contents DEF Flag
  <2> QED
    BY <2>1, <2>3, <2>4, <2>5, <2>6, <2>7, <2>8, RequeuedSound, Zenon
<1> QED
  BY <1>1, <1>2

(* The oldest raw frame exists: the order of the natural numbers is        *)
(* well-founded.                                                           *)
LEMMA LeastNatural ==
    ASSUME NEW T \in SUBSET Nat, T # {}
    PROVE  \E i \in T : \A j \in T : i <= j
<1> DEFINE R == {ss \in Nat \X Nat : ss[1] < ss[2]}
<1>1. IsWellFoundedOn(R, Nat)
  BY NatLessThanWellFounded DEF OpToRel
<1> HIDE DEF R
<1>2. PICK i \in T : \A j \in T : ~(<<j, i>> \in R)
  BY <1>1, WFMin, Zenon
<1>3. \A j \in T : i <= j
  <2> SUFFICES ASSUME NEW j \in T, j < i PROVE FALSE
    OBVIOUS
  <2>1. <<j, i>> \in R
    BY DEF R
  <2> QED
    BY <1>2, <2>1
<1> QED
  BY <1>3

(* A control callback x is queued, in the place of the oldest raw frame if *)
(* there is no room; a queue of control callbacks alone is given up.       *)
LEMMA PushControlSound ==
    ASSUME NEW q, NEW c, QueueSound(q, c), NEW x \in Callbacks, ~IsRaw(x), x.born = q.epoch
    PROVE  QueueSound(PushControl(q, x), IF q.live THEN [c EXCEPT !.pushed = @ + 1] ELSE c)
<1> DEFINE d == [c EXCEPT !.pushed = @ + 1]
<1>1. /\ q \in Queues /\ q.queue \in Seq(Callbacks) /\ q.raw \in Nat /\ q.epoch \in Nat
      /\ Len(q.queue) \in Nat /\ Len(q.queue) <= Capacity
      /\ q.raw = Cardinality(Of(q.queue, {"raw"}))
      /\ Cardinality(Of(q.queue, Controls)) \in Nat
      /\ \A i \in 1 .. Len(q.queue) : q.queue[i].born = q.epoch
  BY Contents
<1>2. d \in [pushed : Nat, taken : Nat] /\ d.pushed = c.pushed + 1 /\ d.taken = c.taken
  BY Contents
<1> HIDE DEF d
<1>3. q.live => d.pushed - d.taken = Cardinality(Of(q.queue, Controls)) + 1
  <2>1. c.pushed \in Nat /\ c.taken \in Nat
    BY Contents
  <2>2. q.live => c.pushed - c.taken = Cardinality(Of(q.queue, Controls))
    BY Contents
  <2> QED
    BY <1>2, <2>1, <2>2
<1>4. TRUE \in Flag /\ FALSE \in Flag
  BY DEF Flag
<1>5. CASE ~q.live
  BY <1>5 DEF PushControl
<1>6. CASE q.live /\ Len(q.queue) < Capacity
  <2> DEFINE t == Append(q.queue, x)
  <2>1. PushControl(q, x) = Requeued(q, t, q.raw, TRUE)
    BY <1>1, <1>6, Zenon DEF PushControl, Requeued, Queues
  <2>2. /\ t \in Seq(Callbacks) /\ Len(t) = Len(q.queue) + 1
        /\ \A i \in 1 .. Len(t) : t[i].born = q.epoch
        /\ Cardinality(Of(t, {"raw"})) = Cardinality(Of(q.queue, {"raw"})) + 0
        /\ Cardinality(Of(t, Controls)) = Cardinality(Of(q.queue, Controls)) + 1
    BY <1>1, Appended
  <2> HIDE DEF t
  <2>3. Len(t) <= Capacity /\ q.raw = Cardinality(Of(t, {"raw"}))
    BY <1>1, <1>6, <2>2, BridgeAssumption DEF BridgeAssumption
  <2>4. q.live => d.pushed - d.taken = Cardinality(Of(t, Controls))
    BY <1>3, <2>2
  <2>5. QueueSound(Requeued(q, t, q.raw, TRUE), d)
    BY <1>1, <1>2, <1>4, <2>2, <2>3, <2>4, RequeuedSound, Zenon
  <2> QED
    BY <1>6, <2>1, <2>5, Zenon DEF d
<1> DEFINE raws == {i \in 1 .. Len(q.queue) : IsRaw(q.queue[i])}
<1>7. CASE q.live /\ ~(Len(q.queue) < Capacity) /\ raws = {}
  <2> DEFINE z == [q EXCEPT !.queue = <<>>, !.raw = 0, !.epoch = q.epoch, !.live = FALSE,
                            !.overflowed = TRUE, !.permit = TRUE]
  <2>1. PushControl(q, x) = z
    <3>1. PushControl(q, x) = [Cleared(q) EXCEPT !.live = FALSE, !.overflowed = TRUE, !.permit = TRUE]
      BY <1>7, Zenon DEF PushControl
    <3> QED
      BY <1>1, <3>1, Zenon DEF Cleared, Queues
  <2>2. QueueSound(z, d)
    BY <1>1, <1>2, <1>4, ClearedSound, Zenon
  <2> QED
    BY <1>7, <2>1, <2>2 DEF d
<1>8. CASE q.live /\ ~(Len(q.queue) < Capacity) /\ raws # {}
  <2> DEFINE k == CHOOSE i \in raws : \A j \in raws : i <= j
             r == Removed(q.queue, k)
             t == Append(r, x)
  <2>1. k \in raws
    <3>1. raws \in SUBSET Nat
      BY <1>1
    <3> HIDE DEF raws
    <3>2. \E i \in raws : \A j \in raws : i <= j
      BY <1>8, <3>1, LeastNatural
    <3> QED
      BY <3>2
  <2>2. PushControl(q, x) = [q EXCEPT !.queue = t, !.raw = @ - 1, !.permit = TRUE]
    BY <1>8, Zenon DEF PushControl
  <2> HIDE DEF k
  <2>3. k \in 1 .. Len(q.queue) /\ IsRaw(q.queue[k])
    BY <2>1
  <2> HIDE DEF raws
  <2>4. Without(r, q.queue, k)
    BY <1>1, <2>3, RemovedWithout
  <2> HIDE DEF r
  <2>5. /\ r \in Seq(Callbacks) /\ Len(r) = Len(q.queue) - 1 /\ Len(r) \in Nat
        /\ \A i \in 1 .. Len(r) : r[i].born = q.epoch
        /\ Cardinality(Of(r, {"raw"})) = Cardinality(Of(q.queue, {"raw"})) - 1
        /\ Cardinality(Of(r, Controls)) = Cardinality(Of(q.queue, Controls)) - 0
    <3>1. /\ r \in Seq(Callbacks) /\ Len(r) = Len(q.queue) - 1 /\ Len(r) \in Nat
          /\ Born(r, q.epoch)
          /\ Cardinality(Of(r, {"raw"}))
                = Cardinality(Of(q.queue, {"raw"})) - (IF IsRaw(q.queue[k]) THEN 1 ELSE 0)
          /\ Cardinality(Of(r, Controls))
                = Cardinality(Of(q.queue, Controls)) - (IF IsRaw(q.queue[k]) THEN 0 ELSE 1)
      <4>1. Born(q.queue, q.epoch)
        BY <1>1 DEF Born
      <4> QED
        BY <1>1, <2>3, <2>4, <4>1, LeftOut, Zenon
    <3> QED
      BY <2>3, <3>1 DEF Born
  <2>6. /\ t \in Seq(Callbacks) /\ Len(t) = Len(r) + 1
        /\ \A i \in 1 .. Len(t) : t[i].born = q.epoch
        /\ Cardinality(Of(t, {"raw"})) = Cardinality(Of(r, {"raw"})) + 0
        /\ Cardinality(Of(t, Controls)) = Cardinality(Of(r, Controls)) + 1
    BY <2>5, Appended
  <2> HIDE DEF t
  <2>7. Cardinality(Of(r, {"raw"})) \in Nat
    BY <2>5, OfFinite
  <2>8. q.raw - 1 \in Nat /\ q.raw - 1 = Cardinality(Of(t, {"raw"})) /\ Len(t) <= Capacity
    BY <1>1, <2>5, <2>6, <2>7, BridgeAssumption DEF BridgeAssumption
  <2>9. q.live => d.pushed - d.taken = Cardinality(Of(t, Controls))
    BY <1>1, <1>3, <2>5, <2>6
  <2>10. PushControl(q, x) = Requeued(q, t, q.raw - 1, TRUE)
    BY <1>1, <2>2 DEF Requeued, Queues
  <2>11. QueueSound(Requeued(q, t, q.raw - 1, TRUE), d)
    BY <1>1, <1>2, <1>4, <2>6, <2>8, <2>9, RequeuedSound, Zenon
  <2> QED
    BY <1>8, <2>10, <2>11, Zenon DEF d
<1> QED
  BY <1>5, <1>6, <1>7, <1>8

(* The bridge takes the oldest callback. *)
LEMMA TakenSound ==
    ASSUME NEW q, NEW c, QueueSound(q, c), q.queue # <<>>
    PROVE  LET x == Head(q.queue)
           IN  /\ x \in Callbacks /\ x.born = q.epoch
               /\ QueueSound([q EXCEPT !.queue = Tail(@), !.raw = IF IsRaw(x) THEN @ - 1 ELSE @],
                             IF IsRaw(x) THEN c ELSE [c EXCEPT !.taken = @ + 1])
<1> DEFINE x == Head(q.queue)
           r == Tail(q.queue)
           n == IF IsRaw(x) THEN q.raw - 1 ELSE q.raw
           d == IF IsRaw(x) THEN c ELSE [c EXCEPT !.taken = @ + 1]
<1>1. /\ q \in Queues /\ q.queue \in Seq(Callbacks) /\ q.raw \in Nat /\ q.epoch \in Nat
      /\ Len(q.queue) \in Nat /\ Len(q.queue) <= Capacity
      /\ q.raw = Cardinality(Of(q.queue, {"raw"}))
      /\ Cardinality(Of(q.queue, Controls)) \in Nat
      /\ \A i \in 1 .. Len(q.queue) : q.queue[i].born = q.epoch
  BY Contents
<1>2. Without(r, q.queue, 1) /\ 1 \in 1 .. Len(q.queue) /\ x = q.queue[1]
  BY <1>1, TailWithout
<1>3. [q EXCEPT !.queue = Tail(@), !.raw = IF IsRaw(x) THEN @ - 1 ELSE @]
         = Requeued(q, r, n, q.permit)
  BY <1>1, Zenon DEF Requeued, Queues
<1> HIDE DEF r, x
<1>4. x \in Callbacks /\ x.born = q.epoch
  BY <1>1, <1>2
<1>5. /\ r \in Seq(Callbacks) /\ Len(r) = Len(q.queue) - 1 /\ Len(r) \in Nat
      /\ Born(r, q.epoch)
      /\ Cardinality(Of(r, {"raw"}))
            = Cardinality(Of(q.queue, {"raw"})) - (IF IsRaw(x) THEN 1 ELSE 0)
      /\ Cardinality(Of(r, Controls))
            = Cardinality(Of(q.queue, Controls)) - (IF IsRaw(x) THEN 0 ELSE 1)
  <2>1. Born(q.queue, q.epoch)
    BY <1>1 DEF Born
  <2> QED
    BY <1>1, <1>2, <2>1, LeftOut, Zenon
<1>6. Cardinality(Of(r, {"raw"})) \in Nat
  BY <1>5, OfFinite
<1>7. n \in Nat /\ n = Cardinality(Of(r, {"raw"})) /\ Len(r) <= Capacity
  BY <1>1, <1>5, <1>6, BridgeAssumption DEF BridgeAssumption
<1>8. /\ d \in [pushed : Nat, taken : Nat]
      /\ q.live => d.pushed - d.taken = Cardinality(Of(r, Controls))
  <2>1. /\ c \in [pushed : Nat, taken : Nat] /\ c.pushed \in Nat /\ c.taken \in Nat
        /\ q.live => c.pushed - c.taken = Cardinality(Of(q.queue, Controls))
    BY Contents
  <2>2. CASE IsRaw(x)
    BY <1>1, <1>5, <2>1, <2>2
  <2>3. CASE ~IsRaw(x)
    <3>1. d \in [pushed : Nat, taken : Nat] /\ d.pushed = c.pushed /\ d.taken = c.taken + 1
      BY <2>1, <2>3
    <3> HIDE DEF d
    <3> QED
      BY <1>1, <1>5, <2>1, <2>3, <3>1
  <2> QED
    BY <2>2, <2>3
<1>9. q.permit \in Flag
  BY <1>1 DEF Queues
<1> HIDE DEF n, d
<1>10. QueueSound(Requeued(q, r, n, q.permit), d)
  BY <1>1, <1>5, <1>7, <1>8, <1>9, RequeuedSound, Zenon DEF Born
<1> QED
  BY <1>3, <1>4, <1>10 DEF x, d
-----------------------------------------------------------------------------
(* The Ethernet port. *)
Mlmes == [op : {"idle", "up", "down"}, epoch : Nat, host : Nat, open : Flag]

Ports == [gen : 1 .. MaxGen, fd : Flag, link : Flag, alive : Flag]

Halves == [unpublished : {None, 1}, published : Nat, held : Nat]

(* The port p with the MLME's view m of it, the netstack's frames t and    *)
(* halves d, in a runtime in state c with unrevoked epochs u and callbacks *)
(* of epoch e. Only the first port can be open before the MLME opened it,  *)
(* and the request to raise the link is admitted only while its port is    *)
(* open: cleanup revokes its epoch before it closes the port.              *)
PortSound(c, u, e, m, p, t, d) ==
    /\ m \in Mlmes /\ p \in Ports /\ d \in Halves
    /\ c = "none" => ~m.open /\ m.op = "idle"
    /\ c = "cleanup" => ~p.fd /\ e \notin u
    /\ c = "stopped" => u = {}
    /\ p.fd => p.alive
    /\ p.alive /\ p.link => p.fd
    /\ t = <<>> \/ (t = <<e>> /\ p.fd /\ m.open)
    /\ m.op = "up" => m.open /\ m.epoch = e /\ m.host \in {None, p.gen} /\ d.published = None
    /\ m.op = "up" /\ e \in u => p.fd
    /\ m.op = "down" => ~m.open
    /\ ~m.open => d.published = None
    /\ ~m.open /\ p.fd => p.gen = 1 /\ d.held = None
    /\ d.published # None => d.published = p.gen
    /\ d.published # None => (p.alive /\ p.link) \/ c \in {"cleanup", "stopped"}

PortInv == PortSound(conn, unrevoked, up.epoch, mlme, port, tx, devices)

LEMMA FlagFacts == TRUE \in Flag /\ FALSE \in Flag
  BY DEF Flag

(* The MLME asks to raise the link. *)
LEMMA StartUpPort ==
    ASSUME PortInv, StartUp, up.epoch \in Nat
    PROVE  PortSound(conn, unrevoked, up.epoch, mlme', port', tx', devices')
<1>1. /\ mlme \in Mlmes /\ port \in Ports /\ devices \in Halves /\ mlme.op = "idle" /\ ~mlme.open
      /\ up.epoch \in unrevoked /\ conn = "active" /\ tx = <<>> /\ devices.published = None
      /\ port.fd => port.alive /\ port.gen = 1 /\ devices.held = None
      /\ port.alive /\ port.link => port.fd
  BY Zenon DEF PortInv, PortSound, StartUp
<1>2. devices.unpublished \in {None, 1} /\ devices.held \in Nat /\ port.gen \in 1 .. MaxGen
  BY <1>1 DEF Halves, Ports
<1>3. CASE port.fd
  <2>1. /\ mlme' = [op |-> "up", epoch |-> up.epoch, host |-> devices.unpublished, open |-> TRUE]
        /\ devices' = [devices EXCEPT !.unpublished = None] /\ port' = port /\ tx' = tx
    BY <1>3, Zenon DEF StartUp
  <2>2. devices.unpublished \in Nat
    BY <1>2 DEF None
  <2>3. /\ mlme' \in Mlmes /\ mlme'.op = "up" /\ mlme'.open /\ mlme'.epoch = up.epoch
        /\ mlme'.host = devices.unpublished
    BY <2>1, <2>2, FlagFacts, Zenon DEF Mlmes
  <2>4. devices' \in Halves /\ devices'.published = None
    BY <1>1, <2>1 DEF Halves
  <2>5. mlme'.host \in {None, port.gen}
    BY <1>1, <1>2, <1>3, <2>3
  <2> QED
    BY <1>1, <1>3, <2>1, <2>3, <2>4, <2>5, Zenon DEF PortSound
<1>4. CASE ~port.fd
  <2>1. /\ mlme' = [op |-> "up", epoch |-> up.epoch, host |-> port.gen + 1, open |-> TRUE]
        /\ devices' = [devices EXCEPT !.published = None] /\ tx' = <<>>
        /\ port' = [gen |-> port.gen + 1, fd |-> TRUE, link |-> FALSE, alive |-> TRUE]
        /\ port.gen < MaxGen
    BY <1>4, Zenon DEF StartUp, Replaced, NewPort
  <2>2. port.gen + 1 \in 1 .. MaxGen /\ port.gen + 1 \in Nat
    BY <1>2, <2>1, BridgeAssumption DEF BridgeAssumption
  <2>3. /\ mlme' \in Mlmes /\ mlme'.op = "up" /\ mlme'.open /\ mlme'.epoch = up.epoch
        /\ mlme'.host = port.gen + 1
    BY <2>1, <2>2, FlagFacts, Zenon DEF Mlmes
  <2>4. devices' \in Halves /\ devices'.published = None
    BY <1>1, <2>1 DEF Halves, None
  <2>5. port' \in Ports /\ port'.gen = port.gen + 1 /\ port'.fd /\ ~port'.link /\ port'.alive
    BY <2>1, <2>2, FlagFacts, Zenon DEF Ports
  <2> QED
    BY <1>1, <2>1, <2>3, <2>4, <2>5, Zenon DEF PortSound
<1> QED
  BY <1>3, <1>4

(* The driver answers a request to raise the link. *)
LEMMA FinishUpPort ==
    ASSUME PortInv, FinishUp
    PROVE  PortSound(conn, unrevoked, up.epoch, mlme', port', tx', devices')
<1>1. /\ mlme \in Mlmes /\ port \in Ports /\ devices \in Halves /\ mlme.op = "up" /\ mlme.open
      /\ mlme.epoch = up.epoch /\ mlme.host \in {None, port.gen} /\ devices.published = None
      /\ conn # "none" /\ (conn = "cleanup" => ~port.fd /\ up.epoch \notin unrevoked)
      /\ conn = "stopped" => unrevoked = {}
      /\ port.fd => port.alive
      /\ port.alive /\ port.link => port.fd
      /\ tx = <<>> \/ (tx = <<up.epoch>> /\ port.fd)
      /\ up.epoch \in unrevoked => port.fd
  BY Zenon DEF PortInv, PortSound, FinishUp
<1>2. mlme' \in Mlmes /\ mlme'.op = "idle" /\ mlme'.open
  BY FlagFacts, Zenon DEF FinishUp, Idle, Mlmes, None
<1>3. CASE mlme.epoch \in unrevoked /\ port' = SetLinkUp /\ tx' = tx
             /\ devices' = Published(devices, mlme.host)
  <2>1. port' = [port EXCEPT !.link = TRUE] /\ port.fd /\ port.alive
    BY <1>1, <1>3, Zenon DEF SetLinkUp
  <2>2. port' \in Ports /\ port'.fd /\ port'.alive /\ port'.link /\ port'.gen = port.gen
    BY <1>1, <2>1, FlagFacts, Zenon DEF Ports
  <2>3. devices' \in Halves /\ devices'.published \in {None, port.gen}
    <3>1. mlme.host \in Nat
      BY <1>1 DEF Mlmes
    <3>2. CASE mlme.host = None
      BY <1>1, <1>3, <3>2 DEF Published
    <3>3. CASE mlme.host # None
      BY <1>1, <1>3, <3>1, <3>3 DEF Published, Halves
    <3> QED
      BY <3>2, <3>3
  <2> QED
    BY <1>1, <1>2, <1>3, <2>1, <2>2, <2>3, Zenon DEF PortSound
<1>4. CASE mlme.epoch \notin unrevoked /\ port' = port /\ devices' = devices /\ tx' = tx
  BY <1>1, <1>2, <1>4, Zenon DEF PortSound
<1>5. CASE port' = Teardown /\ devices' = Withdrawn(devices) /\ tx' = <<>>
  <2>1. port' \in Ports /\ ~port'.fd /\ ~port'.alive
    BY <1>1, <1>5, FlagFacts, Zenon DEF Teardown, Ports
  <2>2. devices' \in Halves /\ devices'.published = None
    BY <1>1, <1>5, Zenon DEF Withdrawn, Halves, None
  <2> QED
    BY <1>1, <1>2, <1>5, <2>1, <2>2, Zenon DEF PortSound
<1> QED
  BY <1>3, <1>4, <1>5, Zenon DEF FinishUp

(* The MLME lowers the link, closing the port before it asks the driver. *)
LEMMA StartDownPort ==
    ASSUME PortInv, NEW e \in Nat, mlme.open, StartDown(e)
    PROVE  PortSound(conn, unrevoked, up.epoch, mlme', port', tx', devices')
<1>1. /\ port \in Ports /\ devices \in Halves /\ conn # "none"
      /\ (conn = "cleanup" => up.epoch \notin unrevoked)
      /\ conn = "stopped" => unrevoked = {}
      /\ port.fd => port.alive
      /\ port.alive /\ port.link => port.fd
  BY Zenon DEF PortInv, PortSound
<1>2. mlme' \in Mlmes /\ mlme'.op = "down" /\ ~mlme'.open
  BY FlagFacts, Zenon DEF StartDown, Mlmes, None
<1>3. port' \in Ports /\ ~port'.fd /\ (port'.alive => ~port'.link)
  <2>1. CASE port.alive
    BY <1>1, <2>1, FlagFacts, Zenon DEF StartDown, SetLinkDown, Ports
  <2>2. CASE ~port.alive
    BY <1>1, <2>2, Zenon DEF StartDown, SetLinkDown
  <2> QED
    BY <2>1, <2>2
<1>4. devices' \in Halves /\ devices'.published = None
  BY <1>1, Zenon DEF StartDown, Withdrawn, Halves, None
<1>5. tx' = <<>>
  BY DEF StartDown
<1> QED
  BY <1>1, <1>2, <1>3, <1>4, <1>5, Zenon DEF PortSound

(* The driver answers the request to lower it. *)
LEMMA FinishDownPort ==
    ASSUME PortInv, FinishDown
    PROVE  PortSound(conn, unrevoked, up.epoch, mlme', port', tx', devices')
<1>1. mlme.op = "down" /\ mlme' = Idle /\ port' = port /\ tx' = tx /\ devices' = devices
  BY Zenon DEF FinishDown
<1>2. Idle \in Mlmes /\ Idle.op = "idle" /\ ~Idle.open
  BY FlagFacts, Zenon DEF Idle, Mlmes, None
<1> QED
  BY <1>1, <1>2, Zenon DEF PortInv, PortSound

(* A new epoch begins with the link down and nothing asked of the MLME. *)
LEMMA BeginEpochPort ==
    ASSUME PortInv, conn = "none", NEW e, NEW u
    PROVE  PortSound("active", u, e, mlme, port, tx, devices)
<1>1. ~mlme.open /\ mlme.op = "idle" /\ devices.published = None /\ tx = <<>>
  BY Zenon DEF PortInv, PortSound
<1> QED
  BY <1>1, Zenon DEF PortInv, PortSound

(* Cleanup revokes the epoch and closes its port. *)
LEMMA BeginCleanupPort ==
    ASSUME PortInv, BeginCleanup, NEW u, up.epoch \notin u
    PROVE  PortSound("cleanup", u, up.epoch, mlme, port', tx', devices)
<1>1. conn = "active" /\ port' = SetLinkDown /\ tx' = IF port.alive THEN <<>> ELSE tx
  BY Zenon DEF BeginCleanup
<1>2. /\ port \in Ports
      /\ port.fd => port.alive
      /\ tx = <<>> \/ port.fd
  BY Zenon DEF PortInv, PortSound
<1>3. tx' = <<>>
  BY <1>1, <1>2, Zenon
<1>4. port' \in Ports /\ ~port'.fd /\ (port'.alive => ~port'.link) /\ port'.gen = port.gen
  <2>1. CASE port.alive
    BY <1>1, <1>2, <2>1, FlagFacts, Zenon DEF SetLinkDown, Ports
  <2>2. CASE ~port.alive
    BY <1>1, <1>2, <2>2, Zenon DEF SetLinkDown
  <2> QED
    BY <2>1, <2>2
<1> QED
  BY <1>1, <1>3, <1>4, Zenon DEF PortInv, PortSound

(* Cleanup is over when the MLME is idle and closed. *)
LEMMA FinishCleanupPort ==
    ASSUME PortInv, conn = "cleanup", ~mlme.open, mlme.op = "idle", NEW u
    PROVE  PortSound("none", u, up.epoch, mlme, port, tx, devices)
  BY Zenon DEF PortInv, PortSound

(* A stopped runtime tears its port down. *)
LEMMA StopRuntimePort ==
    ASSUME PortInv, StopRuntime
    PROVE  PortSound("stopped", {}, up.epoch, mlme, port', tx', devices)
<1>1. port \in Ports /\ port' = Teardown /\ tx' = <<>>
  BY Zenon DEF StopRuntime, PortInv, PortSound
<1>2. port' \in Ports /\ ~port'.fd /\ ~port'.alive /\ port'.gen = port.gen
  BY <1>1, FlagFacts, Zenon DEF Teardown, Ports
<1> QED
  BY <1>1, <1>2, Zenon DEF PortInv, PortSound

(* The netstack takes its half of the port, writes to it and closes it. *)
LEMMA TakeDevicePort ==
    ASSUME PortInv, TakeDevice
    PROVE  PortSound(conn, unrevoked, up.epoch, mlme, port, tx, devices')
<1>1. devices \in Halves /\ devices.published # None
  BY Zenon DEF PortInv, PortSound, TakeDevice
<1>2. /\ devices' \in Halves /\ devices'.published = None
  BY <1>1, Zenon DEF TakeDevice, Halves, None
<1> QED
  BY <1>1, <1>2, Zenon DEF PortInv, PortSound

LEMMA NetstackSendPort ==
    ASSUME PortInv, NetstackSend
    PROVE  PortSound(conn, unrevoked, up.epoch, mlme, port, tx', devices)
<1>1. devices.held = port.gen /\ port.fd /\ port \in Ports /\ tx' = <<up.epoch>>
  BY Zenon DEF PortInv, PortSound, NetstackSend
<1>2. devices.held # None
  BY <1>1, BridgeAssumption DEF Ports, None, BridgeAssumption
<1>3. mlme.open
  BY <1>1, <1>2, Zenon DEF PortInv, PortSound
<1> QED
  BY <1>1, <1>3, Zenon DEF PortInv, PortSound

LEMMA NetstackClosePort ==
    ASSUME PortInv, NetstackClose
    PROVE  PortSound(conn, unrevoked, up.epoch, mlme, port, tx, devices')
<1>1. devices \in Halves
  BY Zenon DEF PortInv, PortSound
<1>2. /\ devices' \in Halves /\ devices'.published = devices.published /\ devices'.held = None
  BY <1>1 DEF NetstackClose, Halves, None
<1> QED
  BY <1>2, Zenon DEF PortInv, PortSound

(* The bridge takes the netstack's frame. *)
LEMMA TakeFramePort ==
    ASSUME PortInv, tx # <<>>
    PROVE  /\ Head(tx) = up.epoch
           /\ PortSound(conn, unrevoked, up.epoch, mlme, port, Tail(tx), devices)
<1>1. tx = <<up.epoch>>
  BY Zenon DEF PortInv, PortSound
<1>2. Head(tx) = up.epoch /\ Tail(tx) = <<>>
  BY <1>1
<1> QED
  BY <1>2, Zenon DEF PortInv, PortSound
-----------------------------------------------------------------------------
(* The events on their way to the MLME. *)
Events ==
    [at : {"send"}, kind : {"raw", "loss", "result", "frame"}, epoch : Nat, born : Nat]

Polling == [at : {"poll", "wait", "failed"}]

(* An event v of an epoch that is not revoked arose in that epoch; e is    *)
(* the current epoch and u the unrevoked ones.                             *)
EventSound(v, e, u) ==
    /\ v \in Events /\ v.epoch \in 1 .. e
    /\ v.epoch \in u => v.born = v.epoch

(* The bridge b and the event channel s. *)
StreamSound(b, s, e, u) ==
    /\ b \in Polling \/ EventSound(b, e, u)
    /\ s \in Seq(Events) /\ Len(s) <= EventCap
    /\ \A i \in 1 .. Len(s) : EventSound(s[i], e, u)

(* How epochs go by: one is revoked, or the next one follows. *)
Passed(e, u, e2, u2) ==
    /\ e \in Nat /\ e2 \in Nat
    /\ \/ e2 = e /\ u2 \subseteq u
       \/ e2 = e + 1 /\ u2 = {e2}

LEMMA EventStays ==
    ASSUME NEW v, NEW e, NEW u, NEW e2, NEW u2, EventSound(v, e, u), Passed(e, u, e2, u2)
    PROVE  EventSound(v, e2, u2)
<1>1. v \in Events /\ v.epoch \in 1 .. e /\ e \in Nat /\ e2 \in Nat
      /\ (v.epoch \in u => v.born = v.epoch)
  BY Zenon DEF EventSound, Passed
<1>2. CASE e2 = e /\ u2 \subseteq u
  BY <1>1, <1>2, Zenon DEF EventSound
<1>3. CASE e2 = e + 1 /\ u2 = {e2}
  <2>1. v.epoch \in 1 .. e2 /\ v.epoch # e2
    BY <1>1, <1>3
  <2> QED
    BY <1>1, <1>3, <2>1, Zenon DEF EventSound
<1> QED
  BY <1>2, <1>3, Zenon DEF Passed

LEMMA StreamStays ==
    ASSUME NEW b, NEW s, NEW e, NEW u, NEW e2, NEW u2, StreamSound(b, s, e, u),
           Passed(e, u, e2, u2)
    PROVE  StreamSound(b, s, e2, u2)
<1>1. \A v : EventSound(v, e, u) => EventSound(v, e2, u2)
  BY EventStays, Zenon
<1> QED
  BY <1>1, Zenon DEF StreamSound

(* What the bridge hands over joins the channel. *)
LEMMA StreamSent ==
    ASSUME NEW b, NEW s, NEW e, NEW u, StreamSound(b, s, e, u), b.at = "send",
           Len(s) < EventCap
    PROVE  /\ StreamSound([at |-> "poll"], Append(s, b), e, u)
           /\ Len(Append(s, b)) = Len(s) + 1
<1>1. s \in Seq(Events) /\ Len(s) \in Nat
  BY DEF StreamSound
<1>2. EventSound(b, e, u)
  <2>1. b \notin Polling
    BY DEF Polling
  <2> QED
    BY <2>1, Zenon DEF StreamSound
<1>3. b \in Events
  BY <1>2, Zenon DEF EventSound
<1> DEFINE t == Append(s, b)
<1>4. /\ t \in Seq(Events) /\ Len(t) = Len(s) + 1 /\ t[Len(s) + 1] = b
      /\ \A i \in 1 .. Len(s) : t[i] = s[i]
  BY <1>1, <1>3
<1>5. Len(t) <= EventCap
  BY <1>1, <1>4, BridgeAssumption DEF BridgeAssumption
<1> HIDE DEF t
<1>6. ASSUME NEW i \in 1 .. Len(t)
      PROVE  EventSound(t[i], e, u)
  <2>1. i \in 1 .. Len(s) \/ i = Len(s) + 1
    BY <1>1, <1>4
  <2> QED
    BY <1>2, <1>4, <2>1, Zenon DEF StreamSound
<1>7. [at |-> "poll"] \in Polling
  BY DEF Polling
<1>8. StreamSound([at |-> "poll"], t, e, u)
  BY <1>4, <1>5, <1>6, <1>7, Zenon DEF StreamSound
<1> QED
  BY <1>4, <1>8 DEF t

(* The MLME takes the oldest event. *)
LEMMA StreamTaken ==
    ASSUME NEW b, NEW s, NEW e, NEW u, StreamSound(b, s, e, u), s # <<>>
    PROVE  /\ StreamSound(b, Tail(s), e, u) /\ Head(s) \in Events
           /\ Len(s) \in Nat /\ Len(Tail(s)) = Len(s) - 1
<1>1. s \in Seq(Events) /\ Len(s) \in Nat /\ Len(s) <= EventCap
  BY DEF StreamSound
<1> DEFINE t == Tail(s)
<1>2. /\ t \in Seq(Events) /\ Len(t) = Len(s) - 1 /\ Head(s) \in Events
      /\ \A i \in 1 .. Len(t) : t[i] = s[i + 1]
  BY <1>1
<1>3. Len(t) <= EventCap
  BY <1>1, <1>2, BridgeAssumption DEF BridgeAssumption
<1> HIDE DEF t
<1>4. ASSUME NEW i \in 1 .. Len(t)
      PROVE  EventSound(t[i], e, u)
  <2>1. i + 1 \in 1 .. Len(s)
    BY <1>1, <1>2
  <2> QED
    BY <1>2, <2>1, Zenon DEF StreamSound
<1>5. StreamSound(b, t, e, u)
  BY <1>2, <1>3, <1>4, Zenon DEF StreamSound
<1> QED
  BY <1>1, <1>2, <1>5 DEF t
-----------------------------------------------------------------------------
(* The inductive invariant. *)
EpochInv == epoch \in 1 .. MaxEpoch /\ unrevoked \subseteq {epoch} /\ up.epoch \in 1 .. epoch

StreamInv == StreamSound(bridge, events, epoch, unrevoked)

BridgeInv == QueueSound(up, calls) /\ EpochInv /\ StreamInv /\ PendingExact /\ PortInv

LEMMA QueueTypes ==
    ASSUME QueueSound(up, calls), EpochInv
    PROVE  /\ up \in Queues /\ calls \in [pushed : Nat, taken : Nat]
           /\ epoch \in Nat /\ up.epoch \in Nat
           /\ up.live \in Flag /\ up.overflowed \in Flag /\ up.permit \in Flag
<1>1. up \in Queues /\ calls \in [pushed : Nat, taken : Nat]
  BY Zenon DEF QueueSound
<1>2. up.epoch \in Nat /\ up.live \in Flag /\ up.overflowed \in Flag /\ up.permit \in Flag
  BY <1>1, Zenon DEF Queues
<1>3. epoch \in Nat
  BY BridgeAssumption DEF EpochInv, BridgeAssumption
<1> QED
  BY <1>1, <1>2, <1>3

LEMMA PolledSound ==
    ASSUME StreamInv, NEW k \in {"poll", "wait", "failed"}
    PROVE  StreamSound([at |-> k], events, epoch, unrevoked) /\ [at |-> k].at = k
<1>1. [at |-> k] \in Polling /\ [at |-> k].at = k
  BY DEF Polling
<1> QED
  BY <1>1, Zenon DEF StreamInv, StreamSound

LEMMA SendingSound ==
    ASSUME StreamInv, EpochInv, NEW k \in {"raw", "loss", "result", "frame"}
    PROVE  /\ StreamSound(Sending(k, up.epoch, up.epoch), events, epoch, unrevoked)
           /\ Sending(k, up.epoch, up.epoch).at = "send"
<1>1. up.epoch \in Nat /\ up.epoch \in 1 .. epoch
  BY BridgeAssumption DEF EpochInv, BridgeAssumption
<1> DEFINE v == Sending(k, up.epoch, up.epoch)
<1>2. v \in Events /\ v.epoch = up.epoch /\ v.born = up.epoch /\ v.at = "send"
  BY <1>1 DEF Events, Sending
<1> HIDE DEF v
<1>3. EventSound(v, epoch, unrevoked)
  BY <1>1, <1>2, Zenon DEF EventSound
<1> QED
  BY <1>2, <1>3, Zenon DEF StreamInv, StreamSound, v

LEMMA PendingTypes ==
    ASSUME StreamInv, PendingExact
    PROVE  /\ Len(events) \in Nat /\ mlme_pending \in Nat
           /\ mlme_pending = 0 => mlme.op = "idle"
<1>1. Len(events) \in Nat
  BY DEF StreamInv, StreamSound
<1> DEFINE b == IF bridge.at = "send" THEN 1 ELSE 0
           m == IF mlme.op # "idle" THEN 1 ELSE 0
<1>2. b \in {0, 1} /\ m \in {0, 1} /\ (m = 0 => mlme.op = "idle")
  OBVIOUS
<1>3. mlme_pending = Len(events) + b + m
  BY Zenon DEF PendingExact
<1> HIDE DEF b, m
<1>4. mlme_pending \in Nat /\ (mlme_pending = 0 => m = 0)
  BY <1>1, <1>2, <1>3
<1> QED
  BY <1>1, <1>2, <1>4, Zenon

(* What leaves the callbacks, the epochs and the events alone. *)
LEMMA PortStep ==
    ASSUME BridgeInv, UNCHANGED <<epoch, unrevoked, conn, up, calls, bridge, events>>,
           PortSound(conn, unrevoked, up.epoch, mlme', port', tx', devices'), PendingExact'
    PROVE  BridgeInv'
<1>1. QueueSound(up', calls') /\ EpochInv'
  BY Zenon DEF BridgeInv, EpochInv
<1>2. StreamInv'
  BY Zenon DEF BridgeInv, StreamInv
<1>3. PortInv'
  BY Zenon DEF PortInv
<1> QED
  BY <1>1, <1>2, <1>3, Zenon DEF BridgeInv

(* The callbacks the device makes. *)
LEMMA RecvStep ==
    ASSUME BridgeInv, Recv
    PROVE  BridgeInv'
<1>1. /\ up' = PushRaw(up) /\ UNCHANGED <<epoch, unrevoked, conn, calls, bridge, events,
                                          mlme_pending, mlme, port, tx, devices>>
  BY Zenon DEF Recv
<1>2. QueueSound(up', calls')
  BY <1>1, PushRawSound, Zenon DEF BridgeInv
<1>3. up'.epoch = up.epoch
  <2>1. up \in Queues
    BY Zenon DEF BridgeInv, QueueSound
  <2> QED
    BY <1>1, <2>1 DEF PushRaw, Queues
<1>4. EpochInv'
  BY <1>1, <1>3, Zenon DEF BridgeInv, EpochInv
<1>5. StreamInv' /\ PendingExact'
  BY <1>1, Zenon DEF BridgeInv, StreamInv, PendingExact
<1>6. PortInv'
  BY <1>1, <1>3, Zenon DEF BridgeInv, PortInv
<1> QED
  BY <1>2, <1>4, <1>5, <1>6, Zenon DEF BridgeInv

LEMMA ControlStep ==
    ASSUME BridgeInv, NEW k \in {"loss", "result"}, Control(k)
    PROVE  BridgeInv'
<1>1. /\ up' = PushControl(up, Callback(k))
      /\ calls' = IF up.live THEN [calls EXCEPT !.pushed = @ + 1] ELSE calls
      /\ UNCHANGED <<epoch, unrevoked, conn, bridge, events, mlme_pending, mlme, port, tx,
                     devices>>
  BY Zenon DEF Control
<1>2. QueueSound(up, calls) /\ EpochInv
  BY Zenon DEF BridgeInv
<1>3. up \in Queues /\ up.epoch \in Nat
  BY <1>2, QueueTypes, Zenon
<1>4. Callback(k) \in Callbacks /\ ~IsRaw(Callback(k)) /\ Callback(k).born = up.epoch
  BY <1>3 DEF Callback, Callbacks, IsRaw
<1>5. QueueSound(up', calls')
  BY <1>1, <1>2, <1>4, PushControlSound, Zenon
<1>6. up'.epoch = up.epoch
  BY <1>1, <1>3 DEF PushControl, Cleared, Queues
<1>7. EpochInv'
  BY <1>1, <1>6, Zenon DEF BridgeInv, EpochInv
<1>8. StreamInv' /\ PendingExact'
  BY <1>1, Zenon DEF BridgeInv, StreamInv, PendingExact
<1>9. PortInv'
  BY <1>1, <1>6, Zenon DEF BridgeInv, PortInv
<1> QED
  BY <1>5, <1>7, <1>8, <1>9, Zenon DEF BridgeInv

(* The bridge. *)
LEMMA TakeCallbackStep ==
    ASSUME BridgeInv, TakeCallback
    PROVE  BridgeInv'
<1>1. /\ bridge.at = "poll" /\ UNCHANGED <<epoch, unrevoked, conn, events, mlme, port, tx, devices>>
  BY Zenon DEF TakeCallback
<1>2. QueueSound(up, calls) /\ EpochInv /\ StreamInv /\ PendingExact /\ PortInv
  BY Zenon DEF BridgeInv
<1>3. Len(events) \in Nat /\ mlme_pending \in Nat
  BY <1>2, PendingTypes, Zenon
<1>4. ASSUME NEW k \in {"wait", "failed"}, bridge' = [at |-> k],
             UNCHANGED <<up, calls, mlme_pending>>
      PROVE  BridgeInv'
  <2>1. StreamInv' /\ bridge'.at = k
    BY <1>1, <1>2, <1>4, PolledSound, Zenon DEF StreamInv
  <2>2. PendingExact'
    BY <1>1, <1>2, <1>4, <2>1, Zenon DEF PendingExact
  <2>3. QueueSound(up', calls') /\ EpochInv' /\ PortInv'
    BY <1>1, <1>2, <1>4, Zenon DEF EpochInv, PortInv
  <2> QED
    BY <2>1, <2>2, <2>3, Zenon DEF BridgeInv
<1>5. CASE up.queue # <<>> /\ ~up.overflowed
  <2> DEFINE c == Head(up.queue)
  <2>1. /\ up' = [up EXCEPT !.queue = Tail(@), !.raw = IF IsRaw(c) THEN @ - 1 ELSE @]
        /\ calls' = IF IsRaw(c) THEN calls ELSE [calls EXCEPT !.taken = @ + 1]
        /\ bridge' = Sending(c.kind, up.epoch, c.born) /\ mlme_pending' = mlme_pending + 1
    BY <1>5, Zenon DEF TakeCallback
  <2>2. c \in Callbacks /\ c.born = up.epoch /\ QueueSound(up', calls')
    BY <1>2, <1>5, <2>1, TakenSound, Zenon
  <2>3. up'.epoch = up.epoch
    <3>1. up \in Queues
      BY <1>2, Zenon DEF QueueSound
    <3> QED
      BY <2>1, <3>1 DEF Queues
  <2> HIDE DEF c
  <2>4. c.kind \in {"raw", "loss", "result", "frame"}
    BY <2>2 DEF Callbacks
  <2>5. StreamInv' /\ bridge'.at = "send"
    BY <1>1, <1>2, <2>1, <2>2, <2>4, SendingSound, Zenon DEF StreamInv
  <2>6. PendingExact'
    BY <1>1, <1>2, <1>3, <2>1, <2>5 DEF PendingExact
  <2>7. EpochInv' /\ PortInv'
    BY <1>1, <1>2, <2>3, Zenon DEF EpochInv, PortInv
  <2> QED
    BY <2>2, <2>5, <2>6, <2>7, Zenon DEF BridgeInv
<1> QED
  BY <1>4, <1>5, Zenon DEF TakeCallback

LEMMA WakeStep ==
    ASSUME BridgeInv, Wake
    PROVE  BridgeInv'
<1>1. /\ bridge.at = "wait" /\ bridge' = [at |-> "poll"] /\ up' = [up EXCEPT !.permit = FALSE]
      /\ UNCHANGED <<epoch, unrevoked, conn, calls, events, mlme_pending, mlme, port, tx, devices>>
  BY Zenon DEF Wake
<1>2. QueueSound(up, calls) /\ EpochInv /\ StreamInv /\ PendingExact /\ PortInv
  BY Zenon DEF BridgeInv
<1>3. up \in Queues
  BY <1>2, Zenon DEF QueueSound
<1>4. /\ up' \in Queues /\ up'.queue = up.queue /\ up'.raw = up.raw /\ up'.live = up.live
      /\ up'.epoch = up.epoch
  BY <1>1, <1>3, FlagFacts, Zenon DEF Queues
<1>5. QueueSound(up', calls')
  BY <1>1, <1>2, <1>4, Zenon DEF QueueSound
<1>6. StreamInv' /\ bridge'.at = "poll"
  BY <1>1, <1>2, PolledSound, Zenon DEF StreamInv
<1>7. PendingExact'
  BY <1>1, <1>2, <1>6, Zenon DEF PendingExact
<1>8. EpochInv' /\ PortInv'
  BY <1>1, <1>2, <1>4, Zenon DEF EpochInv, PortInv
<1> QED
  BY <1>5, <1>6, <1>7, <1>8, Zenon DEF BridgeInv

LEMMA TakeFrameStep ==
    ASSUME BridgeInv, TakeFrame
    PROVE  BridgeInv'
<1>1. /\ bridge.at # "send"
      /\ UNCHANGED <<epoch, unrevoked, conn, up, calls, events, mlme, port, devices>>
  BY Zenon DEF TakeFrame
<1>2. QueueSound(up, calls) /\ EpochInv /\ StreamInv /\ PendingExact /\ PortInv
  BY Zenon DEF BridgeInv
<1>3. Len(events) \in Nat /\ mlme_pending \in Nat
  BY <1>2, PendingTypes, Zenon
<1>4. QueueSound(up', calls') /\ EpochInv'
  BY <1>1, <1>2, Zenon DEF EpochInv
<1>5. CASE /\ tx # <<>> /\ tx' = Tail(tx)
           /\ bridge' = Sending("frame", up.epoch, Head(tx)) /\ mlme_pending' = mlme_pending + 1
  <2>1. PortInv' /\ bridge' = Sending("frame", up.epoch, up.epoch)
    BY <1>1, <1>2, <1>5, TakeFramePort, Zenon DEF PortInv
  <2>2. StreamInv' /\ bridge'.at = "send"
    BY <1>1, <1>2, <2>1, SendingSound, Zenon DEF StreamInv
  <2>3. PendingExact'
    BY <1>1, <1>2, <1>3, <1>5, <2>2 DEF PendingExact
  <2> QED
    BY <1>4, <2>1, <2>2, <2>3, Zenon DEF BridgeInv
<1>6. CASE bridge' = [at |-> "failed"] /\ UNCHANGED <<tx, mlme_pending>>
  <2>1. StreamInv' /\ bridge'.at = "failed"
    BY <1>1, <1>2, <1>6, PolledSound, Zenon DEF StreamInv
  <2>2. PendingExact' /\ PortInv'
    BY <1>1, <1>2, <1>6, <2>1, Zenon DEF PendingExact, PortInv
  <2> QED
    BY <1>4, <2>1, <2>2, Zenon DEF BridgeInv
<1> QED
  BY <1>5, <1>6, Zenon DEF TakeFrame

LEMMA SendEventStep ==
    ASSUME BridgeInv, SendEvent
    PROVE  BridgeInv'
<1>1. /\ bridge.at = "send" /\ Len(events) < EventCap /\ events' = Append(events, bridge)
      /\ bridge' = [at |-> "poll"]
      /\ UNCHANGED <<epoch, unrevoked, conn, up, calls, mlme_pending, mlme, port, tx, devices>>
  BY Zenon DEF SendEvent
<1>2. QueueSound(up, calls) /\ EpochInv /\ StreamInv /\ PendingExact /\ PortInv
  BY Zenon DEF BridgeInv
<1>3. Len(events) \in Nat
  BY <1>2, PendingTypes, Zenon
<1>4. StreamInv' /\ Len(events') = Len(events) + 1
  BY <1>1, <1>2, StreamSent, Zenon DEF StreamInv
<1>5. bridge'.at = "poll"
  BY <1>1
<1>6. PendingExact'
  BY <1>1, <1>2, <1>3, <1>4, <1>5 DEF PendingExact
<1>7. QueueSound(up', calls') /\ EpochInv' /\ PortInv'
  BY <1>1, <1>2, Zenon DEF EpochInv, PortInv
<1> QED
  BY <1>4, <1>6, <1>7, Zenon DEF BridgeInv

(* The MLME. *)
LEMMA StartUpStep ==
    ASSUME BridgeInv, StartUp
    PROVE  BridgeInv'
<1>1. /\ mlme.op = "idle" /\ mlme_pending' = mlme_pending + 1
      /\ UNCHANGED <<epoch, unrevoked, conn, up, calls, bridge, events>>
  BY Zenon DEF StartUp
<1>2. QueueSound(up, calls) /\ EpochInv /\ StreamInv /\ PendingExact /\ PortInv
  BY Zenon DEF BridgeInv
<1>3. Len(events) \in Nat /\ mlme_pending \in Nat /\ up.epoch \in Nat
  BY <1>2, PendingTypes, QueueTypes, Zenon
<1>4. mlme'.op = "up"
  BY DEF StartUp
<1>5. PendingExact'
  BY <1>1, <1>2, <1>3, <1>4 DEF PendingExact
<1> QED
  BY <1>1, <1>2, <1>3, <1>5, StartUpPort, PortStep, Zenon

LEMMA FinishUpStep ==
    ASSUME BridgeInv, FinishUp
    PROVE  BridgeInv'
<1>1. /\ mlme.op = "up" /\ mlme_pending' = mlme_pending - 1
      /\ UNCHANGED <<epoch, unrevoked, conn, up, calls, bridge, events>>
  BY Zenon DEF FinishUp
<1>2. StreamInv /\ PendingExact /\ PortInv
  BY Zenon DEF BridgeInv
<1>3. Len(events) \in Nat /\ mlme_pending \in Nat
  BY <1>2, PendingTypes, Zenon
<1>4. mlme'.op = "idle"
  BY DEF FinishUp, Idle
<1>5. PendingExact'
  BY <1>1, <1>2, <1>3, <1>4 DEF PendingExact
<1> QED
  BY <1>1, <1>2, <1>5, FinishUpPort, PortStep, Zenon

LEMMA FinishDownStep ==
    ASSUME BridgeInv, FinishDown
    PROVE  BridgeInv'
<1>1. /\ mlme.op = "down" /\ mlme_pending' = mlme_pending - 1
      /\ UNCHANGED <<epoch, unrevoked, conn, up, calls, bridge, events>>
  BY Zenon DEF FinishDown
<1>2. StreamInv /\ PendingExact /\ PortInv
  BY Zenon DEF BridgeInv
<1>3. Len(events) \in Nat /\ mlme_pending \in Nat
  BY <1>2, PendingTypes, Zenon
<1>4. mlme'.op = "idle"
  BY DEF FinishDown, Idle
<1>5. PendingExact'
  BY <1>1, <1>2, <1>3, <1>4 DEF PendingExact
<1> QED
  BY <1>1, <1>2, <1>5, FinishDownPort, PortStep, Zenon

LEMMA HandleDisconnectStep ==
    ASSUME BridgeInv, HandleDisconnect
    PROVE  BridgeInv'
<1>1. /\ mlme.op = "idle" /\ mlme.open /\ StartDown(epoch) /\ mlme_pending' = mlme_pending + 1
      /\ UNCHANGED <<epoch, unrevoked, conn, up, calls, bridge, events>>
  BY Zenon DEF HandleDisconnect
<1>2. QueueSound(up, calls) /\ EpochInv /\ StreamInv /\ PendingExact /\ PortInv
  BY Zenon DEF BridgeInv
<1>3. Len(events) \in Nat /\ mlme_pending \in Nat /\ epoch \in Nat
  BY <1>2, PendingTypes, QueueTypes, Zenon
<1>4. mlme'.op = "down"
  BY <1>1 DEF StartDown
<1>5. PendingExact'
  BY <1>1, <1>2, <1>3, <1>4 DEF PendingExact
<1> QED
  BY <1>1, <1>2, <1>3, <1>5, StartDownPort, PortStep, Zenon

LEMMA HandleStep ==
    ASSUME BridgeInv, Handle
    PROVE  BridgeInv'
<1> DEFINE e == Head(events)
<1>1. /\ mlme.op = "idle" /\ events # <<>> /\ events' = Tail(events)
      /\ UNCHANGED <<epoch, unrevoked, conn, up, calls, bridge>>
  BY Zenon DEF Handle
<1>2. QueueSound(up, calls) /\ EpochInv /\ StreamInv /\ PendingExact /\ PortInv
  BY Zenon DEF BridgeInv
<1>3. mlme_pending \in Nat
  BY <1>2, PendingTypes, Zenon
<1>4. /\ StreamInv' /\ e \in Events
      /\ Len(events) \in Nat /\ Len(events') = Len(events) - 1
  BY <1>1, <1>2, StreamTaken, Zenon DEF StreamInv
<1>5. e.epoch \in Nat
  BY <1>4 DEF Events
<1>6. QueueSound(up', calls') /\ EpochInv'
  BY <1>1, <1>2, Zenon DEF EpochInv
<1>7. PendingExact /\ mlme.op = "idle" /\ bridge' = bridge
      /\ Len(events) \in Nat /\ Len(events') = Len(events) - 1
  BY <1>1, <1>2, <1>4, Zenon
<1>8. CASE e.epoch \in unrevoked /\ e.kind = "loss" /\ mlme.open
  <2>1. StartDown(e.epoch) /\ mlme_pending' = mlme_pending
    BY <1>8, Zenon DEF Handle
  <2>2. mlme'.op = "down" /\ mlme_pending' = mlme_pending
    BY <2>1 DEF StartDown
  <2>3. PendingExact'
    <3> DEFINE b == IF bridge.at = "send" THEN 1 ELSE 0
    <3>1. b \in Nat
      OBVIOUS
    <3>2. mlme_pending = Len(events) + b + 0
      BY <1>7, Zenon DEF PendingExact
    <3> HIDE DEF b
    <3>3. mlme_pending = (Len(events) - 1) + b + 1
      BY <1>7, <3>1, <3>2
    <3>4. mlme_pending' = Len(events') + b + 1
      BY <1>7, <2>2, <3>3, Zenon
    <3>5. b = IF bridge'.at = "send" THEN 1 ELSE 0
      BY <1>7, Zenon DEF b
    <3>6. mlme'.op # "idle"
      BY <2>2
    <3> QED
      BY <3>4, <3>5, <3>6, Zenon DEF PendingExact
  <2>4. PortInv'
    BY <1>1, <1>2, <1>5, <1>8, <2>1, StartDownPort, Zenon DEF PortInv
  <2> QED
    BY <1>4, <1>6, <2>3, <2>4, Zenon DEF BridgeInv
<1>9. CASE ~(e.epoch \in unrevoked /\ e.kind = "loss" /\ mlme.open)
  <2>1. mlme_pending' = mlme_pending - 1 /\ UNCHANGED <<mlme, port, tx, devices>>
    BY <1>9, Zenon DEF Handle
  <2>2. PendingExact'
    BY <1>3, <1>7, <2>1 DEF PendingExact
  <2>3. PortInv'
    BY <1>1, <1>2, <2>1, Zenon DEF PortInv
  <2> QED
    BY <1>4, <1>6, <2>2, <2>3, Zenon DEF BridgeInv
<1> QED
  BY <1>8, <1>9

(* The runtime. *)
LEMMA EmptiedSound ==
    ASSUME QueueSound(up, calls), NEW e \in Nat, NEW l \in Flag
    PROVE  /\ QueueSound([Cleared(up) EXCEPT !.epoch = e, !.live = l], NoCalls)
           /\ [Cleared(up) EXCEPT !.epoch = e, !.live = l].epoch = e
<1>1. up \in Queues
  BY Zenon DEF QueueSound
<1>2. up.overflowed \in Flag /\ up.permit \in Flag
  BY <1>1, Zenon DEF Queues
<1>3. NoCalls \in [pushed : Nat, taken : Nat] /\ NoCalls.pushed = NoCalls.taken
  BY DEF NoCalls
<1>4. QueueSound([up EXCEPT !.queue = <<>>, !.raw = 0, !.epoch = e, !.live = l,
                            !.overflowed = up.overflowed, !.permit = up.permit], NoCalls)
  BY <1>1, <1>2, <1>3, ClearedSound, Zenon
<1>5. [Cleared(up) EXCEPT !.epoch = e, !.live = l]
         = [up EXCEPT !.queue = <<>>, !.raw = 0, !.epoch = e, !.live = l,
                      !.overflowed = up.overflowed, !.permit = up.permit]
  BY <1>1, Zenon DEF Cleared, Queues
<1>6. [Cleared(up) EXCEPT !.epoch = e, !.live = l].epoch = e
  BY <1>1 DEF Cleared, Queues
<1> QED
  BY <1>4, <1>5, <1>6

LEMMA BeginEpochStep ==
    ASSUME BridgeInv, BeginEpoch
    PROVE  BridgeInv'
<1>1. /\ conn = "none" /\ epoch < MaxEpoch /\ epoch' = epoch + 1
      /\ unrevoked' = (unrevoked \ {epoch}) \cup {epoch + 1} /\ conn' = "active"
      /\ up' = [Cleared(up) EXCEPT !.epoch = epoch + 1] /\ calls' = NoCalls
      /\ UNCHANGED <<bridge, events, mlme_pending, mlme, port, tx, devices>>
  BY Zenon DEF BeginEpoch
<1>2. QueueSound(up, calls) /\ EpochInv /\ StreamInv /\ PendingExact /\ PortInv
  BY Zenon DEF BridgeInv
<1>3. up \in Queues /\ epoch \in Nat /\ up.live \in Flag
  BY <1>2, QueueTypes, Zenon
<1>4. epoch + 1 \in Nat /\ epoch' \in Nat /\ epoch' \in 1 .. MaxEpoch /\ epoch' \in 1 .. epoch'
  BY <1>1, <1>3, BridgeAssumption DEF BridgeAssumption
<1>5. up' = [Cleared(up) EXCEPT !.epoch = epoch + 1, !.live = up.live]
  BY <1>1, <1>3, Zenon DEF Cleared, Queues
<1>6. QueueSound(up', calls') /\ up'.epoch = epoch'
  BY <1>1, <1>2, <1>3, <1>4, <1>5, EmptiedSound, Zenon
<1>7. unrevoked' = {epoch'}
  BY <1>1, <1>2, Zenon DEF EpochInv
<1>8. EpochInv'
  BY <1>4, <1>6, <1>7, Zenon DEF EpochInv
<1>9. Passed(epoch, unrevoked, epoch', unrevoked')
  BY <1>1, <1>3, <1>4, <1>7, Zenon DEF Passed
<1>10. StreamInv'
  <2>1. StreamSound(bridge, events, epoch', unrevoked')
    BY <1>2, <1>9, StreamStays, Zenon DEF StreamInv
  <2> QED
    BY <1>1, <2>1, Zenon DEF StreamInv
<1>11. PendingExact' /\ PortInv'
  BY <1>1, <1>2, BeginEpochPort, Zenon DEF PendingExact, PortInv
<1> QED
  BY <1>6, <1>8, <1>10, <1>11, Zenon DEF BridgeInv

LEMMA BeginCleanupStep ==
    ASSUME BridgeInv, BeginCleanup
    PROVE  BridgeInv'
<1>1. /\ epoch < MaxEpoch /\ epoch' = epoch + 1
      /\ unrevoked' = (unrevoked \ {epoch}) \cup {epoch + 1} /\ conn' = "cleanup"
      /\ UNCHANGED <<up, calls, bridge, events, mlme_pending, mlme, devices>>
  BY Zenon DEF BeginCleanup
<1>2. QueueSound(up, calls) /\ EpochInv /\ StreamInv /\ PendingExact /\ PortInv
  BY Zenon DEF BridgeInv
<1>3. epoch \in Nat /\ up.epoch \in 1 .. epoch
  BY <1>2, QueueTypes, Zenon DEF EpochInv
<1>4. /\ epoch' \in Nat /\ epoch' \in 1 .. MaxEpoch /\ up.epoch \in 1 .. epoch'
      /\ up.epoch # epoch'
  BY <1>1, <1>3, BridgeAssumption DEF BridgeAssumption
<1>5. unrevoked' = {epoch'}
  BY <1>1, <1>2, Zenon DEF EpochInv
<1>6. QueueSound(up', calls') /\ EpochInv'
  BY <1>1, <1>2, <1>4, <1>5, Zenon DEF EpochInv
<1>7. Passed(epoch, unrevoked, epoch', unrevoked')
  BY <1>1, <1>3, <1>4, <1>5, Zenon DEF Passed
<1>8. StreamInv'
  <2>1. StreamSound(bridge, events, epoch', unrevoked')
    BY <1>2, <1>7, StreamStays, Zenon DEF StreamInv
  <2> QED
    BY <1>1, <2>1, Zenon DEF StreamInv
<1>9. up.epoch \notin unrevoked'
  BY <1>4, <1>5, Zenon
<1>10. PendingExact' /\ PortInv'
  BY <1>1, <1>2, <1>9, BeginCleanupPort, Zenon DEF PendingExact, PortInv
<1> QED
  BY <1>6, <1>8, <1>10, Zenon DEF BridgeInv

LEMMA FinishCleanupStep ==
    ASSUME BridgeInv, FinishCleanup
    PROVE  BridgeInv'
<1>1. /\ conn = "cleanup" /\ mlme_pending = 0 /\ ~mlme.open /\ conn' = "none"
      /\ unrevoked' = unrevoked \ {epoch} /\ up' = Cleared(up) /\ calls' = NoCalls
      /\ UNCHANGED <<epoch, bridge, events, mlme_pending, mlme, port, tx, devices>>
  BY Zenon DEF FinishCleanup
<1>2. QueueSound(up, calls) /\ EpochInv /\ StreamInv /\ PendingExact /\ PortInv
  BY Zenon DEF BridgeInv
<1>3. up \in Queues /\ epoch \in Nat /\ up.epoch \in Nat /\ up.live \in Flag
  BY <1>2, QueueTypes, Zenon
<1>4. up' = [Cleared(up) EXCEPT !.epoch = up.epoch, !.live = up.live]
  BY <1>1, <1>3, Zenon DEF Cleared, Queues
<1>5. QueueSound(up', calls') /\ up'.epoch = up.epoch
  <2>1. calls' = NoCalls
    BY <1>1, Zenon
  <2> QED
    BY <1>2, <1>3, <1>4, <2>1, EmptiedSound, Zenon
<1>6. EpochInv'
  BY <1>1, <1>2, <1>5, Zenon DEF EpochInv
<1>7. Passed(epoch, unrevoked, epoch', unrevoked')
  BY <1>1, <1>3, Zenon DEF Passed
<1>8. StreamInv'
  <2>1. StreamSound(bridge, events, epoch', unrevoked')
    BY <1>2, <1>7, StreamStays, Zenon DEF StreamInv
  <2> QED
    BY <1>1, <2>1, Zenon DEF StreamInv
<1>9. mlme.op = "idle"
  BY <1>1, <1>2, PendingTypes, Zenon
<1>10. PendingExact' /\ PortInv'
  BY <1>1, <1>2, <1>5, <1>9, FinishCleanupPort, Zenon DEF PendingExact, PortInv
<1> QED
  BY <1>5, <1>6, <1>8, <1>10, Zenon DEF BridgeInv

LEMMA StopRuntimeStep ==
    ASSUME BridgeInv, StopRuntime
    PROVE  BridgeInv'
<1>1. /\ conn' = "stopped" /\ unrevoked' = {} /\ up' = [Cleared(up) EXCEPT !.live = FALSE]
      /\ calls' = NoCalls /\ UNCHANGED <<epoch, bridge, events, mlme_pending, mlme, devices>>
  BY Zenon DEF StopRuntime
<1>2. QueueSound(up, calls) /\ EpochInv /\ StreamInv /\ PendingExact /\ PortInv
  BY Zenon DEF BridgeInv
<1>3. up \in Queues /\ epoch \in Nat /\ up.epoch \in Nat
  BY <1>2, QueueTypes, Zenon
<1>4. up' = [Cleared(up) EXCEPT !.epoch = up.epoch, !.live = FALSE]
  BY <1>1, <1>3, Zenon DEF Cleared, Queues
<1>5. QueueSound(up', calls') /\ up'.epoch = up.epoch
  BY <1>1, <1>2, <1>3, <1>4, EmptiedSound, FlagFacts, Zenon
<1>6. EpochInv'
  BY <1>1, <1>2, <1>5, Zenon DEF EpochInv
<1>7. Passed(epoch, unrevoked, epoch', unrevoked')
  BY <1>1, <1>3, Zenon DEF Passed
<1>8. StreamInv'
  <2>1. StreamSound(bridge, events, epoch', unrevoked')
    BY <1>2, <1>7, StreamStays, Zenon DEF StreamInv
  <2> QED
    BY <1>1, <2>1, Zenon DEF StreamInv
<1>9. PendingExact' /\ PortInv'
  BY <1>1, <1>2, <1>5, StopRuntimePort, Zenon DEF PendingExact, PortInv
<1> QED
  BY <1>5, <1>6, <1>8, <1>9, Zenon DEF BridgeInv

(* The netstack. *)
LEMMA NetstackStep ==
    ASSUME BridgeInv, TakeDevice \/ NetstackSend \/ NetstackClose
    PROVE  BridgeInv'
<1>1. UNCHANGED <<epoch, unrevoked, conn, up, calls, bridge, events, mlme_pending, mlme, port>>
  BY Zenon DEF TakeDevice, NetstackSend, NetstackClose
<1>2. PendingExact /\ PortInv
  BY Zenon DEF BridgeInv
<1>3. PendingExact'
  BY <1>1, <1>2, Zenon DEF PendingExact
<1>4. PortSound(conn, unrevoked, up.epoch, mlme', port', tx', devices')
  <2>1. CASE TakeDevice
    <3>1. tx' = tx
      BY <2>1, Zenon DEF TakeDevice
    <3> QED
      BY <1>1, <1>2, <2>1, <3>1, TakeDevicePort, Zenon
  <2>2. CASE NetstackSend
    <3>1. devices' = devices
      BY <2>2, Zenon DEF NetstackSend
    <3> QED
      BY <1>1, <1>2, <2>2, <3>1, NetstackSendPort, Zenon
  <2>3. CASE NetstackClose
    <3>1. tx' = tx
      BY <2>3, Zenon DEF NetstackClose
    <3> QED
      BY <1>1, <1>2, <2>3, <3>1, NetstackClosePort, Zenon
  <2> QED
    BY <2>1, <2>2, <2>3
<1> QED
  BY <1>1, <1>3, <1>4, PortStep, Zenon
-----------------------------------------------------------------------------
LEMMA BridgeStart ==
    ASSUME BridgeInit
    PROVE  BridgeInv
<1>1. 1 \in 1 .. MaxEpoch /\ 1 \in 1 .. MaxGen /\ 1 \in Nat /\ 1 # None /\ 1 \in 1 .. 1
  BY BridgeAssumption DEF BridgeAssumption, None
<1>2. <<>> \in Seq(Callbacks) /\ <<>> \in Seq(Events) /\ Len(<<>>) = 0
  OBVIOUS
<1>3. QueueSound(up, calls)
  <2>1. up \in Queues /\ up.queue = <<>> /\ up.raw = 0
    BY <1>2, FlagFacts, Zenon DEF BridgeInit, Queues
  <2>2. calls \in [pushed : Nat, taken : Nat] /\ calls.pushed - calls.taken = 0
    BY DEF BridgeInit
  <2>3. /\ Cardinality(Of(<<>>, {"raw"})) = 0
        /\ Cardinality(Of(<<>>, Controls)) = 0
    BY OfEmpty
  <2>4. Len(up.queue) <= Capacity /\ \A i \in 1 .. Len(up.queue) : FALSE
    BY <1>2, <2>1, BridgeAssumption DEF BridgeAssumption
  <2> QED
    BY <2>1, <2>2, <2>3, <2>4, Zenon DEF QueueSound
<1>4. EpochInv
  BY <1>1 DEF BridgeInit, EpochInv
<1>5. StreamInv
  <2>1. bridge \in Polling /\ events = <<>>
    BY DEF BridgeInit, Polling
  <2>2. Len(events) <= EventCap /\ \A i \in 1 .. Len(events) : FALSE
    BY <1>2, <2>1, BridgeAssumption DEF BridgeAssumption
  <2> QED
    BY <1>2, <2>1, <2>2, Zenon DEF StreamInv, StreamSound
<1>6. PendingExact
  BY <1>2 DEF BridgeInit, PendingExact, Idle
<1>7. PortInv
  <2>1. mlme \in Mlmes /\ mlme.op = "idle" /\ ~mlme.open
    BY FlagFacts, Zenon DEF BridgeInit, Idle, Mlmes, None
  <2>2. port \in Ports /\ port.gen = 1 /\ port.fd /\ ~port.link /\ port.alive
    BY <1>1, FlagFacts, Zenon DEF BridgeInit, Ports
  <2>3. devices \in Halves /\ devices.published = None /\ devices.held = None
    BY DEF BridgeInit, Halves, None
  <2>4. conn = "none" /\ tx = <<>>
    BY DEF BridgeInit
  <2> QED
    BY <2>1, <2>2, <2>3, <2>4, Zenon DEF PortInv, PortSound
<1> QED
  BY <1>3, <1>4, <1>5, <1>6, <1>7, Zenon DEF BridgeInv

LEMMA BridgeStep ==
    ASSUME BridgeInv, [BridgeNext]_bridgeVars
    PROVE  BridgeInv'
<1>1. CASE BridgeNext
  BY <1>1, RecvStep, ControlStep, TakeCallbackStep, WakeStep, TakeFrameStep, SendEventStep,
     StartUpStep, FinishUpStep, FinishDownStep, HandleStep, HandleDisconnectStep,
     BeginEpochStep, BeginCleanupStep, FinishCleanupStep, StopRuntimeStep, NetstackStep, Zenon
     DEF BridgeNext
<1>2. CASE UNCHANGED bridgeVars
  <2>1. UNCHANGED <<epoch, unrevoked, conn, up, calls, bridge, events, mlme_pending, mlme, port,
                    tx, devices>>
    BY <1>2, Zenon DEF bridgeVars
  <2>2. PendingExact'
    BY <2>1, Zenon DEF BridgeInv, PendingExact
  <2>3. PortSound(conn, unrevoked, up.epoch, mlme', port', tx', devices')
    BY <2>1, Zenon DEF BridgeInv, PortInv
  <2> QED
    BY <2>1, <2>2, <2>3, PortStep, Zenon
<1> QED
  BY <1>1, <1>2

LEMMA BridgeInvSafe ==
    ASSUME BridgeInv
    PROVE  BridgeSafe
<1>1. QueueSound(up, calls) /\ EpochInv /\ StreamInv /\ PendingExact /\ PortInv
  BY Zenon DEF BridgeInv
<1>2. up.queue \in Seq(Callbacks)
  BY <1>1, Zenon DEF QueueSound, Queues
<1>3. \A i \in 1 .. Len(up.queue) : up.queue[i] \in Callbacks
  BY <1>2
<1>4. /\ {i \in 1..Len(up.queue) : IsRaw(up.queue[i])} = Of(up.queue, {"raw"})
      /\ {i \in 1..Len(up.queue) : ~IsRaw(up.queue[i])} = Of(up.queue, Controls)
  BY <1>3, CallbackKinds, Zenon DEF Of
<1>5. ControlsKept
  BY <1>1, <1>4, Zenon DEF ControlsKept, QueueSound
<1>6. BridgeTypeOK
  <2>1. Len(up.queue) <= Capacity /\ up.raw = Cardinality({i \in 1..Len(up.queue) : IsRaw(up.queue[i])})
    BY <1>1, <1>4, Zenon DEF QueueSound
  <2>2. Len(events) <= EventCap /\ mlme_pending \in Nat
    BY <1>1, PendingTypes, Zenon DEF StreamInv, StreamSound
  <2>3. epoch \in 1 .. MaxEpoch /\ epoch \in 1 .. epoch /\ unrevoked \subseteq 1 .. epoch
    BY <1>1, BridgeAssumption DEF EpochInv, BridgeAssumption
  <2>4. port.gen \in 1 .. MaxGen
    <3>1. port \in Ports
      BY <1>1, Zenon DEF PortInv, PortSound
    <3> QED
      BY <3>1 DEF Ports
  <2>5. bridge.at \in {"poll", "wait", "send", "failed"}
    <3>1. bridge \in Polling \/ bridge \in Events
      BY <1>1, Zenon DEF StreamInv, StreamSound, EventSound
    <3> QED
      BY <3>1 DEF Polling, Events
  <2> QED
    BY <2>1, <2>2, <2>3, <2>4, <2>5 DEF BridgeTypeOK
<1>7. EventsOfTheirEpoch
  BY <1>1, Zenon DEF EventsOfTheirEpoch, StreamInv, StreamSound, EventSound
<1>8. LinkHasEndpoint /\ PublishedIsCurrent
  BY <1>1, Zenon DEF PortInv, PortSound, LinkHasEndpoint, PublishedIsCurrent, LinkUp
<1> QED
  BY <1>1, <1>5, <1>6, <1>7, <1>8, Zenon DEF BridgeSafe

(* The bridge between the device's callbacks, the MLME and the netstack is *)
(* safe, for every capacity of the callback queue and of the event channel *)
(* and any number of epochs, ports and callbacks: no control callback is   *)
(* dropped without the overflow being latched, the counter that cleanup    *)
(* waits for is exact, what the MLME handles under a live epoch arose in   *)
(* it, and the published device is the open half of the current port.      *)
THEOREM BridgeIsSafe == BridgeSpec => []BridgeSafe
<1>1. BridgeInit => BridgeInv
  BY BridgeStart
<1>2. BridgeInv /\ [BridgeNext]_bridgeVars => BridgeInv'
  BY BridgeStep
<1>3. BridgeInv => BridgeSafe
  BY BridgeInvSafe
<1> QED
  BY <1>1, <1>2, <1>3, PTL DEF BridgeSpec
=============================================================================
