-------------------------- MODULE SegmentOwnership --------------------------
(***************************************************************************)
(* What dma-pool promises of the segments it hands out: a segment is lent  *)
(* to one owner at a time, comes back only when the device owns all of it, *)
(* and is otherwise retired for good.                                      *)
(***************************************************************************)
CONSTANT Segments

VARIABLES
    idle,     \* kept for reuse
    lent,     \* owned by a driver
    retired,  \* never handed out again
    touched   \* segments of which the CPU owns some part

svars == <<idle, lent, retired, touched>>

Init == idle = {} /\ lent = {} /\ retired = {} /\ touched = {}

Unused == Segments \ (idle \cup lent \cup retired)

(* A new page: one segment is lent, the others are kept or given up. *)
Mint ==
    \E s \in Unused :
        /\ lent' = lent \cup {s}
        /\ \E kept, rest \in SUBSET (Unused \ {s}) :
              /\ kept \cap rest = {}
              /\ idle' = idle \cup kept
              /\ retired' = retired \cup rest
        /\ UNCHANGED touched

Lend(s) ==
    /\ s \in idle
    /\ idle' = idle \ {s} /\ lent' = lent \cup {s}
    /\ UNCHANGED <<retired, touched>>

Touch(s) ==
    /\ s \in lent
    /\ touched' = touched \cup {s}
    /\ UNCHANGED <<idle, lent, retired>>

HandOver(s) ==
    /\ s \in lent
    /\ touched' = touched \ {s}
    /\ UNCHANGED <<idle, lent, retired>>

Return(s) ==
    /\ s \in lent \ touched
    /\ lent' = lent \ {s} /\ idle' = idle \cup {s}
    /\ UNCHANGED <<retired, touched>>

Retire(s) ==
    /\ s \in lent
    /\ lent' = lent \ {s} /\ retired' = retired \cup {s}
    /\ UNCHANGED <<idle, touched>>

GiveUp ==
    /\ idle' = {} /\ retired' = retired \cup idle
    /\ UNCHANGED <<lent, touched>>

Next ==
    \/ Mint \/ GiveUp
    \/ \E s \in Segments : \/ Lend(s) \/ Touch(s) \/ HandOver(s)
                           \/ Return(s) \/ Retire(s)

Spec == Init /\ [][Next]_svars
=============================================================================
