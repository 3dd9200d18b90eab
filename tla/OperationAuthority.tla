------------------------- MODULE OperationAuthority -------------------------
(***************************************************************************)
(* Operation authority of the SoftMAC contract                             *)
(* (wlan-softmac-class-support/src/contract.rs).                           *)
(*                                                                         *)
(* An OperationEpoch is a shared flag that is born live and can only be    *)
(* revoked.  An OperationContext names an epoch, optionally a parent epoch *)
(* (OperationContext::child, used for scans and power save) and a deadline *)
(* on the monotonic clock.  The flags are the set "live" of lifetimes not  *)
(* yet revoked, the clock is "now".                                        *)
(***************************************************************************)
EXTENDS Integers

CONSTANTS
    Epochs,       \* attempt and service lifetimes (OperationEpoch::new)
    Children,     \* lifetimes made by OperationContext::child
    ParentOf,     \* the epoch each child was made under
    NoEpoch,      \* Option::None for a parent, and for an absent context
    MaxTime       \* the last instant of the bounded clock

ASSUME AuthorityAssumption ==
    /\ NoEpoch \notin Epochs \cup Children
    /\ Epochs \cap Children = {}
    /\ ParentOf \in [Children -> Epochs]
    /\ MaxTime \in Nat

Lifetimes == Epochs \cup Children

Deadlines == 1 .. MaxTime

(* A command without OperationContext (Command::operation_context = None). *)
NoContext == [epoch |-> NoEpoch, parent |-> NoEpoch, deadline |-> 0]

(* OperationEpoch::context: an operation of the epoch itself. *)
EpochContexts(e) ==
    {[epoch |-> e, parent |-> NoEpoch, deadline |-> d] : d \in Deadlines}

(* OperationContext::child: a lifetime of its own under a parent. *)
ChildContexts ==
    {[epoch |-> c, parent |-> ParentOf[c], deadline |-> d] :
        c \in Children, d \in Deadlines}

Contexts == (UNION {EpochContexts(e) : e \in Epochs}) \cup ChildContexts

(* OperationContext::is_live. *)
IsLive(context, live) ==
    /\ context.epoch \in live
    /\ context.parent = NoEpoch \/ context.parent \in live

(* OperationContext::check(now) = Ok(()). *)
Check(context, live, now) ==
    IsLive(context, live) /\ now < context.deadline
=============================================================================
