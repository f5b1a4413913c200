---------------------------- MODULE DeadlineSet ----------------------------
(***************************************************************************)
(* What memqueue_expiry.c relies on its red-black tree of deadlines for: a *)
(* set of deadlines, and a walk of the cleaner that frees deadlines which  *)
(* are due, at least one of them if there is one.  Expiry uses a tree in   *)
(* this way; RBTree implements it.                                         *)
(***************************************************************************)
EXTENDS Integers

CONSTANT Keys       \* deadlines, uint32 milliseconds

VARIABLES
    keys,           \* deadlines that have a node
    walking,        \* the cleaner is in objs_expire
    t_diff,         \* the time the walk compares with
    hit             \* the walk has freed a node

vars == <<keys, walking, t_diff, hit>>

Init == keys = {} /\ walking = FALSE /\ t_diff = 0 /\ hit = FALSE

Due == {k \in keys : k <= t_diff}

\* obj_sched_expire: finds or creates the node of a deadline.
Sched(k) ==
    /\ ~walking
    /\ keys' = keys \union {k}
    /\ UNCHANGED <<walking, t_diff, hit>>

\* A resched empties the list of a node and frees it.
Free(k) ==
    /\ ~walking
    /\ k \in keys
    /\ keys' = keys \ {k}
    /\ UNCHANGED <<walking, t_diff, hit>>

WalkBegin(t) ==
    /\ ~walking
    /\ walking' = TRUE /\ t_diff' = t /\ hit' = FALSE
    /\ UNCHANGED keys

Expire(k) ==
    /\ walking
    /\ k \in Due
    /\ keys' = keys \ {k}
    /\ hit' = TRUE
    /\ UNCHANGED <<walking, t_diff>>

WalkEnd ==
    /\ walking
    /\ hit \/ Due = {}
    /\ walking' = FALSE /\ t_diff' = 0 /\ hit' = FALSE
    /\ UNCHANGED keys

Next == \/ \E k \in Keys : Sched(k) \/ Free(k) \/ Expire(k)
        \/ \E t \in Keys : WalkBegin(t)
        \/ WalkEnd

Spec == Init /\ [][Next]_vars

=============================================================================
