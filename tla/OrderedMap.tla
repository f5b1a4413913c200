----------------------------- MODULE OrderedMap -----------------------------
(***************************************************************************)
(* What the users of hash.c rely on: a map that keeps the order of         *)
(* insertion, refuses a key it has, and gives every value once, in that    *)
(* order, to whoever calls h_next until it returns NULL.                   *)
(***************************************************************************)
EXTENDS Naturals, Sequences

CONSTANTS Keys, Values, NULL

VARIABLES
    live,           \* the table exists
    order,          \* <<key, value>> pairs, oldest first
    pos,            \* pairs the traversal under way has returned
    ret             \* what the last operation returned

vars == <<live, order, pos, ret>>

Init == live = FALSE /\ order = <<>> /\ pos = 0 /\ ret = NULL

HasKey(k) == \E i \in DOMAIN order : order[i][1] = k

Create ==
    /\ ~live
    /\ live' = TRUE /\ ret' = NULL
    /\ UNCHANGED <<order, pos>>

Insert(k, v) ==
    /\ live /\ pos = 0
    /\ IF HasKey(k) THEN ret' = "-1" /\ UNCHANGED order
                    ELSE ret' = "0" /\ order' = Append(order, <<k, v>>)
    /\ UNCHANGED <<live, pos>>

Remove(k) ==
    /\ live /\ pos = 0
    /\ \/ ~HasKey(k) /\ ret' = "-1" /\ UNCHANGED order
       \/ \E i \in DOMAIN order :
            /\ order[i][1] = k /\ ret' = "0"
            /\ order' = SubSeq(order, 1, i - 1) \o SubSeq(order, i + 1, Len(order))
    /\ UNCHANGED <<live, pos>>

Get(k) ==
    /\ live /\ pos = 0
    /\ \/ ~HasKey(k) /\ ret' = NULL
       \/ \E i \in DOMAIN order : order[i][1] = k /\ ret' = order[i][2]
    /\ UNCHANGED <<live, order, pos>>

GetNext ==
    /\ live
    /\ IF pos < Len(order) THEN pos' = pos + 1 /\ ret' = order[pos + 1][2]
                           ELSE pos' = 0 /\ ret' = NULL
    /\ UNCHANGED <<live, order>>

Free ==
    /\ live /\ pos = 0
    /\ live' = FALSE /\ order' = <<>> /\ ret' = NULL
    /\ UNCHANGED pos

Next == \/ Create \/ GetNext \/ Free
        \/ \E k \in Keys : Remove(k) \/ Get(k) \/ \E v \in Values : Insert(k, v)

Spec == Init /\ [][Next]_vars

=============================================================================
