------------------------------- MODULE RBTree -------------------------------
(***************************************************************************)
(* The red-black tree of rbtree.c as memqueue_expiry.c uses it: one node   *)
(* per deadline, found by descending, linked as a leaf and erased with     *)
(* rebalancing, and the walk of objs_expire down the left children of a    *)
(* tree that it erases from.                                               *)
(*                                                                         *)
(* A node is named by its deadline.  The loops of rb_insert_color and      *)
(* __rb_erase_color take one step per round; nobody else has the processor *)
(* meanwhile.  The two halves of each are mirror images and one definition *)
(* here, with the direction d: Rotate(t, n, "left") is __rb_rotate_left.   *)
(***************************************************************************)
EXTENDS Integers, FiniteSets

CONSTANTS
    Keys,           \* deadlines
    NULL

ASSUME KeysAssumption ==
    Keys \subseteq Nat /\ IsFiniteSet(Keys) /\ NULL \notin Nat

Ptr == Keys \union {NULL}
Dirs == {"left", "right"}
Opp(d) == IF d = "left" THEN "right" ELSE "left"

VARIABLES
    tree,           \* root, and rb_left/rb_right, parent and colour of nodes
    alloc,          \* expiry nodes that are allocated
    pc,             \* "idle", the loop of "insert" or "erase", or "free"
    node, parent,   \* the loop's variables
    victim,         \* the node to free after rebalancing
    walking,        \* the cleaner is in objs_expire
    cursor,         \* its variable node
    t_diff,         \* the time the walk compares with
    hit             \* history: the walk has freed a node

loopVars == <<pc, node, parent, victim>>
walkVars == <<walking, cursor, t_diff, hit>>
vars == <<tree, alloc, loopVars, walkVars>>

\* What calloc returns: red, without parent or children.
Blank == [d \in Dirs |-> NULL]

Init ==
    /\ tree = [root |-> NULL, kid |-> [n \in Keys |-> Blank],
               parent |-> [n \in Keys |-> NULL], black |-> [n \in Keys |-> FALSE]]
    /\ alloc = {}
    /\ pc = "idle" /\ node = NULL /\ parent = NULL /\ victim = NULL
    /\ walking = FALSE /\ cursor = NULL /\ t_diff = 0 /\ hit = FALSE

-----------------------------------------------------------------------------
(* Pointers and colours *)

IsRed(t, n) == n # NULL /\ ~t.black[n]

SetParent(t, n, p) == IF n = NULL THEN t ELSE [t EXCEPT !.parent[n] = p]

SetColour(t, S, b) ==
    [t EXCEPT !.black = [n \in Keys |-> IF n \in S THEN b ELSE @[n]]]

\* The side of p that n is on.
Side(t, p, n) == IF t.kid[p]["left"] = n THEN "left" ELSE "right"

\* The pointer to old, in its parent p or the root, is set to new.
Relink(t, p, old, new) ==
    IF p = NULL THEN [t EXCEPT !.root = new]
                ELSE [t EXCEPT !.kid[p][Side(t, p, old)] = new]

\* Mutation: the subtree that changes sides keeps its old parent.
Rotate_KeepsParent(t, n, d) ==
    LET up  == t.kid[n][Opp(d)]
        mid == t.kid[up][d]
        p   == t.parent[n]
        t1  == [t EXCEPT !.kid[n][Opp(d)] = mid, !.kid[up][d] = n]
    IN  SetParent(SetParent(Relink(t1, p, n, up), up, p), n, up)

\* __rb_rotate_left and __rb_rotate_right: n goes down on side d, its other
\* child comes up.
Rotate(t, n, d) ==
    LET up  == t.kid[n][Opp(d)]
        mid == t.kid[up][d]
        p   == t.parent[n]
        t1  == [SetParent(t, mid, n) EXCEPT !.kid[n][Opp(d)] = mid,
                                            !.kid[up][d] = n]
    IN  SetParent(SetParent(Relink(t1, p, n, up), up, p), n, up)

\* The last node on side d below n, n included.
Outermost(t, n, d) ==
    LET far[i \in Keys] == IF t.kid[i][d] = NULL THEN i ELSE far[t.kid[i][d]]
    IN  IF n = NULL THEN NULL ELSE far[n]

\* The first ancestor of n that has n on its side d.
AncestorWith(t, n, d) ==
    LET up[i \in Keys] ==
            LET p == t.parent[i]
            IN  IF p = NULL \/ t.kid[p][Opp(d)] # i THEN p ELSE up[p]
    IN  up[n]

rb_last(t) == Outermost(t, t.root, "right")

\* rb_next for d = "right", rb_prev for d = "left".
Neighbour(t, n, d) ==
    IF t.kid[n][d] # NULL THEN Outermost(t, t.kid[n][d], Opp(d))
                          ELSE AncestorWith(t, n, Opp(d))

\* rb_search: where the search for k goes at node n, and how it ends.
Toward(k, n) == IF k < n THEN "left" ELSE "right"
rb_search(t, k) ==
    LET at[n \in Ptr] == IF n \in {k, NULL} THEN n ELSE at[t.kid[n][Toward(k, n)]]
    IN  at[t.root]

\* The node that the descent of rb_insert hangs k below.
Above(t, k) ==
    LET at[n \in Keys] ==
            LET c == t.kid[n][Toward(k, n)] IN IF c = NULL THEN n ELSE at[c]
    IN  IF t.root = NULL THEN NULL ELSE at[t.root]

-----------------------------------------------------------------------------
(* rb_insert *)

\* obj_sched_expire: a deadline without a node gets one.
Sched(k) ==
    /\ pc = "idle" /\ ~walking
    /\ IF rb_search(tree, k) # NULL
       THEN UNCHANGED <<tree, alloc, loopVars>>
       ELSE LET p  == Above(tree, k)
                t1 == [tree EXCEPT !.parent[k] = p]
            IN  /\ tree' = IF p = NULL THEN [t1 EXCEPT !.root = k]
                           ELSE [t1 EXCEPT !.kid[p][Toward(k, p)] = k]
                /\ alloc' = alloc \union {k}
                /\ pc' = "insert" /\ node' = k
                /\ UNCHANGED <<parent, victim>>
    /\ UNCHANGED walkVars

\* rb_insert_color: what the round looks at, and whether there is one.
Father  == tree.parent[node]
Grand   == tree.parent[Father]
FSide   == Side(tree, Grand, Father)
Uncle   == tree.kid[Grand][Opp(FSide)]
InsertLoops == pc = "insert" /\ IsRed(tree, Father)

InsertRecolour ==
    /\ InsertLoops
    /\ IsRed(tree, Uncle)
    /\ tree' = SetColour(SetColour(tree, {Uncle, Father}, TRUE), {Grand}, FALSE)
    /\ node' = Grand
    /\ UNCHANGED <<alloc, pc, parent, victim, walkVars>>

InsertRotate ==
    LET inner == tree.kid[Father][Opp(FSide)] = node
        t1    == IF inner THEN Rotate(tree, Father, FSide) ELSE tree
        top   == IF inner THEN node ELSE Father
    IN  /\ InsertLoops
        /\ ~IsRed(tree, Uncle)
        /\ tree' = Rotate(SetColour(SetColour(t1, {top}, TRUE), {Grand}, FALSE),
                          Grand, Opp(FSide))
        /\ node' = IF inner THEN Father ELSE node
        /\ UNCHANGED <<alloc, pc, parent, victim, walkVars>>

InsertDone ==
    /\ pc = "insert"
    /\ ~IsRed(tree, Father)
    /\ tree' = SetColour(tree, {tree.root}, TRUE)
    /\ pc' = "idle" /\ node' = NULL
    /\ UNCHANGED <<alloc, parent, victim, walkVars>>

-----------------------------------------------------------------------------
(* rb_erase *)

\* rb_erase up to its call of __rb_erase_color.  A node with two children is
\* replaced by the next one, s, which takes its colour.  The result: the
\* tree, the child and parent to rebalance from, the colour that is gone.
Unlink(t, n) ==
    LET L == t.kid[n]["left"]
        R == t.kid[n]["right"]
        p == t.parent[n]
    IN  IF NULL \in {L, R}
        THEN LET child == IF L = NULL THEN R ELSE L
             IN  [tree |-> Relink(SetParent(t, child, p), p, n, child),
                  child |-> child, parent |-> p, black |-> t.black[n]]
        ELSE LET s     == Outermost(t, R, "left")
                 child == t.kid[s]["right"]
                 sp    == t.parent[s]
                 t1    == Relink(t, p, n, s)
                 t2    == IF sp = n THEN t1
                          ELSE [SetParent(SetParent(t1, child, sp), R, s)
                                EXCEPT !.kid[sp]["left"] = child,
                                       !.kid[s]["right"] = R]
             IN  [tree |-> SetParent([t2 EXCEPT !.parent[s] = p,
                                                !.black[s] = t.black[n],
                                                !.kid[s]["left"] = L], L, s),
                  child |-> child, parent |-> IF sp = n THEN s ELSE sp,
                  black |-> t.black[s]]

\* A node is taken out of the tree; rebalancing begins if it was black.
Erase(k) ==
    LET u == Unlink(tree, k)
    IN  /\ tree' = u.tree
        /\ victim' = k
        /\ IF u.black
           THEN pc' = "erase" /\ node' = u.child /\ parent' = u.parent
           ELSE pc' = "free" /\ UNCHANGED <<node, parent>>

\* possibly_node_free, called by a resched that empties the list of a node.
Free(k) ==
    /\ pc = "idle" /\ ~walking
    /\ k \in alloc
    /\ Erase(k)
    /\ UNCHANGED <<alloc, walkVars>>

\* __rb_erase_color: what the round looks at, and whether there is one.
NSide == Side(tree, parent, node)
Other == tree.kid[parent][Opp(NSide)]
Near  == tree.kid[Other][NSide]
Far   == tree.kid[Other][Opp(NSide)]
EraseLoops == pc = "erase" /\ ~IsRed(tree, node) /\ node # tree.root

EraseRedOther ==
    /\ EraseLoops
    /\ IsRed(tree, Other)
    /\ tree' = Rotate(SetColour(SetColour(tree, {Other}, TRUE), {parent}, FALSE),
                      parent, NSide)
    /\ UNCHANGED <<alloc, loopVars, walkVars>>

\* Mutation: the loop does not go on above.
EraseRecolour_Stops ==
    /\ EraseLoops
    /\ ~IsRed(tree, Other) /\ ~IsRed(tree, Near) /\ ~IsRed(tree, Far)
    /\ tree' = SetColour(tree, {Other}, FALSE)
    /\ node' = tree.root
    /\ UNCHANGED <<alloc, pc, parent, victim, walkVars>>

EraseRecolour ==
    /\ EraseLoops
    /\ ~IsRed(tree, Other) /\ ~IsRed(tree, Near) /\ ~IsRed(tree, Far)
    /\ tree' = SetColour(tree, {Other}, FALSE)
    /\ node' = parent /\ parent' = tree.parent[parent]
    /\ UNCHANGED <<alloc, pc, victim, walkVars>>

EraseRotate ==
    LET inner == ~IsRed(tree, Far)
        t1 == IF inner
              THEN Rotate(SetColour(SetColour(tree, {Near}, TRUE), {Other}, FALSE),
                          Other, Opp(NSide))
              ELSE tree
        o  == t1.kid[parent][Opp(NSide)]
        t2 == SetColour(SetColour(t1, {o}, t1.black[parent]),
                        {parent, t1.kid[o][Opp(NSide)]}, TRUE)
    IN  /\ EraseLoops
        /\ ~IsRed(tree, Other)
        /\ IsRed(tree, Near) \/ IsRed(tree, Far)
        /\ tree' = Rotate(t2, parent, NSide)
        /\ node' = tree'.root
        /\ UNCHANGED <<alloc, pc, parent, victim, walkVars>>

\* The loop, if there was one, ends and rb_erase returns; the node is freed.
EraseDone ==
    LET t1 == SetColour(tree, {node}, TRUE)
    IN  /\ pc \in {"erase", "free"}
        /\ ~EraseLoops
        /\ tree' = [t1 EXCEPT !.kid[victim] = Blank, !.parent[victim] = NULL,
                              !.black[victim] = FALSE]
        /\ alloc' = alloc \ {victim}
        /\ pc' = "idle" /\ node' = NULL /\ parent' = NULL /\ victim' = NULL
        /\ UNCHANGED walkVars

-----------------------------------------------------------------------------
(* objs_expire *)

\* Mutation: the time is rounded up.
WalkBegin_RoundsUp(t) ==
    /\ pc = "idle" /\ ~walking
    /\ walking' = TRUE /\ t_diff' = t + 1 /\ cursor' = tree.root /\ hit' = FALSE
    /\ UNCHANGED <<tree, alloc, loopVars>>

WalkBegin(t) ==
    /\ pc = "idle" /\ ~walking
    /\ walking' = TRUE /\ t_diff' = t /\ cursor' = tree.root /\ hit' = FALSE
    /\ UNCHANGED <<tree, alloc, loopVars>>

\* Mutation: the walk stays at a node that is not due.
WalkStep_Stays ==
    /\ pc = "idle" /\ walking /\ cursor # NULL
    /\ cursor' = IF cursor <= t_diff THEN tree.kid[cursor]["left"] ELSE cursor
    /\ hit' = (hit \/ cursor <= t_diff)
    /\ IF cursor <= t_diff THEN Erase(cursor) ELSE UNCHANGED <<tree, loopVars>>
    /\ UNCHANGED <<alloc, walking, t_diff>>

\* Mutation: a deadline that is reached exactly is not due.
WalkStep_Strict ==
    /\ pc = "idle" /\ walking /\ cursor # NULL
    /\ cursor' = tree.kid[cursor]["left"]
    /\ hit' = (hit \/ cursor < t_diff)
    /\ IF cursor < t_diff THEN Erase(cursor) ELSE UNCHANGED <<tree, loopVars>>
    /\ UNCHANGED <<alloc, walking, t_diff>>

\* Mutation: the walk goes on with the right child of a due node.
WalkStep_RightOfDue ==
    /\ pc = "idle" /\ walking /\ cursor # NULL
    /\ cursor' = IF cursor <= t_diff THEN tree.kid[cursor]["right"]
                                     ELSE tree.kid[cursor]["left"]
    /\ hit' = (hit \/ cursor <= t_diff)
    /\ IF cursor <= t_diff THEN Erase(cursor) ELSE UNCHANGED <<tree, loopVars>>
    /\ UNCHANGED <<alloc, walking, t_diff>>

\* One node: the pointer to its left child is read first, then it is freed
\* if it is due, and the tree rebalanced.
WalkStep ==
    /\ pc = "idle" /\ walking /\ cursor # NULL
    /\ cursor' = tree.kid[cursor]["left"]
    /\ hit' = (hit \/ cursor <= t_diff)
    /\ IF cursor <= t_diff THEN Erase(cursor) ELSE UNCHANGED <<tree, loopVars>>
    /\ UNCHANGED <<alloc, walking, t_diff>>

WalkEnd ==
    /\ pc = "idle" /\ walking /\ cursor = NULL
    /\ walking' = FALSE /\ t_diff' = 0 /\ hit' = FALSE
    /\ UNCHANGED <<tree, alloc, loopVars, cursor>>

Round == \/ InsertRecolour \/ InsertRotate \/ InsertDone
         \/ EraseRedOther \/ EraseRecolour \/ EraseRotate \/ EraseDone

Next == \/ \E k \in Keys : Sched(k) \/ Free(k) \/ WalkBegin(k)
        \/ Round
        \/ WalkStep \/ WalkEnd

\* Sequential code that has begun goes on.
Spec == Init /\ [][Next]_vars /\ WF_vars(Round \/ WalkStep \/ WalkEnd)

-----------------------------------------------------------------------------
(* Properties *)

\* Types of the tree's state.
TypeOK ==
    /\ tree \in [root : Ptr, kid : [Keys -> [Dirs -> Ptr]],
                 parent : [Keys -> Ptr], black : [Keys -> BOOLEAN]]
    /\ alloc \subseteq Keys
    /\ pc \in {"idle", "insert", "erase", "free"}
    /\ {node, parent, victim, cursor} \subseteq Ptr
    /\ walking \in BOOLEAN /\ t_diff \in Keys \union {0} /\ hit \in BOOLEAN

\* Deadlines that have a node in the tree.
InTree == alloc \ {victim}

\* Between any two rounds, every node that is allocated and not being erased
\* is found where rb_search looks for it, and parent pointers are the inverse
\* of child pointers: no rotation or replacement loses a node or leaves a
\* pointer to the erased one.
TreeExact ==
    /\ \A k \in InTree : rb_search(tree, k) = k
    /\ \A k \in InTree : tree.parent[k] =
            IF k = tree.root THEN NULL
            ELSE CHOOSE p \in InTree : \E d \in Dirs : tree.kid[p][d] = k
    /\ \A p \in InTree, d \in Dirs : tree.kid[p][d] \in InTree \union {NULL}

\* The black nodes from n down to the side of key k.
Blacks(t, k) ==
    LET cnt[n \in Ptr] ==
            IF n = NULL THEN 0
            ELSE (IF t.black[n] THEN 1 ELSE 0)
                 + (IF n = k THEN 0 ELSE cnt[t.kid[n][Toward(k, n)]])
    IN  cnt[t.root]

\* Whenever rebalancing is over the tree is a red-black tree: a black root,
\* no red node under a red one, and the same number of black nodes above
\* every missing child, which bounds the time the cleaner and every POST
\* spend in it.
RedBlack ==
    pc = "idle" =>
        /\ ~IsRed(tree, tree.root)
        /\ \A p \in InTree, d \in Dirs :
            IsRed(tree, tree.kid[p][d]) => tree.black[p]
        /\ \A p, q \in {n \in InTree : \E d \in Dirs : tree.kid[n][d] = NULL} :
            Blacks(tree, p) = Blacks(tree, q)

\* objs_expire frees nodes under its own walk, and rebalancing moves the
\* others; still the node it goes on with is in the tree and the earliest
\* deadline is the end of its left children.  The walk therefore frees the
\* earliest deadline if that is due.
WalkReachesFirst ==
    (walking /\ cursor # NULL) =>
        /\ cursor \in InTree
        /\ pc = "idle" =>
             \A k \in InTree : Outermost(tree, cursor, "left") <= k

\* rb_last, rb_next and rb_prev follow the order of the deadlines.
NeighboursExact ==
    pc = "idle" =>
        /\ rb_last(tree) # NULL <=> InTree # {}
        /\ \A k \in InTree :
            /\ k <= rb_last(tree)
            /\ LET n == Neighbour(tree, k, "right")
               IN  /\ n = NULL => \A j \in InTree : j <= k
                   /\ n # NULL => n > k /\ Neighbour(tree, n, "left") = k
                   /\ \A j \in InTree : j > k => n <= j

\* A walk of the cleaner over a tree that it rebalances comes to an end.
WalkEnds == walking ~> ~walking

\* The tree implements the set of deadlines that Expiry takes it for: what
\* rb_search finds is the set, rebalancing is invisible, and a walk over a
\* tree with a due deadline frees one.
Deadlines == INSTANCE DeadlineSet WITH keys <- {k \in Keys : rb_search(tree, k) = k}
ImplementsDeadlineSet == Deadlines!Spec

=============================================================================
