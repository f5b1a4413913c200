------------------------------- MODULE Lists -------------------------------
(***************************************************************************)
(* The LIST and TAILQ macros of queue.h, as far as memqueue uses them, on  *)
(* pointers.  A cell is a place that holds a pointer to an element: the    *)
(* head of a list or the next field of an element.  The prev field of an   *)
(* element is the address of the cell that points to it, so an element     *)
(* leaves its list without the list being known, and the last element of   *)
(* a tail queue is known by the address of the cell to be written next.    *)
(***************************************************************************)
CONSTANT NULL

\* Lists with the heads H, all empty, and the elements E, in no list.
LIST_INIT(H, E) ==
    [next |-> [c \in H \union E |-> NULL], prev |-> [e \in E |-> NULL]]

SetPrev(l, e, c) == IF e = NULL THEN l ELSE [l EXCEPT !.prev[e] = c]

LIST_INSERT_HEAD(l, h, e) ==
    LET l1 == [l EXCEPT !.next[e] = l.next[h], !.next[h] = e]
    IN  [SetPrev(l1, l.next[h], e) EXCEPT !.prev[e] = h]

\* The removed element keeps its own fields.
LIST_REMOVE(l, e) ==
    [SetPrev(l, l.next[e], l.prev[e]) EXCEPT !.next[l.prev[e]] = l.next[e]]

\* The elements behind cell c that a FOREACH visits.
LIST_FOREACH(l, c) ==
    LET from[d \in DOMAIN l.next] ==
            IF l.next[d] = NULL THEN {} ELSE {l.next[d]} \union from[l.next[d]]
    IN  from[c]

\* A tail queue is a list with one head, and the address of its last cell.
TAILQ_INIT(h, E) ==
    [next |-> [c \in {h} \union E |-> NULL], prev |-> [e \in E |-> NULL],
     last |-> h]

TAILQ_INSERT_TAIL(l, e) ==
    [l EXCEPT !.next[e] = NULL, !.prev[e] = l.last, !.next[l.last] = e,
              !.last = e]

\* Mutation: the removal of the last element leaves tqh_last as it was.
TAILQ_REMOVE_KeepsLast(l, e) == LIST_REMOVE(l, e)

TAILQ_REMOVE(l, e) ==
    [LIST_REMOVE(l, e) EXCEPT
        !.last = IF l.next[e] = NULL THEN l.prev[e] ELSE @]

=============================================================================
