----------------------------- MODULE HashTable -----------------------------
(***************************************************************************)
(* The hash table of hash.c, on pointers: an array of buckets, each a LIST *)
(* with the newest item first, and a TAILQ of all items in the order they  *)
(* came, with the cursor of h_next.  The hash is the sum of a key's        *)
(* characters, so names that are permutations of each other collide.       *)
(*                                                                         *)
(* An item is its address; its value pointer is a different one for every  *)
(* item, and stands for it.  Every caller of h_next goes on until it gets  *)
(* NULL, without a yield and without another call of this table.           *)
(***************************************************************************)
EXTENDS Naturals, Sequences, Lists

CONSTANTS
    Keys,           \* strings
    Items,          \* addresses calloc may return for an item
    Buckets,        \* 0 .. size - 1
    h_hash_func,    \* the bucket of each key
    Order           \* the head of the ordered list

ASSUME ConstantsAssumption ==
    /\ h_hash_func \in [Keys -> Buckets]
    /\ Buckets \cap Items = {} /\ Order \notin Items \union {NULL}
    /\ NULL \notin Buckets \union Items \union Keys

VARIABLES
    pc,             \* "none", "live", or "freeing" in the loop of h_free
    items,          \* the buckets' lists
    ordered,        \* the list in order of insertion
    key,            \* item -> its key, NULL where none is allocated
    order_next,     \* the cursor of h_next
    ret             \* what the last operation returned

vars == <<pc, items, ordered, key, order_next, ret>>

NoItems == LIST_INIT(Buckets, Items)
NoOrder == TAILQ_INIT(Order, Items)

Init ==
    /\ pc = "none"
    /\ items = NoItems /\ ordered = NoOrder
    /\ key = [i \in Items |-> NULL]
    /\ order_next = NULL /\ ret = NULL

h_init ==
    /\ pc = "none"
    /\ pc' = "live"
    /\ items' = NoItems /\ ordered' = NoOrder
    /\ order_next' = NULL /\ ret' = NULL
    /\ UNCHANGED key

\* Mutation: only the first item of a bucket is compared.
Find_FirstOnly(k) ==
    LET i == items.next[h_hash_func[k]]
    IN  IF i # NULL /\ key[i] = k THEN i ELSE NULL

\* The first item of the key's bucket that has the key.
Find(k) ==
    LET at[c \in Buckets \union Items] ==
            LET i == items.next[c] IN IF i = NULL \/ key[i] = k THEN i ELSE at[i]
    IN  at[h_hash_func[k]]

\* A freed item's fields are nobody's.
Trash(l, i) == [l EXCEPT !.next[i] = NULL, !.prev[i] = NULL]

\* Nobody is in the middle of a traversal, or of h_free.
Ready == pc = "live" /\ order_next = NULL

\* h_remove.  The cursor is left alone.
h_remove(k) ==
    LET i == Find(k)
    IN  /\ Ready
        /\ IF i = NULL
           THEN ret' = "-1" /\ UNCHANGED <<items, ordered, key>>
           ELSE /\ items' = Trash(LIST_REMOVE(items, i), i)
                /\ ordered' = Trash(TAILQ_REMOVE(ordered, i), i)
                /\ key' = [key EXCEPT ![i] = NULL]
                /\ ret' = "0"
        /\ UNCHANGED <<pc, order_next>>

\* h_insert, where calloc returns i.
h_insert(k, i) ==
    /\ Ready
    /\ key[i] = NULL
    /\ IF Find(k) # NULL
       THEN ret' = "-1" /\ UNCHANGED <<items, ordered, key>>
       ELSE /\ key' = [key EXCEPT ![i] = k]
            /\ items' = LIST_INSERT_HEAD(items, h_hash_func[k], i)
            /\ ordered' = TAILQ_INSERT_TAIL(ordered, i)
            /\ ret' = "0"
    /\ UNCHANGED <<pc, order_next>>

\* Mutation: the key is returned in place of the value.
h_get_Key(k) ==
    /\ Ready
    /\ ret' = IF Find(k) = NULL THEN NULL ELSE k
    /\ UNCHANGED <<pc, items, ordered, key, order_next>>

h_get(k) ==
    /\ Ready
    /\ ret' = Find(k)
    /\ UNCHANGED <<pc, items, ordered, key, order_next>>

\* h_next: from the first item, or from where the cursor is.
h_next ==
    LET i == ordered.next[IF order_next = NULL THEN Order ELSE order_next]
    IN  /\ pc = "live"
        /\ order_next' = i
        /\ ret' = i
        /\ UNCHANGED <<pc, items, ordered, key>>

h_free_begin ==
    /\ Ready
    /\ pc' = "freeing"
    /\ UNCHANGED <<items, ordered, key, order_next, ret>>

\* One item of h_free's loop: it leaves the ordered list only.
h_free_item ==
    LET i == ordered.next[Order]
    IN  /\ pc = "freeing"
        /\ i # NULL
        /\ ordered' = Trash(TAILQ_REMOVE(ordered, i), i)
        /\ key' = [key EXCEPT ![i] = NULL]
        /\ UNCHANGED <<pc, items, order_next, ret>>

h_free_end ==
    /\ pc = "freeing"
    /\ ordered.next[Order] = NULL
    /\ pc' = "none" /\ ret' = NULL
    /\ items' = NoItems /\ ordered' = NoOrder
    /\ UNCHANGED <<key, order_next>>

Next == \/ h_init \/ h_next
        \/ h_free_begin \/ h_free_item \/ h_free_end
        \/ \E k \in Keys : h_remove(k) \/ h_get(k) \/ \E i \in Items : h_insert(k, i)

Spec == Init /\ [][Next]_vars

-----------------------------------------------------------------------------
(* Properties *)

Allocated == {i \in Items : key[i] # NULL}

\* Types of the table's state.
TypeOK ==
    /\ pc \in {"none", "live", "freeing"}
    /\ items \in [next : [Buckets \union Items -> Items \union {NULL}],
                  prev : [Items -> Buckets \union Items \union {NULL}]]
    /\ ordered \in [next : [{Order} \union Items -> Items \union {NULL}],
                    prev : [Items -> {Order} \union Items \union {NULL}],
                    last : {Order} \union Items]
    /\ key \in [Items -> Keys \union {NULL}]
    /\ order_next \in Items \union {NULL}
    /\ ret \in Items \union {NULL, "0", "-1"}

\* Every item is in the list of its key's bucket and in the ordered list,
\* freed items are in neither, the back pointers are inverse to the forward
\* ones, and the next insertion goes behind the last item: whichever items
\* of a bucket or of the order h_remove takes out, first, middle or last.
\* After h_free no item is left.
ListsExact ==
    /\ pc = "none" => Allocated = {}
    /\ pc = "live" =>
        /\ \A b \in Buckets :
            LIST_FOREACH(items, b) = {i \in Allocated : h_hash_func[key[i]] = b}
        /\ LIST_FOREACH(ordered, Order) = Allocated
        /\ \A i \in Allocated : /\ items.next[items.prev[i]] = i
                                /\ ordered.next[ordered.prev[i]] = i
        /\ ordered.next[ordered.last] = NULL
        /\ ordered.last \in Allocated \union {Order}

\* The ordered list behind cell c, as pairs, and the items up to the cursor.
Pairs(c) ==
    LET from[d \in {Order} \union Items] ==
            LET i == ordered.next[d]
            IN  IF i = NULL THEN <<>> ELSE << <<key[i], i>> >> \o from[i]
    IN  from[c]
Returned == IF order_next = NULL THEN 0 ELSE Len(Pairs(Order)) - Len(Pairs(order_next))

\* The table implements a map that keeps the order of insertion: lookups are
\* exact in spite of collisions, keys are unique, and a traversal returns
\* every item once and in order, ends with NULL, and can be repeated.
Map == INSTANCE OrderedMap WITH
        Values <- Items, live <- pc = "live", pos <- Returned,
        order <- IF pc = "live" THEN Pairs(Order) ELSE <<>>,
        ret <- IF pc = "freeing" THEN NULL ELSE ret
ImplementsOrderedMap == Map!Spec

=============================================================================
