------------------------------ MODULE LinkHash ------------------------------
(***************************************************************************)
(* The hash table of the JSON library (linkhash.c): open addressing with   *)
(* linear probing, slots that are empty, freed or taken, and a doubly      *)
(* linked list through the taken slots in the order of insertion.  A       *)
(* search ends at an empty slot only.                                      *)
(***************************************************************************)
EXTENDS Naturals, Sequences

CONSTANTS
    lh_char_hash,           \* key -> its hash
    LH_EMPTY, LH_FREED,     \* sentinels of the key field
    NULL

lh_table_new(size) ==
    LET all(x) == [n \in 0 .. size - 1 |-> x]
    IN  [size |-> size, count |-> 0, k |-> all(LH_EMPTY), v |-> all(NULL),
         next |-> all(NULL), prev |-> all(NULL), head |-> NULL, tail |-> NULL]

\* The slot of S that probing for key k comes to first; never, if S is empty.
Probe(t, k, S) ==
    LET Steps(n) == (n + t.size - (lh_char_hash[k] % t.size)) % t.size
    IN  CHOOSE n \in S : \A m \in S : Steps(n) <= Steps(m)

\* The taken slots along the list.
Listed(t) ==
    LET from[n \in DOMAIN t.k] ==
            <<n>> \o (IF t.next[n] = NULL THEN <<>> ELSE from[t.next[n]])
    IN  IF t.head = NULL THEN <<>> ELSE from[t.head]

\* lh_table_insert once the table is large enough: the first slot that is
\* empty or freed, at the end of the list.
Place(t, k, v) ==
    LET n  == Probe(t, k, {m \in DOMAIN t.k : t.k[m] \in {LH_EMPTY, LH_FREED}})
        t1 == [t EXCEPT !.k[n] = k, !.v[n] = v, !.count = @ + 1,
                        !.next[n] = NULL, !.prev[n] = t.tail, !.tail = n]
    IN  IF t.head = NULL THEN [t1 EXCEPT !.head = n]
                         ELSE [t1 EXCEPT !.next[t.tail] = n]

\* lh_table_resize: the entries go into a new table in the order of the list.
lh_table_resize(t) ==
    LET L == Listed(t)
        new[i \in 0 .. Len(L)] == IF i = 0 THEN lh_table_new(2 * t.size)
                                  ELSE Place(new[i - 1], t.k[L[i]], t.v[L[i]])
    IN  new[Len(L)]

\* Mutation: the table grows only when it is more than full.
lh_table_insert_Late(t, k, v) ==
    Place(IF t.count > t.size THEN lh_table_resize(t) ELSE t, k, v)

lh_table_insert(t, k, v) ==
    Place(IF 100 * t.count > 66 * t.size THEN lh_table_resize(t) ELSE t, k, v)

\* lh_table_lookup_entry: the slot of k, or NULL.
lh_table_lookup_entry(t, k) ==
    LET n == Probe(t, k, {m \in DOMAIN t.k : t.k[m] \in {LH_EMPTY, k}})
    IN  IF t.k[n] = LH_EMPTY THEN NULL ELSE n

\* lh_table_delete_entry, without the call that frees the value.
lh_table_delete_entry(t, n) ==
    [t EXCEPT !.count = @ - 1, !.v[n] = NULL, !.k[n] = LH_FREED,
              !.head = IF @ = n THEN t.next[n] ELSE @,
              !.tail = IF @ = n THEN t.prev[n] ELSE @,
              !.next = [m \in DOMAIN @ |-> IF m = t.prev[n] THEN @[n]
                                          ELSE IF m = n THEN NULL ELSE @[m]],
              !.prev = [m \in DOMAIN @ |-> IF m = t.next[n] THEN @[n]
                                          ELSE IF m = n THEN NULL ELSE @[m]]]

\* Where the search for any key ends: no search runs for ever.
HasEmpty(t) == \E n \in DOMAIN t.k : t.k[n] = LH_EMPTY

\* The list goes through the taken slots, each once, back as well as forth,
\* the count is theirs, and a search for a key finds its only slot.
Consistent(t) ==
    LET L     == Listed(t)
        taken == {n \in DOMAIN t.k : t.k[n] \notin {LH_EMPTY, LH_FREED}}
    IN  /\ Len(L) = t.count
        /\ {L[i] : i \in DOMAIN L} = taken
        /\ \A i \in DOMAIN L :
            /\ t.prev[L[i]] = IF i = 1 THEN NULL ELSE L[i - 1]
            /\ lh_table_lookup_entry(t, t.k[L[i]]) = L[i]
        /\ t.tail = IF L = <<>> THEN NULL ELSE L[Len(L)]

=============================================================================
