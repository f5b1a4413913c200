---------------------------- MODULE MCHashTable ----------------------------
(* An instance of HashTable for TLC: two buckets, one for the names that    *)
(* are permutations of each other.                                          *)
EXTENDS HashTable, TLC

CONSTANTS ab, ba, ca, cb, i1, i2, i3, i4

MCHash == [k \in Keys |-> IF k \in {ab, ba, ca} THEN 0 ELSE 1]

Symmetry == Permutations(Items)

=============================================================================
