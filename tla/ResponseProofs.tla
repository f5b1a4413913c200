--------------------------- MODULE ResponseProofs ---------------------------
(***************************************************************************)
(* Responses of any size, for every set of queue names, every message and  *)
(* every hash function: searches in the JSON library's tables end, the     *)
(* tables stay exact, nothing is written outside a buffer, every object of *)
(* a response is freed exactly once, and what is written as the answer to  *)
(* a poll is exactly what the answer has to say.                           *)
(*                                                                         *)
(* The invariant RespInv gives every object that is not freed one owner: a *)
(* container, the list of objects to be put, or the code that builds the   *)
(* response.  PollInv adds what the result of a poll shows at any point of *)
(* the loop over its pending messages.                                     *)
(***************************************************************************)
EXTENDS Response, Integers, FiniteSetTheorems, WellFoundedInduction,
        SequenceTheorems, TLAPS

-----------------------------------------------------------------------------
(* Numbers *)

\* Every non-empty set of natural numbers has a least element.
LEMMA LeastNat ==
    ASSUME NEW S \in SUBSET Nat, S # {}
    PROVE  \E n \in S : \A m \in S : n <= m
<1>1. \A x, y \in Nat : x < y => <<x, y>> \in OpToRel(<, Nat)
  BY DEF OpToRel
<1>2. PICK R : /\ IsWellFoundedOn(R, Nat)
               /\ \A x, y \in Nat : x < y => <<x, y>> \in R
  BY <1>1, NatLessThanWellFounded
<1>3. IsWellFoundedOn(R, Nat) /\ S \subseteq Nat
  BY <1>2
<1>4. \E n \in S : \A y \in S : ~(<<y, n>> \in R)
  BY <1>3, WFMin, Zenon
<1>5. PICK n \in S : \A m \in S : ~(m < n)
  BY <1>2, <1>3, <1>4
<1> QED
  BY <1>3, <1>5

\* A set that has 0 and with each number below n the next one has all up to n.
LEMMA Upto ==
    ASSUME NEW n \in Nat, NEW S, 0 \in S, \A i \in 0 .. n - 1 : i \in S => i + 1 \in S
    PROVE  \A i \in 0 .. n : i \in S
<1> DEFINE B == {i \in 0 .. n : i \notin S}
<1>1. B \in SUBSET Nat
  OBVIOUS
<1>2. ASSUME B # {} PROVE FALSE
  <2>1. PICK m \in B : \A j \in B : m <= j
    BY <1>1, <1>2, LeastNat
  <2>2. m # 0 /\ m - 1 \in 0 .. n - 1
    BY <2>1
  <2>3. m - 1 \in S
    <3>1. ~(m <= m - 1)
      BY <2>1
    <3> QED
      BY <2>1, <2>2, <3>1
  <2>4. m - 1 + 1 \in S
    BY <2>2, <2>3
  <2> QED
    BY <2>1, <2>4
<1> QED
  BY <1>2

-----------------------------------------------------------------------------
(* Probing *)

\* The keys a table may have.
Names == QIds \union Fields

\* How far slot n of s is from the hash of k.
Dist(s, k, n) == (n + s - (lh_char_hash[k] % s)) % s

\* A sum below twice s, modulo s.
LEMMA Wrap ==
    ASSUME NEW n \in Nat, NEW s \in Nat, NEW r \in Nat, n < s, r < s
    PROVE  (n + s - r) % s = IF n >= r THEN n - r ELSE n + s - r
<1>1. CASE n >= r
  BY <1>1
<1>2. CASE n < r
  BY <1>2
<1> QED
  BY <1>1, <1>2

\* Distances differ from slot to slot.
LEMMA DistIs ==
    ASSUME NEW s \in Nat, s > 0, NEW k \in Names
    PROVE  /\ \A n \in 0 .. s - 1 : Dist(s, k, n) \in Nat
           /\ \A n, m \in 0 .. s - 1 : Dist(s, k, n) = Dist(s, k, m) => n = m
<1>1. PICK h : h = lh_char_hash[k] /\ h \in Nat
  BY ConstantsAssumption DEF Names
<1>2. PICK r : r = h % s
  OBVIOUS
<1>3. r \in Nat /\ r < s
  BY <1>1, <1>2
<1>4. \A n \in 0 .. s - 1 : Dist(s, k, n) = IF n >= r THEN n - r ELSE n + s - r
  <2> SUFFICES ASSUME NEW n \in 0 .. s - 1
               PROVE  Dist(s, k, n) = IF n >= r THEN n - r ELSE n + s - r
    OBVIOUS
  <2>1. (n + s - r) % s = IF n >= r THEN n - r ELSE n + s - r
    BY <1>3, Wrap
  <2> QED
    BY <1>1, <1>2, <2>1 DEF Dist
<1> QED
  BY <1>3, <1>4

\* n is the slot of S that is closest behind the hash of k.
Closest(s, k, S, n) == n \in S /\ \A m \in S : Dist(s, k, n) <= Dist(s, k, m)

\* A search for a key that has somewhere to end ends at the first such slot.
LEMMA ProbeIs ==
    ASSUME NEW t, t.size \in Nat, t.size > 0, NEW k \in Names,
           NEW S \in SUBSET (0 .. t.size - 1), S # {}
    PROVE  Closest(t.size, k, S, Probe(t, k, S))
<1>1. PICK s : s = t.size /\ s \in Nat /\ s > 0 /\ S \in SUBSET (0 .. s - 1)
  OBVIOUS
<1> DEFINE D == {Dist(s, k, m) : m \in S}
<1>2. \A m \in S : Dist(s, k, m) \in Nat
  BY <1>1, DistIs
<1>3. D \in SUBSET Nat /\ D # {}
  BY <1>2
<1>4. PICK d \in D : \A e \in D : d <= e
  BY <1>3, LeastNat
<1>5. PICK n \in S : d = Dist(s, k, n)
  BY <1>4
<1>6. Closest(s, k, S, n)
  BY <1>4, <1>5 DEF Closest
<1>7. Probe(t, k, S) = CHOOSE x \in S : \A m \in S : Dist(s, k, x) <= Dist(s, k, m)
  BY <1>1 DEF Probe, Dist
<1>8. \E x \in S : \A m \in S : Dist(s, k, x) <= Dist(s, k, m)
  BY <1>6 DEF Closest
<1>9. Probe(t, k, S) \in S /\ \A m \in S : Dist(s, k, Probe(t, k, S)) <= Dist(s, k, m)
  BY <1>7, <1>8
<1> QED
  BY <1>1, <1>9 DEF Closest

-----------------------------------------------------------------------------
(* Tables *)

\* The types of a table with s slots.
TabSet(s) == [size : {s}, count : Nat, k : [0 .. s - 1 -> Names \union {LH_EMPTY, LH_FREED}],
              v : [0 .. s - 1 -> Nat \union {NULL}],
              next : [0 .. s - 1 -> (0 .. s - 1) \union {NULL}],
              prev : [0 .. s - 1 -> (0 .. s - 1) \union {NULL}],
              head : (0 .. s - 1) \union {NULL}, tail : (0 .. s - 1) \union {NULL}]

\* The list of t goes through the slots L; the others point nowhere.
Chained(t, L) ==
    /\ \A n \in 0 .. t.size - 1 : (\A i \in 1 .. Len(L) : L[i] # n) => t.next[n] = NULL
    /\ L \in Seq(0 .. t.size - 1) /\ \A i, j \in 1 .. Len(L) : L[i] = L[j] => i = j
    /\ t.head = IF Len(L) = 0 THEN NULL ELSE L[1]
    /\ t.tail = IF Len(L) = 0 THEN NULL ELSE L[Len(L)]
    /\ \A i \in 1 .. Len(L) : t.next[L[i]] = IF i = Len(L) THEN NULL ELSE L[i + 1]
    /\ \A i \in 1 .. Len(L) : t.prev[L[i]] = IF i = 1 THEN NULL ELSE L[i - 1]

\* The slots L have the keys, each its own, the slots F are freed, and no
\* empty slot is between the hash of a key and its slot.
Slotted(t, L, F) ==
    /\ \A n \in 0 .. t.size - 1 : t.k[n] = LH_FREED <=> n \in F
    /\ \A n \in 0 .. t.size - 1 : t.k[n] \in Names <=> \E i \in 1 .. Len(L) : L[i] = n
    /\ \A n, m \in 0 .. t.size - 1 : t.k[n] \in Names /\ t.k[n] = t.k[m] => n = m
    /\ \A n, m \in 0 .. t.size - 1 :
        t.k[n] \in Names /\ Dist(t.size, t.k[n], m) < Dist(t.size, t.k[n], n) => t.k[m] # LH_EMPTY

\* A table whose taken slots are L, in the order of insertion.
Tab(t, L, F) ==
    /\ t.size \in Nat /\ t.size >= 3 /\ t \in TabSet(t.size)
    /\ t.count = Len(L) /\ t.count < t.size
    /\ Chained(t, L) /\ Slotted(t, L, F)

\* A new table is empty.
LEMMA NewTab ==
    ASSUME NEW s \in Nat, s >= 3
    PROVE  Tab(lh_table_new(s), <<>>, {}) /\ lh_table_new(s).size = s
<1>1. PICK t : t = lh_table_new(s)
  OBVIOUS
<1>2. t = [size |-> s, count |-> 0, k |-> [n \in 0 .. s - 1 |-> LH_EMPTY],
           v |-> [n \in 0 .. s - 1 |-> NULL], next |-> [n \in 0 .. s - 1 |-> NULL],
           prev |-> [n \in 0 .. s - 1 |-> NULL], head |-> NULL, tail |-> NULL]
  BY <1>1 DEF lh_table_new
<1>3. t.size = s /\ t.count = 0 /\ t \in TabSet(s) /\ t.head = NULL /\ t.tail = NULL
  BY <1>2 DEF TabSet
<1>4. \A n \in 0 .. s - 1 : t.k[n] = LH_EMPTY /\ t.next[n] = NULL
  BY <1>2
<1>5. LH_EMPTY # LH_FREED /\ LH_EMPTY \notin Names
  BY ConstantsAssumption DEF Names
<1>6. PICK L : L = <<>>
  OBVIOUS
<1>7. L \in Seq(0 .. s - 1) /\ Len(L) = 0
  BY <1>6
<1>8. Chained(t, L)
  BY <1>3, <1>4, <1>7 DEF Chained
<1>9. Slotted(t, L, {})
  BY <1>3, <1>4, <1>5, <1>7 DEF Slotted
<1> QED
  BY <1>1, <1>3, <1>6, <1>7, <1>8, <1>9 DEF Tab

\* A sequence of fewer than s slots leaves one out.
LEMMA SlotLeft ==
    ASSUME NEW s \in Nat, NEW L \in Seq(0 .. s - 1), Len(L) < s
    PROVE  \E n \in 0 .. s - 1 : \A i \in 1 .. Len(L) : L[i] # n
<1>1. PICK c : c = Len(L) /\ c \in Nat
  OBVIOUS
<1>2. IsFiniteSet(0 .. s - 1) /\ Cardinality(0 .. s - 1) = s
  <2>1. PICK a, b \in Int : a = 0 /\ b = s - 1
    OBVIOUS
  <2>2. IsFiniteSet(a .. b) /\ Cardinality(a .. b) = IF a > b THEN 0 ELSE b - a + 1
    BY FS_Interval
  <2> QED
    BY <2>1, <2>2
<1>3. IsFiniteSet(1 .. c) /\ Cardinality(1 .. c) = c
  <2>1. PICK a, b \in Int : a = 1 /\ b = c
    BY <1>1
  <2>2. IsFiniteSet(a .. b) /\ Cardinality(a .. b) = IF a > b THEN 0 ELSE b - a + 1
    BY FS_Interval
  <2> QED
    BY <1>1, <2>1, <2>2
<1> DEFINE R == {L[i] : i \in 1 .. c}
<1>4. ASSUME R = 0 .. s - 1 PROVE FALSE
  <2>1. IsFiniteSet(R) /\ Cardinality(R) <= Cardinality(1 .. c)
    <3>1. PICK f : f = [i \in 1 .. c |-> L[i]]
      OBVIOUS
    <3>2. f \in Surjection(1 .. c, R)
      BY <3>1 DEF Surjection
    <3> QED
      BY <1>3, <3>2, FS_Surjection
  <2>2. Cardinality(0 .. s - 1) <= c
    BY <1>3, <1>4, <2>1
  <2>3. s <= c
    BY <1>2, <2>2
  <2> QED
    BY <1>1, <2>3
<1>5. R \subseteq 0 .. s - 1
  BY <1>1
<1> QED
  BY <1>1, <1>4, <1>5

\* The fields of a table with an entry in slot n, behind all others.
PlacedAt(t, n, k, v, t2) ==
    /\ t2 \in TabSet(t.size) /\ t2.count = t.count + 1
    /\ \A m \in 0 .. t.size - 1 :
        /\ t2.k[m] = IF m = n THEN k ELSE t.k[m]
        /\ t2.v[m] = IF m = n THEN v ELSE t.v[m]
        /\ t2.next[m] = IF m = n THEN NULL ELSE
                        IF t.head # NULL /\ m = t.tail THEN n ELSE t.next[m]
        /\ t2.prev[m] = IF m = n THEN t.tail ELSE t.prev[m]
    /\ t2.head = IF t.head = NULL THEN n ELSE t.head
    /\ t2.tail = n

\* The slots that are not taken.
Free(t) == {m \in DOMAIN t.k : t.k[m] \in {LH_EMPTY, LH_FREED}}

\* What Place writes.
LEMMA PlaceFields ==
    ASSUME NEW t, t.size \in Nat, t \in TabSet(t.size), NEW k \in Names, NEW v \in Nat,
           NEW n \in 0 .. t.size - 1, n = Probe(t, k, Free(t)), t.tail # n,
           t.head # NULL => t.tail # NULL
    PROVE  PlacedAt(t, n, k, v, Place(t, k, v))
<1>1. PICK s : s = t.size /\ s \in Nat
  OBVIOUS
<1>2. PICK t1 : t1 = [t EXCEPT !.k[n] = k, !.v[n] = v, !.count = @ + 1,
                               !.next[n] = NULL, !.prev[n] = t.tail, !.tail = n]
  OBVIOUS
<1>3. /\ t1 \in TabSet(s) /\ t1.count = t.count + 1 /\ t1.head = t.head /\ t1.tail = n
      /\ \A m \in 0 .. s - 1 :
        /\ t1.k[m] = IF m = n THEN k ELSE t.k[m]
        /\ t1.v[m] = IF m = n THEN v ELSE t.v[m]
        /\ t1.next[m] = IF m = n THEN NULL ELSE t.next[m]
        /\ t1.prev[m] = IF m = n THEN t.tail ELSE t.prev[m]
  <2>1. PICK a : a = [t EXCEPT !.k[n] = k, !.v[n] = v]
    OBVIOUS
  <2>2. /\ a \in TabSet(s) /\ a.count = t.count /\ a.head = t.head /\ a.tail = t.tail
        /\ a.next = t.next /\ a.prev = t.prev
        /\ \A m \in 0 .. s - 1 : /\ a.k[m] = IF m = n THEN k ELSE t.k[m]
                                 /\ a.v[m] = IF m = n THEN v ELSE t.v[m]
    BY <1>1, <2>1 DEF TabSet
  <2>3. PICK z : z = t.tail /\ z \in (0 .. s - 1) \union {NULL}
    BY <1>1 DEF TabSet
  <2>4. PICK b : b = [a EXCEPT !.next[n] = NULL, !.prev[n] = z]
    OBVIOUS
  <2>5. /\ b \in TabSet(s) /\ b.count = a.count /\ b.head = a.head /\ b.tail = a.tail
        /\ b.k = a.k /\ b.v = a.v
        /\ \A m \in 0 .. s - 1 : /\ b.next[m] = IF m = n THEN NULL ELSE a.next[m]
                                /\ b.prev[m] = IF m = n THEN z ELSE a.prev[m]
    BY <1>1, <2>2, <2>3, <2>4 DEF TabSet
  <2>a. PICK e : e = b.count + 1 /\ e \in Nat /\ e = t.count + 1
    BY <2>2, <2>5 DEF TabSet
  <2>6. PICK d : d = [b EXCEPT !.count = e, !.tail = n]
    OBVIOUS
  <2>7. /\ d \in TabSet(s) /\ d.count = b.count + 1 /\ d.head = b.head /\ d.tail = n
        /\ d.k = b.k /\ d.v = b.v /\ d.next = b.next /\ d.prev = b.prev
    BY <1>1, <2>5, <2>6, <2>a DEF TabSet
  <2>8. d = t1
    BY <1>1, <1>2, <2>1, <2>3, <2>4, <2>6, <2>a DEF TabSet
  <2> QED
    BY <2>2, <2>3, <2>5, <2>7, <2>8, <2>a
<1>4. Place(t, k, v) = IF t.head = NULL THEN [t1 EXCEPT !.head = n]
                                        ELSE [t1 EXCEPT !.next[t.tail] = n]
  BY <1>2 DEF Place, Free
<1>5. CASE t.head = NULL
  <2>1. PICK t2 : t2 = [t1 EXCEPT !.head = n]
    OBVIOUS
  <2>2. /\ t2 \in TabSet(s) /\ t2.count = t1.count /\ t2.head = n /\ t2.tail = t1.tail
        /\ t2.k = t1.k /\ t2.v = t1.v /\ t2.next = t1.next /\ t2.prev = t1.prev
    BY <1>1, <1>3, <2>1 DEF TabSet
  <2>3. PlacedAt(t, n, k, v, t2)
    BY <1>1, <1>3, <1>5, <2>2 DEF PlacedAt
  <2> QED
    BY <1>4, <1>5, <2>1, <2>3
<1>6. CASE t.head # NULL
  <2>1. PICK t2, z : t2 = [t1 EXCEPT !.next[z] = n] /\ z = t.tail
    OBVIOUS
  <2>2. z \in 0 .. s - 1 /\ z # n
    BY <1>1, <1>6, <2>1 DEF TabSet
  <2>3. /\ t2 \in TabSet(s) /\ t2.count = t1.count /\ t2.head = t1.head /\ t2.tail = t1.tail
        /\ t2.k = t1.k /\ t2.v = t1.v /\ t2.prev = t1.prev
        /\ \A m \in 0 .. s - 1 : t2.next[m] = IF m = z THEN n ELSE t1.next[m]
    BY <1>1, <1>3, <2>1, <2>2 DEF TabSet
  <2>4. PlacedAt(t, n, k, v, t2)
    BY <1>1, <1>3, <1>6, <2>1, <2>2, <2>3 DEF PlacedAt
  <2> QED
    BY <1>4, <1>6, <2>1, <2>4
<1> QED
  BY <1>5, <1>6

\* The list grows at its end.
LEMMA ChainedGrows ==
    ASSUME NEW t, t.size \in Nat, t \in TabSet(t.size), NEW L, Chained(t, L),
           NEW n \in 0 .. t.size - 1, \A i \in 1 .. Len(L) : L[i] # n,
           NEW k, NEW v, NEW t2, PlacedAt(t, n, k, v, t2)
    PROVE  Chained(t2, Append(L, n))
<1>1. PICK s, c : s = t.size /\ s \in Nat /\ c = Len(L) /\ c \in Nat
  BY DEF Chained
<1>2. L \in Seq(0 .. s - 1) /\ n \in 0 .. s - 1
  BY <1>1 DEF Chained
<1>3. PICK M : M = Append(L, n)
  OBVIOUS
<1>4. /\ M \in Seq(0 .. s - 1) /\ Len(M) = c + 1 /\ M[c + 1] = n
      /\ \A i \in 1 .. c : M[i] = L[i] /\ L[i] \in 0 .. s - 1 /\ L[i] # n
  BY <1>1, <1>2, <1>3
<1>5. t2.size = s
  BY <1>1 DEF PlacedAt, TabSet
<1>6. /\ \A i, j \in 1 .. c : L[i] = L[j] => i = j
      /\ t.head = IF c = 0 THEN NULL ELSE L[1]
      /\ t.tail = IF c = 0 THEN NULL ELSE L[c]
      /\ \A i \in 1 .. c : t.next[L[i]] = IF i = c THEN NULL ELSE L[i + 1]
      /\ \A i \in 1 .. c : t.prev[L[i]] = IF i = 1 THEN NULL ELSE L[i - 1]
  BY <1>1 DEF Chained
<1>7. ASSUME NEW i \in 1 .. c + 1, NEW j \in 1 .. c + 1, M[i] = M[j] PROVE i = j
  <2>1. \A x \in 1 .. c + 1 : x = c + 1 \/ x \in 1 .. c
    BY <1>1
  <2>2. CASE i \in 1 .. c /\ j \in 1 .. c
    BY <1>4, <1>6, <1>7, <2>2
  <2>3. CASE i = c + 1 \/ j = c + 1
    BY <1>4, <1>7, <2>1, <2>3
  <2> QED
    BY <2>1, <2>2, <2>3
<1>8. NULL \notin 0 .. s - 1
  BY <1>1, ConstantsAssumption
<1>9. t.head = NULL <=> c = 0
  BY <1>1, <1>4, <1>6, <1>8
<1>10. t2.head = M[1]
  <2>1. CASE c = 0
    BY <1>1, <1>4, <1>9, <2>1 DEF PlacedAt
  <2>2. CASE c # 0
    BY <1>1, <1>4, <1>6, <1>9, <2>2 DEF PlacedAt
  <2> QED
    BY <2>1, <2>2
<1>11. ASSUME NEW i \in 1 .. c + 1
       PROVE  /\ t2.next[M[i]] = IF i = c + 1 THEN NULL ELSE M[i + 1]
              /\ t2.prev[M[i]] = IF i = 1 THEN NULL ELSE M[i - 1]
  <2>1. CASE i = c + 1
    <3>1. M[i] = n /\ t2.next[n] = NULL /\ t2.prev[n] = t.tail
      BY <1>1, <1>2, <1>4, <2>1 DEF PlacedAt
    <3>2. t.tail = IF i = 1 THEN NULL ELSE M[i - 1]
      BY <1>1, <1>4, <1>6, <2>1
    <3> QED
      BY <2>1, <3>1, <3>2
  <2>2. CASE i # c + 1
    <3>1. i \in 1 .. c
      BY <1>1, <2>2
    <3>2. PICK m : m = M[i] /\ m = L[i] /\ m \in 0 .. s - 1 /\ m # n
      BY <1>4, <3>1
    <3>3. t2.prev[m] = t.prev[m]
      BY <1>1, <3>2 DEF PlacedAt
    <3>4. t2.prev[M[i]] = IF i = 1 THEN NULL ELSE M[i - 1]
      <4>1. t.prev[m] = IF i = 1 THEN NULL ELSE L[i - 1]
        BY <1>6, <3>1, <3>2
      <4>2. i # 1 => i - 1 \in 1 .. c
        BY <1>1, <3>1
      <4>3. i # 1 => M[i - 1] = L[i - 1]
        BY <1>4, <4>2
      <4> QED
        BY <3>2, <3>3, <4>1, <4>3
    <3>5. t2.next[m] = IF t.head # NULL /\ m = t.tail THEN n ELSE t.next[m]
      BY <1>1, <3>2 DEF PlacedAt
    <3>6. CASE i = c
      <4>1. m = t.tail /\ t.head # NULL
        BY <1>1, <1>6, <1>9, <3>1, <3>2, <3>6
      <4> QED
        BY <1>1, <1>4, <3>2, <3>4, <3>5, <3>6, <4>1
    <3>7. CASE i # c
      <4>1. i + 1 \in 1 .. c
        BY <1>1, <3>1, <3>7
      <4>2. m # t.tail
        BY <1>1, <1>6, <3>1, <3>2, <3>7
      <4>3. t.next[m] = L[i + 1]
        BY <1>6, <3>1, <3>2, <3>7
      <4>4. M[i + 1] = L[i + 1]
        BY <1>4, <4>1
      <4> QED
        BY <1>1, <2>2, <3>2, <3>4, <3>5, <4>2, <4>3, <4>4
    <3> QED
      BY <3>6, <3>7
  <2> QED
    BY <2>1, <2>2
<1>12. t2.tail = M[c + 1]
  BY <1>4 DEF PlacedAt
<1>13. ASSUME NEW m \in 0 .. s - 1, \A i \in 1 .. c + 1 : M[i] # m PROVE t2.next[m] = NULL
  <2>1. \A i \in 1 .. c : i \in 1 .. c + 1
    BY <1>1
  <2>2. m # n /\ \A i \in 1 .. c : L[i] # m
    BY <1>1, <1>4, <1>13, <2>1
  <2>3. t.next[m] = NULL
    BY <1>1, <2>2 DEF Chained
  <2>4. ~(t.head # NULL /\ m = t.tail)
    BY <1>1, <1>6, <1>9, <2>2
  <2> QED
    BY <1>1, <2>2, <2>3, <2>4 DEF PlacedAt
<1>14. Chained(t2, M)
  BY <1>1, <1>4, <1>5, <1>7, <1>10, <1>11, <1>12, <1>13 DEF Chained
<1> QED
  BY <1>3, <1>14

\* A new key goes to the first slot that is not taken.
LEMMA SlottedGrows ==
    ASSUME NEW t, t.size \in Nat, t.size > 0, t \in TabSet(t.size), NEW L \in Seq(0 .. t.size - 1),
           NEW F, Slotted(t, L, F),
           NEW k \in Names, \A m \in 0 .. t.size - 1 : t.k[m] # k,
           NEW n, Closest(t.size, k, Free(t), n),
           NEW v, NEW t2, PlacedAt(t, n, k, v, t2)
    PROVE  Slotted(t2, Append(L, n), F \ {n})
<1>1. PICK s, c : s = t.size /\ s \in Nat /\ s > 0 /\ c = Len(L) /\ c \in Nat /\ L \in Seq(0 .. s - 1)
  OBVIOUS
<1>2. DOMAIN t.k = 0 .. s - 1 /\ \A m \in 0 .. s - 1 : t.k[m] \in Names \union {LH_EMPTY, LH_FREED}
  BY <1>1 DEF TabSet
<1>3. n \in 0 .. s - 1 /\ t.k[n] \in {LH_EMPTY, LH_FREED}
  BY <1>1, <1>2 DEF Closest, Free
<1>4. LH_EMPTY # LH_FREED /\ LH_EMPTY \notin Names /\ LH_FREED \notin Names
  BY ConstantsAssumption DEF Names
<1>5. t2.size = s /\ \A m \in 0 .. s - 1 : t2.k[m] = IF m = n THEN k ELSE t.k[m]
  BY <1>1 DEF PlacedAt, TabSet
<1>6. PICK M : M = Append(L, n)
  OBVIOUS
<1>7. Len(M) = c + 1 /\ M[c + 1] = n /\ \A i \in 1 .. c : M[i] = L[i]
  BY <1>1, <1>3, <1>6
<1>8. ASSUME NEW m \in 0 .. s - 1 PROVE t2.k[m] = LH_FREED <=> m \in F \ {n}
  BY <1>1, <1>3, <1>4, <1>5 DEF Slotted
<1>9. ASSUME NEW m \in 0 .. s - 1 PROVE t2.k[m] \in Names <=> \E i \in 1 .. c + 1 : M[i] = m
  <2>1. t.k[m] \in Names <=> \E i \in 1 .. c : L[i] = m
    BY <1>1 DEF Slotted
  <2>2. CASE m = n
    BY <1>1, <1>5, <1>7, <2>2
  <2>3. CASE m # n
    <3>1. (\E i \in 1 .. c : L[i] = m) <=> \E i \in 1 .. c + 1 : M[i] = m
      BY <1>1, <1>7, <2>3
    <3> QED
      BY <1>5, <2>1, <2>3, <3>1
  <2> QED
    BY <2>2, <2>3
<1>10. ASSUME NEW m \in 0 .. s - 1, NEW x \in 0 .. s - 1, t2.k[m] \in Names, t2.k[m] = t2.k[x]
       PROVE  m = x
  <2>1. t.k[m] # k /\ t.k[x] # k
    BY <1>1
  <2>2. t.k[m] \in Names /\ t.k[m] = t.k[x] => m = x
    BY <1>1 DEF Slotted
  <2> QED
    BY <1>5, <1>10, <2>1, <2>2
<1>11. ASSUME NEW m \in 0 .. s - 1, NEW x \in 0 .. s - 1, t2.k[m] \in Names,
              Dist(s, t2.k[m], x) < Dist(s, t2.k[m], m)
       PROVE  t2.k[x] # LH_EMPTY
  <2>1. CASE x = n
    BY <1>4, <1>5, <2>1
  <2>2. CASE x # n /\ m # n
    BY <1>1, <1>5, <1>11, <2>2 DEF Slotted
  <2>3. CASE x # n /\ m = n
    <3>1. Dist(s, k, x) < Dist(s, k, n)
      BY <1>5, <1>11, <2>3
    <3>2. Dist(s, k, x) \in Nat /\ Dist(s, k, n) \in Nat
      BY <1>1, <1>3, DistIs
    <3>3. x \notin Free(t)
      BY <1>1, <3>1, <3>2 DEF Closest
    <3>4. t.k[x] # LH_EMPTY
      BY <1>2, <3>3 DEF Free
    <3> QED
      BY <1>5, <2>3, <3>4
  <2> QED
    BY <2>1, <2>2, <2>3
<1>12. Slotted(t2, M, F \ {n})
  BY <1>5, <1>7, <1>8, <1>9, <1>10, <1>11 DEF Slotted
<1> QED
  BY <1>6, <1>12

\* Every freed slot is the first for k that is not taken.
FirstFor(t, F, k) ==
    \A x \in F : /\ x \in 0 .. t.size - 1
                 /\ \A m \in 0 .. t.size - 1 :
                        Dist(t.size, k, m) < Dist(t.size, k, x) => t.k[m] \in Names

\* The table t2 is t with one more entry, in slot n.
Grown(t, L, k, v, n, t2) ==
    /\ n \in 0 .. t.size - 1 /\ \A i \in 1 .. Len(L) : L[i] # n
    /\ Tab(t2, Append(L, n), {}) /\ t2.size = t.size
    /\ PlacedAt(t, n, k, v, t2)

\* A table that is not full has a slot for the next entry.
LEMMA FreeSlots ==
    ASSUME NEW t, NEW L, NEW F, Tab(t, L, F)
    PROVE  /\ Free(t) \in SUBSET (0 .. t.size - 1) /\ Free(t) # {}
           /\ \A n \in Free(t) : \A i \in 1 .. Len(L) : L[i] # n
<1>1. PICK s, c : s = t.size /\ s \in Nat /\ s > 0 /\ c = Len(L) /\ c \in Nat /\ L \in Seq(0 .. s - 1)
  BY DEF Tab, Chained
<1>2. DOMAIN t.k = 0 .. s - 1 /\ \A m \in 0 .. s - 1 : t.k[m] \in Names \union {LH_EMPTY, LH_FREED}
  BY <1>1 DEF Tab, TabSet
<1>3. \A m \in 0 .. s - 1 : t.k[m] \in Names <=> \E i \in 1 .. c : L[i] = m
  BY <1>1 DEF Tab, Slotted
<1>4. \E n \in 0 .. s - 1 : \A i \in 1 .. c : L[i] # n
  <2>1. Len(L) < s
    BY <1>1 DEF Tab
  <2> QED
    BY <1>1, <2>1, SlotLeft
<1>5. PICK n \in 0 .. s - 1 : \A i \in 1 .. c : L[i] # n
  BY <1>4
<1>6. t.k[n] \in {LH_EMPTY, LH_FREED}
  BY <1>2, <1>3, <1>5
<1>7. LH_EMPTY \notin Names /\ LH_FREED \notin Names
  BY ConstantsAssumption DEF Names
<1>8. ASSUME NEW m \in Free(t), NEW i \in 1 .. c PROVE L[i] # m
  BY <1>2, <1>3, <1>7 DEF Free
<1> QED
  BY <1>1, <1>2, <1>5, <1>6, <1>8 DEF Free

\* Place adds the entry.
LEMMA PlaceTab ==
    ASSUME NEW t, NEW L, NEW F, Tab(t, L, F), t.count + 1 < t.size,
           NEW k \in Names, \A m \in 0 .. t.size - 1 : t.k[m] # k,
           FirstFor(t, F, k), NEW v \in Nat
    PROVE  \E n : Grown(t, L, k, v, n, Place(t, k, v))
<1>1. PICK s, c : s = t.size /\ s \in Nat /\ s >= 3 /\ c = Len(L) /\ c \in Nat /\ L \in Seq(0 .. s - 1)
  BY DEF Tab, Chained
<1>2. Free(t) \in SUBSET (0 .. s - 1) /\ Free(t) # {} /\ \A n \in Free(t) : \A i \in 1 .. c : L[i] # n
  BY <1>1, FreeSlots
<1>3. PICK n : n = Probe(t, k, Free(t))
  OBVIOUS
<1>4. Closest(s, k, Free(t), n)
  <2>1. PICK S : S = Free(t)
    OBVIOUS
  <2>2. t.size \in Nat /\ t.size > 0 /\ S \in SUBSET (0 .. t.size - 1) /\ S # {}
    BY <1>1, <1>2, <2>1
  <2>3. Closest(t.size, k, S, Probe(t, k, S))
    BY <2>2, ProbeIs
  <2> QED
    BY <1>1, <1>3, <2>1, <2>3
<1>5. n \in Free(t) /\ n \in 0 .. s - 1 /\ \A i \in 1 .. c : L[i] # n
  BY <1>2, <1>4 DEF Closest
<1>6. PICK t2 : t2 = Place(t, k, v)
  OBVIOUS
<1>7. /\ t \in TabSet(s) /\ Chained(t, L) /\ Slotted(t, L, F) /\ t.count = c
      /\ t.head = (IF c = 0 THEN NULL ELSE L[1]) /\ t.tail = IF c = 0 THEN NULL ELSE L[c]
  BY <1>1 DEF Tab, Chained
<1>8. NULL \notin Nat
  BY ConstantsAssumption
<1>9. t.tail # n /\ (t.head # NULL => t.tail # NULL)
  <2>1. CASE c = 0
    BY <1>1, <1>5, <1>7, <1>8, <2>1
  <2>2. CASE c # 0
    <3>1. c \in 1 .. c /\ 1 \in 1 .. c
      BY <1>1, <2>2
    <3>2. L[c] \in Nat /\ L[1] \in Nat /\ L[c] # n
      BY <1>1, <1>5, <3>1
    <3> QED
      BY <1>7, <1>8, <2>2, <3>2
  <2> QED
    BY <2>1, <2>2
<1>10. PlacedAt(t, n, k, v, t2)
  BY <1>1, <1>3, <1>5, <1>6, <1>7, <1>9, PlaceFields
<1>11. Chained(t2, Append(L, n))
  BY <1>1, <1>5, <1>7, <1>10, ChainedGrows
<1>12. Slotted(t2, Append(L, n), F \ {n})
  BY <1>1, <1>4, <1>7, <1>10, SlottedGrows
<1>13. F \ {n} = {}
  <2> SUFFICES ASSUME NEW x \in F PROVE x = n
    OBVIOUS
  <2>1. /\ x \in 0 .. s - 1
        /\ \A m \in 0 .. s - 1 : Dist(s, k, m) < Dist(s, k, x) => t.k[m] \in Names
    BY <1>1 DEF FirstFor
  <2>2. t.k[x] = LH_FREED
    BY <1>1, <1>7, <2>1 DEF Slotted
  <2>3. x \in Free(t)
    BY <1>1, <1>7, <2>1, <2>2 DEF Free, TabSet
  <2>4. Dist(s, k, n) <= Dist(s, k, x)
    BY <1>4, <2>3 DEF Closest
  <2>5. t.k[n] \notin Names
    BY <1>5, ConstantsAssumption DEF Free, Names
  <2>6. ~(Dist(s, k, n) < Dist(s, k, x))
    BY <1>5, <2>1, <2>5
  <2>7. Dist(s, k, n) \in Nat /\ Dist(s, k, x) \in Nat
    BY <1>1, <1>5, <2>1, DistIs
  <2>8. Dist(s, k, n) = Dist(s, k, x)
    BY <2>4, <2>6, <2>7
  <2> QED
    BY <1>1, <1>5, <2>1, <2>8, DistIs
<1>14. Len(Append(L, n)) = c + 1
  BY <1>1, <1>5
<1>15. t2.size = s /\ t2 \in TabSet(s) /\ t2.count = c + 1 /\ t2.count < s
  BY <1>1, <1>7, <1>10 DEF PlacedAt, TabSet
<1>16. Tab(t2, Append(L, n), {})
  BY <1>1, <1>11, <1>12, <1>13, <1>14, <1>15 DEF Tab
<1> QED
  BY <1>1, <1>5, <1>6, <1>10, <1>15, <1>16 DEF Grown

-----------------------------------------------------------------------------
(* The list of a table *)

\* The equation of Listed.
Walks(t, f) ==
    f = [n \in DOMAIN t.k |-> <<n>> \o (IF t.next[n] = NULL THEN <<>> ELSE f[t.next[n]])]

\* The part of L that begins with its element i.
Tail_(L, i) == [j \in 1 .. Len(L) + 1 - i |-> L[i + j - 1]]

\* One element, and the rest.
LEMMA TailStep ==
    ASSUME NEW E, NEW L \in Seq(E), NEW i \in 1 .. Len(L)
    PROVE  /\ Tail_(L, i) = <<L[i]>> \o (IF i = Len(L) THEN <<>> ELSE Tail_(L, i + 1))
           /\ Tail_(L, 1) = L
<1>1. PICK n : n = Len(L) /\ n \in Nat /\ i \in 1 .. n
  OBVIOUS
<1>2. /\ \A m \in 1 .. n : \A j \in 1 .. n + 1 - m : m + j - 1 \in 1 .. n
      /\ \A j \in 1 .. n : L[j] \in E
  BY <1>1
<1>3. ASSUME NEW m \in 1 .. n
      PROVE  /\ Tail_(L, m) \in Seq(E) /\ Len(Tail_(L, m)) = n + 1 - m
             /\ \A j \in 1 .. n + 1 - m : Tail_(L, m)[j] = L[m + j - 1]
  <2>1. PICK R : R = Tail_(L, m)
    OBVIOUS
  <2>2. R = [j \in 1 .. n + 1 - m |-> L[m + j - 1]]
    BY <1>1, <2>1 DEF Tail_
  <2>3. \A j \in 1 .. n + 1 - m : L[m + j - 1] \in E
    BY <1>2
  <2> QED
    BY <1>1, <2>1, <2>2, <2>3
<1>4. PICK A : A = <<L[i]>> /\ A \in Seq(E) /\ Len(A) = 1 /\ A[1] = L[i]
  <2>1. PICK a : a = L[i] /\ a \in E
    BY <1>1, <1>2
  <2>2. <<a>> \in Seq(E) /\ Len(<<a>>) = 1 /\ <<a>>[1] = a
    BY <2>1
  <2> QED
    BY <2>1, <2>2
<1>5. PICK R, Q : R = Tail_(L, i) /\ Q = IF i = n THEN <<>> ELSE Tail_(L, i + 1)
  OBVIOUS
<1>6. Q \in Seq(E) /\ Len(Q) = n - i /\ \A j \in 1 .. n - i : Q[j] = L[i + j]
  <2>1. CASE i = n
    BY <1>1, <1>5, <2>1
  <2>2. CASE i # n
    <3>1. PICK m : m = i + 1 /\ m \in 1 .. n /\ n + 1 - m = n - i /\ \A j \in 1 .. n - i : m + j - 1 = i + j
      BY <1>1, <2>2
    <3>2. Q = Tail_(L, m)
      BY <1>5, <2>2, <3>1
    <3> QED
      BY <1>3, <3>1, <3>2
  <2> QED
    BY <2>1, <2>2
<1>7. R \in Seq(E) /\ Len(R) = n + 1 - i /\ \A j \in 1 .. n + 1 - i : R[j] = L[i + j - 1]
  BY <1>1, <1>3, <1>5
<1>8. PICK C : C = A \o Q
  OBVIOUS
<1>9. /\ C \in Seq(E) /\ Len(C) = n + 1 - i
      /\ \A j \in 1 .. n + 1 - i : C[j] = IF j <= 1 THEN A[j] ELSE Q[j - 1]
  <2>1. /\ C \in Seq(E) /\ Len(C) = Len(A) + Len(Q)
        /\ \A j \in 1 .. Len(A) + Len(Q) : C[j] = IF j <= Len(A) THEN A[j] ELSE Q[j - Len(A)]
    BY <1>4, <1>6, <1>8, ConcatProperties
  <2>2. Len(A) = 1 /\ Len(A) + Len(Q) = n + 1 - i
    BY <1>1, <1>4, <1>6
  <2> QED
    BY <2>1, <2>2
<1>10. ASSUME NEW j \in 1 .. n + 1 - i PROVE C[j] = R[j]
  <2>1. CASE j = 1
    BY <1>1, <1>4, <1>7, <1>9, <2>1
  <2>2. CASE j # 1
    <3>1. j - 1 \in 1 .. n - i /\ i + (j - 1) = i + j - 1
      BY <1>1, <2>2
    <3>2. C[j] = Q[j - 1]
      BY <1>1, <1>9, <2>2
    <3> QED
      BY <1>6, <1>7, <3>1, <3>2
  <2> QED
    BY <2>1, <2>2
<1>11. C = R
  BY <1>1, <1>7, <1>9, <1>10, SeqEqual
<1>12. Tail_(L, 1) = L
  <2>1. 1 \in 1 .. n /\ n + 1 - 1 = n /\ \A j \in 1 .. n : 1 + j - 1 = j
    BY <1>1
  <2>2. Tail_(L, 1) \in Seq(E) /\ Len(Tail_(L, 1)) = n /\ \A j \in 1 .. n : Tail_(L, 1)[j] = L[j]
    BY <1>3, <2>1
  <2> QED
    BY <1>1, <2>2, SeqEqual
<1> QED
  BY <1>1, <1>4, <1>5, <1>8, <1>11, <1>12

\* Where a slot is in the list; those that are not in it count as behind it.
SlotAt(t, L, n) == IF \E i \in 1 .. Len(L) : L[i] = n THEN CHOOSE i \in 1 .. Len(L) : L[i] = n ELSE Len(L) + 1

\* What lies at and behind slot n.
Behind(t, L, n) == IF \E i \in 1 .. Len(L) : L[i] = n THEN Tail_(L, SlotAt(t, L, n)) ELSE <<n>>

\* The slots of a list in order.
LEMMA SlotIs ==
    ASSUME NEW t, NEW L, t.size \in Nat, Chained(t, L), NEW n \in 0 .. t.size - 1
    PROVE  /\ t.next[n] = NULL =>
                Behind(t, L, n) = <<n>> \o <<>>
           /\ t.next[n] # NULL =>
                /\ t.next[n] \in 0 .. t.size - 1
                /\ SlotAt(t, L, t.next[n]) = SlotAt(t, L, n) + 1
                /\ Behind(t, L, n) = <<n>> \o Behind(t, L, t.next[n])
           /\ SlotAt(t, L, n) \in 1 .. Len(L) + 1
           /\ t.next[n] # NULL => SlotAt(t, L, t.next[n]) \in 1 .. Len(L)
<1>1. PICK s, c : s = t.size /\ s \in Nat /\ c = Len(L) /\ c \in Nat /\ L \in Seq(0 .. s - 1)
  BY DEF Chained
<1>2. /\ \A i \in 1 .. c : L[i] \in 0 .. s - 1
      /\ \A i, j \in 1 .. c : L[i] = L[j] => i = j
      /\ \A i \in 1 .. c : t.next[L[i]] = IF i = c THEN NULL ELSE L[i + 1]
      /\ \A m \in 0 .. s - 1 : (\A i \in 1 .. c : L[i] # m) => t.next[m] = NULL
  BY <1>1 DEF Chained
<1>3. ASSUME NEW i \in 1 .. c PROVE SlotAt(t, L, L[i]) = i /\ Behind(t, L, L[i]) = Tail_(L, i)
  <2>1. SlotAt(t, L, L[i]) = CHOOSE j \in 1 .. c : L[j] = L[i]
    BY <1>1 DEF SlotAt
  <2>2. SlotAt(t, L, L[i]) \in 1 .. c /\ L[SlotAt(t, L, L[i])] = L[i]
    BY <2>1
  <2>3. SlotAt(t, L, L[i]) = i
    BY <1>2, <2>2
  <2> QED
    BY <1>1, <2>3 DEF Behind
<1>a. NULL \notin 0 .. s - 1
  BY <1>1, ConstantsAssumption
<1>4. CASE \A i \in 1 .. c : L[i] # n
  <2>1. t.next[n] = NULL /\ SlotAt(t, L, n) = c + 1 /\ Behind(t, L, n) = <<n>>
    BY <1>1, <1>2, <1>4 DEF SlotAt, Behind
  <2>2. <<n>> = <<n>> \o <<>>
    <3>1. <<n>> \in Seq({n})
      OBVIOUS
    <3> QED
      BY <3>1, ConcatEmptySeq
  <2> QED
    BY <1>1, <2>1, <2>2
<1>5. CASE \E i \in 1 .. c : L[i] = n
  <2>1. PICK i \in 1 .. c : L[i] = n
    BY <1>5
  <2>2. SlotAt(t, L, n) = i /\ Behind(t, L, n) = Tail_(L, i) /\ t.next[n] = IF i = c THEN NULL ELSE L[i + 1]
    BY <1>2, <1>3, <2>1
  <2>3. Tail_(L, i) = <<n>> \o (IF i = c THEN <<>> ELSE Tail_(L, i + 1))
    BY <1>1, <2>1, TailStep
  <2>4. CASE i = c
    BY <1>1, <2>2, <2>3, <2>4
  <2>5. CASE i # c
    <3>1. i + 1 \in 1 .. c
      BY <1>1, <2>5
    <3>2. /\ SlotAt(t, L, L[i + 1]) = i + 1 /\ Behind(t, L, L[i + 1]) = Tail_(L, i + 1)
          /\ L[i + 1] \in 0 .. s - 1
      BY <1>2, <1>3, <3>1
    <3>3. t.next[n] = L[i + 1] /\ t.next[n] # NULL
      BY <1>a, <2>2, <2>5, <3>2
    <3>4. SlotAt(t, L, t.next[n]) = SlotAt(t, L, n) + 1 /\ SlotAt(t, L, t.next[n]) \in 1 .. c
      BY <2>2, <3>1, <3>2, <3>3
    <3>5. Behind(t, L, n) = <<n>> \o Behind(t, L, t.next[n])
      BY <2>2, <2>3, <2>5, <3>2, <3>3
    <3>6. SlotAt(t, L, n) \in 1 .. c + 1
      BY <1>1, <2>2
    <3> QED
      BY <1>1, <3>2, <3>3, <3>4, <3>5, <3>6
  <2> QED
    BY <2>4, <2>5
<1> QED
  BY <1>4, <1>5

\* The list that Listed walks is L.
LEMMA ListedIs ==
    ASSUME NEW t, NEW L, NEW F, Tab(t, L, F)
    PROVE  Listed(t) = L
<1>1. PICK s, c : s = t.size /\ s \in Nat /\ c = Len(L) /\ c \in Nat /\ L \in Seq(0 .. s - 1)
  BY DEF Tab, Chained
<1>2. DOMAIN t.k = 0 .. s - 1 /\ Chained(t, L) /\ t.head = IF c = 0 THEN NULL ELSE L[1]
  BY <1>1 DEF Tab, TabSet, Chained
<1>a. NULL \notin 0 .. s - 1
  BY <1>1, ConstantsAssumption
<1> DEFINE W == [n \in 0 .. s - 1 |-> Behind(t, L, n)]
<1>3. PICK V : V = W
  OBVIOUS
<1>4. ASSUME NEW n \in 0 .. s - 1
      PROVE  V[n] = <<n>> \o (IF t.next[n] = NULL THEN <<>> ELSE V[t.next[n]])
  <2>1. CASE t.next[n] = NULL
    BY <1>1, <1>2, <1>3, <2>1, SlotIs
  <2>2. CASE t.next[n] # NULL
    <3>1. PICK m : m = t.next[n] /\ m \in 0 .. s - 1 /\ Behind(t, L, n) = <<n>> \o Behind(t, L, m)
      BY <1>1, <1>2, <2>2, SlotIs
    <3> QED
      BY <1>3, <2>2, <3>1
  <2> QED
    BY <2>1, <2>2
<1>5. V = [n \in 0 .. s - 1 |-> V[n]]
  BY <1>3
<1> HIDE DEF W
<1>6. Walks(t, V)
  BY <1>2, <1>4, <1>5 DEF Walks
<1>b. PICK G : G = CHOOSE f : Walks(t, f)
  OBVIOUS
<1>7. Listed(t) = IF t.head = NULL THEN <<>> ELSE G[t.head]
  BY <1>b DEF Listed, Walks
<1>8. Walks(t, G)
  BY <1>6, <1>b
<1>c. ASSUME NEW n \in 0 .. s - 1 PROVE SlotAt(t, L, n) \in 1 .. c + 1
  BY <1>1, <1>2, SlotIs
<1>9. \A n \in 0 .. s - 1 : G[n] = V[n]
  <2> DEFINE B == {n \in 0 .. s - 1 : G[n] # V[n]}
             D == {c + 1 - SlotAt(t, L, n) : n \in B}
  <2>1. ASSUME NEW n \in B PROVE c + 1 - SlotAt(t, L, n) \in Nat
    <3>1. SlotAt(t, L, n) \in 1 .. c + 1
      BY <1>c
    <3> QED
      BY <1>1, <3>1
  <2>2. D \in SUBSET Nat
    BY <2>1
  <2>3. ASSUME NEW n \in B PROVE \E m \in B : SlotAt(t, L, n) < SlotAt(t, L, m)
    <3>1. G[n] = <<n>> \o (IF t.next[n] = NULL THEN <<>> ELSE G[t.next[n]])
      BY <1>2, <1>8 DEF Walks
    <3>2. t.next[n] # NULL /\ G[t.next[n]] # V[t.next[n]]
      BY <1>4, <3>1
    <3>3. t.next[n] \in 0 .. s - 1 /\ SlotAt(t, L, t.next[n]) = SlotAt(t, L, n) + 1
      BY <1>1, <1>2, <3>2, SlotIs
    <3>4. SlotAt(t, L, n) \in 1 .. c + 1
      BY <1>c
    <3>5. SlotAt(t, L, n) < SlotAt(t, L, t.next[n])
      BY <1>1, <3>3, <3>4
    <3> QED
      BY <3>2, <3>3, <3>5
  <2>4. ASSUME D # {} PROVE FALSE
    <3>1. PICK d \in D : \A e \in D : d <= e
      BY <2>2, <2>4, LeastNat
    <3>2. PICK n \in B : d = c + 1 - SlotAt(t, L, n)
      BY <3>1
    <3>3. PICK m \in B : SlotAt(t, L, n) < SlotAt(t, L, m)
      BY <2>3
    <3>4. c + 1 - SlotAt(t, L, m) \in D
      OBVIOUS
    <3>5. SlotAt(t, L, n) \in 1 .. c + 1 /\ SlotAt(t, L, m) \in 1 .. c + 1
      BY <1>c
    <3>6. d <= c + 1 - SlotAt(t, L, m)
      BY <3>1, <3>4
    <3> QED
      BY <1>1, <3>2, <3>3, <3>5, <3>6
  <2> QED
    BY <2>4
<1>10. CASE c = 0
  <2>1. Listed(t) = <<>> /\ L = <<>>
    BY <1>1, <1>2, <1>7, <1>10, EmptySeq
  <2> QED
    BY <2>1
<1>11. CASE c # 0
  <2>1. 1 \in 1 .. c /\ L[1] \in 0 .. s - 1
    BY <1>1, <1>11
  <2>2. Listed(t) = G[L[1]]
    BY <1>2, <1>7, <1>11, <1>a, <2>1
  <2>3. G[L[1]] = Behind(t, L, L[1])
    BY <1>3, <1>9, <2>1 DEF W
  <2>4. SlotAt(t, L, L[1]) = 1
    <3>1. \A i \in 1 .. c : L[i] = L[1] => i = 1
      BY <1>1, <1>2, <2>1 DEF Chained
    <3>2. SlotAt(t, L, L[1]) = CHOOSE j \in 1 .. c : L[j] = L[1]
      BY <1>1, <2>1 DEF SlotAt
    <3> QED
      BY <2>1, <3>1, <3>2
  <2>5. Behind(t, L, L[1]) = Tail_(L, 1)
    BY <1>1, <2>1, <2>4 DEF Behind
  <2>6. Tail_(L, 1) = L
    BY <1>1, <2>1, TailStep
  <2> QED
    BY <2>2, <2>3, <2>5, <2>6
<1> QED
  BY <1>10, <1>11

-----------------------------------------------------------------------------
(* Searching, deleting, growing *)

\* In a table without freed slots there is an empty one.
LEMMA EmptySlot ==
    ASSUME NEW t, NEW L, Tab(t, L, {})
    PROVE  \E n \in 0 .. t.size - 1 : n \in DOMAIN t.k /\ t.k[n] = LH_EMPTY
<1>1. PICK n \in Free(t) : n \in 0 .. t.size - 1
  BY FreeSlots
<1>2. t.k[n] # LH_FREED
  BY <1>1 DEF Tab, Slotted
<1> QED
  BY <1>1, <1>2 DEF Free

\* What a lookup returns: the slot of the key, if there is one.
Located(t, k, n) ==
    \/ n = NULL /\ \A m \in 0 .. t.size - 1 : t.k[m] # k
    \/ n \in 0 .. t.size - 1 /\ t.k[n] = k

\* A lookup ends, and finds the key if it is there.
LEMMA LookupIs ==
    ASSUME NEW t, NEW L, Tab(t, L, {}), NEW k \in Names
    PROVE  Located(t, k, lh_table_lookup_entry(t, k))
<1>1. PICK s : s = t.size /\ s \in Nat /\ s > 0
  BY DEF Tab
<1>2. PICK S : S = {m \in DOMAIN t.k : t.k[m] \in {LH_EMPTY, k}}
  OBVIOUS
<1>3. DOMAIN t.k = 0 .. s - 1
  BY <1>1 DEF Tab, TabSet
<1>4. S \in SUBSET (0 .. s - 1) /\ S # {}
  BY <1>2, <1>3, EmptySlot
<1>5. PICK n : n = Probe(t, k, S)
  OBVIOUS
<1>6. Closest(s, k, S, n)
  <2>1. t.size \in Nat /\ t.size > 0 /\ S \in SUBSET (0 .. t.size - 1) /\ S # {}
    BY <1>1, <1>4
  <2>2. Closest(t.size, k, S, Probe(t, k, S))
    BY <2>1, ProbeIs
  <2> QED
    BY <1>1, <1>5, <2>2
<1>7. lh_table_lookup_entry(t, k) = IF t.k[n] = LH_EMPTY THEN NULL ELSE n
  BY <1>2, <1>5 DEF lh_table_lookup_entry
<1>8. n \in S /\ n \in 0 .. s - 1
  BY <1>4, <1>6 DEF Closest
<1>9. CASE t.k[n] # LH_EMPTY
  BY <1>1, <1>2, <1>7, <1>8, <1>9 DEF Located
<1>10. CASE t.k[n] = LH_EMPTY
  <2>1. ASSUME NEW m \in 0 .. s - 1, t.k[m] = k PROVE FALSE
    <3>1. m \in S
      BY <1>2, <1>3, <2>1
    <3>2. Dist(s, k, n) <= Dist(s, k, m)
      BY <1>6, <3>1 DEF Closest
    <3>3. k # LH_EMPTY
      BY ConstantsAssumption DEF Names
    <3>4. Dist(s, k, n) # Dist(s, k, m) /\ Dist(s, k, n) \in Nat /\ Dist(s, k, m) \in Nat
      BY <1>1, <1>8, <1>10, <2>1, <3>3, DistIs
    <3>5. Dist(s, k, n) < Dist(s, k, m)
      BY <3>2, <3>4
    <3> QED
      BY <1>1, <1>8, <1>10, <2>1, <3>5 DEF Tab, Slotted
  <2> QED
    BY <1>1, <1>7, <1>10, <2>1 DEF Located
<1> QED
  BY <1>9, <1>10

\* L without its element i.
Drop(L, i) == [j \in 1 .. Len(L) - 1 |-> IF j < i THEN L[j] ELSE L[j + 1]]

\* Its length and its elements.
LEMMA DropIs ==
    ASSUME NEW E, NEW L \in Seq(E), NEW x \in 1 .. Len(L)
    PROVE  /\ Drop(L, x) \in Seq(E) /\ Len(Drop(L, x)) = Len(L) - 1 /\ Len(L) - 1 \in Nat
           /\ \A j \in 1 .. Len(L) - 1 : Drop(L, x)[j] = IF j < x THEN L[j] ELSE L[j + 1]
<1>1. PICK n : n = Len(L) /\ n \in Nat /\ x \in 1 .. n
  OBVIOUS
<1>2. PICK M : M = Drop(L, x)
  OBVIOUS
<1>3. M = [j \in 1 .. n - 1 |-> IF j < x THEN L[j] ELSE L[j + 1]]
  BY <1>1, <1>2 DEF Drop
<1>4. n - 1 \in Nat /\ \A j \in 1 .. n - 1 : (IF j < x THEN L[j] ELSE L[j + 1]) \in E
  BY <1>1
<1>5. M \in Seq(E) /\ Len(M) = n - 1
  BY <1>3, <1>4
<1> QED
  BY <1>1, <1>2, <1>3, <1>4, <1>5

\* The fields of a table after the deletion of slot n.
DeletedAt(t, n, t2) ==
    /\ t2 \in TabSet(t.size) /\ t2.count = t.count - 1
    /\ \A m \in 0 .. t.size - 1 :
        /\ t2.k[m] = IF m = n THEN LH_FREED ELSE t.k[m]
        /\ m # n => t2.v[m] = t.v[m]
        /\ t2.next[m] = IF m = t.prev[n] THEN t.next[n] ELSE IF m = n THEN NULL ELSE t.next[m]
        /\ t2.prev[m] = IF m = t.next[n] THEN t.prev[n] ELSE IF m = n THEN NULL ELSE t.prev[m]
    /\ t2.head = IF t.head = n THEN t.next[n] ELSE t.head
    /\ t2.tail = IF t.tail = n THEN t.prev[n] ELSE t.tail

\* What lh_table_delete_entry writes.
LEMMA DeleteFields ==
    ASSUME NEW t, t.size \in Nat, t \in TabSet(t.size), NEW n \in 0 .. t.size - 1, t.count > 0
    PROVE  DeletedAt(t, n, lh_table_delete_entry(t, n))
<1>1. PICK s : s = t.size /\ s \in Nat /\ n \in 0 .. s - 1
  OBVIOUS
<1>2. PICK e : e = t.count - 1 /\ e \in Nat
  BY DEF TabSet
<1>3. PICK nx : nx = [m \in 0 .. s - 1 |-> IF m = t.prev[n] THEN t.next[n]
                                          ELSE IF m = n THEN NULL ELSE t.next[m]]
  OBVIOUS
<1>4. PICK pr : pr = [m \in 0 .. s - 1 |-> IF m = t.next[n] THEN t.prev[n]
                                          ELSE IF m = n THEN NULL ELSE t.prev[m]]
  OBVIOUS
<1>5. PICK hd : hd = IF t.head = n THEN t.next[n] ELSE t.head
  OBVIOUS
<1>6. PICK tl : tl = IF t.tail = n THEN t.prev[n] ELSE t.tail
  OBVIOUS
<1>7. /\ t.next \in [0 .. s - 1 -> (0 .. s - 1) \union {NULL}]
      /\ t.prev \in [0 .. s - 1 -> (0 .. s - 1) \union {NULL}]
      /\ t.head \in (0 .. s - 1) \union {NULL} /\ t.tail \in (0 .. s - 1) \union {NULL}
  BY <1>1 DEF TabSet
<1>8. /\ nx \in [0 .. s - 1 -> (0 .. s - 1) \union {NULL}]
      /\ pr \in [0 .. s - 1 -> (0 .. s - 1) \union {NULL}]
      /\ hd \in (0 .. s - 1) \union {NULL} /\ tl \in (0 .. s - 1) \union {NULL}
  BY <1>1, <1>3, <1>4, <1>5, <1>6, <1>7
<1>9. DOMAIN t.next = 0 .. s - 1 /\ DOMAIN t.prev = 0 .. s - 1
  BY <1>7
<1>10. PICK a : a = [t EXCEPT !.count = e, !.v[n] = NULL, !.k[n] = LH_FREED]
  OBVIOUS
<1>11. a \in TabSet(s) /\ a.count = e
  BY <1>1, <1>2, <1>10 DEF TabSet
<1>a. a.k = [t.k EXCEPT ![n] = LH_FREED] /\ a.v = [t.v EXCEPT ![n] = NULL]
  BY <1>1, <1>2, <1>10 DEF TabSet
<1>b. t.k \in [0 .. s - 1 -> Names \union {LH_EMPTY, LH_FREED}] /\ t.v \in [0 .. s - 1 -> Nat \union {NULL}]
  BY <1>1 DEF TabSet
<1>12. PICK b : b = [a EXCEPT !.head = hd, !.tail = tl, !.next = nx, !.prev = pr]
  OBVIOUS
<1>13. /\ b \in TabSet(s) /\ b.count = e /\ b.k = a.k /\ b.v = a.v
       /\ b.head = hd /\ b.tail = tl /\ b.next = nx /\ b.prev = pr
  BY <1>1, <1>8, <1>11, <1>12 DEF TabSet
<1>14. lh_table_delete_entry(t, n)
         = [t EXCEPT !.count = e, !.v[n] = NULL, !.k[n] = LH_FREED,
                     !.head = hd, !.tail = tl, !.next = nx, !.prev = pr]
  BY <1>1, <1>2, <1>3, <1>4, <1>5, <1>6, <1>9 DEF lh_table_delete_entry, TabSet
<1>15. lh_table_delete_entry(t, n) = b
  BY <1>1, <1>10, <1>12, <1>14 DEF TabSet
<1>16. ASSUME NEW m \in 0 .. s - 1
       PROVE  /\ b.next[m] = IF m = t.prev[n] THEN t.next[n] ELSE IF m = n THEN NULL ELSE t.next[m]
              /\ b.prev[m] = IF m = t.next[n] THEN t.prev[n] ELSE IF m = n THEN NULL ELSE t.prev[m]
  BY <1>3, <1>4, <1>13
<1>17. ASSUME NEW m \in 0 .. s - 1
       PROVE  b.k[m] = (IF m = n THEN LH_FREED ELSE t.k[m]) /\ (m # n => b.v[m] = t.v[m])
  <2>1. b.k = a.k /\ b.v = a.v
    BY <1>13
  <2>2. a.k[m] = (IF m = n THEN LH_FREED ELSE t.k[m])
    BY <1>1, <1>a, <1>b
  <2>3. m # n => a.v[m] = t.v[m]
    BY <1>1, <1>a, <1>b
  <2> QED
    BY <2>1, <2>2, <2>3
<1>18. b.head = (IF t.head = n THEN t.next[n] ELSE t.head) /\ b.tail = IF t.tail = n THEN t.prev[n] ELSE t.tail
  BY <1>5, <1>6, <1>13
<1>19. b \in TabSet(t.size) /\ b.count = t.count - 1
  BY <1>1, <1>2, <1>13
<1>20. DeletedAt(t, n, b)
  BY <1>1, <1>16, <1>17, <1>18, <1>19 DEF DeletedAt
<1> QED
  BY <1>15, <1>20

\* Where an element of Drop comes from.
DropFrom(L, x, j, y) ==
    /\ y \in 1 .. Len(L) /\ y # x /\ Drop(L, x)[j] = L[y]
    /\ j < x => y = j
    /\ ~(j < x) => y = j + 1

\* Every element of Drop is an element of L other than the dropped one.
LEMMA DropAt ==
    ASSUME NEW E, NEW L \in Seq(E), NEW x \in 1 .. Len(L), NEW j \in 1 .. Len(L) - 1
    PROVE  \E y : DropFrom(L, x, j, y)
<1>1. PICK n : n = Len(L) /\ n \in Nat /\ x \in 1 .. n /\ j \in 1 .. n - 1
  OBVIOUS
<1>2. Drop(L, x)[j] = IF j < x THEN L[j] ELSE L[j + 1]
  BY DropIs
<1>3. CASE j < x
  <2>1. j \in 1 .. n /\ j # x
    BY <1>1, <1>3
  <2>2. DropFrom(L, x, j, j)
    BY <1>1, <1>2, <1>3, <2>1 DEF DropFrom
  <2> QED
    BY <2>2
<1>4. CASE ~(j < x)
  <2>1. j + 1 \in 1 .. n /\ j + 1 # x
    BY <1>1, <1>4
  <2>2. DropFrom(L, x, j, j + 1)
    BY <1>1, <1>2, <1>4, <2>1 DEF DropFrom
  <2> QED
    BY <2>2
<1> QED
  BY <1>3, <1>4

\* Every other element of L is in Drop.
LEMMA DropHas ==
    ASSUME NEW E, NEW L \in Seq(E), NEW x \in 1 .. Len(L), NEW y \in 1 .. Len(L), y # x
    PROVE  \E j \in 1 .. Len(L) - 1 : Drop(L, x)[j] = L[y]
<1>1. PICK n : n = Len(L) /\ n \in Nat /\ x \in 1 .. n /\ y \in 1 .. n
  OBVIOUS
<1>2. \A j \in 1 .. n - 1 : Drop(L, x)[j] = IF j < x THEN L[j] ELSE L[j + 1]
  BY <1>1, DropIs
<1>3. CASE y < x
  <2>1. y \in 1 .. n - 1
    BY <1>1, <1>3
  <2>2. Drop(L, x)[y] = L[y]
    BY <1>2, <1>3, <2>1
  <2> QED
    BY <1>1, <2>1, <2>2
<1>4. CASE y > x
  <2>1. PICK j : j = y - 1
    OBVIOUS
  <2>2. j \in 1 .. n - 1 /\ ~(j < x) /\ j + 1 = y
    BY <1>1, <1>4, <2>1
  <2>3. Drop(L, x)[j] = L[y]
    BY <1>2, <2>2
  <2> QED
    BY <1>1, <2>2, <2>3
<1> QED
  BY <1>1, <1>3, <1>4

\* The list after a deletion, wherever the slot is in it.
LEMMA ChainedShrinks ==
    ASSUME NEW t, t.size \in Nat, t \in TabSet(t.size), NEW L, Chained(t, L),
           NEW x \in 1 .. Len(L), NEW n, n = L[x], NEW t2, DeletedAt(t, n, t2)
    PROVE  Chained(t2, Drop(L, x))
<1>1. PICK s, c : s = t.size /\ s \in Nat /\ c = Len(L) /\ c \in Nat /\ L \in Seq(0 .. s - 1) /\ x \in 1 .. c
  BY DEF Chained
<1>2. PICK M : M = Drop(L, x)
  OBVIOUS
<1>3. /\ M \in Seq(0 .. s - 1) /\ Len(M) = c - 1 /\ c - 1 \in Nat
      /\ \A j \in 1 .. c - 1 : M[j] = IF j < x THEN L[j] ELSE L[j + 1]
  BY <1>1, <1>2, DropIs
<1>a. \A m \in 0 .. s - 1 : (\A i \in 1 .. c : L[i] # m) => t.next[m] = NULL
  BY <1>1 DEF Chained
<1>b. \A i \in 1 .. c : L[i] \in 0 .. s - 1
  BY <1>1
<1>4. /\ \A i, j \in 1 .. c : L[i] = L[j] => i = j
      /\ t.head = IF c = 0 THEN NULL ELSE L[1]
      /\ t.tail = IF c = 0 THEN NULL ELSE L[c]
      /\ \A i \in 1 .. c : t.next[L[i]] = IF i = c THEN NULL ELSE L[i + 1]
      /\ \A i \in 1 .. c : t.prev[L[i]] = IF i = 1 THEN NULL ELSE L[i - 1]
  BY <1>1 DEF Chained
<1>5. NULL \notin 0 .. s - 1
  BY <1>1, ConstantsAssumption
<1>6. t2.size = s
  BY <1>1 DEF DeletedAt, TabSet
<1>7. n \in 0 .. s - 1 /\ t.next[n] = (IF x = c THEN NULL ELSE L[x + 1])
      /\ t.prev[n] = (IF x = 1 THEN NULL ELSE L[x - 1])
  BY <1>1, <1>4, <1>b
<1>8. \A m \in 0 .. s - 1 :
        /\ t2.next[m] = IF m = t.prev[n] THEN t.next[n] ELSE IF m = n THEN NULL ELSE t.next[m]
        /\ t2.prev[m] = IF m = t.next[n] THEN t.prev[n] ELSE IF m = n THEN NULL ELSE t.prev[m]
  BY <1>1 DEF DeletedAt
<1>9. /\ t2.head = IF t.head = n THEN t.next[n] ELSE t.head
      /\ t2.tail = IF t.tail = n THEN t.prev[n] ELSE t.tail
  BY DEF DeletedAt
<1>10. ASSUME NEW j \in 1 .. c - 1
       PROVE  \E y \in 1 .. c : /\ y # x /\ M[j] = L[y]
                                /\ j < x => y = j
                                /\ ~(j < x) => y = j + 1
  <2>1. L \in Seq(0 .. s - 1) /\ x \in 1 .. Len(L) /\ j \in 1 .. Len(L) - 1
    BY <1>1
  <2>2. PICK y : DropFrom(L, x, j, y)
    BY <2>1, DropAt
  <2> QED
    BY <1>1, <1>2, <2>2 DEF DropFrom
<1>11. ASSUME NEW i \in 1 .. c - 1, NEW j \in 1 .. c - 1, M[i] = M[j] PROVE i = j
  <2>1. PICK y \in 1 .. c : /\ y # x /\ M[i] = L[y]
                            /\ i < x => y = i
                            /\ ~(i < x) => y = i + 1
    BY <1>10
  <2>2. PICK z \in 1 .. c : /\ z # x /\ M[j] = L[z]
                            /\ j < x => z = j
                            /\ ~(j < x) => z = j + 1
    BY <1>10
  <2>a. L[y] = L[z]
    BY <1>11, <2>1, <2>2
  <2>3. y = z
    BY <1>4, <2>a
  <2> QED
    BY <1>1, <2>1, <2>2, <2>3
<1>12. t2.head = IF c - 1 = 0 THEN NULL ELSE M[1]
  <2>1. c # 0 /\ 1 \in 1 .. c /\ t.head = L[1]
    BY <1>1, <1>4
  <2>2. CASE x = 1
    <3>1. t2.head = IF c = 1 THEN NULL ELSE L[2]
      BY <1>1, <1>7, <1>9, <2>1, <2>2
    <3>2. c # 1 => 1 \in 1 .. c - 1 /\ ~(1 < x)
      BY <1>1, <2>2
    <3>3. c # 1 => M[1] = L[1 + 1]
      BY <1>3, <3>2
    <3> QED
      BY <1>1, <3>1, <3>3
  <2>3. CASE x # 1
    <3>1. L[1] # n
      BY <1>1, <1>4, <2>1, <2>3
    <3>2. t2.head = L[1] /\ c # 1 /\ 1 < x /\ 1 \in 1 .. c - 1
      BY <1>1, <1>9, <2>1, <2>3, <3>1
    <3>3. M[1] = L[1]
      BY <1>3, <3>2
    <3> QED
      BY <1>1, <3>2, <3>3
  <2> QED
    BY <2>2, <2>3
<1>13. t2.tail = IF c - 1 = 0 THEN NULL ELSE M[c - 1]
  <2>1. c # 0 /\ c \in 1 .. c /\ t.tail = L[c]
    BY <1>1, <1>4
  <2>2. CASE x = c
    <3>1. t2.tail = IF c = 1 THEN NULL ELSE L[c - 1]
      BY <1>1, <1>7, <1>9, <2>1, <2>2
    <3>2. c # 1 => c - 1 \in 1 .. c - 1 /\ c - 1 < x
      BY <1>1, <2>2
    <3>3. c # 1 => M[c - 1] = L[c - 1]
      BY <1>3, <3>2
    <3> QED
      BY <1>1, <3>1, <3>3
  <2>3. CASE x # c
    <3>1. L[c] # n
      BY <1>1, <1>4, <2>1, <2>3
    <3>2. t2.tail = L[c] /\ c # 1 /\ ~(c - 1 < x) /\ c - 1 \in 1 .. c - 1 /\ c - 1 + 1 = c
      BY <1>1, <1>9, <2>1, <2>3, <3>1
    <3>3. M[c - 1] = L[c - 1 + 1]
      BY <1>3, <3>2
    <3> QED
      BY <1>1, <3>2, <3>3
  <2> QED
    BY <2>2, <2>3
<1>14. ASSUME NEW j \in 1 .. c - 1
       PROVE  t2.next[M[j]] = IF j = c - 1 THEN NULL ELSE M[j + 1]
  <2>1. PICK y \in 1 .. c : /\ y # x /\ M[j] = L[y]
                            /\ j < x => y = j
                            /\ ~(j < x) => y = j + 1
    BY <1>10
  <2>a. L[y] # L[x]
    BY <1>1, <1>4, <2>1
  <2>b. x \in 1 .. c /\ c \in Nat /\ y # x /\ y = IF j < x THEN j ELSE j + 1
    BY <1>1, <2>1
  <2>2. PICK m : m = M[j] /\ m = L[y] /\ m \in 0 .. s - 1 /\ m # n
    BY <1>b, <2>1, <2>a
  <2>3. t2.next[m] = IF m = t.prev[n] THEN t.next[n] ELSE t.next[m]
    BY <1>8, <2>2
  <2>4. CASE j = x - 1
    <3>1. m = t.prev[n] /\ x # 1
      BY <1>1, <1>7, <2>1, <2>2, <2>4
    <3>2. t2.next[m] = IF x = c THEN NULL ELSE L[x + 1]
      BY <1>7, <2>3, <3>1
    <3>a. j # c - 1 => j + 1 \in 1 .. c - 1 /\ ~(j + 1 < x) /\ j + 1 + 1 = x + 1
      BY <1>1, <2>4
    <3>3. j # c - 1 => M[j + 1] = L[x + 1]
      BY <1>3, <3>a
    <3> QED
      BY <1>1, <2>2, <2>4, <3>2, <3>3
  <2>5. CASE j # x - 1
    <3>1. m # t.prev[n]
      <4>1. CASE x = 1
        BY <1>5, <1>7, <2>2, <4>1
      <4>2. CASE x # 1
        <5>a. x - 1 \in 1 .. c /\ y # x - 1
          BY <2>b, <2>5, <4>2
        <5>1. x - 1 \in 1 .. c /\ y # x - 1 /\ t.prev[n] = L[x - 1]
          BY <1>7, <4>2, <5>a
        <5> QED
          BY <1>4, <2>2, <5>1
      <4> QED
        BY <4>1, <4>2
    <3>2. t2.next[m] = IF y = c THEN NULL ELSE L[y + 1]
      BY <1>4, <2>2, <2>3, <3>1
    <3>3. y = c <=> j = c - 1
      BY <2>b, <2>5
    <3>a. j # c - 1 => j + 1 \in 1 .. c - 1 /\ y + 1 = IF j + 1 < x THEN j + 1 ELSE j + 1 + 1
      BY <2>b, <2>5
    <3>4. j # c - 1 => M[j + 1] = L[y + 1]
      BY <1>3, <3>a
    <3> QED
      BY <2>2, <3>2, <3>3, <3>4
  <2> QED
    BY <2>4, <2>5
<1>15. ASSUME NEW j \in 1 .. c - 1
       PROVE  t2.prev[M[j]] = IF j = 1 THEN NULL ELSE M[j - 1]
  <2>1. PICK y \in 1 .. c : /\ y # x /\ M[j] = L[y]
                            /\ j < x => y = j
                            /\ ~(j < x) => y = j + 1
    BY <1>10
  <2>a. L[y] # L[x]
    BY <1>1, <1>4, <2>1
  <2>b. x \in 1 .. c /\ c \in Nat /\ y # x /\ y = IF j < x THEN j ELSE j + 1
    BY <1>1, <2>1
  <2>2. PICK m : m = M[j] /\ m = L[y] /\ m \in 0 .. s - 1 /\ m # n
    BY <1>b, <2>1, <2>a
  <2>3. t2.prev[m] = IF m = t.next[n] THEN t.prev[n] ELSE t.prev[m]
    BY <1>8, <2>2
  <2>4. CASE j = x
    <3>1. m = t.next[n] /\ x # c
      BY <1>1, <1>7, <2>1, <2>2, <2>4
    <3>2. t2.prev[m] = IF x = 1 THEN NULL ELSE L[x - 1]
      BY <1>7, <2>3, <3>1
    <3>a. j # 1 => j - 1 \in 1 .. c - 1 /\ j - 1 < x
      BY <1>1, <2>4
    <3>3. j # 1 => M[j - 1] = L[x - 1]
      BY <1>3, <2>4, <3>a
    <3> QED
      BY <2>2, <2>4, <3>2, <3>3
  <2>5. CASE j # x
    <3>1. m # t.next[n]
      <4>1. CASE x = c
        BY <1>5, <1>7, <2>2, <4>1
      <4>2. CASE x # c
        <5>a. x + 1 \in 1 .. c /\ y # x + 1
          BY <2>b, <2>5, <4>2
        <5>1. x + 1 \in 1 .. c /\ y # x + 1 /\ t.next[n] = L[x + 1]
          BY <1>7, <4>2, <5>a
        <5> QED
          BY <1>4, <2>2, <5>1
      <4> QED
        BY <4>1, <4>2
    <3>2. t2.prev[m] = IF y = 1 THEN NULL ELSE L[y - 1]
      BY <1>4, <2>2, <2>3, <3>1
    <3>3. y = 1 <=> j = 1
      BY <2>b, <2>5
    <3>a. j # 1 => j - 1 \in 1 .. c - 1 /\ y - 1 = IF j - 1 < x THEN j - 1 ELSE j - 1 + 1
      BY <2>b, <2>5
    <3>4. j # 1 => M[j - 1] = L[y - 1]
      BY <1>3, <3>a
    <3> QED
      BY <2>2, <3>2, <3>3, <3>4
  <2> QED
    BY <2>4, <2>5
<1>16. ASSUME NEW m \in 0 .. s - 1, \A j \in 1 .. c - 1 : M[j] # m PROVE t2.next[m] = NULL
  <2>1. ASSUME NEW y \in 1 .. c, y # x PROVE L[y] # m
    <3>1. L \in Seq(0 .. s - 1) /\ x \in 1 .. Len(L) /\ y \in 1 .. Len(L) /\ y # x
      BY <1>1, <2>1
    <3>2. \E j \in 1 .. c - 1 : M[j] = L[y]
      BY <1>1, <1>2, <3>1, DropHas
    <3> QED
      BY <1>16, <3>2
  <2>2. m # t.prev[n]
    <3>1. x # 1 => x - 1 \in 1 .. c /\ x - 1 # x
      BY <1>1
    <3> QED
      BY <1>5, <1>7, <2>1, <3>1
  <2>3. CASE m = n
    BY <1>8, <2>2, <2>3
  <2>4. CASE m # n
    <3>1. \A y \in 1 .. c : L[y] # m
      BY <2>1, <2>4
    <3> QED
      BY <1>a, <1>8, <2>2, <2>4, <3>1
  <2> QED
    BY <2>3, <2>4
<1>17. Chained(t2, M)
  BY <1>3, <1>6, <1>11, <1>12, <1>13, <1>14, <1>15, <1>16 DEF Chained
<1> QED
  BY <1>2, <1>17

\* The table t2 is t without the entry of slot n, the only freed slot.
Dropped(t, L, x, n, k, t2) ==
    /\ Tab(t2, Drop(L, x), {n}) /\ t2.size = t.size /\ FirstFor(t2, {n}, k)
    /\ \A m \in 0 .. t2.size - 1 : t2.k[m] # k
    /\ DeletedAt(t, n, t2)

\* A deletion leaves a freed slot, and an insertion of the same key would
\* come to it first.
LEMMA DeleteTab ==
    ASSUME NEW t, NEW L, Tab(t, L, {}), NEW x \in 1 .. Len(L), NEW n, n = L[x],
           NEW k \in Names, t.k[n] = k, NEW t2, t2 = lh_table_delete_entry(t, n)
    PROVE  Dropped(t, L, x, n, k, t2)
<1>1. PICK s, c : s = t.size /\ s \in Nat /\ s >= 3 /\ c = Len(L) /\ c \in Nat /\ L \in Seq(0 .. s - 1) /\ x \in 1 .. c
  BY DEF Tab, Chained
<1>2. n \in 0 .. s - 1 /\ t.count = c /\ t.count > 0 /\ t \in TabSet(s) /\ Chained(t, L)
  BY <1>1 DEF Tab
<1>3. DeletedAt(t, n, t2)
  BY <1>1, <1>2, DeleteFields
<1>4. Chained(t2, Drop(L, x))
  BY <1>1, <1>2, <1>3, ChainedShrinks
<1>5. /\ t2.size = s /\ t2 \in TabSet(s) /\ t2.count = c - 1
      /\ \A m \in 0 .. s - 1 : t2.k[m] = IF m = n THEN LH_FREED ELSE t.k[m]
  BY <1>1, <1>2, <1>3 DEF DeletedAt, TabSet
<1>6. /\ \A m \in 0 .. s - 1 : t.k[m] # LH_FREED /\ t.k[m] \in Names \union {LH_EMPTY, LH_FREED}
      /\ \A m \in 0 .. s - 1 : t.k[m] \in Names <=> \E i \in 1 .. c : L[i] = m
      /\ \A m, y \in 0 .. s - 1 : t.k[m] \in Names /\ t.k[m] = t.k[y] => m = y
      /\ \A m, y \in 0 .. s - 1 :
            t.k[m] \in Names /\ Dist(s, t.k[m], y) < Dist(s, t.k[m], m) => t.k[y] # LH_EMPTY
  BY <1>1 DEF Tab, Slotted, TabSet
<1>7. LH_EMPTY # LH_FREED /\ LH_EMPTY \notin Names /\ LH_FREED \notin Names
  BY ConstantsAssumption DEF Names
<1>8. PICK M : M = Drop(L, x)
  OBVIOUS
<1>9. /\ Len(M) = c - 1 /\ c - 1 \in Nat
      /\ \A j \in 1 .. c - 1 : M[j] = IF j < x THEN L[j] ELSE L[j + 1]
  BY <1>1, <1>8, DropIs
<1>10. ASSUME NEW m \in 0 .. s - 1 PROVE t2.k[m] \in Names <=> \E j \in 1 .. c - 1 : M[j] = m
  <2>1. CASE m = n
    <3>1. \A i \in 1 .. c : L[i] = n => i = x
      BY <1>1, <1>2 DEF Chained
    <3>2. ASSUME NEW j \in 1 .. c - 1 PROVE M[j] # n
      <4>1. L \in Seq(0 .. s - 1) /\ x \in 1 .. Len(L) /\ j \in 1 .. Len(L) - 1
        BY <1>1
      <4>2. PICK y : DropFrom(L, x, j, y)
        BY <4>1, DropAt
      <4>3. y \in 1 .. c /\ y # x /\ M[j] = L[y]
        BY <1>1, <1>8, <4>2 DEF DropFrom
      <4> QED
        BY <3>1, <4>3
    <3> QED
      BY <1>5, <1>7, <2>1, <3>2
  <2>2. CASE m # n
    <3>1. ASSUME NEW y \in 1 .. c, L[y] = m PROVE \E j \in 1 .. c - 1 : M[j] = m
      <4>1. y # x
        BY <2>2, <3>1
      <4>2. L \in Seq(0 .. s - 1) /\ x \in 1 .. Len(L) /\ y \in 1 .. Len(L) /\ y # x
        BY <1>1, <4>1
      <4>3. \E j \in 1 .. c - 1 : M[j] = L[y]
        BY <1>1, <1>8, <4>2, DropHas
      <4> QED
        BY <3>1, <4>3
    <3>2. ASSUME NEW j \in 1 .. c - 1, M[j] = m PROVE \E y \in 1 .. c : L[y] = m
      <4>1. L \in Seq(0 .. s - 1) /\ x \in 1 .. Len(L) /\ j \in 1 .. Len(L) - 1
        BY <1>1
      <4>2. PICK y : DropFrom(L, x, j, y)
        BY <4>1, DropAt
      <4>3. y \in 1 .. c /\ M[j] = L[y]
        BY <1>1, <1>8, <4>2 DEF DropFrom
      <4> QED
        BY <3>2, <4>3
    <3> QED
      BY <1>5, <1>6, <2>2, <3>1, <3>2
  <2> QED
    BY <2>1, <2>2
<1>11. \A m \in 0 .. s - 1 : t2.k[m] = LH_FREED <=> m \in {n}
  BY <1>5, <1>6
<1>12. \A m, y \in 0 .. s - 1 : t2.k[m] \in Names /\ t2.k[m] = t2.k[y] => m = y
  BY <1>5, <1>6, <1>7
<1>13. ASSUME NEW m \in 0 .. s - 1, NEW y \in 0 .. s - 1,
              t2.k[m] \in Names, Dist(s, t2.k[m], y) < Dist(s, t2.k[m], m)
       PROVE  t2.k[y] # LH_EMPTY
  <2>1. m # n /\ t2.k[m] = t.k[m]
    BY <1>5, <1>7, <1>13
  <2>2. t.k[y] # LH_EMPTY
    BY <1>6, <1>13, <2>1
  <2> QED
    BY <1>5, <1>7, <2>2
<1>14. Slotted(t2, M, {n})
  BY <1>5, <1>9, <1>10, <1>11, <1>12, <1>13 DEF Slotted
<1>15. t2.count < s
  BY <1>1, <1>5 DEF Tab
<1>16. Tab(t2, M, {n})
  BY <1>1, <1>4, <1>5, <1>8, <1>9, <1>14, <1>15 DEF Tab
<1>17. \A m \in 0 .. s - 1 : t2.k[m] # k
  BY <1>2, <1>5, <1>6, <1>7
<1>18. FirstFor(t2, {n}, k)
  <2>1. ASSUME NEW m \in 0 .. s - 1, Dist(s, k, m) < Dist(s, k, n) PROVE t2.k[m] \in Names
    <3>1. Dist(s, k, n) \in Nat
      <4>1. s \in Nat /\ s > 0 /\ n \in 0 .. s - 1
        BY <1>1, <1>2
      <4> QED
        BY <4>1, DistIs
    <3>2. m # n
      BY <2>1, <3>1
    <3>3. t.k[m] # LH_EMPTY
      BY <1>2, <1>6, <2>1
    <3> QED
      BY <1>5, <1>6, <3>2, <3>3
  <2> QED
    BY <1>2, <1>5, <2>1 DEF FirstFor
<1> QED
  BY <1>1, <1>3, <1>5, <1>8, <1>16, <1>17, <1>18 DEF Dropped

\* K and V are the keys and the values of the slots L.
Entries(t, L, K, V) ==
    /\ K \in Seq(Names) /\ V \in Seq(Nat) /\ Len(K) = Len(L) /\ Len(V) = Len(L)
    /\ \A i \in 1 .. Len(L) : t.k[L[i]] = K[i] /\ t.v[L[i]] = V[i]

\* The equation of lh_table_resize, for the first m entries.
Rebuilds(t, L, f, m) ==
    f = [i \in 0 .. m |-> IF i = 0 THEN lh_table_new(2 * t.size)
                          ELSE Place(f[i - 1], t.k[L[i]], t.v[L[i]])]

\* It has a solution.
LEMMA RebuildExists ==
    ASSUME NEW t, NEW L, NEW n \in Nat
    PROVE  \E f : Rebuilds(t, L, f, n)
<1> DEFINE S == {m \in 0 .. n : \E f : Rebuilds(t, L, f, m)}
<1>1. 0 \in S
  <2>1. PICK f : f = [i \in 0 .. 0 |-> lh_table_new(2 * t.size)]
    OBVIOUS
  <2>2. Rebuilds(t, L, f, 0)
    BY <2>1 DEF Rebuilds
  <2> QED
    BY <2>2
<1>2. ASSUME NEW m \in 0 .. n - 1, m \in S PROVE m + 1 \in S
  <2>1. PICK f : Rebuilds(t, L, f, m)
    BY <1>2
  <2>2. PICK x : x = Place(f[m], t.k[L[m + 1]], t.v[L[m + 1]])
    OBVIOUS
  <2>3. PICK g : g = [i \in 0 .. m + 1 |-> IF i = m + 1 THEN x ELSE f[i]]
    OBVIOUS
  <2>4. ASSUME NEW i \in 0 .. m + 1
        PROVE  g[i] = IF i = 0 THEN lh_table_new(2 * t.size)
                      ELSE Place(g[i - 1], t.k[L[i]], t.v[L[i]])
    <3>1. CASE i = m + 1
      <4>1. i # 0 /\ i - 1 = m /\ m \in 0 .. m + 1 /\ m # m + 1
        BY <3>1
      <4>2. g[i - 1] = f[m] /\ g[i] = x
        BY <2>3, <3>1, <4>1
      <4> QED
        BY <2>2, <3>1, <4>1, <4>2
    <3>2. CASE i # m + 1
      <4>1. i \in 0 .. m /\ g[i] = f[i]
        BY <2>3, <3>2
      <4>2. f[i] = IF i = 0 THEN lh_table_new(2 * t.size)
                   ELSE Place(f[i - 1], t.k[L[i]], t.v[L[i]])
        BY <2>1, <4>1 DEF Rebuilds
      <4>3. i # 0 => g[i - 1] = f[i - 1]
        BY <2>3, <4>1
      <4> QED
        BY <4>1, <4>2, <4>3
    <3> QED
      BY <3>1, <3>2
  <2>5. g = [i \in 0 .. m + 1 |-> g[i]]
    BY <2>3
  <2>6. Rebuilds(t, L, g, m + 1)
    BY <2>4, <2>5 DEF Rebuilds
  <2>7. m + 1 \in 0 .. n
    OBVIOUS
  <2> QED
    BY <2>6, <2>7
<1> HIDE DEF S
<1>3. n \in 0 .. n /\ \A i \in 0 .. n : i \in S
  BY <1>1, <1>2, Upto
<1> QED
  BY <1>3 DEF S

\* The first m entries are in a table of twice the size, in order.
Rebuilt(t, K, V, m, u) ==
    \E M : /\ Tab(u, M, {}) /\ u.size = 2 * t.size /\ Len(M) = m
           /\ \A j \in 1 .. m : u.k[M[j]] = K[j] /\ u.v[M[j]] = V[j]

\* One round of lh_table_resize.
LEMMA RebuildStep ==
    ASSUME NEW t, t.size \in Nat, NEW K \in Seq(Names), NEW V \in Seq(Nat), Len(K) = Len(V),
           \A i, j \in 1 .. Len(K) : K[i] = K[j] => i = j, Len(K) <= t.size,
           NEW m \in 0 .. Len(K) - 1, NEW u, Rebuilt(t, K, V, m, u)
    PROVE  Rebuilt(t, K, V, m + 1, Place(u, K[m + 1], V[m + 1]))
<1>1. PICK s, c : s = t.size /\ s \in Nat /\ c = Len(K) /\ c \in Nat /\ c <= s /\ m \in 0 .. c - 1
  OBVIOUS
<1>2. PICK M : /\ Tab(u, M, {}) /\ u.size = 2 * s /\ Len(M) = m
               /\ \A j \in 1 .. m : u.k[M[j]] = K[j] /\ u.v[M[j]] = V[j]
  BY <1>1 DEF Rebuilt
<1>3. PICK k, v : k = K[m + 1] /\ v = V[m + 1]
  OBVIOUS
<1>4. k \in Names /\ v \in Nat /\ m + 1 \in 1 .. c
  BY <1>1, <1>3
<1>5. PICK z : z = u.size /\ z = 2 * s /\ z \in Nat /\ m + 1 < z
  BY <1>1, <1>2 DEF Tab
<1>6. \A x \in 0 .. z - 1 : u.k[x] # k
  <2> SUFFICES ASSUME NEW x \in 0 .. z - 1, u.k[x] = k PROVE FALSE
    OBVIOUS
  <2>1. \E i \in 1 .. Len(M) : M[i] = x
    BY <1>2, <1>4, <1>5 DEF Tab, Slotted
  <2>2. PICK i \in 1 .. m : M[i] = x
    BY <1>2, <2>1
  <2>3. K[i] = K[m + 1] /\ i \in 1 .. c /\ i # m + 1
    BY <1>1, <1>2, <1>3, <2>2
  <2> QED
    BY <1>1, <1>4, <2>3
<1>7. FirstFor(u, {}, k)
  BY DEF FirstFor
<1>8. u.count = m
  BY <1>2 DEF Tab
<1>9. PICK w : w = Place(u, k, v)
  OBVIOUS
<1>10. PICK n : Grown(u, M, k, v, n, w)
  <2>1. u.count + 1 < u.size /\ \A x \in 0 .. u.size - 1 : u.k[x] # k
    BY <1>5, <1>6, <1>8
  <2> QED
    BY <1>2, <1>4, <1>7, <1>9, <2>1, PlaceTab
<1>11. /\ n \in 0 .. z - 1 /\ \A i \in 1 .. m : M[i] # n
       /\ Tab(w, Append(M, n), {}) /\ w.size = z /\ PlacedAt(u, n, k, v, w)
  BY <1>2, <1>5, <1>10 DEF Grown
<1>12. M \in Seq(0 .. z - 1)
  BY <1>2, <1>5 DEF Tab, Chained
<1>13. PICK R : R = Append(M, n)
  OBVIOUS
<1>14. Len(R) = m + 1 /\ R[m + 1] = n /\ \A i \in 1 .. m : R[i] = M[i]
  BY <1>2, <1>11, <1>12, <1>13
<1>15. \A x \in 0 .. z - 1 : w.k[x] = (IF x = n THEN k ELSE u.k[x]) /\ w.v[x] = (IF x = n THEN v ELSE u.v[x])
  BY <1>5, <1>11 DEF PlacedAt
<1>16. ASSUME NEW j \in 1 .. m + 1 PROVE w.k[R[j]] = K[j] /\ w.v[R[j]] = V[j]
  <2>1. CASE j = m + 1
    BY <1>3, <1>11, <1>14, <1>15, <2>1
  <2>2. CASE j # m + 1
    <3>1. j \in 1 .. m
      BY <2>2
    <3>a. M[j] \in 0 .. z - 1
      <4>1. PICK E : E = 0 .. z - 1
        OBVIOUS
      <4>2. M \in Seq(E) /\ j \in 1 .. Len(M)
        BY <1>2, <1>12, <3>1, <4>1
      <4>3. M[j] \in E
        BY <4>2
      <4> QED
        BY <4>1, <4>3
    <3>2. R[j] = M[j] /\ M[j] # n /\ M[j] \in 0 .. z - 1
      BY <1>11, <1>14, <3>1, <3>a
    <3> QED
      BY <1>2, <1>15, <3>1, <3>2
  <2> QED
    BY <2>1, <2>2
<1>17. Tab(w, R, {}) /\ w.size = 2 * t.size /\ Len(R) = m + 1
  BY <1>1, <1>5, <1>11, <1>13, <1>14
<1>18. Rebuilt(t, K, V, m + 1, w)
  BY <1>16, <1>17 DEF Rebuilt
<1> QED
  BY <1>3, <1>9, <1>18

\* The keys of a table are distinct.
LEMMA KeysDiffer ==
    ASSUME NEW t, NEW L, NEW F, Tab(t, L, F), NEW K, NEW V, Entries(t, L, K, V)
    PROVE  \A i, j \in 1 .. Len(K) : K[i] = K[j] => i = j
<1> SUFFICES ASSUME NEW i \in 1 .. Len(K), NEW j \in 1 .. Len(K), K[i] = K[j] PROVE i = j
  OBVIOUS
<1>1. i \in 1 .. Len(L) /\ j \in 1 .. Len(L) /\ K[i] \in Names
  BY DEF Entries
<1>2. t.k[L[i]] = K[i] /\ t.k[L[j]] = K[j]
  BY <1>1 DEF Entries
<1>3. L[i] \in 0 .. t.size - 1 /\ L[j] \in 0 .. t.size - 1
  <2>1. PICK E : E = 0 .. t.size - 1
    OBVIOUS
  <2>2. L \in Seq(E)
    BY <2>1 DEF Tab, Chained
  <2>3. L[i] \in E /\ L[j] \in E
    BY <1>1, <2>2
  <2> QED
    BY <2>1, <2>3
<1>4. L[i] = L[j]
  BY <1>1, <1>2, <1>3 DEF Tab, Slotted
<1> QED
  BY <1>1, <1>4 DEF Tab, Chained

\* lh_table_resize keeps the entries.
LEMMA ResizeTab ==
    ASSUME NEW t, NEW L, NEW F, Tab(t, L, F), NEW K, NEW V, Entries(t, L, K, V)
    PROVE  Rebuilt(t, K, V, Len(L), lh_table_resize(t))
<1>1. PICK s, c : s = t.size /\ s \in Nat /\ s >= 3 /\ c = Len(L) /\ c \in Nat /\ c < s
  BY DEF Tab, Chained
<1>2. K \in Seq(Names) /\ V \in Seq(Nat) /\ Len(K) = c /\ Len(V) = c
  BY <1>1 DEF Entries
<1>3. \A i, j \in 1 .. c : K[i] = K[j] => i = j
  BY <1>2, KeysDiffer
<1>4. Listed(t) = L
  BY ListedIs
<1>5. PICK f : f = CHOOSE x : Rebuilds(t, L, x, c)
  OBVIOUS
<1>6. lh_table_resize(t) = f[c]
  BY <1>1, <1>4, <1>5 DEF lh_table_resize, Rebuilds
<1>7. Rebuilds(t, L, f, c)
  BY <1>1, <1>5, RebuildExists
<1> DEFINE S == {m \in 0 .. c : Rebuilt(t, K, V, m, f[m])}
<1>8. 0 \in S
  <2>1. f[0] = lh_table_new(2 * s)
    BY <1>1, <1>7 DEF Rebuilds
  <2>2. 2 * s \in Nat /\ 2 * s >= 3
    BY <1>1
  <2>3. Tab(f[0], <<>>, {}) /\ f[0].size = 2 * t.size
    BY <1>1, <2>1, <2>2, NewTab
  <2>4. Len(<<>>) = 0 /\ \A j \in 1 .. 0 : FALSE
    OBVIOUS
  <2>5. Rebuilt(t, K, V, 0, f[0])
    BY <2>3, <2>4 DEF Rebuilt
  <2> QED
    BY <1>1, <2>5
<1>9. ASSUME NEW m \in 0 .. c - 1, m \in S PROVE m + 1 \in S
  <2>1. m + 1 \in 1 .. c /\ m + 1 \in 0 .. c /\ m + 1 # 0 /\ m + 1 - 1 = m
    BY <1>1
  <2>a. \A i \in 0 .. c : f[i] = IF i = 0 THEN lh_table_new(2 * t.size)
                                ELSE Place(f[i - 1], t.k[L[i]], t.v[L[i]])
    BY <1>7 DEF Rebuilds
  <2>2. f[m + 1] = Place(f[m], t.k[L[m + 1]], t.v[L[m + 1]])
    BY <2>1, <2>a
  <2>3. t.k[L[m + 1]] = K[m + 1] /\ t.v[L[m + 1]] = V[m + 1]
    BY <1>1, <2>1 DEF Entries
  <2>4. Rebuilt(t, K, V, m, f[m])
    BY <1>9
  <2>5. /\ t.size \in Nat /\ Len(K) = Len(V) /\ Len(K) <= t.size /\ m \in 0 .. Len(K) - 1
        /\ \A i, j \in 1 .. Len(K) : K[i] = K[j] => i = j
    BY <1>1, <1>2, <1>3
  <2>6. Rebuilt(t, K, V, m + 1, f[m + 1])
    BY <1>2, <2>2, <2>3, <2>4, <2>5, RebuildStep
  <2> QED
    BY <2>1, <2>6
<1> HIDE DEF S
<1>10. \A i \in 0 .. c : i \in S
  BY <1>1, <1>8, <1>9, Upto
<1>11. c \in S
  BY <1>1, <1>10
<1> QED
  BY <1>1, <1>6, <1>11 DEF S

-----------------------------------------------------------------------------
(* What a table holds *)

\* The table holds the keys K, each once, with the values V, in this order.
Holds(t, K, V) == \E L : Tab(t, L, {}) /\ Entries(t, L, K, V)

\* Elements of a sequence.
LEMMA SeqAt ==
    ASSUME NEW E, NEW s \in Seq(E), NEW i \in 1 .. Len(s)
    PROVE  s[i] \in E
  OBVIOUS

\* A new table holds nothing.
LEMMA HoldsNew ==
    ASSUME NEW s \in Nat, s >= 3
    PROVE  Holds(lh_table_new(s), <<>>, <<>>)
<1>1. Tab(lh_table_new(s), <<>>, {})
  BY NewTab
<1>2. PICK e : e = <<>>
  OBVIOUS
<1>3. e \in Seq(Names) /\ e \in Seq(Nat) /\ Len(e) = 0
  BY <1>2
<1>4. Entries(lh_table_new(s), e, e, e)
  BY <1>3 DEF Entries
<1> QED
  BY <1>1, <1>2, <1>4 DEF Holds

\* Place adds an entry at the end.
LEMMA PlaceHolds ==
    ASSUME NEW t, NEW L, NEW F, Tab(t, L, F), NEW K, NEW V, Entries(t, L, K, V),
           t.count + 1 < t.size, NEW k \in Names, \A m \in 0 .. t.size - 1 : t.k[m] # k,
           FirstFor(t, F, k), NEW v \in Nat
    PROVE  Holds(Place(t, k, v), Append(K, k), Append(V, v))
<1>1. PICK s, c : s = t.size /\ s \in Nat /\ c = Len(L) /\ c \in Nat /\ L \in Seq(0 .. s - 1)
  BY DEF Tab, Chained
<1>2. PICK w : w = Place(t, k, v)
  OBVIOUS
<1>3. PICK n : Grown(t, L, k, v, n, w)
  BY <1>2, PlaceTab
<1>4. /\ n \in 0 .. s - 1 /\ \A i \in 1 .. c : L[i] # n
      /\ Tab(w, Append(L, n), {}) /\ PlacedAt(t, n, k, v, w)
  BY <1>1, <1>3 DEF Grown
<1>5. PICK M, K2, V2 : M = Append(L, n) /\ K2 = Append(K, k) /\ V2 = Append(V, v)
  OBVIOUS
<1>6. K \in Seq(Names) /\ V \in Seq(Nat) /\ Len(K) = c /\ Len(V) = c
  BY <1>1 DEF Entries
<1>7. \A i \in 1 .. c : t.k[L[i]] = K[i] /\ t.v[L[i]] = V[i]
  BY <1>1 DEF Entries
<1>8. Len(M) = c + 1 /\ M[c + 1] = n /\ \A i \in 1 .. c : M[i] = L[i]
  BY <1>1, <1>4, <1>5
<1>9. K2 \in Seq(Names) /\ Len(K2) = c + 1 /\ K2[c + 1] = k /\ \A i \in 1 .. c : K2[i] = K[i]
  BY <1>1, <1>5, <1>6
<1>10. V2 \in Seq(Nat) /\ Len(V2) = c + 1 /\ V2[c + 1] = v /\ \A i \in 1 .. c : V2[i] = V[i]
  BY <1>1, <1>5, <1>6
<1>11. \A x \in 0 .. s - 1 : w.k[x] = (IF x = n THEN k ELSE t.k[x]) /\ w.v[x] = (IF x = n THEN v ELSE t.v[x])
  BY <1>1, <1>4 DEF PlacedAt
<1>12. ASSUME NEW j \in 1 .. c + 1 PROVE w.k[M[j]] = K2[j] /\ w.v[M[j]] = V2[j]
  <2>1. CASE j = c + 1
    BY <1>4, <1>8, <1>9, <1>10, <1>11, <2>1
  <2>2. CASE j # c + 1
    <3>1. j \in 1 .. c
      BY <1>1, <2>2
    <3>2. PICK E : E = 0 .. s - 1
      OBVIOUS
    <3>3. L[j] \in E
      BY <1>1, <3>1, <3>2, SeqAt
    <3>4. M[j] = L[j] /\ L[j] # n /\ L[j] \in 0 .. s - 1
      BY <1>4, <1>8, <3>1, <3>2, <3>3
    <3>5. w.k[L[j]] = K[j] /\ w.v[L[j]] = V[j]
      BY <1>7, <1>11, <3>1, <3>4
    <3> QED
      BY <1>9, <1>10, <3>1, <3>4, <3>5
  <2> QED
    BY <2>1, <2>2
<1>13. Entries(w, M, K2, V2)
  BY <1>8, <1>9, <1>10, <1>12 DEF Entries
<1> QED
  BY <1>2, <1>4, <1>5, <1>13 DEF Holds

\* lh_table_insert of a new key adds an entry at the end.
LEMMA InsertHolds ==
    ASSUME NEW t, NEW L, NEW F, Tab(t, L, F), NEW K, NEW V, Entries(t, L, K, V),
           NEW k \in Names, \A m \in 0 .. t.size - 1 : t.k[m] # k,
           FirstFor(t, F, k), NEW v \in Nat
    PROVE  Holds(lh_table_insert(t, k, v), Append(K, k), Append(V, v))
<1>1. PICK s, c : s = t.size /\ s \in Nat /\ s >= 3 /\ c = Len(L) /\ c \in Nat /\ t.count = c /\ c < s
  BY DEF Tab, Chained
<1>2. CASE ~(100 * t.count > 66 * t.size)
  <2>1. lh_table_insert(t, k, v) = Place(t, k, v)
    BY <1>2 DEF lh_table_insert
  <2>2. t.count + 1 < t.size
    BY <1>1, <1>2
  <2> QED
    BY <2>1, <2>2, PlaceHolds
<1>3. CASE 100 * t.count > 66 * t.size
  <2>1. PICK u : u = lh_table_resize(t)
    OBVIOUS
  <2>2. lh_table_insert(t, k, v) = Place(u, k, v)
    BY <1>3, <2>1 DEF lh_table_insert
  <2>3. Rebuilt(t, K, V, c, u)
    BY <1>1, <2>1, ResizeTab
  <2>4. PICK M : /\ Tab(u, M, {}) /\ u.size = 2 * s /\ Len(M) = c
                 /\ \A j \in 1 .. c : u.k[M[j]] = K[j] /\ u.v[M[j]] = V[j]
    BY <1>1, <2>3 DEF Rebuilt
  <2>5. K \in Seq(Names) /\ V \in Seq(Nat) /\ Len(K) = c /\ Len(V) = c
    BY <1>1 DEF Entries
  <2>6. Entries(u, M, K, V)
    BY <2>4, <2>5 DEF Entries
  <2>7. u.count = c /\ u.count + 1 < u.size
    BY <1>1, <2>4 DEF Tab
  <2>8. ASSUME NEW m \in 0 .. u.size - 1, u.k[m] = k PROVE FALSE
    <3>1. \E i \in 1 .. Len(M) : M[i] = m
      BY <2>4, <2>8 DEF Tab, Slotted
    <3>2. PICK i \in 1 .. c : M[i] = m
      BY <2>4, <3>1
    <3>3. K[i] = k /\ t.k[L[i]] = k
      BY <1>1, <2>4, <2>8, <3>2 DEF Entries
    <3>4. PICK E : E = 0 .. t.size - 1
      OBVIOUS
    <3>5. L \in Seq(E) /\ i \in 1 .. Len(L)
      BY <1>1, <3>2, <3>4 DEF Tab, Chained
    <3>6. L[i] \in E
      BY <3>5, SeqAt
    <3> QED
      BY <3>3, <3>4, <3>6
  <2>9. FirstFor(u, {}, k)
    BY DEF FirstFor
  <2>10. Holds(Place(u, k, v), Append(K, k), Append(V, v))
    BY <2>4, <2>6, <2>7, <2>8, <2>9, PlaceHolds
  <2> QED
    BY <2>2, <2>10
<1> QED
  BY <1>2, <1>3

\* Where a key of a table is.
LEMMA KeyAt ==
    ASSUME NEW t, NEW L, NEW F, Tab(t, L, F), NEW K, NEW V, Entries(t, L, K, V), NEW k \in Names,
           NEW n \in 0 .. t.size - 1, t.k[n] = k
    PROVE  \E x \in 1 .. Len(L) : L[x] = n /\ K[x] = k /\ V[x] = t.v[n]
<1>1. \E x \in 1 .. Len(L) : L[x] = n
  BY DEF Tab, Slotted
<1>2. PICK x \in 1 .. Len(L) : L[x] = n
  BY <1>1
<1> QED
  BY <1>2 DEF Entries

\* A deletion drops the entry.
LEMMA DropEntries ==
    ASSUME NEW t, NEW L, Tab(t, L, {}), NEW K, NEW V, Entries(t, L, K, V),
           NEW x \in 1 .. Len(L), NEW n, n = L[x], NEW t2, DeletedAt(t, n, t2)
    PROVE  Entries(t2, Drop(L, x), Drop(K, x), Drop(V, x))
<1>1. PICK s, c : s = t.size /\ s \in Nat /\ c = Len(L) /\ c \in Nat /\ L \in Seq(0 .. s - 1) /\ x \in 1 .. c
  BY DEF Tab, Chained
<1>2. K \in Seq(Names) /\ V \in Seq(Nat) /\ Len(K) = c /\ Len(V) = c
  BY <1>1 DEF Entries
<1>3. \A i \in 1 .. c : t.k[L[i]] = K[i] /\ t.v[L[i]] = V[i]
  BY <1>1 DEF Entries
<1>4. PICK M, K2, V2 : M = Drop(L, x) /\ K2 = Drop(K, x) /\ V2 = Drop(V, x)
  OBVIOUS
<1>5. Len(M) = c - 1 /\ c - 1 \in Nat /\ \A j \in 1 .. c - 1 : M[j] = IF j < x THEN L[j] ELSE L[j + 1]
  BY <1>1, <1>4, DropIs
<1>6. K2 \in Seq(Names) /\ Len(K2) = c - 1 /\ \A j \in 1 .. c - 1 : K2[j] = IF j < x THEN K[j] ELSE K[j + 1]
  <2>1. x \in 1 .. Len(K) /\ K \in Seq(Names) /\ Len(K) = c
    BY <1>1, <1>2
  <2> QED
    BY <1>4, <2>1, DropIs
<1>7. V2 \in Seq(Nat) /\ Len(V2) = c - 1 /\ \A j \in 1 .. c - 1 : V2[j] = IF j < x THEN V[j] ELSE V[j + 1]
  <2>1. x \in 1 .. Len(V) /\ V \in Seq(Nat) /\ Len(V) = c
    BY <1>1, <1>2
  <2> QED
    BY <1>4, <2>1, DropIs
<1>8. \A m \in 0 .. s - 1 : m # n => t2.k[m] = t.k[m] /\ t2.v[m] = t.v[m]
  BY <1>1 DEF DeletedAt
<1>9. ASSUME NEW j \in 1 .. c - 1 PROVE t2.k[M[j]] = K2[j] /\ t2.v[M[j]] = V2[j]
  <2>1. PICK y : y = IF j < x THEN j ELSE j + 1
    OBVIOUS
  <2>2. y \in 1 .. c /\ y # x
    BY <1>1, <2>1
  <2>3. M[j] = L[y] /\ K2[j] = K[y] /\ V2[j] = V[y]
    BY <1>5, <1>6, <1>7, <2>1
  <2>4. PICK E : E = 0 .. s - 1
    OBVIOUS
  <2>5. L[y] \in E
    BY <1>1, <2>2, <2>4, SeqAt
  <2>6. L[y] # n
    BY <1>1, <2>2 DEF Tab, Chained
  <2>7. t2.k[L[y]] = t.k[L[y]] /\ t2.v[L[y]] = t.v[L[y]]
    BY <1>8, <2>4, <2>5, <2>6
  <2> QED
    BY <1>3, <2>2, <2>3, <2>7
<1>10. Entries(t2, M, K2, V2)
  BY <1>5, <1>6, <1>7, <1>9 DEF Entries
<1> QED
  BY <1>4, <1>10

\* The search for a key that is not in the table ends with NULL; an insertion
\* adds it at the end.
LEMMA AddNew ==
    ASSUME NEW t, NEW K, NEW V, Holds(t, K, V), NEW k \in Names, NEW v \in Nat,
           \A i \in 1 .. Len(K) : K[i] # k
    PROVE  /\ lh_table_lookup_entry(t, k) = NULL
           /\ Holds(lh_table_insert(t, k, v), Append(K, k), Append(V, v))
<1>1. PICK L : Tab(t, L, {}) /\ Entries(t, L, K, V)
  BY DEF Holds
<1>2. PICK n : n = lh_table_lookup_entry(t, k)
  OBVIOUS
<1>3. Located(t, k, n)
  BY <1>1, <1>2, LookupIs
<1>4. ASSUME NEW m \in 0 .. t.size - 1, t.k[m] = k PROVE FALSE
  <2>1. PICK x \in 1 .. Len(L) : K[x] = k
    BY <1>1, <1>4, KeyAt
  <2>2. Len(K) = Len(L)
    BY <1>1 DEF Entries
  <2> QED
    BY <2>1, <2>2
<1>5. n = NULL
  BY <1>3, <1>4 DEF Located
<1>6. FirstFor(t, {}, k)
  BY DEF FirstFor
<1>7. Holds(lh_table_insert(t, k, v), Append(K, k), Append(V, v))
  BY <1>1, <1>4, <1>6, InsertHolds
<1> QED
  BY <1>2, <1>5, <1>7

\* A lookup finds a key that is in the table.
Finds(t, K, V, k, x, n) ==
    /\ n = lh_table_lookup_entry(t, k) /\ n # NULL /\ t.v[n] = V[x]

\* The search for a key of the table ends at its slot; an insertion behind
\* the deletion of the slot moves the key to the end.
LEMMA AddOld ==
    ASSUME NEW t, NEW K, NEW V, Holds(t, K, V), NEW v \in Nat, NEW x \in 1 .. Len(K), NEW k, k = K[x],
           NEW n, n = lh_table_lookup_entry(t, k)
    PROVE  /\ Finds(t, K, V, k, x, n)
           /\ Holds(lh_table_insert(lh_table_delete_entry(t, n), k, v), Append(Drop(K, x), k), Append(Drop(V, x), v))
<1>1. PICK L : Tab(t, L, {}) /\ Entries(t, L, K, V)
  BY DEF Holds
<1>2. K \in Seq(Names) /\ V \in Seq(Nat) /\ Len(K) = Len(L) /\ Len(V) = Len(L)
  BY <1>1 DEF Entries
<1>3. k \in Names
  BY <1>2
<1>4. Located(t, k, n)
  BY <1>1, <1>3, LookupIs
<1>5. t.k[L[x]] = k /\ x \in 1 .. Len(L)
  BY <1>1, <1>2 DEF Entries
<1>6. L[x] \in 0 .. t.size - 1
  <2>1. PICK E : E = 0 .. t.size - 1
    OBVIOUS
  <2>2. L \in Seq(E)
    BY <1>1, <2>1 DEF Tab, Chained
  <2>3. L[x] \in E
    BY <1>5, <2>2, SeqAt
  <2> QED
    BY <2>1, <2>3
<1>7. n \in 0 .. t.size - 1 /\ t.k[n] = k
  BY <1>4, <1>5, <1>6 DEF Located
<1>8. n = L[x]
  BY <1>1, <1>3, <1>5, <1>6, <1>7 DEF Tab, Slotted
<1>9. n # NULL
  <2>1. t.size \in Nat
    BY <1>1 DEF Tab
  <2>2. n \in Nat
    BY <1>7, <2>1
  <2> QED
    BY <2>2, ConstantsAssumption
<1>10. t.v[n] = V[x]
  BY <1>1, <1>5, <1>8 DEF Entries
<1>11. PICK t2 : t2 = lh_table_delete_entry(t, n)
  OBVIOUS
<1>12. /\ Tab(t2, Drop(L, x), {n}) /\ t2.size = t.size /\ FirstFor(t2, {n}, k)
       /\ \A m \in 0 .. t2.size - 1 : t2.k[m] # k
       /\ DeletedAt(t, n, t2)
  <2>1. t.k[n] = k /\ n = L[x] /\ t2 = lh_table_delete_entry(t, n) /\ x \in 1 .. Len(L)
    BY <1>5, <1>7, <1>8, <1>11
  <2>2. Dropped(t, L, x, n, k, t2)
    BY <1>1, <1>3, <2>1, DeleteTab
  <2> QED
    BY <2>2 DEF Dropped
<1>13. Entries(t2, Drop(L, x), Drop(K, x), Drop(V, x))
  BY <1>1, <1>5, <1>8, <1>12, DropEntries
<1>14. Holds(lh_table_insert(t2, k, v), Append(Drop(K, x), k), Append(Drop(V, x), v))
  BY <1>3, <1>12, <1>13, InsertHolds
<1> QED
  BY <1>9, <1>10, <1>11, <1>14 DEF Finds

\* A search in such a table ends.
LEMMA HoldsEnds ==
    ASSUME NEW t, NEW K, NEW V, Holds(t, K, V)
    PROVE  HasEmpty(t)
<1>1. PICK L : Tab(t, L, {})
  BY DEF Holds
<1> QED
  BY <1>1, EmptySlot DEF HasEmpty

\* The values along the list.
LEMMA HoldsValues ==
    ASSUME NEW t, NEW K, NEW V, Holds(t, K, V)
    PROVE  /\ Len(Listed(t)) = Len(V) /\ DOMAIN Listed(t) = 1 .. Len(V)
           /\ [i \in DOMAIN Listed(t) |-> t.v[Listed(t)[i]]] = V
           /\ \A i \in 1 .. Len(V) : t.k[Listed(t)[i]] = K[i] /\ t.v[Listed(t)[i]] = V[i]
           /\ K \in Seq(Names) /\ V \in Seq(Nat) /\ Len(K) = Len(V)
<1>1. PICK L : Tab(t, L, {}) /\ Entries(t, L, K, V)
  BY DEF Holds
<1>2. Listed(t) = L
  BY <1>1, ListedIs
<1>3. K \in Seq(Names) /\ V \in Seq(Nat) /\ Len(K) = Len(L) /\ Len(V) = Len(L)
  BY <1>1 DEF Entries
<1>4. \A i \in 1 .. Len(L) : t.k[L[i]] = K[i] /\ t.v[L[i]] = V[i]
  BY <1>1 DEF Entries
<1>5. DOMAIN L = 1 .. Len(L)
  <2>1. PICK E : E = 0 .. t.size - 1
    OBVIOUS
  <2>2. L \in Seq(E)
    BY <1>1, <2>1 DEF Tab, Chained
  <2> QED
    BY <2>2
<1>6. V = [i \in 1 .. Len(V) |-> V[i]]
  BY <1>3
<1>7. [i \in DOMAIN L |-> t.v[L[i]]] = V
  BY <1>3, <1>4, <1>5, <1>6
<1> QED
  BY <1>2, <1>3, <1>4, <1>5, <1>7

\* Such a table is consistent.
LEMMA HoldsConsistent ==
    ASSUME NEW t, NEW K, NEW V, Holds(t, K, V)
    PROVE  Consistent(t)
<1>1. PICK L : Tab(t, L, {}) /\ Entries(t, L, K, V)
  BY DEF Holds
<1>2. PICK s, c : s = t.size /\ s \in Nat /\ c = Len(L) /\ c \in Nat /\ L \in Seq(0 .. s - 1)
  BY <1>1 DEF Tab, Chained
<1>3. Listed(t) = L
  BY <1>1, ListedIs
<1>4. t.count = Len(L)
  BY <1>1 DEF Tab
<1>5. DOMAIN L = 1 .. c /\ DOMAIN t.k = 0 .. s - 1
  <2>1. PICK E : E = 0 .. s - 1
    OBVIOUS
  <2>2. DOMAIN L = 1 .. c
    BY <1>2, <2>1
  <2> QED
    BY <1>1, <1>2, <2>2 DEF Tab, TabSet
<1>6. \A m \in 0 .. s - 1 : t.k[m] \in Names \union {LH_EMPTY, LH_FREED}
  BY <1>1, <1>2 DEF Tab, TabSet
<1>7. LH_EMPTY \notin Names /\ LH_FREED \notin Names
  BY ConstantsAssumption DEF Names
<1>8. \A m \in 0 .. s - 1 : t.k[m] \in Names <=> \E i \in 1 .. c : L[i] = m
  BY <1>1, <1>2 DEF Tab, Slotted
<1>9. \A i \in 1 .. c : L[i] \in 0 .. s - 1
  <2>1. PICK E : E = 0 .. s - 1
    OBVIOUS
  <2>2. \A i \in 1 .. c : L[i] \in E
    BY <1>2, <2>1, SeqAt
  <2> QED
    BY <2>1, <2>2
<1>10. {L[i] : i \in 1 .. c} = {n \in 0 .. s - 1 : t.k[n] \notin {LH_EMPTY, LH_FREED}}
  <2>1. ASSUME NEW i \in 1 .. c PROVE L[i] \in 0 .. s - 1 /\ t.k[L[i]] \notin {LH_EMPTY, LH_FREED}
    BY <1>7, <1>8, <1>9
  <2>2. ASSUME NEW n \in 0 .. s - 1, t.k[n] \notin {LH_EMPTY, LH_FREED} PROVE \E i \in 1 .. c : L[i] = n
    BY <1>6, <1>8, <2>2
  <2> QED
    BY <2>1, <2>2
<1>11. ASSUME NEW i \in 1 .. c PROVE lh_table_lookup_entry(t, t.k[L[i]]) = L[i]
  <2>1. L[i] \in 0 .. s - 1 /\ t.k[L[i]] \in Names
    BY <1>8, <1>9
  <2>2. PICK k, n : k = t.k[L[i]] /\ n = lh_table_lookup_entry(t, k)
    OBVIOUS
  <2>3. Located(t, k, n)
    BY <1>1, <2>1, <2>2, LookupIs
  <2>4. n \in 0 .. s - 1 /\ t.k[n] = k
    BY <1>2, <2>1, <2>2, <2>3 DEF Located
  <2>5. n = L[i]
    BY <1>1, <1>2, <2>1, <2>2, <2>4 DEF Tab, Slotted
  <2> QED
    BY <2>2, <2>5
<1>12. \A i \in 1 .. c : t.prev[L[i]] = IF i = 1 THEN NULL ELSE L[i - 1]
  BY <1>1, <1>2 DEF Tab, Chained
<1>13. t.tail = IF c = 0 THEN NULL ELSE L[c]
  BY <1>1, <1>2 DEF Tab, Chained
<1>14. L = <<>> <=> c = 0
  <2>1. PICK E : E = 0 .. s - 1
    OBVIOUS
  <2>2. L \in Seq(E)
    BY <1>2, <2>1
  <2> QED
    BY <1>2, <2>2, EmptySeq
<1>15. /\ Len(L) = t.count
       /\ {L[i] : i \in DOMAIN L} = {n \in DOMAIN t.k : t.k[n] \notin {LH_EMPTY, LH_FREED}}
  BY <1>4, <1>5, <1>10
<1>16. \A i \in DOMAIN L : /\ t.prev[L[i]] = IF i = 1 THEN NULL ELSE L[i - 1]
                           /\ lh_table_lookup_entry(t, t.k[L[i]]) = L[i]
  BY <1>5, <1>11, <1>12
<1>17. t.tail = IF L = <<>> THEN NULL ELSE L[Len(L)]
  BY <1>2, <1>13, <1>14
<1> QED
  BY <1>3, <1>15, <1>16, <1>17 DEF Consistent

-----------------------------------------------------------------------------
(* Ownership *)

\* n objects, of which those in Live are not freed, C[o] is what o contains,
\* P what is still to be put and U what belongs to the code that builds the
\* response.  Containers are older than what they contain.
OwnTypes(n, Live, C, P, U) ==
    /\ n \in Nat /\ Live \in SUBSET (1 .. n) /\ U \in SUBSET Live
    /\ C \in [1 .. n -> Seq(1 .. n)] /\ P \in Seq(Live)
    /\ \A o \in 1 .. n : \A i \in 1 .. Len(C[o]) : C[o][i] > o

\* Nothing has two owners.
OwnOnce(Live, C, P, U) ==
    /\ \A o \in Live : \A i \in 1 .. Len(C[o]) : C[o][i] \in Live \ U
    /\ \A o, p \in Live : \A i \in 1 .. Len(C[o]) : \A j \in 1 .. Len(C[p]) :
            C[o][i] = C[p][j] => o = p /\ i = j
    /\ \A i, j \in 1 .. Len(P) : P[i] = P[j] => i = j
    /\ \A i \in 1 .. Len(P) : P[i] \notin U
    /\ \A o \in Live : \A i \in 1 .. Len(C[o]) : \A j \in 1 .. Len(P) : C[o][i] # P[j]

\* Object o has an owner.
Owned(Live, C, P, U, o) ==
    \/ o \in U
    \/ \E j \in 1 .. Len(P) : P[j] = o
    \/ \E p \in Live : \E i \in 1 .. Len(C[p]) : C[p][i] = o

\* What is not freed has exactly one owner.
Own(n, Live, C, P, U) ==
    /\ OwnTypes(n, Live, C, P, U) /\ OwnOnce(Live, C, P, U)
    /\ \A o \in Live : Owned(Live, C, P, U, o)

\* If nobody owns anything, everything is freed: the oldest object that is
\* not would have to be contained in an older one.
LEMMA NothingLeft ==
    ASSUME NEW n, NEW Live, NEW C, Own(n, Live, C, <<>>, {})
    PROVE  Live = {}
<1>1. Live \in SUBSET Nat
  BY DEF Own, OwnTypes
<1>2. ASSUME Live # {} PROVE FALSE
  <2>1. PICK o \in Live : \A p \in Live : o <= p
    BY <1>1, <1>2, LeastNat
  <2>2. Owned(Live, C, <<>>, {}, o)
    BY DEF Own
  <2>3. PICK P : P = <<>> /\ Len(P) = 0
    OBVIOUS
  <2>4. PICK p \in Live : \E i \in 1 .. Len(C[p]) : C[p][i] = o
    BY <2>2, <2>3 DEF Owned
  <2>5. PICK i \in 1 .. Len(C[p]) : C[p][i] = o
    BY <2>4
  <2>6. p \in 1 .. n
    BY DEF Own, OwnTypes
  <2>7. o > p
    BY <2>5, <2>6 DEF Own, OwnTypes
  <2>8. o \in Nat /\ p \in Nat /\ o <= p
    BY <1>1, <2>1
  <2> QED
    BY <2>7, <2>8
<1> QED
  BY <1>2

\* A new object belongs to its creator.
LEMMA OwnNew ==
    ASSUME NEW n, NEW Live, NEW C, NEW P, NEW U, Own(n, Live, C, P, U),
           NEW m, m = n + 1, NEW D, D = [o \in 1 .. m |-> IF o = m THEN <<>> ELSE C[o]]
    PROVE  Own(m, Live \union {m}, D, P, U \union {m})
<1>1. /\ n \in Nat /\ Live \in SUBSET (1 .. n) /\ U \in SUBSET Live
      /\ C \in [1 .. n -> Seq(1 .. n)] /\ P \in Seq(Live)
      /\ \A o \in 1 .. n : \A i \in 1 .. Len(C[o]) : C[o][i] > o
  BY DEF Own, OwnTypes
<1>2. PICK N, M : N = 1 .. n /\ M = 1 .. m
  OBVIOUS
<1>3. m \in Nat /\ m \notin N /\ M = N \union {m}
  BY <1>1, <1>2
<1>4. PICK e : e = <<>>
  OBVIOUS
<1>5. Len(e) = 0 /\ e \in Seq(M)
  BY <1>4
<1>6. D[m] = e /\ \A o \in N : D[o] = C[o]
  BY <1>2, <1>3, <1>4
<1>7. ASSUME NEW o \in N PROVE C[o] \in Seq(M) /\ Len(C[o]) \in Nat /\ \A i \in 1 .. Len(C[o]) : C[o][i] \in N
  <2>1. C[o] \in Seq(N)
    BY <1>1, <1>2
  <2>2. \A i \in 1 .. Len(C[o]) : C[o][i] \in N
    BY <2>1
  <2> QED
    BY <1>3, <2>1, <2>2
<1>8. D \in [M -> Seq(M)]
  <2>1. D = [o \in M |-> IF o = m THEN e ELSE C[o]]
    BY <1>2, <1>4
  <2>2. ASSUME NEW o \in M PROVE (IF o = m THEN e ELSE C[o]) \in Seq(M)
    BY <1>3, <1>5, <1>7
  <2> QED
    BY <2>1, <2>2
<1>9. P \in Seq(Live \union {m})
  BY <1>1
<1>10. ASSUME NEW o \in M, NEW i \in 1 .. Len(D[o]) PROVE o \in N /\ D[o] = C[o]
  <2>1. o # m
    BY <1>5, <1>6, <1>10
  <2> QED
    BY <1>3, <1>6, <2>1
<1>11. ASSUME NEW o \in M, NEW i \in 1 .. Len(D[o]) PROVE D[o][i] > o
  BY <1>1, <1>2, <1>10, <1>11
<1>12. OwnTypes(m, Live \union {m}, D, P, U \union {m})
  BY <1>1, <1>2, <1>3, <1>8, <1>9, <1>11 DEF OwnTypes
<1>13. /\ \A o \in Live : \A i \in 1 .. Len(C[o]) : C[o][i] \in Live \ U
       /\ \A o, p \in Live : \A i \in 1 .. Len(C[o]) : \A j \in 1 .. Len(C[p]) :
              C[o][i] = C[p][j] => o = p /\ i = j
       /\ \A i, j \in 1 .. Len(P) : P[i] = P[j] => i = j
       /\ \A i \in 1 .. Len(P) : P[i] \notin U
       /\ \A o \in Live : \A i \in 1 .. Len(C[o]) : \A j \in 1 .. Len(P) : C[o][i] # P[j]
  BY DEF Own, OwnOnce
<1>14. \A i \in 1 .. Len(P) : P[i] \in N /\ P[i] # m
  <2>1. \A i \in 1 .. Len(P) : P[i] \in Live
    BY <1>1
  <2> QED
    BY <1>1, <1>2, <1>3, <2>1
<1>15. ASSUME NEW o \in Live \union {m}, NEW i \in 1 .. Len(D[o])
       PROVE  o \in Live /\ D[o] = C[o] /\ i \in 1 .. Len(C[o])
  <2>1. o \in M
    BY <1>1, <1>2, <1>3
  <2>2. o \in N /\ D[o] = C[o]
    BY <1>10, <2>1
  <2> QED
    BY <1>3, <1>15, <2>2
<1>16. ASSUME NEW o \in Live \union {m}, NEW i \in 1 .. Len(D[o])
       PROVE  D[o][i] \in (Live \union {m}) \ (U \union {m})
  <2>1. C[o][i] \in Live \ U /\ C[o][i] \in N
    BY <1>1, <1>2, <1>13, <1>15
  <2> QED
    BY <1>3, <1>15, <2>1
<1>17. ASSUME NEW o \in Live \union {m}, NEW p \in Live \union {m}, NEW i \in 1 .. Len(D[o]), NEW j \in 1 .. Len(D[p]),
              D[o][i] = D[p][j]
       PROVE  o = p /\ i = j
  BY <1>13, <1>15, <1>17
<1>18. ASSUME NEW o \in Live \union {m}, NEW i \in 1 .. Len(D[o]), NEW j \in 1 .. Len(P)
       PROVE  D[o][i] # P[j]
  BY <1>13, <1>15
<1>19. OwnOnce(Live \union {m}, D, P, U \union {m})
  BY <1>13, <1>14, <1>16, <1>17, <1>18 DEF OwnOnce
<1>20. ASSUME NEW o \in Live \union {m} PROVE Owned(Live \union {m}, D, P, U \union {m}, o)
  <2>1. CASE o = m
    BY <2>1 DEF Owned
  <2>2. CASE o # m
    <3>1. Owned(Live, C, P, U, o)
      BY <2>2 DEF Own
    <3>2. \A p \in Live : D[p] = C[p]
      BY <1>1, <1>2, <1>6
    <3> QED
      BY <3>1, <3>2 DEF Owned
  <2> QED
    BY <2>1, <2>2
<1> QED
  BY <1>12, <1>19, <1>20 DEF Own

\* An object that belongs to the code is put into a container.
LEMMA OwnAttach ==
    ASSUME NEW n, NEW Live, NEW C, NEW P, NEW U, Own(n, Live, C, P, U),
           NEW o \in Live, NEW u \in U, u > o, NEW D, D = [C EXCEPT ![o] = Append(C[o], u)]
    PROVE  Own(n, Live, D, P, U \ {u})
<1>1. /\ n \in Nat /\ Live \in SUBSET (1 .. n) /\ U \in SUBSET Live
      /\ C \in [1 .. n -> Seq(1 .. n)] /\ P \in Seq(Live)
      /\ \A p \in 1 .. n : \A i \in 1 .. Len(C[p]) : C[p][i] > p
  BY DEF Own, OwnTypes
<1>2. /\ \A p \in Live : \A i \in 1 .. Len(C[p]) : C[p][i] \in Live \ U
      /\ \A p, q \in Live : \A i \in 1 .. Len(C[p]) : \A j \in 1 .. Len(C[q]) :
             C[p][i] = C[q][j] => p = q /\ i = j
      /\ \A i, j \in 1 .. Len(P) : P[i] = P[j] => i = j
      /\ \A i \in 1 .. Len(P) : P[i] \notin U
      /\ \A p \in Live : \A i \in 1 .. Len(C[p]) : \A j \in 1 .. Len(P) : C[p][i] # P[j]
  BY DEF Own, OwnOnce
<1>3. PICK N : N = 1 .. n
  OBVIOUS
<1>4. o \in N /\ u \in N /\ C \in [N -> Seq(N)] /\ C[o] \in Seq(N)
  BY <1>1, <1>3
<1>a. Len(C[o]) \in Nat
  <2>1. PICK w : w = C[o]
    OBVIOUS
  <2>2. w \in Seq(N)
    BY <1>4, <2>1
  <2> QED
    BY <2>1, <2>2
<1>5. PICK c : c = Len(C[o]) /\ c \in Nat
  BY <1>a
<1>6. PICK A : A = Append(C[o], u)
  OBVIOUS
<1>7. A \in Seq(N) /\ Len(A) = c + 1 /\ A[c + 1] = u /\ \A i \in 1 .. c : A[i] = C[o][i]
  BY <1>4, <1>5, <1>6
<1>8. D[o] = A /\ \A p \in N : p # o => D[p] = C[p]
  BY <1>4, <1>6
<1>9. D \in [N -> Seq(N)]
  BY <1>4, <1>6, <1>7
<1>10. ASSUME NEW p \in N, NEW i \in 1 .. Len(D[p])
       PROVE  \/ p = o /\ D[p][i] = u /\ i = c + 1
              \/ i \in 1 .. Len(C[p]) /\ D[p][i] = C[p][i]
  <2>1. CASE p = o
    <3>1. i \in 1 .. c + 1
      BY <1>7, <1>8, <1>10, <2>1
    <3>2. i = c + 1 \/ i \in 1 .. c
      BY <1>5, <3>1
    <3> QED
      BY <1>5, <1>7, <1>8, <2>1, <3>2
  <2>2. CASE p # o
    BY <1>8, <1>10, <2>2
  <2> QED
    BY <2>1, <2>2
<1>11. ASSUME NEW p \in N, NEW i \in 1 .. Len(C[p]) PROVE i \in 1 .. Len(D[p]) /\ D[p][i] = C[p][i]
  <2>1. CASE p = o
    <3>1. i \in 1 .. c /\ i \in 1 .. c + 1
      BY <1>5, <1>11, <2>1
    <3> QED
      BY <1>7, <1>8, <2>1, <3>1
  <2>2. CASE p # o
    BY <1>8, <1>11, <2>2
  <2> QED
    BY <2>1, <2>2
<1>12. ASSUME NEW p \in N, NEW i \in 1 .. Len(D[p]) PROVE D[p][i] > p
  <2>1. CASE p = o /\ D[p][i] = u
    BY <2>1
  <2>2. CASE i \in 1 .. Len(C[p]) /\ D[p][i] = C[p][i]
    <3>1. C[p][i] > p
      BY <1>1, <1>3, <2>2
    <3> QED
      BY <2>2, <3>1
  <2> QED
    BY <1>10, <2>1, <2>2
<1>13. OwnTypes(n, Live, D, P, U \ {u})
  BY <1>1, <1>3, <1>9, <1>12 DEF OwnTypes
<1>14. Live \subseteq N
  BY <1>1, <1>3
<1>15. ASSUME NEW p \in Live, NEW i \in 1 .. Len(D[p]) PROVE D[p][i] \in Live \ (U \ {u})
  <2>1. p \in N
    BY <1>14
  <2>2. CASE p = o /\ D[p][i] = u
    BY <1>1, <2>2
  <2>3. CASE i \in 1 .. Len(C[p]) /\ D[p][i] = C[p][i]
    BY <1>2, <2>3
  <2> QED
    BY <1>10, <2>1, <2>2, <2>3
<1>16. ASSUME NEW p \in Live, NEW q \in Live, NEW i \in 1 .. Len(D[p]), NEW j \in 1 .. Len(D[q]), D[p][i] = D[q][j]
       PROVE  p = q /\ i = j
  <2>1. p \in N /\ q \in N
    BY <1>14
  <2>2. \/ p = o /\ D[p][i] = u /\ i = c + 1
        \/ i \in 1 .. Len(C[p]) /\ D[p][i] = C[p][i]
    BY <1>10, <2>1
  <2>3. \/ q = o /\ D[q][j] = u /\ j = c + 1
        \/ j \in 1 .. Len(C[q]) /\ D[q][j] = C[q][j]
    BY <1>10, <2>1
  <2>4. i \in 1 .. Len(C[p]) /\ D[p][i] = C[p][i] => D[p][i] # u
    BY <1>2
  <2>5. j \in 1 .. Len(C[q]) /\ D[q][j] = C[q][j] => D[q][j] # u
    BY <1>2
  <2>6. CASE i \in 1 .. Len(C[p]) /\ D[p][i] = C[p][i] /\ j \in 1 .. Len(C[q]) /\ D[q][j] = C[q][j]
    <3>1. C[p][i] = C[q][j]
      BY <1>16, <2>6
    <3> QED
      BY <1>2, <2>6, <3>1
  <2> QED
    BY <1>16, <2>2, <2>3, <2>4, <2>5, <2>6
<1>17. ASSUME NEW p \in Live, NEW i \in 1 .. Len(D[p]), NEW j \in 1 .. Len(P) PROVE D[p][i] # P[j]
  <2>1. p \in N
    BY <1>14
  <2>2. CASE p = o /\ D[p][i] = u
    BY <1>2, <2>2
  <2>3. CASE i \in 1 .. Len(C[p]) /\ D[p][i] = C[p][i]
    BY <1>2, <2>3
  <2> QED
    BY <1>10, <2>1, <2>2, <2>3
<1>18. OwnOnce(Live, D, P, U \ {u})
  BY <1>2, <1>15, <1>16, <1>17 DEF OwnOnce
<1>19. ASSUME NEW q \in Live PROVE Owned(Live, D, P, U \ {u}, q)
  <2>1. CASE q = u
    <3>1. c + 1 \in 1 .. Len(D[o]) /\ D[o][c + 1] = u
      BY <1>5, <1>7, <1>8
    <3> QED
      BY <2>1, <3>1 DEF Owned
  <2>2. CASE q # u
    <3>1. Owned(Live, C, P, U, q)
      BY DEF Own
    <3>2. CASE \E p \in Live : \E i \in 1 .. Len(C[p]) : C[p][i] = q
      <4>1. PICK p \in Live : \E i \in 1 .. Len(C[p]) : C[p][i] = q
        BY <3>2
      <4>2. PICK i \in 1 .. Len(C[p]) : C[p][i] = q
        BY <4>1
      <4>3. i \in 1 .. Len(D[p]) /\ D[p][i] = q
        BY <1>11, <1>14, <4>2
      <4> QED
        BY <4>3 DEF Owned
    <3> QED
      BY <2>2, <3>1, <3>2 DEF Owned
  <2> QED
    BY <2>1, <2>2
<1> QED
  BY <1>13, <1>18, <1>19 DEF Own

\* What a container loses is to be put.
LEMMA OwnDetach ==
    ASSUME NEW n, NEW Live, NEW C, NEW U, Own(n, Live, C, <<>>, U),
           NEW o \in Live, NEW x \in 1 .. Len(C[o]), NEW D, D = [C EXCEPT ![o] = Drop(C[o], x)]
    PROVE  Own(n, Live, D, <<C[o][x]>>, U)
<1>1. /\ n \in Nat /\ Live \in SUBSET (1 .. n) /\ U \in SUBSET Live
      /\ C \in [1 .. n -> Seq(1 .. n)]
      /\ \A p \in 1 .. n : \A i \in 1 .. Len(C[p]) : C[p][i] > p
  BY DEF Own, OwnTypes
<1>2. /\ \A p \in Live : \A i \in 1 .. Len(C[p]) : C[p][i] \in Live \ U
      /\ \A p, q \in Live : \A i \in 1 .. Len(C[p]) : \A j \in 1 .. Len(C[q]) :
             C[p][i] = C[q][j] => p = q /\ i = j
  BY DEF Own, OwnOnce
<1>3. PICK N : N = 1 .. n
  OBVIOUS
<1>4. o \in N /\ C \in [N -> Seq(N)] /\ C[o] \in Seq(N)
  BY <1>1, <1>3
<1>a. Len(C[o]) \in Nat
  <2>1. PICK w : w = C[o]
    OBVIOUS
  <2>2. w \in Seq(N)
    BY <1>4, <2>1
  <2> QED
    BY <2>1, <2>2
<1>5. PICK c : c = Len(C[o]) /\ c \in Nat /\ x \in 1 .. c
  BY <1>a
<1>6. PICK A, u, P : A = Drop(C[o], x) /\ u = C[o][x] /\ P = <<u>>
  OBVIOUS
<1>7. A \in Seq(N) /\ Len(A) = c - 1 /\ c - 1 \in Nat
  BY <1>4, <1>5, <1>6, DropIs
<1>8. D[o] = A /\ \A p \in N : p # o => D[p] = C[p]
  BY <1>4, <1>6
<1>9. D \in [N -> Seq(N)]
  BY <1>4, <1>6, <1>7
<1>10. u \in Live \ U
  BY <1>2, <1>6
<1>11. P \in Seq(Live) /\ Len(P) = 1 /\ P[1] = u /\ \A i \in 1 .. Len(P) : i = 1
  BY <1>6, <1>10
<1>12. ASSUME NEW p \in N, NEW i \in 1 .. Len(D[p])
       PROVE  \E y \in 1 .. Len(C[p]) : /\ D[p][i] = C[p][y] /\ (p = o => y # x)
                                        /\ p = o => y = (IF i < x THEN i ELSE i + 1)
                                        /\ p # o => y = i
  <2>1. CASE p = o
    <3>1. i \in 1 .. Len(C[o]) - 1
      BY <1>5, <1>7, <1>8, <1>12, <2>1
    <3>2. PICK y : DropFrom(C[o], x, i, y)
      BY <1>4, <3>1, DropAt
    <3>3. y \in 1 .. Len(C[o]) /\ y # x /\ A[i] = C[o][y] /\ y = (IF i < x THEN i ELSE i + 1)
      BY <1>6, <3>2 DEF DropFrom
    <3> QED
      BY <1>8, <2>1, <3>3
  <2>2. CASE p # o
    BY <1>8, <1>12, <2>2
  <2> QED
    BY <2>1, <2>2
<1>13. ASSUME NEW p \in N, NEW i \in 1 .. Len(D[p]) PROVE D[p][i] > p
  <2>1. PICK y \in 1 .. Len(C[p]) : D[p][i] = C[p][y]
    BY <1>12
  <2> QED
    BY <1>1, <1>3, <2>1
<1>14. OwnTypes(n, Live, D, P, U)
  BY <1>1, <1>3, <1>9, <1>11, <1>13 DEF OwnTypes
<1>15. Live \subseteq N
  BY <1>1, <1>3
<1>16. ASSUME NEW p \in Live, NEW i \in 1 .. Len(D[p]) PROVE D[p][i] \in Live \ U /\ D[p][i] # u
  <2>1. PICK y \in 1 .. Len(C[p]) : D[p][i] = C[p][y] /\ (p = o => y # x)
    BY <1>12, <1>15
  <2>2. C[p][y] = C[o][x] => p = o /\ y = x
    BY <1>2
  <2> QED
    BY <1>2, <1>6, <2>1, <2>2
<1>17. ASSUME NEW p \in Live, NEW q \in Live, NEW i \in 1 .. Len(D[p]), NEW j \in 1 .. Len(D[q]), D[p][i] = D[q][j]
       PROVE  p = q /\ i = j
  <2>1. PICK y \in 1 .. Len(C[p]) : /\ D[p][i] = C[p][y]
                                    /\ p = o => y = (IF i < x THEN i ELSE i + 1)
                                    /\ p # o => y = i
    BY <1>12, <1>15
  <2>2. PICK z \in 1 .. Len(C[q]) : /\ D[q][j] = C[q][z]
                                    /\ q = o => z = (IF j < x THEN j ELSE j + 1)
                                    /\ q # o => z = j
    BY <1>12, <1>15
  <2>3. C[p][y] = C[q][z]
    BY <1>17, <2>1, <2>2
  <2>4. p = q /\ y = z
    BY <1>2, <2>3
  <2>5. i \in Nat /\ j \in Nat /\ x \in Nat
    BY <1>5
  <2>6. CASE p = o
    <3>1. (IF i < x THEN i ELSE i + 1) = (IF j < x THEN j ELSE j + 1)
      BY <2>1, <2>2, <2>4, <2>6
    <3> QED
      BY <2>4, <2>5, <3>1
  <2>7. CASE p # o
    BY <2>1, <2>2, <2>4, <2>7
  <2> QED
    BY <2>6, <2>7
<1>18. OwnOnce(Live, D, P, U)
  BY <1>10, <1>11, <1>16, <1>17 DEF OwnOnce
<1>19. ASSUME NEW q \in Live PROVE Owned(Live, D, P, U, q)
  <2>1. CASE q = u
    BY <1>11, <2>1 DEF Owned
  <2>2. CASE q # u
    <3>1. Owned(Live, C, <<>>, U, q)
      BY DEF Own
    <3>a. PICK e : e = <<>> /\ Len(e) = 0
      OBVIOUS
    <3>2. CASE \E p \in Live : \E i \in 1 .. Len(C[p]) : C[p][i] = q
      <4>1. PICK p \in Live : \E i \in 1 .. Len(C[p]) : C[p][i] = q
        BY <3>2
      <4>2. PICK i \in 1 .. Len(C[p]) : C[p][i] = q
        BY <4>1
      <4>3. \E j \in 1 .. Len(D[p]) : D[p][j] = q
        <5>1. CASE p # o
          BY <1>8, <1>15, <4>2, <5>1
        <5>2. CASE p = o
          <6>1. i # x
            BY <1>6, <2>2, <4>2, <5>2
          <6>2. i \in 1 .. Len(C[o])
            BY <4>2, <5>2
          <6>3. \E j \in 1 .. Len(C[o]) - 1 : A[j] = C[o][i]
            BY <1>4, <1>6, <6>1, <6>2, DropHas
          <6> QED
            BY <1>5, <1>7, <1>8, <4>2, <5>2, <6>3
        <5> QED
          BY <5>1, <5>2
      <4> QED
        BY <4>3 DEF Owned
    <3> QED
      BY <3>1, <3>a, <3>2 DEF Owned
  <2> QED
    BY <2>1, <2>2
<1>20. Own(n, Live, D, P, U)
  BY <1>14, <1>18, <1>19 DEF Own
<1> QED
  BY <1>6, <1>20

\* What is behind the first element.
LEMMA TailIs ==
    ASSUME NEW E, NEW P \in Seq(E), P # <<>>
    PROVE  /\ Len(P) \in Nat /\ Len(P) >= 1 /\ Head(P) = P[1] /\ P[1] \in E
           /\ Tail(P) \in Seq(E) /\ Len(Tail(P)) = Len(P) - 1
           /\ \A i \in 1 .. Len(P) - 1 : Tail(P)[i] = P[i + 1]
<1>1. Len(P) \in Nat \ {0}
  BY EmptySeq
<1>2. Tail(P) \in Seq(E) /\ Len(Tail(P)) = Len(P) - 1 /\ \A i \in 1 .. Len(P) - 1 : Tail(P)[i] = P[i + 1]
  BY HeadTailProperties
<1>3. Head(P) = P[1] /\ 1 \in 1 .. Len(P)
  BY <1>1
<1> QED
  BY <1>1, <1>2, <1>3, SeqAt

\* The elements of a concatenation.
ConcatIs(E, s, t, r) ==
    /\ r \in Seq(E) /\ Len(r) = Len(s) + Len(t) /\ Len(s) \in Nat /\ Len(t) \in Nat
    /\ \A i \in 1 .. Len(s) : r[i] = s[i]
    /\ \A i \in 1 .. Len(t) : r[Len(s) + i] = t[i]
    /\ \A i \in 1 .. Len(r) : i \in 1 .. Len(s) \/ (i - Len(s) \in 1 .. Len(t) /\ r[i] = t[i - Len(s)])

\* It has the elements of both parts.
LEMMA Concat ==
    ASSUME NEW E, NEW s \in Seq(E), NEW t \in Seq(E)
    PROVE  ConcatIs(E, s, t, s \o t)
<1>a. Len(s) \in Nat /\ Len(t) \in Nat
  OBVIOUS
<1>1. PICK r, a, b : r = s \o t /\ a = Len(s) /\ b = Len(t) /\ a \in Nat /\ b \in Nat
  BY <1>a
<1>2. /\ r \in Seq(E) /\ Len(r) = a + b
      /\ \A i \in 1 .. a + b : r[i] = IF i <= a THEN s[i] ELSE t[i - a]
  BY <1>1, ConcatProperties
<1>3. ASSUME NEW i \in 1 .. a PROVE r[i] = s[i]
  <2>1. i \in 1 .. a + b /\ i <= a
    BY <1>1
  <2> QED
    BY <1>2, <2>1
<1>4. ASSUME NEW i \in 1 .. b PROVE r[a + i] = t[i]
  <2>a. PICK y : y = a + i
    OBVIOUS
  <2>1. y \in 1 .. a + b /\ ~(y <= a) /\ y - a = i
    BY <1>1, <2>a
  <2>2. r[y] = t[i]
    BY <1>2, <2>1
  <2> QED
    BY <2>a, <2>2
<1>5. ASSUME NEW i \in 1 .. a + b, i \notin 1 .. a PROVE i - a \in 1 .. b /\ r[i] = t[i - a]
  <2>1. i - a \in 1 .. b /\ ~(i <= a)
    BY <1>1, <1>5
  <2> QED
    BY <1>2, <2>1
<1> QED
  BY <1>1, <1>2, <1>3, <1>4, <1>5 DEF ConcatIs

\* An object whose count falls to 0 leaves what it contains to be put.
LEMMA OwnPut ==
    ASSUME NEW n, NEW Live, NEW C, NEW P, NEW U, Own(n, Live, C, P, U), P # <<>>, NEW o, o = Head(P)
    PROVE  Own(n, Live \ {o}, C, C[o] \o Tail(P), U)
<1>1. /\ n \in Nat /\ Live \in SUBSET (1 .. n) /\ U \in SUBSET Live
      /\ C \in [1 .. n -> Seq(1 .. n)] /\ P \in Seq(Live)
      /\ \A p \in 1 .. n : \A i \in 1 .. Len(C[p]) : C[p][i] > p
  BY DEF Own, OwnTypes
<1>2. /\ \A p \in Live : \A i \in 1 .. Len(C[p]) : C[p][i] \in Live \ U
      /\ \A p, q \in Live : \A i \in 1 .. Len(C[p]) : \A j \in 1 .. Len(C[q]) :
             C[p][i] = C[q][j] => p = q /\ i = j
      /\ \A i, j \in 1 .. Len(P) : P[i] = P[j] => i = j
      /\ \A i \in 1 .. Len(P) : P[i] \notin U
      /\ \A p \in Live : \A i \in 1 .. Len(C[p]) : \A j \in 1 .. Len(P) : C[p][i] # P[j]
  BY DEF Own, OwnOnce
<1>3. PICK N, m : N = 1 .. n /\ m = Len(P)
  OBVIOUS
<1>4. PICK Q : Q = Tail(P)
  OBVIOUS
<1>5. /\ m \in Nat /\ m >= 1 /\ o = P[1] /\ o \in Live /\ Q \in Seq(Live) /\ Len(Q) = m - 1
      /\ \A i \in 1 .. m - 1 : Q[i] = P[i + 1]
  BY <1>1, <1>3, <1>4, TailIs
<1>6. \A i \in 1 .. m - 1 : i + 1 \in 1 .. m /\ i + 1 # 1 /\ 1 \in 1 .. m
  BY <1>5
<1>7. \A i \in 1 .. m - 1 : Q[i] # o /\ Q[i] \notin U
  BY <1>2, <1>3, <1>5, <1>6
<1>8. o \in N /\ 1 \in 1 .. m /\ o \notin U
  BY <1>1, <1>2, <1>3, <1>5
<1>9. PICK B : B = C[o]
  OBVIOUS
<1>10. B \in Seq(N)
  BY <1>1, <1>3, <1>8, <1>9
<1>11. PICK b : b = Len(B) /\ b \in Nat
  BY <1>10
<1>12. \A i \in 1 .. b : B[i] \in Live \ U /\ B[i] # o
  <2>1. \A i \in 1 .. b : B[i] \in Live \ U
    BY <1>2, <1>5, <1>9, <1>11
  <2>2. \A i \in 1 .. b : B[i] # P[1]
    BY <1>2, <1>3, <1>5, <1>8, <1>9, <1>11
  <2> QED
    BY <1>5, <2>1, <2>2
<1>13. PICK W : W = Live \ {o}
  OBVIOUS
<1>14. B \in Seq(W)
  <2>1. \A i \in 1 .. b : B[i] \in W
    BY <1>12, <1>13
  <2>2. B = [i \in 1 .. b |-> B[i]]
    BY <1>10, <1>11
  <2>3. B \in [1 .. b -> W]
    BY <2>1, <2>2
  <2> QED
    BY <1>11, <2>3
<1>15. Q \in Seq(W)
  <2>1. \A i \in 1 .. m - 1 : Q[i] \in W
    BY <1>5, <1>7, <1>13, SeqAt
  <2>2. Q = [i \in 1 .. m - 1 |-> Q[i]]
    BY <1>5
  <2>3. m - 1 \in Nat
    BY <1>5
  <2> QED
    BY <2>1, <2>2, <2>3
<1>16. PICK R : R = B \o Q
  OBVIOUS
<1>17. ConcatIs(W, B, Q, R)
  BY <1>14, <1>15, <1>16, Concat
<1>18. /\ R \in Seq(W)
       /\ \A i \in 1 .. b : i \in 1 .. Len(R) /\ R[i] = B[i]
       /\ \A i \in 1 .. m - 1 : b + i \in 1 .. Len(R) /\ R[b + i] = Q[i]
       /\ \A i \in 1 .. Len(R) : \/ i \in 1 .. b /\ R[i] = B[i]
                                 \/ i - b \in 1 .. m - 1 /\ R[i] = Q[i - b]
  <2>1. /\ R \in Seq(W) /\ Len(R) = b + (m - 1)
        /\ \A i \in 1 .. b : R[i] = B[i]
        /\ \A i \in 1 .. m - 1 : R[b + i] = Q[i]
        /\ \A i \in 1 .. Len(R) : i \in 1 .. b \/ (i - b \in 1 .. m - 1 /\ R[i] = Q[i - b])
    BY <1>5, <1>11, <1>17 DEF ConcatIs
  <2>2. ASSUME NEW i \in 1 .. b PROVE i \in 1 .. Len(R)
    BY <1>5, <1>11, <2>1
  <2>3. ASSUME NEW i \in 1 .. m - 1 PROVE b + i \in 1 .. Len(R)
    BY <1>5, <1>11, <2>1
  <2>4. ASSUME NEW i \in 1 .. Len(R)
        PROVE  \/ i \in 1 .. b /\ R[i] = B[i]
               \/ i - b \in 1 .. m - 1 /\ R[i] = Q[i - b]
    BY <2>1
  <2>5. \A i \in 1 .. b : i \in 1 .. Len(R) /\ R[i] = B[i]
    BY <2>1, <2>2
  <2>6. \A i \in 1 .. m - 1 : b + i \in 1 .. Len(R) /\ R[b + i] = Q[i]
    BY <2>1, <2>3
  <2> QED
    BY <2>1, <2>4, <2>5, <2>6
<1>19. W \in SUBSET N /\ U \in SUBSET W
  BY <1>1, <1>3, <1>8, <1>13
<1>20. OwnTypes(n, W, C, R, U)
  BY <1>1, <1>3, <1>18, <1>19 DEF OwnTypes
<1>21. ASSUME NEW p \in W, NEW i \in 1 .. Len(C[p]) PROVE C[p][i] \in W \ U
  <2>1. C[p][i] \in Live \ U
    BY <1>2, <1>13
  <2>2. C[p][i] # P[1]
    BY <1>2, <1>3, <1>8, <1>13
  <2> QED
    BY <1>5, <1>13, <2>1, <2>2
<1>22. ASSUME NEW i \in 1 .. Len(R), NEW j \in 1 .. Len(R), R[i] = R[j] PROVE i = j
  <2>1. \/ i \in 1 .. b /\ R[i] = B[i]
        \/ i - b \in 1 .. m - 1 /\ R[i] = Q[i - b]
    BY <1>18
  <2>2. \/ j \in 1 .. b /\ R[j] = B[j]
        \/ j - b \in 1 .. m - 1 /\ R[j] = Q[j - b]
    BY <1>18
  <2>3. \A x \in 1 .. b : \A y \in 1 .. m - 1 : B[x] # Q[y]
    BY <1>2, <1>3, <1>5, <1>6, <1>9, <1>11
  <2>4. \A x, y \in 1 .. b : B[x] = B[y] => x = y
    BY <1>2, <1>5, <1>9, <1>11
  <2>5. \A x, y \in 1 .. m - 1 : Q[x] = Q[y] => x = y
    <3> SUFFICES ASSUME NEW x \in 1 .. m - 1, NEW y \in 1 .. m - 1, Q[x] = Q[y] PROVE x = y
      OBVIOUS
    <3>1. P[x + 1] = P[y + 1]
      BY <1>5
    <3>2. x + 1 = y + 1
      BY <1>2, <1>3, <1>6, <3>1
    <3> QED
      BY <3>2
  <2>6. CASE i \in 1 .. b /\ R[i] = B[i]
    BY <1>22, <2>2, <2>3, <2>4, <2>6
  <2>7. CASE i - b \in 1 .. m - 1 /\ R[i] = Q[i - b]
    <3>1. j - b \in 1 .. m - 1 /\ R[j] = Q[j - b]
      BY <1>22, <2>2, <2>3, <2>7
    <3>2. i - b = j - b
      BY <1>22, <2>5, <2>7, <3>1
    <3>3. i \in Int /\ j \in Int /\ b \in Int
      BY <1>11
    <3> QED
      BY <3>2, <3>3
  <2> QED
    BY <2>1, <2>6, <2>7
<1>23. ASSUME NEW i \in 1 .. Len(R) PROVE R[i] \notin U
  BY <1>7, <1>12, <1>18
<1>24. ASSUME NEW p \in W, NEW i \in 1 .. Len(C[p]), NEW j \in 1 .. Len(R) PROVE C[p][i] # R[j]
  <2>1. CASE j \in 1 .. b /\ R[j] = B[j]
    <3>1. C[p][i] = C[o][j] => p = o
      BY <1>2, <1>5, <1>9, <1>11, <1>13, <2>1
    <3> QED
      BY <1>9, <1>13, <2>1, <3>1
  <2>2. CASE j - b \in 1 .. m - 1 /\ R[j] = Q[j - b]
    <3>1. PICK y \in 1 .. m : R[j] = P[y]
      BY <1>5, <1>6, <2>2
    <3> QED
      BY <1>2, <1>3, <1>13, <3>1
  <2> QED
    BY <1>18, <2>1, <2>2
<1>25. OwnOnce(W, C, R, U)
  <2>1. \A p, q \in W : \A i \in 1 .. Len(C[p]) : \A j \in 1 .. Len(C[q]) :
             C[p][i] = C[q][j] => p = q /\ i = j
    BY <1>2, <1>13
  <2> QED
    BY <1>21, <1>22, <1>23, <1>24, <2>1 DEF OwnOnce
<1>26. ASSUME NEW q \in W PROVE Owned(W, C, R, U, q)
  <2>1. Owned(Live, C, P, U, q)
    BY <1>13 DEF Own
  <2>2. CASE q \in U
    BY <2>2 DEF Owned
  <2>3. CASE \E j \in 1 .. Len(P) : P[j] = q
    <3>1. PICK j \in 1 .. m : P[j] = q
      BY <1>3, <2>3
    <3>2. j # 1
      BY <1>5, <1>13, <3>1
    <3>3. j - 1 \in 1 .. m - 1 /\ j - 1 + 1 = j
      BY <1>5, <3>2
    <3>4. Q[j - 1] = q
      BY <1>5, <3>1, <3>3
    <3>5. b + (j - 1) \in 1 .. Len(R) /\ R[b + (j - 1)] = q
      BY <1>18, <3>3, <3>4
    <3> QED
      BY <3>5 DEF Owned
  <2>4. CASE \E p \in Live : \E i \in 1 .. Len(C[p]) : C[p][i] = q
    <3>1. PICK p \in Live : \E i \in 1 .. Len(C[p]) : C[p][i] = q
      BY <2>4
    <3>2. PICK i \in 1 .. Len(C[p]) : C[p][i] = q
      BY <3>1
    <3>3. CASE p = o
      <4>1. i \in 1 .. b /\ B[i] = q
        BY <1>9, <1>11, <3>2, <3>3
      <4>2. i \in 1 .. Len(R) /\ R[i] = q
        BY <1>18, <4>1
      <4> QED
        BY <4>2 DEF Owned
    <3>4. CASE p # o
      <4>1. p \in W
        BY <1>13, <3>4
      <4> QED
        BY <3>2, <4>1 DEF Owned
    <3> QED
      BY <3>3, <3>4
  <2> QED
    BY <2>1, <2>2, <2>3, <2>4 DEF Owned
<1>27. Own(n, W, C, R, U)
  BY <1>20, <1>25, <1>26 DEF Own
<1> QED
  BY <1>4, <1>9, <1>13, <1>16, <1>27

\* The response is handed over to json_object_put.
LEMMA OwnSend ==
    ASSUME NEW n, NEW Live, NEW C, NEW o, Own(n, Live, C, <<>>, {o})
    PROVE  Own(n, Live, C, <<o>>, {})
<1>1. PICK P, Q : P = <<>> /\ Q = <<o>>
  OBVIOUS
<1>2. o \in Live /\ Len(P) = 0
  BY <1>1 DEF Own, OwnTypes
<1>3. Q \in Seq(Live) /\ Len(Q) = 1 /\ Q[1] = o /\ 1 .. Len(Q) = {1}
  BY <1>1, <1>2
<1>4. OwnTypes(n, Live, C, Q, {})
  BY <1>3 DEF Own, OwnTypes
<1>5. OwnOnce(Live, C, Q, {})
  BY <1>3 DEF Own, OwnOnce
<1>6. ASSUME NEW p \in Live PROVE Owned(Live, C, Q, {}, p)
  <2>1. Owned(Live, C, P, {o}, p)
    BY <1>1 DEF Own
  <2>2. p = o \/ \E x \in Live : \E i \in 1 .. Len(C[x]) : C[x][i] = p
    BY <1>2, <2>1 DEF Owned
  <2> QED
    BY <1>3, <2>2 DEF Owned
<1> QED
  BY <1>1, <1>4, <1>5, <1>6 DEF Own

-----------------------------------------------------------------------------
(* The heap *)

\* The keys and the values of a table, in the order of its list.
KeysOf(t) == [i \in DOMAIN Listed(t) |-> t.k[Listed(t)[i]]]
ValsOf(t) == [i \in DOMAIN Listed(t) |-> t.v[Listed(t)[i]]]

\* They are what the table holds.
LEMMA HoldsOf ==
    ASSUME NEW t, NEW K, NEW V, Holds(t, K, V)
    PROVE  KeysOf(t) = K /\ ValsOf(t) = V
<1>1. /\ DOMAIN Listed(t) = 1 .. Len(V)
      /\ \A i \in 1 .. Len(V) : t.k[Listed(t)[i]] = K[i] /\ t.v[Listed(t)[i]] = V[i]
      /\ K \in Seq(Names) /\ V \in Seq(Nat) /\ Len(K) = Len(V)
  BY HoldsValues
<1>2. K = [i \in 1 .. Len(V) |-> K[i]] /\ V = [i \in 1 .. Len(V) |-> V[i]]
  BY <1>1
<1>3. KeysOf(t) = [i \in 1 .. Len(V) |-> t.k[Listed(t)[i]]] /\ ValsOf(t) = [i \in 1 .. Len(V) |-> t.v[Listed(t)[i]]]
  BY <1>1 DEF KeysOf, ValsOf
<1>4. [i \in 1 .. Len(V) |-> t.k[Listed(t)[i]]] = [i \in 1 .. Len(V) |-> K[i]]
  BY <1>1
<1>5. [i \in 1 .. Len(V) |-> t.v[Listed(t)[i]]] = [i \in 1 .. Len(V) |-> V[i]]
  BY <1>1
<1> QED
  BY <1>2, <1>3, <1>4, <1>5

\* A table that holds something.
TabOk(t) == Holds(t, KeysOf(t), ValsOf(t))

\* All tables, characters, values and objects of the library.
Tabs == UNION {TabSet(s) : s \in Nat}
Chars == Names
         \union (UNION {{ConsumersOf[q][i] : i \in DOMAIN ConsumersOf[q]} : q \in QIds})
         \union (UNION {{MsgData[i][j] : j \in DOMAIN MsgData[i]} : i \in 1 .. MaxPending})
Vals == {NULL} \union Names \union Seq(Chars)
Types == {"object", "array", "string", "int"}
Objects == [type : Types, ref : {0, 1}, val : Vals, tab : Tabs, size : Nat, array : Seq(Nat)]

\* A table of the library is one of them.
LEMMA HoldsTabs ==
    ASSUME NEW t, NEW K, NEW V, Holds(t, K, V)
    PROVE  t \in Tabs /\ TabOk(t)
<1>1. PICK L : Tab(t, L, {})
  BY DEF Holds
<1>2. t.size \in Nat /\ t \in TabSet(t.size)
  BY <1>1 DEF Tab
<1>3. KeysOf(t) = K /\ ValsOf(t) = V
  BY HoldsOf
<1> QED
  BY <1>2, <1>3 DEF Tabs, TabOk

\* A single object: its table is consistent, its array has room.
ObjOk(x) ==
    /\ TabOk(x.tab) /\ Len(x.array) <= x.size /\ x.size > 0
    /\ x.type = "string" => x.val \in Seq(Chars)

\* A heap of such objects.
HeapOk(h) == h \in Seq(Objects) /\ \A o \in 1 .. Len(h) : ObjOk(h[o])

\* What json_object_new makes of its arguments.
NewObj(ty, x) == [type |-> ty, ref |-> 1, val |-> x, tab |-> lh_table_new(DefHashEntries),
                  size |-> DefArraySize, array |-> <<>>]

\* It is an object, and it is empty.
LEMMA NewObjIs ==
    ASSUME NEW ty \in Types, NEW x \in Vals, ty = "string" => x \in Seq(Chars)
    PROVE  /\ NewObj(ty, x) \in Objects /\ ObjOk(NewObj(ty, x))
           /\ KeysOf(NewObj(ty, x).tab) = <<>> /\ ValsOf(NewObj(ty, x).tab) = <<>>
<1>1. PICK t : t = lh_table_new(DefHashEntries)
  OBVIOUS
<1>2. DefHashEntries \in Nat /\ DefHashEntries >= 3 /\ DefArraySize \in Nat /\ DefArraySize > 0
  BY ConstantsAssumption
<1>3. Holds(t, <<>>, <<>>)
  BY <1>1, <1>2, HoldsNew
<1>4. t \in Tabs /\ TabOk(t) /\ KeysOf(t) = <<>> /\ ValsOf(t) = <<>>
  BY <1>3, HoldsTabs, HoldsOf
<1>5. PICK e : e = <<>>
  OBVIOUS
<1>6. e \in Seq(Nat) /\ Len(e) = 0
  BY <1>5
<1>7. PICK y : y = NewObj(ty, x)
  OBVIOUS
<1>8. y = [type |-> ty, ref |-> 1, val |-> x, tab |-> t, size |-> DefArraySize, array |-> e]
  BY <1>1, <1>5, <1>7 DEF NewObj
<1>9. y \in Objects
  BY <1>2, <1>4, <1>6, <1>8 DEF Objects
<1>10. y.tab = t /\ y.array = e /\ y.size = DefArraySize /\ y.type = ty /\ y.val = x
  BY <1>8
<1>11. ObjOk(y)
  BY <1>2, <1>4, <1>6, <1>10 DEF ObjOk
<1> QED
  BY <1>4, <1>7, <1>9, <1>10, <1>11

\* The heap g is h with one more object.
Created(h, g, x) ==
    /\ HeapOk(g) /\ Len(g) = Len(h) + 1 /\ g[Len(h) + 1] = x
    /\ \A o \in 1 .. Len(h) : g[o] = h[o]

\* The heap g is h with x in place of object o.
Changed(h, g, o, x) ==
    /\ HeapOk(g) /\ Len(g) = Len(h) /\ o \in 1 .. Len(h) /\ g[o] = x
    /\ \A p \in 1 .. Len(h) : p # o => g[p] = h[p]

\* An object behind all others.
LEMMA AppendHeap ==
    ASSUME NEW h, HeapOk(h), NEW x \in Objects, ObjOk(x)
    PROVE  Created(h, Append(h, x), x)
<1>1. PICK n : n = Len(h) /\ n \in Nat
  BY DEF HeapOk
<1>2. PICK g : g = Append(h, x)
  OBVIOUS
<1>3. h \in Seq(Objects) /\ \A o \in 1 .. n : ObjOk(h[o])
  BY <1>1 DEF HeapOk
<1>4. g \in Seq(Objects) /\ Len(g) = n + 1 /\ g[n + 1] = x /\ \A o \in 1 .. n : g[o] = h[o]
  BY <1>1, <1>2, <1>3
<1>5. \A o \in 1 .. n + 1 : o = n + 1 \/ o \in 1 .. n
  BY <1>1
<1>6. \A o \in 1 .. n + 1 : ObjOk(g[o])
  BY <1>3, <1>4, <1>5
<1>7. HeapOk(g)
  BY <1>4, <1>6 DEF HeapOk
<1> QED
  BY <1>1, <1>2, <1>4, <1>7 DEF Created

\* An object instead of another one.
LEMMA ExceptHeap ==
    ASSUME NEW h, HeapOk(h), NEW o \in 1 .. Len(h), NEW x \in Objects, ObjOk(x)
    PROVE  Changed(h, [h EXCEPT ![o] = x], o, x)
<1>1. PICK n : n = Len(h) /\ n \in Nat
  BY DEF HeapOk
<1>2. PICK g : g = [h EXCEPT ![o] = x]
  OBVIOUS
<1>3. h \in Seq(Objects) /\ \A p \in 1 .. n : ObjOk(h[p])
  BY <1>1 DEF HeapOk
<1>4. /\ g \in Seq(Objects) /\ Len(g) = n
      /\ \A p \in 1 .. n : g[p] = IF p = o THEN x ELSE h[p]
  BY <1>1, <1>2, <1>3, ExceptSeq
<1>6. \A p \in 1 .. n : ObjOk(g[p])
  BY <1>3, <1>4
<1>7. HeapOk(g)
  BY <1>4, <1>6 DEF HeapOk
<1> QED
  BY <1>1, <1>2, <1>4, <1>7 DEF Changed

\* What the C functions see of a string is a string.
LEMMA CStringIs ==
    ASSUME NEW E, NEW s \in Seq(E)
    PROVE  CString(s) \in Seq(E)
<1>1. PICK n, S : n = Len(s) /\ S = {i \in DOMAIN s : s[i] = "NUL"}
  OBVIOUS
<1>2. n \in Nat /\ DOMAIN s = 1 .. n
  BY <1>1
<1>3. CASE S = {}
  BY <1>1, <1>3 DEF CString
<1>4. CASE S # {}
  <2>1. S \in SUBSET Nat
    BY <1>1, <1>2
  <2>2. \E i \in S : \A j \in S : i <= j
    BY <1>4, <2>1, LeastNat
  <2>3. PICK i : i = CHOOSE x \in S : \A j \in S : x <= j
    OBVIOUS
  <2>4. i \in S
    BY <2>2, <2>3
  <2>5. i \in 1 .. n
    BY <1>1, <1>2, <2>4
  <2>6. CString(s) = SubSeq(s, 1, i - 1)
    BY <1>1, <1>4, <2>3 DEF CString
  <2>7. \A j \in 1 .. i - 1 : s[j] \in E
    BY <1>1, <1>2, <2>5
  <2> QED
    BY <1>1, <1>2, <2>5, <2>6, <2>7, SubSeqProperties
<1> QED
  BY <1>3, <1>4

\* A change of the last element.
LEMMA AppendExcept ==
    ASSUME NEW E, NEW s \in Seq(E), NEW a \in E, NEW b \in E
    PROVE  [Append(s, a) EXCEPT ![Len(s) + 1] = b] = Append(s, b)
<1>1. PICK n, r, w : n = Len(s) /\ r = Append(s, a) /\ w = Append(s, b)
  OBVIOUS
<1>2. n \in Nat /\ r \in Seq(E) /\ w \in Seq(E) /\ Len(r) = n + 1 /\ Len(w) = n + 1
  BY <1>1
<1>3. /\ w[n + 1] = b /\ \A i \in 1 .. n : r[i] = s[i] /\ w[i] = s[i]
  BY <1>1, <1>2
<1>4. PICK u : u = [r EXCEPT ![n + 1] = b]
  OBVIOUS
<1>5. n + 1 \in 1 .. Len(r)
  BY <1>2
<1>6. u \in Seq(E) /\ Len(u) = n + 1 /\ \A i \in 1 .. n + 1 : u[i] = IF i = n + 1 THEN b ELSE r[i]
  BY <1>2, <1>4, <1>5, ExceptSeq
<1>7. ASSUME NEW i \in 1 .. n + 1 PROVE u[i] = w[i]
  <2>1. i = n + 1 \/ (i \in 1 .. n /\ i # n + 1)
    BY <1>2
  <2> QED
    BY <1>3, <1>6, <2>1
<1>8. u = w
  BY <1>2, <1>6, <1>7, SeqEqual
<1> QED
  BY <1>1, <1>4, <1>8

\* What the functions that create objects do to the heap.
LEMMA NewIs ==
    ASSUME NEW h, HeapOk(h)
    PROVE  /\ Created(h, NewObject(h), NewObj("object", NULL))
           /\ Created(h, NewArray(h), NewObj("array", NULL))
           /\ \A x \in Names : Created(h, NewInt(h, x), NewObj("int", x))
           /\ \A s \in Seq(Chars) : Created(h, NewString(h, s), NewObj("string", CString(s)))
<1>1. h \in Seq(Objects)
  BY DEF HeapOk
<1>2. NULL \in Vals /\ Types = {"object", "array", "string", "int"}
  BY DEF Vals, Types
<1>3. \A ty : json_object_new(h, ty) = Append(h, NewObj(ty, NULL))
  BY DEF json_object_new, NewObj
<1>4. Created(h, NewObject(h), NewObj("object", NULL))
  <2>1. NewObj("object", NULL) \in Objects /\ ObjOk(NewObj("object", NULL))
    BY <1>2, NewObjIs
  <2> QED
    BY <1>3, <2>1, AppendHeap DEF NewObject
<1>5. Created(h, NewArray(h), NewObj("array", NULL))
  <2>1. NewObj("array", NULL) \in Objects /\ ObjOk(NewObj("array", NULL))
    BY <1>2, NewObjIs
  <2> QED
    BY <1>3, <2>1, AppendHeap DEF NewArray
<1>6. ASSUME NEW ty, NEW x
      PROVE  NewObj(ty, x) = [NewObj(ty, NULL) EXCEPT !.val = x]
  BY DEF NewObj
<1>7. ASSUME NEW ty, NEW a, NEW b, a = NewObj(ty, NULL), a \in Objects, b \in Objects
      PROVE  [json_object_new(h, ty) EXCEPT ![Len(h) + 1] = b] = Append(h, b)
  <2>1. json_object_new(h, ty) = Append(h, a)
    BY <1>3, <1>7
  <2>2. [Append(h, a) EXCEPT ![Len(h) + 1] = b] = Append(h, b)
    BY <1>1, <1>7, AppendExcept
  <2> QED
    BY <2>1, <2>2
<1>a. ASSUME NEW ty, NEW a, NEW x, a = NewObj(ty, NULL)
      PROVE  json_object_new(h, ty)[Len(h) + 1] = a
  <2>1. Len(h) \in Nat
    BY <1>1
  <2>2. Append(h, a)[Len(h) + 1] = a
    BY <1>1, <2>1
  <2> QED
    BY <1>3, <1>a, <2>2
<1>8. ASSUME NEW x \in Names PROVE Created(h, NewInt(h, x), NewObj("int", x))
  <2>1. x \in Vals
    BY DEF Vals
  <2>2. PICK a, b : a = NewObj("int", NULL) /\ b = NewObj("int", x)
    OBVIOUS
  <2>3. a \in Objects /\ b \in Objects /\ ObjOk(b) /\ b = [a EXCEPT !.val = x]
    BY <1>2, <1>6, <2>1, <2>2, NewObjIs
  <2>4. NewInt(h, x) = [json_object_new(h, "int") EXCEPT ![Len(h) + 1] = [@ EXCEPT !.val = x]]
    BY DEF NewInt
  <2>5. json_object_new(h, "int")[Len(h) + 1] = a
    BY <1>a, <2>2
  <2>6. NewInt(h, x) = [json_object_new(h, "int") EXCEPT ![Len(h) + 1] = b]
    BY <2>3, <2>4, <2>5
  <2>7. NewInt(h, x) = Append(h, b)
    BY <1>7, <2>2, <2>3, <2>6
  <2> QED
    BY <2>2, <2>3, <2>7, AppendHeap
<1>9. ASSUME NEW s \in Seq(Chars) PROVE Created(h, NewString(h, s), NewObj("string", CString(s)))
  <2>a. PICK x : x = CString(s)
    OBVIOUS
  <2>1. x \in Seq(Chars) /\ x \in Vals
    BY <2>a, CStringIs DEF Vals
  <2>2. PICK a, b, e : a = NewObj("string", NULL) /\ b = NewObj("string", x)
    OBVIOUS
  <2>3. b \in Objects /\ ObjOk(b) /\ b = [a EXCEPT !.val = x]
    BY <1>2, <1>6, <2>1, <2>2, NewObjIs
  <2>b. a \in Objects
    <3>1. NewObj("int", NULL) \in Objects
      BY <1>2, NewObjIs
    <3>2. a = [NewObj("int", NULL) EXCEPT !.type = "string"]
      BY <2>2 DEF NewObj
    <3> QED
      BY <1>2, <3>1, <3>2 DEF Objects
  <2>4. NewString(h, s) = [json_object_new(h, "string") EXCEPT ![Len(h) + 1] = [@ EXCEPT !.val = x]]
    BY <2>a DEF NewString
  <2>5. json_object_new(h, "string")[Len(h) + 1] = a
    BY <1>a, <2>2
  <2>6. NewString(h, s) = [json_object_new(h, "string") EXCEPT ![Len(h) + 1] = b]
    BY <2>3, <2>4, <2>5
  <2>7. NewString(h, s) = Append(h, b)
    BY <1>7, <2>2, <2>3, <2>6, <2>b
  <2> QED
    BY <2>a, <2>2, <2>3, <2>7, AppendHeap
<1> QED
  BY <1>4, <1>5, <1>8, <1>9

\* The heap g is h, but the table of object o holds K and V.
Tabbed(h, g, o, K, V) ==
    /\ HeapOk(g) /\ Len(g) = Len(h) /\ o \in 1 .. Len(h)
    /\ \A p \in 1 .. Len(h) : p # o => g[p] = h[p]
    /\ g[o].type = h[o].type /\ g[o].ref = h[o].ref /\ g[o].val = h[o].val
    /\ g[o].size = h[o].size /\ g[o].array = h[o].array
    /\ KeysOf(g[o].tab) = K /\ ValsOf(g[o].tab) = V

\* The heap g is h, but the array of object a has one more element x.
Pushed(h, g, a, x) ==
    /\ HeapOk(g) /\ Len(g) = Len(h) /\ a \in 1 .. Len(h)
    /\ \A p \in 1 .. Len(h) : p # a => g[p] = h[p]
    /\ g[a].type = h[a].type /\ g[a].ref = h[a].ref /\ g[a].val = h[a].val
    /\ g[a].tab = h[a].tab /\ g[a].array = Append(h[a].array, x)

\* A table is replaced.
LEMMA SetTab ==
    ASSUME NEW h, HeapOk(h), NEW o \in 1 .. Len(h), NEW t, NEW K, NEW V, Holds(t, K, V)
    PROVE  Tabbed(h, [h EXCEPT ![o].tab = t], o, K, V)
<1>1. h[o] \in Objects /\ ObjOk(h[o])
  BY DEF HeapOk
<1>2. t \in Tabs /\ TabOk(t) /\ KeysOf(t) = K /\ ValsOf(t) = V
  BY HoldsTabs, HoldsOf
<1>3. PICK y, x : y = h[o] /\ x = [y EXCEPT !.tab = t]
  OBVIOUS
<1>4. /\ x \in Objects /\ x.tab = t /\ x.type = y.type /\ x.ref = y.ref /\ x.val = y.val
      /\ x.size = y.size /\ x.array = y.array
  BY <1>1, <1>2, <1>3 DEF Objects
<1>5. ObjOk(x)
  BY <1>1, <1>2, <1>3, <1>4 DEF ObjOk
<1>6. PICK g : g = [h EXCEPT ![o] = x]
  OBVIOUS
<1>7. Changed(h, g, o, x)
  BY <1>4, <1>5, <1>6, ExceptHeap
<1>8. [h EXCEPT ![o].tab = t] = g
  BY <1>3, <1>6
<1>9. Tabbed(h, g, o, K, V)
  BY <1>2, <1>3, <1>4, <1>7 DEF Changed, Tabbed
<1> QED
  BY <1>8, <1>9

\* A field that is not there is added at the end.
LEMMA AddFresh ==
    ASSUME NEW h, HeapOk(h), NEW o \in 1 .. Len(h), NEW k \in Names, NEW v \in Nat,
           NEW K, NEW V, K = KeysOf(h[o].tab), V = ValsOf(h[o].tab),
           \A i \in 1 .. Len(K) : K[i] # k
    PROVE  /\ Tabbed(h, Add(h, o, k, v), o, Append(K, k), Append(V, v))
           /\ json_object_object_get(h, o, k) = NULL /\ Replaced(h, o, k) = <<>>
<1>1. PICK t : t = h[o].tab
  OBVIOUS
<1>2. Holds(t, K, V)
  BY <1>1 DEF HeapOk, ObjOk, TabOk
<1>3. lh_table_lookup_entry(t, k) = NULL /\ Holds(lh_table_insert(t, k, v), Append(K, k), Append(V, v))
  BY <1>2, AddNew
<1>4. PICK u : u = lh_table_insert(t, k, v)
  OBVIOUS
<1>5. Add(h, o, k, v) = [h EXCEPT ![o].tab = u]
  BY <1>1, <1>3, <1>4 DEF Add
<1>6. Tabbed(h, [h EXCEPT ![o].tab = u], o, Append(K, k), Append(V, v))
  BY <1>3, <1>4, SetTab
<1>7. json_object_object_get(h, o, k) = NULL
  BY <1>1, <1>3 DEF json_object_object_get
<1> QED
  BY <1>5, <1>6, <1>7 DEF Replaced

\* A field that is there is moved to the end, and its value is to be put.
LEMMA AddAgain ==
    ASSUME NEW h, HeapOk(h), NEW o \in 1 .. Len(h), NEW v \in Nat,
           NEW K, NEW V, K = KeysOf(h[o].tab), V = ValsOf(h[o].tab),
           NEW x \in 1 .. Len(K), NEW k, k = K[x]
    PROVE  /\ Tabbed(h, Add(h, o, k, v), o, Append(Drop(K, x), k), Append(Drop(V, x), v))
           /\ json_object_object_get(h, o, k) = V[x] /\ Replaced(h, o, k) = <<V[x]>>
<1>1. PICK t : t = h[o].tab
  OBVIOUS
<1>2. Holds(t, K, V)
  BY <1>1 DEF HeapOk, ObjOk, TabOk
<1>3. PICK n : n = lh_table_lookup_entry(t, k)
  OBVIOUS
<1>4. /\ Finds(t, K, V, k, x, n)
      /\ Holds(lh_table_insert(lh_table_delete_entry(t, n), k, v), Append(Drop(K, x), k), Append(Drop(V, x), v))
  BY <1>2, <1>3, AddOld
<1>5. n # NULL /\ t.v[n] = V[x]
  BY <1>4 DEF Finds
<1>6. PICK u : u = lh_table_insert(lh_table_delete_entry(t, n), k, v)
  OBVIOUS
<1>7. Add(h, o, k, v) = [h EXCEPT ![o].tab = u]
  BY <1>1, <1>3, <1>5, <1>6 DEF Add
<1>8. Tabbed(h, [h EXCEPT ![o].tab = u], o, Append(Drop(K, x), k), Append(Drop(V, x), v))
  BY <1>4, <1>6, SetTab
<1>9. json_object_object_get(h, o, k) = V[x]
  BY <1>1, <1>3, <1>5 DEF json_object_object_get
<1>10. V[x] # NULL
  <2>1. V \in Seq(Nat) /\ Len(K) = Len(V)
    BY <1>2, HoldsValues
  <2>2. V[x] \in Nat
    BY <2>1
  <2> QED
    BY <2>2, ConstantsAssumption
<1> QED
  BY <1>7, <1>8, <1>9, <1>10 DEF Replaced

\* An array grows before an element is written behind it.
LEMMA PushIs ==
    ASSUME NEW h, HeapOk(h), NEW a \in 1 .. Len(h), NEW x \in Nat
    PROVE  Pushed(h, json_object_array_add(h, a, x), a, x)
<1>1. h[a] \in Objects /\ ObjOk(h[a])
  BY DEF HeapOk
<1>2. PICK y, z : y = h[a] /\ z = IF Len(y.array) < y.size THEN y.size ELSE 2 * y.size
  OBVIOUS
<1>3. y.array \in Seq(Nat) /\ y.size \in Nat /\ y.size > 0 /\ Len(y.array) <= y.size
  BY <1>1, <1>2 DEF Objects, ObjOk
<1>4. PICK s : s = Append(y.array, x)
  OBVIOUS
<1>5. s \in Seq(Nat) /\ Len(s) = Len(y.array) + 1 /\ Len(y.array) \in Nat
  BY <1>3, <1>4
<1>6. z \in Nat /\ z > 0 /\ Len(s) <= z
  <2>1. PICK l, m : l = Len(y.array) /\ m = y.size
    OBVIOUS
  <2>2. l \in Nat /\ m \in Nat /\ m > 0 /\ l <= m /\ Len(s) = l + 1
    BY <1>3, <1>5, <2>1
  <2>3. z = IF l < m THEN m ELSE 2 * m
    BY <1>2, <2>1
  <2> QED
    BY <2>2, <2>3
<1>7. PICK w : w = [y EXCEPT !.array = s, !.size = z]
  OBVIOUS
<1>8. /\ w \in Objects /\ w.array = s /\ w.size = z /\ w.tab = y.tab /\ w.type = y.type /\ w.ref = y.ref
      /\ w.val = y.val
  BY <1>1, <1>2, <1>5, <1>6, <1>7 DEF Objects
<1>9. ObjOk(w)
  BY <1>1, <1>2, <1>6, <1>8 DEF ObjOk
<1>10. PICK g : g = [h EXCEPT ![a] = w]
  OBVIOUS
<1>11. Changed(h, g, a, w)
  BY <1>8, <1>9, <1>10, ExceptHeap
<1>12. json_object_array_add(h, a, x) = g
  <2>1. json_object_array_add(h, a, x) = [h EXCEPT ![a].array = s, ![a].size = z]
    BY <1>2, <1>4 DEF json_object_array_add, HeapOk, Objects
  <2>2. a \in DOMAIN h
    BY DEF HeapOk
  <2> QED
    BY <1>1, <1>2, <1>7, <1>10, <2>1, <2>2 DEF Objects
<1>13. Pushed(h, g, a, x)
  BY <1>2, <1>4, <1>8, <1>11 DEF Changed, Pushed
<1> QED
  BY <1>12, <1>13

-----------------------------------------------------------------------------
(* Who owns what in the heap *)

\* What object o contains.
Conts(h, o) ==
    IF h[o].type = "array" THEN h[o].array
    ELSE IF h[o].type = "object" THEN ValsOf(h[o].tab) ELSE <<>>

AllConts(h) == [o \in 1 .. Len(h) |-> Conts(h, o)]

\* The objects that are not freed.
LiveOf(h) == {o \in 1 .. Len(h) : h[o].ref = 1}

\* What is not freed has exactly one owner.
HeapOwn(h, P, U) == Own(Len(h), LiveOf(h), AllConts(h), P, U)

\* A new object belongs to its creator.
LEMMA HeapNew ==
    ASSUME NEW h, HeapOk(h), NEW P, NEW U, HeapOwn(h, P, U),
           NEW ty \in Types, NEW x \in Vals, ty = "string" => x \in Seq(Chars),
           NEW g, Created(h, g, NewObj(ty, x)), NEW m, m = Len(h) + 1
    PROVE  HeapOwn(g, P, U \union {m})
<1>1. PICK n : n = Len(h) /\ n \in Nat /\ m = n + 1
  BY DEF HeapOk
<1>2. PICK y : y = NewObj(ty, x)
  OBVIOUS
<1>3. y.ref = 1 /\ y.type = ty /\ y.array = <<>> /\ ValsOf(y.tab) = <<>>
  BY <1>2, NewObjIs DEF NewObj
<1>4. Len(g) = m /\ g[m] = y /\ \A o \in 1 .. n : g[o] = h[o]
  BY <1>1, <1>2 DEF Created
<1>5. \A o \in 1 .. m : o = m \/ (o \in 1 .. n /\ o # m)
  BY <1>1
<1>6. LiveOf(g) = LiveOf(h) \union {m}
  BY <1>1, <1>3, <1>4, <1>5 DEF LiveOf
<1>7. Conts(g, m) = <<>>
  BY <1>3, <1>4 DEF Conts
<1>8. \A o \in 1 .. n : Conts(g, o) = AllConts(h)[o]
  BY <1>1, <1>4 DEF Conts, AllConts
<1>9. AllConts(g) = [o \in 1 .. m |-> IF o = m THEN <<>> ELSE AllConts(h)[o]]
  <2>1. AllConts(g) = [o \in 1 .. m |-> Conts(g, o)]
    BY <1>4 DEF AllConts
  <2>2. ASSUME NEW o \in 1 .. m PROVE Conts(g, o) = IF o = m THEN <<>> ELSE AllConts(h)[o]
    BY <1>5, <1>7, <1>8
  <2> QED
    BY <2>1, <2>2
<1>10. Own(m, LiveOf(h) \union {m}, AllConts(g), P, U \union {m})
  <2>1. Own(n, LiveOf(h), AllConts(h), P, U)
    BY <1>1 DEF HeapOwn
  <2>2. PICK C, D, W : C = AllConts(h) /\ D = AllConts(g) /\ W = LiveOf(h)
    OBVIOUS
  <2>3. Own(n, W, C, P, U) /\ D = [o \in 1 .. m |-> IF o = m THEN <<>> ELSE C[o]]
    BY <1>9, <2>1, <2>2
  <2>4. Own(m, W \union {m}, D, P, U \union {m})
    BY <1>1, <2>3, OwnNew
  <2> QED
    BY <2>2, <2>4
<1> QED
  BY <1>4, <1>6, <1>10 DEF HeapOwn

\* Heaps that differ in what one object contains.
LEMMA ContsExcept ==
    ASSUME NEW h, HeapOk(h), NEW g, Len(g) = Len(h), NEW o \in 1 .. Len(h),
           \A p \in 1 .. Len(h) : p # o => g[p] = h[p],
           g[o].ref = h[o].ref, NEW D, Conts(g, o) = D
    PROVE  LiveOf(g) = LiveOf(h) /\ AllConts(g) = [AllConts(h) EXCEPT ![o] = D]
<1>1. PICK n : n = Len(h) /\ n \in Nat
  BY DEF HeapOk
<1>2. \A p \in 1 .. n : g[p].ref = h[p].ref
  BY <1>1
<1>3. LiveOf(g) = LiveOf(h)
  BY <1>1, <1>2 DEF LiveOf
<1>4. ASSUME NEW p \in 1 .. n PROVE Conts(g, p) = IF p = o THEN D ELSE Conts(h, p)
  BY <1>1 DEF Conts
<1>5. AllConts(g) = [p \in 1 .. n |-> Conts(g, p)] /\ AllConts(h) = [p \in 1 .. n |-> Conts(h, p)]
  BY <1>1 DEF AllConts
<1>6. AllConts(g) = [AllConts(h) EXCEPT ![o] = D]
  BY <1>1, <1>4, <1>5
<1> QED
  BY <1>3, <1>6

\* A field is added to an object.
LEMMA HeapAttach ==
    ASSUME NEW h, HeapOk(h), NEW P, NEW U, HeapOwn(h, P, U),
           NEW o \in LiveOf(h), h[o].type = "object", NEW u \in U, u > o,
           NEW g, NEW K, Tabbed(h, g, o, K, Append(ValsOf(h[o].tab), u))
    PROVE  HeapOwn(g, P, U \ {u})
<1>1. PICK D : D = Append(ValsOf(h[o].tab), u)
  OBVIOUS
<1>2. /\ Len(g) = Len(h) /\ o \in 1 .. Len(h)
      /\ \A p \in 1 .. Len(h) : p # o => g[p] = h[p]
      /\ g[o].ref = h[o].ref /\ g[o].type = "object" /\ ValsOf(g[o].tab) = D
  BY <1>1 DEF Tabbed
<1>3. Conts(g, o) = D /\ AllConts(h)[o] = ValsOf(h[o].tab)
  BY <1>2 DEF Conts, AllConts
<1>4. LiveOf(g) = LiveOf(h) /\ AllConts(g) = [AllConts(h) EXCEPT ![o] = D]
  BY <1>2, <1>3, ContsExcept
<1>5. PICK C, E : C = AllConts(h) /\ E = AllConts(g)
  OBVIOUS
<1>6. E = [C EXCEPT ![o] = Append(C[o], u)]
  BY <1>1, <1>3, <1>4, <1>5
<1>7. Own(Len(h), LiveOf(h), C, P, U)
  BY <1>5 DEF HeapOwn
<1>8. Own(Len(h), LiveOf(h), E, P, U \ {u})
  BY <1>6, <1>7, OwnAttach
<1> QED
  BY <1>2, <1>4, <1>5, <1>8 DEF HeapOwn

\* A field of an object is replaced.
LEMMA HeapReplace ==
    ASSUME NEW h, HeapOk(h), NEW U, HeapOwn(h, <<>>, U),
           NEW o \in LiveOf(h), h[o].type = "object", NEW u \in U, u > o,
           NEW x \in 1 .. Len(ValsOf(h[o].tab)),
           NEW g, NEW K, Tabbed(h, g, o, K, Append(Drop(ValsOf(h[o].tab), x), u))
    PROVE  HeapOwn(g, <<ValsOf(h[o].tab)[x]>>, U \ {u})
<1>1. PICK V, D : V = ValsOf(h[o].tab) /\ D = Append(Drop(V, x), u)
  OBVIOUS
<1>2. /\ Len(g) = Len(h) /\ o \in 1 .. Len(h)
      /\ \A p \in 1 .. Len(h) : p # o => g[p] = h[p]
      /\ g[o].ref = h[o].ref /\ g[o].type = "object" /\ ValsOf(g[o].tab) = D
  BY <1>1 DEF Tabbed
<1>3. Conts(g, o) = D /\ AllConts(h)[o] = V
  BY <1>1, <1>2 DEF Conts, AllConts
<1>4. LiveOf(g) = LiveOf(h) /\ AllConts(g) = [AllConts(h) EXCEPT ![o] = D]
  BY <1>2, <1>3, ContsExcept
<1>5. PICK C, B, E : C = AllConts(h) /\ B = [C EXCEPT ![o] = Drop(C[o], x)] /\ E = AllConts(g)
  OBVIOUS
<1>a. DOMAIN C = 1 .. Len(h)
  BY <1>5 DEF AllConts
<1>6. C[o] = V /\ B[o] = Drop(V, x) /\ x \in 1 .. Len(C[o])
  BY <1>1, <1>2, <1>3, <1>5, <1>a
<1>7. Own(Len(h), LiveOf(h), C, <<>>, U)
  BY <1>5 DEF HeapOwn
<1>8. Own(Len(h), LiveOf(h), B, <<C[o][x]>>, U)
  BY <1>5, <1>6, <1>7, OwnDetach
<1>9. E = [B EXCEPT ![o] = Append(B[o], u)]
  BY <1>1, <1>2, <1>4, <1>5, <1>6, <1>a
<1>10. Own(Len(h), LiveOf(h), E, <<C[o][x]>>, U \ {u})
  BY <1>8, <1>9, OwnAttach
<1> QED
  BY <1>1, <1>2, <1>4, <1>5, <1>6, <1>10 DEF HeapOwn

\* An element is added to an array.
LEMMA HeapPush ==
    ASSUME NEW h, HeapOk(h), NEW P, NEW U, HeapOwn(h, P, U),
           NEW a \in LiveOf(h), h[a].type = "array", NEW u \in U, u > a,
           NEW g, Pushed(h, g, a, u)
    PROVE  HeapOwn(g, P, U \ {u})
<1>1. PICK D : D = Append(h[a].array, u)
  OBVIOUS
<1>2. /\ Len(g) = Len(h) /\ a \in 1 .. Len(h)
      /\ \A p \in 1 .. Len(h) : p # a => g[p] = h[p]
      /\ g[a].ref = h[a].ref /\ g[a].type = "array" /\ g[a].array = D
  BY <1>1 DEF Pushed
<1>3. Conts(g, a) = D /\ AllConts(h)[a] = h[a].array
  BY <1>2 DEF Conts, AllConts
<1>4. LiveOf(g) = LiveOf(h) /\ AllConts(g) = [AllConts(h) EXCEPT ![a] = D]
  BY <1>2, <1>3, ContsExcept
<1>5. PICK C, E : C = AllConts(h) /\ E = AllConts(g)
  OBVIOUS
<1>6. E = [C EXCEPT ![a] = Append(C[a], u)]
  BY <1>1, <1>3, <1>4, <1>5
<1>7. Own(Len(h), LiveOf(h), C, P, U)
  BY <1>5 DEF HeapOwn
<1>8. Own(Len(h), LiveOf(h), E, P, U \ {u})
  BY <1>6, <1>7, OwnAttach
<1> QED
  BY <1>2, <1>4, <1>5, <1>8 DEF HeapOwn

\* The heap g is h without object o, whose contents are to be put.
PutDone(h, g, P, U, o) ==
    /\ o \in 1 .. Len(h) /\ h[o].ref = 1 /\ HeapOk(g) /\ HeapOwn(g, Conts(h, o) \o Tail(P), U)
    /\ Len(g) = Len(h)
    /\ \A p \in 1 .. Len(h) : /\ g[p].type = h[p].type /\ g[p].val = h[p].val
                              /\ g[p].tab = h[p].tab /\ g[p].array = h[p].array

\* json_object_put.
LEMMA HeapPut ==
    ASSUME NEW h, HeapOk(h), NEW P, NEW U, HeapOwn(h, P, U), P # <<>>,
           NEW o, o = Head(P), NEW g, g = [h EXCEPT ![o].ref = @ - 1]
    PROVE  PutDone(h, g, P, U, o)
<1>1. PICK n : n = Len(h) /\ n \in Nat
  BY DEF HeapOk
<1>2. o \in LiveOf(h)
  <2>1. P \in Seq(LiveOf(h))
    BY DEF HeapOwn, Own, OwnTypes
  <2> QED
    BY <2>1, TailIs
<1>3. o \in 1 .. n /\ h[o].ref = 1 /\ h[o] \in Objects /\ ObjOk(h[o])
  BY <1>1, <1>2 DEF LiveOf, HeapOk
<1>4. PICK y, x : y = h[o] /\ x = [y EXCEPT !.ref = 0]
  OBVIOUS
<1>5. /\ x \in Objects /\ x.ref = 0 /\ x.type = y.type /\ x.val = y.val /\ x.tab = y.tab /\ x.array = y.array
      /\ x.size = y.size
  BY <1>3, <1>4 DEF Objects
<1>6. ObjOk(x)
  BY <1>3, <1>4, <1>5 DEF ObjOk
<1>7. g = [h EXCEPT ![o] = x]
  BY <1>3, <1>4
<1>8. Changed(h, g, o, x)
  <2>1. o \in 1 .. Len(h)
    BY <1>1, <1>3
  <2>2. Changed(h, [h EXCEPT ![o] = x], o, x)
    BY <1>5, <1>6, <2>1, ExceptHeap
  <2> QED
    BY <1>7, <2>2
<1>9. HeapOk(g) /\ Len(g) = n /\ g[o] = x /\ \A p \in 1 .. n : p # o => g[p] = h[p]
  BY <1>1, <1>8 DEF Changed
<1>10. \A p \in 1 .. n : /\ g[p].type = h[p].type /\ g[p].val = h[p].val
                         /\ g[p].tab = h[p].tab /\ g[p].array = h[p].array
  BY <1>4, <1>5, <1>9
<1>11. \A p \in 1 .. n : Conts(g, p) = Conts(h, p)
  BY <1>10 DEF Conts
<1>12. AllConts(g) = AllConts(h) /\ AllConts(h)[o] = Conts(h, o)
  BY <1>1, <1>3, <1>9, <1>11 DEF AllConts
<1>13. LiveOf(g) = LiveOf(h) \ {o}
  BY <1>1, <1>3, <1>5, <1>9 DEF LiveOf
<1>14. PICK C : C = AllConts(h)
  OBVIOUS
<1>15. Own(n, LiveOf(h), C, P, U)
  BY <1>1, <1>14 DEF HeapOwn
<1>16. Own(n, LiveOf(h) \ {o}, C, C[o] \o Tail(P), U)
  BY <1>15, OwnPut
<1>17. HeapOwn(g, Conts(h, o) \o Tail(P), U)
  BY <1>9, <1>12, <1>13, <1>14, <1>16 DEF HeapOwn
<1> QED
  BY <1>1, <1>3, <1>9, <1>10, <1>17 DEF PutDone

-----------------------------------------------------------------------------
(* Arrays of strings *)

\* Object o is the string s.
StrAt(h, o, s) == o \in 1 .. Len(h) /\ h[o].type = "string" /\ h[o].val = s

\* Object a is an array of the strings S.
ArrOf(h, a, S) ==
    /\ a \in 1 .. Len(h) /\ h[a].type = "array" /\ Len(h[a].array) = Len(S)
    /\ \A i \in 1 .. Len(S) : StrAt(h, h[a].array[i], S[i])

\* The heap g is h with one more string s, at the end of array a.
StringPushed(h, g, a, s) ==
    /\ HeapOk(g) /\ Len(g) = Len(h) + 1 /\ StrAt(g, Len(h) + 1, s)
    /\ \A p \in 1 .. Len(h) : p # a => g[p] = h[p]
    /\ g[a].type = h[a].type /\ g[a].ref = h[a].ref /\ g[a].val = h[a].val
    /\ g[a].tab = h[a].tab /\ g[a].array = Append(h[a].array, Len(h) + 1)

\* A string is created and added to an array.
LEMMA PushString ==
    ASSUME NEW h, HeapOk(h), NEW P, NEW U, HeapOwn(h, P, U),
           NEW a \in LiveOf(h), h[a].type = "array", NEW s \in Seq(Chars),
           NEW g, g = json_object_array_add(NewString(h, s), a, Len(NewString(h, s)))
    PROVE  StringPushed(h, g, a, CString(s)) /\ HeapOwn(g, P, U)
<1>1. PICK n, u, x, c : n = Len(h) /\ u = n + 1 /\ x = NewString(h, s) /\ c = CString(s)
  OBVIOUS
<1>2. n \in Nat /\ a \in 1 .. n /\ u \in Nat /\ u > a /\ u \notin 1 .. n
  BY <1>1 DEF HeapOk, LiveOf
<1>3. Created(h, x, NewObj("string", c))
  BY <1>1, NewIs
<1>4. c \in Seq(Chars) /\ c \in Vals /\ "string" \in Types
  BY <1>1, CStringIs DEF Vals, Types
<1>5. HeapOwn(x, P, U \union {u})
  BY <1>1, <1>3, <1>4, HeapNew
<1>6. HeapOk(x) /\ Len(x) = u /\ x[u] = NewObj("string", c) /\ \A o \in 1 .. n : x[o] = h[o]
  BY <1>1, <1>3 DEF Created
<1>7. a \in 1 .. Len(x) /\ a \in LiveOf(x) /\ x[a] = h[a] /\ u \in 1 .. u
  BY <1>1, <1>2, <1>6 DEF LiveOf
<1>8. g = json_object_array_add(x, a, u)
  BY <1>1, <1>6
<1>9. Pushed(x, g, a, u)
  BY <1>2, <1>6, <1>7, <1>8, PushIs
<1>10. HeapOwn(g, P, (U \union {u}) \ {u})
  BY <1>2, <1>5, <1>6, <1>7, <1>9, HeapPush
<1>11. (U \union {u}) \ {u} = U
  <2>1. U \subseteq 1 .. n
    BY <1>1 DEF HeapOwn, Own, OwnTypes, LiveOf
  <2> QED
    BY <1>2, <2>1
<1>12. /\ HeapOk(g) /\ Len(g) = u /\ \A p \in 1 .. u : p # a => g[p] = x[p]
       /\ g[a].type = x[a].type /\ g[a].ref = x[a].ref /\ g[a].val = x[a].val
       /\ g[a].tab = x[a].tab /\ g[a].array = Append(x[a].array, u)
  BY <1>6, <1>9 DEF Pushed
<1>13. \A p \in 1 .. n : p \in 1 .. u
  BY <1>1, <1>2
<1>14. g[u] = NewObj("string", c)
  BY <1>2, <1>6, <1>7, <1>12
<1>15. StrAt(g, u, c)
  BY <1>7, <1>12, <1>14 DEF StrAt, NewObj
<1>16. StringPushed(h, g, a, c)
  BY <1>1, <1>6, <1>7, <1>12, <1>13, <1>15 DEF StringPushed
<1> QED
  BY <1>1, <1>10, <1>11, <1>16

\* The array has one more string.
LEMMA ArrGrows ==
    ASSUME NEW h, HeapOk(h), NEW a, NEW E, NEW S \in Seq(E), NEW s \in E, ArrOf(h, a, S),
           NEW g, StringPushed(h, g, a, s)
    PROVE  ArrOf(g, a, Append(S, s))
<1>1. PICK n, m, A, R : n = Len(h) /\ m = Len(S) /\ A = h[a].array /\ R = Append(S, s)
  OBVIOUS
<1>2. n \in Nat /\ m \in Nat /\ a \in 1 .. n /\ h[a].type = "array" /\ Len(A) = m
  BY <1>1 DEF HeapOk, ArrOf
<1>3. h[a] \in Objects
  BY <1>1, <1>2 DEF HeapOk
<1>4. A \in Seq(Nat)
  BY <1>1, <1>3 DEF Objects
<1>5. \A i \in 1 .. m : A[i] \in 1 .. n /\ h[A[i]].type = "string" /\ h[A[i]].val = S[i]
  BY <1>1 DEF ArrOf, StrAt
<1>6. Len(R) = m + 1 /\ R[m + 1] = s /\ \A i \in 1 .. m : R[i] = S[i]
  BY <1>1, <1>2
<1>7. PICK B : B = Append(A, n + 1)
  OBVIOUS
<1>8. Len(B) = m + 1 /\ B[m + 1] = n + 1 /\ \A i \in 1 .. m : B[i] = A[i]
  BY <1>2, <1>4, <1>7
<1>9. /\ Len(g) = n + 1 /\ StrAt(g, n + 1, s) /\ g[a].type = "array" /\ g[a].array = B
      /\ \A p \in 1 .. n : p # a => g[p] = h[p]
  BY <1>1, <1>2, <1>7 DEF StringPushed
<1>10. ASSUME NEW i \in 1 .. m + 1 PROVE StrAt(g, B[i], R[i])
  <2>1. CASE i = m + 1
    BY <1>6, <1>8, <1>9, <2>1
  <2>2. CASE i # m + 1
    <3>1. i \in 1 .. m
      BY <1>2, <2>2
    <3>2. B[i] = A[i] /\ R[i] = S[i] /\ A[i] \in 1 .. n /\ h[A[i]].type = "string" /\ h[A[i]].val = S[i]
      BY <1>5, <1>6, <1>8, <3>1
    <3>3. A[i] # a
      BY <1>2, <3>2
    <3>4. g[A[i]] = h[A[i]] /\ A[i] \in 1 .. n + 1
      BY <1>2, <1>9, <3>2, <3>3
    <3> QED
      BY <1>9, <3>2, <3>4 DEF StrAt
  <2> QED
    BY <2>1, <2>2
<1>11. a \in 1 .. n + 1
  BY <1>2
<1>12. ArrOf(g, a, R)
  BY <1>6, <1>8, <1>9, <1>10, <1>11 DEF ArrOf
<1> QED
  BY <1>1, <1>12

\* An array is the same in a heap in which it and its strings are the same.
LEMMA ArrKept ==
    ASSUME NEW h, NEW a, NEW S, ArrOf(h, a, S), NEW g, Len(h) <= Len(g), Len(h) \in Nat, Len(g) \in Nat,
           \A p \in 1 .. Len(h) : h[p].type = "string" \/ p = a =>
                /\ g[p].type = h[p].type /\ g[p].val = h[p].val /\ g[p].array = h[p].array
    PROVE  ArrOf(g, a, S)
<1>1. \A p \in 1 .. Len(h) : p \in 1 .. Len(g)
  OBVIOUS
<1>2. a \in 1 .. Len(g) /\ g[a].type = "array" /\ g[a].array = h[a].array /\ Len(h[a].array) = Len(S)
  BY <1>1 DEF ArrOf
<1>3. ASSUME NEW i \in 1 .. Len(S) PROVE StrAt(g, h[a].array[i], S[i])
  <2>1. StrAt(h, h[a].array[i], S[i])
    BY DEF ArrOf
  <2> QED
    BY <1>1, <2>1 DEF StrAt
<1> QED
  BY <1>2, <1>3 DEF ArrOf

\* Consumer ids are strings of the library.
LEMMA IdsAre ==
    ASSUME NEW q \in QIds
    PROVE  /\ ConsumersOf[q] \in Seq(Chars)
           /\ \A i \in 1 .. Len(ConsumersOf[q]) : /\ <<ConsumersOf[q][i]>> \in Seq(Chars)
                                                  /\ CString(<<ConsumersOf[q][i]>>) = <<ConsumersOf[q][i]>>
<1>1. PICK s : s = ConsumersOf[q]
  OBVIOUS
<1>2. IsSeq(s) /\ \A i \in DOMAIN s : s[i] # "NUL"
  BY <1>1, ConstantsAssumption
<1>3. PICK E : E = {s[i] : i \in DOMAIN s}
  OBVIOUS
<1>4. s \in Seq(E)
  BY <1>2, <1>3 DEF IsSeq
<1>5. E \subseteq Chars
  BY <1>1, <1>3 DEF Chars
<1>6. s \in Seq(Chars)
  BY <1>4, <1>5
<1>7. ASSUME NEW i \in 1 .. Len(s) PROVE <<s[i]>> \in Seq(Chars) /\ CString(<<s[i]>>) = <<s[i]>>
  <2>1. i \in DOMAIN s /\ s[i] \in Chars
    BY <1>6
  <2>2. PICK c, w : c = s[i] /\ w = <<c>>
    OBVIOUS
  <2>3. c # "NUL" /\ c \in Chars
    BY <1>2, <2>1, <2>2
  <2>4. w \in Seq(Chars) /\ Len(w) = 1 /\ w[1] = c /\ DOMAIN w = {1}
    BY <2>2, <2>3
  <2>5. {j \in DOMAIN w : w[j] = "NUL"} = {}
    BY <2>3, <2>4
  <2>6. CString(w) = w
    BY <2>5 DEF CString
  <2> QED
    BY <2>2, <2>4, <2>6
<1> QED
  BY <1>1, <1>6, <1>7

\* One round of the loop over consumers.
ConsumerAdded(g, a, id) ==
    LET x == NewString(g, <<id>>) IN json_object_array_add(x, a, Len(x))

\* The equation of WithConsumers, for the first m consumers.
Gathers(h, q, f, m) ==
    f = [i \in 0 .. m |-> IF i = 0 THEN NewArray(h)
                          ELSE ConsumerAdded(f[i - 1], Len(h) + 1, ConsumersOf[q][i])]

\* It has a solution.
LEMMA GatherExists ==
    ASSUME NEW h, NEW q, NEW n \in Nat
    PROVE  \E f : Gathers(h, q, f, n)
<1> DEFINE S == {m \in 0 .. n : \E f : Gathers(h, q, f, m)}
<1>1. 0 \in S
  <2>1. PICK f : f = [i \in 0 .. 0 |-> NewArray(h)]
    OBVIOUS
  <2>2. Gathers(h, q, f, 0)
    BY <2>1 DEF Gathers
  <2> QED
    BY <2>2
<1>2. ASSUME NEW m \in 0 .. n - 1, m \in S PROVE m + 1 \in S
  <2>1. PICK f : Gathers(h, q, f, m)
    BY <1>2
  <2>2. PICK x : x = ConsumerAdded(f[m], Len(h) + 1, ConsumersOf[q][m + 1])
    OBVIOUS
  <2>3. PICK g : g = [i \in 0 .. m + 1 |-> IF i = m + 1 THEN x ELSE f[i]]
    OBVIOUS
  <2>4. ASSUME NEW i \in 0 .. m + 1
        PROVE  g[i] = IF i = 0 THEN NewArray(h)
                      ELSE ConsumerAdded(g[i - 1], Len(h) + 1, ConsumersOf[q][i])
    <3>1. CASE i = m + 1
      <4>1. i # 0 /\ i - 1 = m /\ m \in 0 .. m + 1 /\ m # m + 1
        BY <3>1
      <4>2. g[i - 1] = f[m] /\ g[i] = x
        BY <2>3, <3>1, <4>1
      <4> QED
        BY <2>2, <3>1, <4>1, <4>2
    <3>2. CASE i # m + 1
      <4>1. i \in 0 .. m /\ g[i] = f[i]
        BY <2>3, <3>2
      <4>2. f[i] = IF i = 0 THEN NewArray(h)
                   ELSE ConsumerAdded(f[i - 1], Len(h) + 1, ConsumersOf[q][i])
        BY <2>1, <4>1 DEF Gathers
      <4>3. i # 0 => g[i - 1] = f[i - 1]
        BY <2>3, <4>1
      <4> QED
        BY <4>1, <4>2, <4>3
    <3> QED
      BY <3>1, <3>2
  <2>5. g = [i \in 0 .. m + 1 |-> g[i]]
    BY <2>3
  <2>6. Gathers(h, q, g, m + 1)
    BY <2>4, <2>5 DEF Gathers
  <2>7. m + 1 \in 0 .. n
    OBVIOUS
  <2> QED
    BY <2>6, <2>7
<1> HIDE DEF S
<1>3. n \in 0 .. n /\ \A i \in 0 .. n : i \in S
  BY <1>1, <1>2, Upto
<1> QED
  BY <1>3 DEF S

\* The first m consumers of q, as strings.
IdsUpto(q, m) == [i \in 1 .. m |-> <<ConsumersOf[q][i]>>]

\* The first m consumers are in array a behind the heap h.
Gathered(h, P, U, q, m, a, g) ==
    /\ HeapOk(g) /\ Len(h) < Len(g) /\ \A p \in 1 .. Len(h) : g[p] = h[p]
    /\ ArrOf(g, a, IdsUpto(q, m)) /\ HeapOwn(g, P, U \union {a})

\* One round adds one.
LEMMA GatherStep ==
    ASSUME NEW h, HeapOk(h), NEW P, NEW U, NEW q \in QIds, NEW m \in 0 .. Len(ConsumersOf[q]) - 1,
           NEW a, a = Len(h) + 1, NEW g, Gathered(h, P, U, q, m, a, g)
    PROVE  Gathered(h, P, U, q, m + 1, a, ConsumerAdded(g, a, ConsumersOf[q][m + 1]))
<1>1. PICK n, s, c : n = Len(h) /\ s = ConsumersOf[q] /\ c = <<s[m + 1]>>
  OBVIOUS
<1>2. n \in Nat /\ a = n + 1
  BY <1>1 DEF HeapOk
<1>3. s \in Seq(Chars) /\ \A i \in 1 .. Len(s) : <<s[i]>> \in Seq(Chars) /\ CString(<<s[i]>>) = <<s[i]>>
  BY <1>1, IdsAre
<1>4. Len(s) \in Nat
  BY <1>3
<1>5. m + 1 \in 1 .. Len(s) /\ m \in Nat
  BY <1>1, <1>4
<1>6. c \in Seq(Chars) /\ CString(c) = c
  BY <1>1, <1>3, <1>5
<1>7. PICK w : w = ConsumerAdded(g, a, s[m + 1])
  OBVIOUS
<1>8. w = json_object_array_add(NewString(g, c), a, Len(NewString(g, c)))
  BY <1>1, <1>7 DEF ConsumerAdded
<1>9. /\ HeapOk(g) /\ n < Len(g) /\ (\A p \in 1 .. n : g[p] = h[p])
      /\ ArrOf(g, a, IdsUpto(q, m)) /\ HeapOwn(g, P, U \union {a})
  BY <1>1 DEF Gathered
<1>10. a \in LiveOf(g) /\ g[a].type = "array" /\ Len(g) \in Nat
  BY <1>9 DEF HeapOwn, Own, OwnTypes, ArrOf
<1>11. StringPushed(g, w, a, c) /\ HeapOwn(w, P, U \union {a})
  BY <1>6, <1>8, <1>9, <1>10, PushString
<1>12. PICK E, S, R : E = Seq(Chars) /\ S = IdsUpto(q, m) /\ R = IdsUpto(q, m + 1)
  OBVIOUS
<1>13. S = [i \in 1 .. m |-> <<s[i]>>] /\ R = [i \in 1 .. m + 1 |-> <<s[i]>>]
  BY <1>1, <1>12 DEF IdsUpto
<1>14. \A i \in 1 .. m + 1 : <<s[i]>> \in E
  <2>1. \A i \in 1 .. m + 1 : i \in 1 .. Len(s)
    BY <1>4, <1>5
  <2> QED
    BY <1>3, <1>12, <2>1
<1>15. \A i \in 1 .. m : i \in 1 .. m + 1
  BY <1>5
<1>16. S \in Seq(E) /\ R \in Seq(E) /\ Len(S) = m /\ Len(R) = m + 1
  BY <1>5, <1>13, <1>14, <1>15
<1>17. R = Append(S, c)
  <2>1. PICK B : B = Append(S, c)
    OBVIOUS
  <2>2. B \in Seq(E) /\ Len(B) = m + 1 /\ B[m + 1] = c /\ \A i \in 1 .. m : B[i] = S[i]
    BY <1>5, <1>6, <1>12, <1>16, <2>1
  <2>3. ASSUME NEW i \in 1 .. m + 1 PROVE R[i] = B[i]
    <3>1. i = m + 1 \/ i \in 1 .. m
      BY <1>5
    <3> QED
      BY <1>1, <1>13, <2>2, <3>1
  <2> QED
    BY <1>16, <2>1, <2>2, <2>3, SeqEqual
<1>18. ArrOf(w, a, R)
  BY <1>6, <1>9, <1>11, <1>12, <1>16, <1>17, ArrGrows
<1>19. HeapOk(w) /\ Len(w) = Len(g) + 1 /\ \A p \in 1 .. Len(g) : p # a => w[p] = g[p]
  BY <1>11 DEF StringPushed
<1>20. \A p \in 1 .. n : p \in 1 .. Len(g) /\ p # a
  BY <1>2, <1>9, <1>10
<1>21. n < Len(w) /\ \A p \in 1 .. n : w[p] = h[p]
  BY <1>2, <1>9, <1>10, <1>19, <1>20
<1>22. Gathered(h, P, U, q, m + 1, a, w)
  BY <1>1, <1>11, <1>12, <1>18, <1>19, <1>21 DEF Gathered
<1> QED
  BY <1>1, <1>7, <1>22

\* The consumers of a queue become an array.
LEMMA ConsumersGathered ==
    ASSUME NEW h, HeapOk(h), NEW P, NEW U, HeapOwn(h, P, U), NEW q \in QIds, NEW a, a = Len(h) + 1
    PROVE  Gathered(h, P, U, q, Len(ConsumersOf[q]), a, WithConsumers(h, q))
<1>1. PICK c : c = Len(ConsumersOf[q]) /\ c \in Nat
  <2>1. ConsumersOf[q] \in Seq(Chars)
    BY IdsAre
  <2> QED
    BY <2>1
<1>2. PICK f : f = CHOOSE x : Gathers(h, q, x, c)
  OBVIOUS
<1>3. WithConsumers(h, q) = f[c]
  BY <1>1, <1>2 DEF WithConsumers, Gathers, ConsumerAdded
<1>4. Gathers(h, q, f, c)
  BY <1>1, <1>2, GatherExists
<1>5. \A i \in 0 .. c : f[i] = IF i = 0 THEN NewArray(h) ELSE ConsumerAdded(f[i - 1], a, ConsumersOf[q][i])
  BY <1>4 DEF Gathers
<1> DEFINE S == {m \in 0 .. c : Gathered(h, P, U, q, m, a, f[m])}
<1>6. 0 \in S
  <2>1. f[0] = NewArray(h) /\ 0 \in 0 .. c
    BY <1>1, <1>5
  <2>2. PICK g, n : g = NewArray(h) /\ n = Len(h)
    OBVIOUS
  <2>3. n \in Nat /\ a = n + 1
    BY <2>2 DEF HeapOk
  <2>4. Created(h, g, NewObj("array", NULL))
    BY <2>2, NewIs
  <2>5. HeapOk(g) /\ Len(g) = a /\ g[a] = NewObj("array", NULL) /\ \A p \in 1 .. n : g[p] = h[p]
    BY <2>2, <2>3, <2>4 DEF Created
  <2>6. "array" \in Types /\ NULL \in Vals /\ "array" # "string"
    BY DEF Types, Vals
  <2>7. HeapOwn(g, P, U \union {a})
    BY <2>2, <2>3, <2>4, <2>6, HeapNew
  <2>8. PICK e : e = <<>>
    OBVIOUS
  <2>9. Len(e) = 0 /\ e = IdsUpto(q, 0)
    BY <2>8 DEF IdsUpto
  <2>10. g[a].type = "array" /\ g[a].array = e
    BY <2>5, <2>8 DEF NewObj
  <2>11. ArrOf(g, a, e)
    BY <2>3, <2>5, <2>9, <2>10 DEF ArrOf
  <2>12. Gathered(h, P, U, q, 0, a, g)
    BY <2>2, <2>3, <2>5, <2>7, <2>9, <2>11 DEF Gathered
  <2> QED
    BY <2>1, <2>2, <2>12
<1>7. ASSUME NEW m \in 0 .. c - 1, m \in S PROVE m + 1 \in S
  <2>1. m + 1 \in 0 .. c /\ m + 1 # 0 /\ m + 1 - 1 = m /\ m \in 0 .. Len(ConsumersOf[q]) - 1
    BY <1>1
  <2>2. f[m + 1] = ConsumerAdded(f[m], a, ConsumersOf[q][m + 1])
    BY <1>5, <2>1
  <2>3. Gathered(h, P, U, q, m, a, f[m])
    BY <1>7
  <2>4. Gathered(h, P, U, q, m + 1, a, f[m + 1])
    BY <2>1, <2>2, <2>3, GatherStep
  <2> QED
    BY <2>1, <2>4
<1> HIDE DEF S
<1>8. \A i \in 0 .. c : i \in S
  BY <1>1, <1>6, <1>7, Upto
<1>9. c \in S
  BY <1>1, <1>8
<1> QED
  BY <1>1, <1>3, <1>9 DEF S

-----------------------------------------------------------------------------
(* Queue objects *)

\* A second element.
LEMMA AppendTwo ==
    ASSUME NEW x, NEW y
    PROVE  Append(<<x>>, y) = <<x, y>>
<1>1. PICK S : S = {x, y}
  OBVIOUS
<1>2. PICK s : s = <<x>>
  OBVIOUS
<1>3. s \in Seq(S) /\ Len(s) = 1 /\ s[1] = x /\ y \in S
  BY <1>1, <1>2
<1>4. PICK t : t = <<x, y>>
  OBVIOUS
<1>5. t \in Seq(S) /\ Len(t) = 2 /\ t[1] = x /\ t[2] = y
  BY <1>1, <1>4
<1>6. PICK r : r = Append(s, y)
  OBVIOUS
<1>7. r \in Seq(S) /\ Len(r) = Len(s) + 1 /\ r[Len(s) + 1] = y /\ \A i \in 1 .. Len(s) : r[i] = s[i]
  <2>1. s \in Seq(S) /\ y \in S
    BY <1>3
  <2> QED
    BY <1>6, <2>1, AppendProperties
<1>8. r[1] = x /\ r[2] = y /\ Len(r) = 2
  <2>1. 1 \in 1 .. Len(s) /\ Len(s) + 1 = 2
    BY <1>3
  <2> QED
    BY <1>3, <1>7, <2>1
<1>9. r = t
  <2>1. \A i \in 1 .. 2 : i = 1 \/ i = 2
    OBVIOUS
  <2> QED
    BY <1>5, <1>7, <1>8, <2>1, SeqEqual
<1> QED
  BY <1>2, <1>4, <1>6, <1>9

\* The keys K do not have k.
NoKey(K, k) == \A i \in 1 .. Len(K) : K[i] # k

\* The heap g is h with the field k of object o, whose value u was the code's.
Attached(h, g, P, U, o, k, u, K, V) ==
    /\ Tabbed(h, g, o, Append(K, k), Append(V, u)) /\ HeapOwn(g, P, U \ {u})
    /\ json_object_object_get(h, o, k) = NULL /\ Replaced(h, o, k) = <<>>

\* A field that is not there is added, with a value that belongs to the code.
LEMMA AttachField ==
    ASSUME NEW h, HeapOk(h), NEW P, NEW U, HeapOwn(h, P, U),
           NEW o, o \in LiveOf(h), h[o].type = "object", NEW u, u \in U, u > o, NEW k, k \in Names,
           NEW K, NEW V, K = KeysOf(h[o].tab), V = ValsOf(h[o].tab),
           NoKey(K, k), NEW g, g = Add(h, o, k, u)
    PROVE  Attached(h, g, P, U, o, k, u, K, V)
<1>1. o \in 1 .. Len(h) /\ u \in Nat
  BY DEF LiveOf, HeapOwn, Own, OwnTypes
<1>2. /\ Tabbed(h, g, o, Append(K, k), Append(V, u))
      /\ json_object_object_get(h, o, k) = NULL /\ Replaced(h, o, k) = <<>>
  BY <1>1, AddFresh DEF NoKey
<1>3. HeapOwn(g, P, U \ {u})
  BY <1>2, HeapAttach
<1> QED
  BY <1>2, <1>3 DEF Attached

\* The heap g is h with an object m of type ty and value x, which is the code's.
CreatedOwned(h, g, P, U, ty, x, m) ==
    /\ HeapOk(g) /\ Len(g) = m /\ m \in Nat /\ m \in LiveOf(g) /\ m \notin U
    /\ LiveOf(h) \subseteq LiveOf(g)
    /\ HeapOwn(g, P, U \union {m})
    /\ \A p \in 1 .. Len(h) : g[p] = h[p]
    /\ g[m].type = ty /\ g[m].val = x /\ g[m].array = <<>>
    /\ KeysOf(g[m].tab) = <<>> /\ ValsOf(g[m].tab) = <<>>

\* An object is created and belongs to the code.
LEMMA CreateOwned ==
    ASSUME NEW h, HeapOk(h), NEW P, NEW U, HeapOwn(h, P, U),
           NEW ty, ty \in Types, NEW x, x \in Vals, ty = "string" => x \in Seq(Chars),
           NEW g, Created(h, g, NewObj(ty, x)), NEW m, m = Len(h) + 1
    PROVE  CreatedOwned(h, g, P, U, ty, x, m)
<1>1. Len(h) \in Nat /\ m = Len(h) + 1
  BY DEF HeapOk
<1>2. HeapOwn(g, P, U \union {m})
  BY HeapNew
<1>3. HeapOk(g) /\ Len(g) = m /\ g[m] = NewObj(ty, x) /\ \A p \in 1 .. Len(h) : g[p] = h[p]
  BY DEF Created
<1>4. KeysOf(g[m].tab) = <<>> /\ ValsOf(g[m].tab) = <<>>
  BY <1>3, NewObjIs
<1>5. m \in LiveOf(g)
  BY <1>2 DEF HeapOwn, Own, OwnTypes
<1>6. U \subseteq 1 .. Len(h)
  BY DEF HeapOwn, Own, OwnTypes, LiveOf
<1>7. m \notin U
  BY <1>1, <1>6
<1>8. LiveOf(h) \subseteq LiveOf(g)
  BY <1>1, <1>3 DEF LiveOf
<1> QED
  BY <1>1, <1>2, <1>3, <1>4, <1>5, <1>7, <1>8 DEF NewObj, CreatedOwned

\* Object o is the object of queue q, with the messages M.
QueueAt(h, o, q, M) ==
    /\ o \in 1 .. Len(h) /\ h[o].type = "object"
    /\ KeysOf(h[o].tab) = IF q \in included THEN <<"messages", "rev", "consumers">> ELSE <<"messages", "rev">>
    /\ ArrOf(h, ValsOf(h[o].tab)[1], M)
    /\ LET i == ValsOf(h[o].tab)[2] IN i \in 1 .. Len(h) /\ h[i].type = "int" /\ h[i].val = "rev"
    /\ q \in included => ArrOf(h, ValsOf(h[o].tab)[3], IdsUpto(q, Len(ConsumersOf[q])))

\* The heap g is h with a new object o for queue q, in object r.
QueueMade(h, g, r, q, o) ==
    /\ HeapOk(g) /\ Len(h) < Len(g)
    /\ \A p \in 1 .. Len(h) : p # r => g[p] = h[p]
    /\ g[r].type = h[r].type /\ g[r].ref = h[r].ref
    /\ KeysOf(g[r].tab) = Append(KeysOf(h[r].tab), q) /\ ValsOf(g[r].tab) = Append(ValsOf(h[r].tab), o)
    /\ QueueAt(g, o, q, <<>>) /\ ValsOf(g[o].tab)[1] = o + 1

\* Names of fields.
LEMMA FieldNames ==
    /\ {"messages", "rev", "consumers", "version", "ret", "results"} \subseteq Names
    /\ QIds \subseteq Names /\ Fields \subseteq Names /\ Names \subseteq Vals /\ NULL \in Vals
    /\ Types = {"object", "array", "string", "int"}
  BY ConstantsAssumption DEF Names, Vals, Types

\* What NewQueueObject makes before the consumers.
QueueBegun(h, g, r, q, o) ==
    /\ HeapOk(g) /\ Len(g) = Len(h) + 3
    /\ \A p \in 1 .. Len(h) : p # r => g[p] = h[p]
    /\ g[r].type = h[r].type /\ g[r].ref = h[r].ref
    /\ KeysOf(g[r].tab) = Append(KeysOf(h[r].tab), q) /\ ValsOf(g[r].tab) = Append(ValsOf(h[r].tab), o)
    /\ o \in LiveOf(g) /\ g[o].type = "object"
    /\ KeysOf(g[o].tab) = <<"messages", "rev">> /\ ValsOf(g[o].tab) = <<o + 1, o + 2>>
    /\ g[o + 1].type = "array" /\ g[o + 1].array = <<>>
    /\ g[o + 2].type = "int" /\ g[o + 2].val = "rev"

\* The object of a queue, with messages and rev.
LEMMA QueueBegins ==
    ASSUME NEW h, HeapOk(h), NEW P, NEW U, HeapOwn(h, P, U),
           NEW r \in LiveOf(h), h[r].type = "object", NEW q \in QIds,
           NoKey(KeysOf(h[r].tab), q),
           NEW o, o = Len(h) + 1,
           NEW h1, h1 = NewArray(NewObject(h)), NEW h2, h2 = Add(h1, o, "messages", o + 1),
           NEW h3, h3 = Add(NewInt(h2, "rev"), o, "rev", o + 2), NEW h4, h4 = Add(h3, r, q, o)
    PROVE  QueueBegun(h, h4, r, q, o) /\ HeapOwn(h4, P, U)
<1>1. PICK n : n = Len(h) /\ n \in Nat /\ o = n + 1
  BY DEF HeapOk
<1>2. r \in 1 .. n /\ r # o /\ U \subseteq 1 .. n
  BY <1>1 DEF LiveOf, HeapOwn, Own, OwnTypes
<1>3. PICK a, b : a = o + 1 /\ b = o + 2
  OBVIOUS
<1>4. PICK e : e = <<>>
  OBVIOUS
<1>5. PICK h0 : h0 = NewObject(h)
  OBVIOUS
<1>6. /\ HeapOk(h0) /\ Len(h0) = o /\ o \in LiveOf(h0) /\ LiveOf(h) \subseteq LiveOf(h0)
      /\ HeapOwn(h0, P, U \union {o}) /\ (\A p \in 1 .. n : h0[p] = h[p])
      /\ h0[o].type = "object" /\ KeysOf(h0[o].tab) = e /\ ValsOf(h0[o].tab) = e
  <2>1. Created(h, h0, NewObj("object", NULL)) /\ "object" \in Types /\ NULL \in Vals /\ "object" # "string"
    BY <1>5, NewIs, FieldNames
  <2>2. CreatedOwned(h, h0, P, U, "object", NULL, o)
    BY <2>1, CreateOwned
  <2> QED
    BY <1>1, <1>4, <2>2 DEF CreatedOwned
<1>7. /\ HeapOk(h1) /\ Len(h1) = a /\ a \in LiveOf(h1) /\ LiveOf(h0) \subseteq LiveOf(h1)
      /\ HeapOwn(h1, P, (U \union {o}) \union {a}) /\ (\A p \in 1 .. o : h1[p] = h0[p])
      /\ h1[a].type = "array" /\ h1[a].array = e
  <2>1. Created(h0, h1, NewObj("array", NULL)) /\ "array" \in Types /\ NULL \in Vals /\ "array" # "string"
    BY <1>5, <1>6, NewIs, FieldNames
  <2>2. a = Len(h0) + 1
    BY <1>3, <1>6
  <2>3. CreatedOwned(h0, h1, P, U \union {o}, "array", NULL, a)
    BY <1>6, <2>1, <2>2, CreateOwned
  <2> QED
    BY <1>4, <1>6, <2>3 DEF CreatedOwned
<1>8. o \in 1 .. o /\ a > o /\ b > o /\ o > r /\ o \in Nat /\ a \in Nat /\ b \in Nat /\ a # o /\ b # o /\ b # a
  BY <1>1, <1>2, <1>3
<1>9. /\ o \in LiveOf(h1) /\ h1[o].type = "object" /\ KeysOf(h1[o].tab) = e /\ ValsOf(h1[o].tab) = e
      /\ Len(e) = 0
  BY <1>4, <1>6, <1>7, <1>8
<1>10. /\ Tabbed(h1, h2, o, Append(e, "messages"), Append(e, a))
       /\ HeapOwn(h2, P, ((U \union {o}) \union {a}) \ {a})
  <2>1. a \in (U \union {o}) \union {a} /\ "messages" \in Names /\ h2 = Add(h1, o, "messages", a)
    BY <1>3, FieldNames
  <2>2. NoKey(e, "messages")
    BY <1>9 DEF NoKey
  <2>3. Attached(h1, h2, P, (U \union {o}) \union {a}, o, "messages", a, e, e)
    BY <1>7, <1>8, <1>9, <2>1, <2>2, AttachField
  <2> QED
    BY <2>3 DEF Attached
<1>11. /\ HeapOk(h2) /\ Len(h2) = a /\ (\A p \in 1 .. a : p # o => h2[p] = h1[p])
       /\ h2[o].type = "object" /\ h2[o].ref = h1[o].ref
       /\ KeysOf(h2[o].tab) = <<"messages">> /\ ValsOf(h2[o].tab) = <<a>>
       /\ HeapOwn(h2, P, U \union {o})
  <2>1. ((U \union {o}) \union {a}) \ {a} = U \union {o}
    <3>1. a \notin 1 .. n
      BY <1>1, <1>3
    <3> QED
      BY <1>2, <1>8, <3>1
  <2>2. Append(e, "messages") = <<"messages">> /\ Append(e, a) = <<a>>
    BY <1>4
  <2> QED
    BY <1>7, <1>9, <1>10, <2>1, <2>2 DEF Tabbed
<1>12. PICK x : x = NewInt(h2, "rev")
  OBVIOUS
<1>13. /\ HeapOk(x) /\ Len(x) = b /\ b \in LiveOf(x) /\ LiveOf(h2) \subseteq LiveOf(x)
       /\ HeapOwn(x, P, (U \union {o}) \union {b}) /\ (\A p \in 1 .. a : x[p] = h2[p])
       /\ x[b].type = "int" /\ x[b].val = "rev"
  <2>1. Created(h2, x, NewObj("int", "rev")) /\ "int" \in Types /\ "rev" \in Vals /\ "int" # "string"
    BY <1>11, <1>12, NewIs, FieldNames
  <2>2. b = Len(h2) + 1
    BY <1>3, <1>8, <1>11
  <2>3. CreatedOwned(h2, x, P, U \union {o}, "int", "rev", b)
    BY <1>11, <2>1, <2>2, CreateOwned
  <2> QED
    BY <1>11, <2>3 DEF CreatedOwned
<1>14. PICK K, V : K = <<"messages">> /\ V = <<a>>
  OBVIOUS
<1>15. Len(K) = 1 /\ K[1] = "messages" /\ Len(V) = 1 /\ V[1] = a
  BY <1>14
<1>16. o \in LiveOf(x) /\ x[o].type = "object" /\ KeysOf(x[o].tab) = K /\ ValsOf(x[o].tab) = V /\ o \in 1 .. a
  <2>1. o \in LiveOf(x)
    BY <1>13 DEF HeapOwn, Own, OwnTypes
  <2>2. o \in 1 .. a
    BY <1>3, <1>8
  <2> QED
    BY <1>11, <1>13, <1>14, <2>1, <2>2
<1>17. /\ Tabbed(x, h3, o, Append(K, "rev"), Append(V, b))
       /\ HeapOwn(h3, P, ((U \union {o}) \union {b}) \ {b})
  <2>1. b \in (U \union {o}) \union {b} /\ "rev" \in Names /\ h3 = Add(x, o, "rev", b)
    BY <1>3, <1>12, FieldNames
  <2>2. NoKey(K, "rev")
    BY <1>15 DEF NoKey
  <2>3. K = KeysOf(x[o].tab) /\ V = ValsOf(x[o].tab)
    BY <1>16
  <2>4. Attached(x, h3, P, (U \union {o}) \union {b}, o, "rev", b, K, V)
    BY <1>8, <1>13, <1>16, <2>1, <2>2, <2>3, AttachField
  <2> QED
    BY <2>4 DEF Attached
<1>18. /\ HeapOk(h3) /\ Len(h3) = b /\ (\A p \in 1 .. b : p # o => h3[p] = x[p])
       /\ h3[o].type = "object" /\ h3[o].ref = x[o].ref
       /\ KeysOf(h3[o].tab) = <<"messages", "rev">> /\ ValsOf(h3[o].tab) = <<a, b>>
       /\ HeapOwn(h3, P, U \union {o})
  <2>1. ((U \union {o}) \union {b}) \ {b} = U \union {o}
    <3>1. b \notin 1 .. n
      BY <1>1, <1>3
    <3> QED
      BY <1>2, <1>8, <3>1
  <2>2. Append(K, "rev") = <<"messages", "rev">>
    BY <1>14, AppendTwo
  <2>3. Append(V, b) = <<a, b>>
    BY <1>14, AppendTwo
  <2> QED
    BY <1>13, <1>16, <1>17, <2>1, <2>2, <2>3 DEF Tabbed
<1>19. \A p \in 1 .. n : p \in 1 .. o /\ p \in 1 .. a /\ p \in 1 .. b /\ p # o /\ p # a /\ p # b
  BY <1>1, <1>3
<1>20. \A p \in 1 .. n : h3[p] = h[p]
  BY <1>6, <1>7, <1>11, <1>13, <1>18, <1>19
<1>21. PICK KR, VR : KR = KeysOf(h[r].tab) /\ VR = ValsOf(h[r].tab)
  OBVIOUS
<1>22. r \in LiveOf(h3) /\ h3[r] = h[r]
  <2>1. r \in 1 .. b /\ h3[r] = h[r] /\ h[r].ref = 1
    BY <1>2, <1>19, <1>20 DEF LiveOf
  <2> QED
    BY <1>18, <2>1 DEF LiveOf
<1>23. /\ Tabbed(h3, h4, r, Append(KR, q), Append(VR, o))
       /\ HeapOwn(h4, P, (U \union {o}) \ {o})
  <2>1. o \in U \union {o} /\ q \in Names /\ h4 = Add(h3, r, q, o) /\ h3[r].type = "object"
    BY <1>22, FieldNames
  <2>2. KR = KeysOf(h3[r].tab) /\ VR = ValsOf(h3[r].tab)
    BY <1>21, <1>22
  <2>3. NoKey(KR, q)
    BY <1>21
  <2>4. Attached(h3, h4, P, U \union {o}, r, q, o, KR, VR)
    BY <1>8, <1>18, <1>22, <2>1, <2>2, <2>3, AttachField
  <2> QED
    BY <2>4 DEF Attached
<1>24. (U \union {o}) \ {o} = U
  <2>1. o \notin 1 .. n
    BY <1>1
  <2> QED
    BY <1>2, <2>1
<1>25. /\ HeapOk(h4) /\ Len(h4) = b /\ (\A p \in 1 .. b : p # r => h4[p] = h3[p])
       /\ h4[r].type = h[r].type /\ h4[r].ref = h[r].ref
       /\ KeysOf(h4[r].tab) = Append(KR, q) /\ ValsOf(h4[r].tab) = Append(VR, o)
  BY <1>18, <1>22, <1>23 DEF Tabbed
<1>26. o \in 1 .. b /\ a \in 1 .. b /\ b \in 1 .. b /\ o # r /\ a # r /\ b # r /\ a \in 1 .. a /\ b = n + 3
  BY <1>1, <1>2, <1>3
<1>27. h4[o] = h3[o] /\ h4[a] = h3[a] /\ h4[b] = h3[b]
  BY <1>25, <1>26
<1>28. h3[a] = h1[a] /\ h3[b] = x[b]
  BY <1>8, <1>11, <1>13, <1>18, <1>26
<1>29. o \in LiveOf(h4)
  <2>1. o \in LiveOf(h3)
    BY <1>18 DEF HeapOwn, Own, OwnTypes
  <2> QED
    BY <1>18, <1>25, <1>27, <2>1 DEF LiveOf
<1>30. \A p \in 1 .. n : p # r => h4[p] = h[p]
  BY <1>19, <1>20, <1>25
<1>31. /\ h4[a].type = "array" /\ h4[a].array = <<>> /\ h4[b].type = "int" /\ h4[b].val = "rev"
       /\ h4[o].type = "object" /\ KeysOf(h4[o].tab) = <<"messages", "rev">> /\ ValsOf(h4[o].tab) = <<a, b>>
  BY <1>4, <1>7, <1>13, <1>18, <1>27, <1>28
<1>32. QueueBegun(h, h4, r, q, o)
  BY <1>1, <1>3, <1>21, <1>25, <1>26, <1>29, <1>30, <1>31 DEF QueueBegun
<1> QED
  BY <1>23, <1>24, <1>32

\* A third element.
LEMMA AppendThree ==
    ASSUME NEW x, NEW y, NEW z
    PROVE  Append(<<x, y>>, z) = <<x, y, z>>
<1>1. PICK S : S = {x, y, z}
  OBVIOUS
<1>2. PICK s : s = <<x, y>>
  OBVIOUS
<1>3. s \in Seq(S) /\ Len(s) = 2 /\ s[1] = x /\ s[2] = y /\ z \in S
  BY <1>1, <1>2
<1>4. PICK t : t = <<x, y, z>>
  OBVIOUS
<1>5. t \in Seq(S) /\ Len(t) = 3 /\ t[1] = x /\ t[2] = y /\ t[3] = z
  BY <1>1, <1>4
<1>6. PICK r : r = Append(s, z)
  OBVIOUS
<1>7. r \in Seq(S) /\ Len(r) = Len(s) + 1 /\ r[Len(s) + 1] = z /\ \A i \in 1 .. Len(s) : r[i] = s[i]
  <2>1. s \in Seq(S) /\ z \in S
    BY <1>3
  <2> QED
    BY <1>6, <2>1, AppendProperties
<1>8. r[1] = x /\ r[2] = y /\ r[3] = z /\ Len(r) = 3
  <2>1. 1 \in 1 .. Len(s) /\ 2 \in 1 .. Len(s) /\ Len(s) + 1 = 3
    BY <1>3
  <2> QED
    BY <1>3, <1>7, <2>1
<1>9. r = t
  <2>1. \A i \in 1 .. 3 : i = 1 \/ i = 2 \/ i = 3
    OBVIOUS
  <2> QED
    BY <1>5, <1>7, <1>8, <2>1, SeqEqual
<1> QED
  BY <1>2, <1>4, <1>6, <1>9

\* An object of a queue that is not asked for its consumers.
LEMMA QueueWithout ==
    ASSUME NEW h, NEW g, NEW r, NEW q, q \notin included, NEW o, o \in Nat, Len(h) \in Nat, o = Len(h) + 1,
           QueueBegun(h, g, r, q, o)
    PROVE  QueueMade(h, g, r, q, o)
<1>1. PICK e, V : e = <<>> /\ V = <<o + 1, o + 2>>
  OBVIOUS
<1>2. Len(e) = 0 /\ V[1] = o + 1 /\ V[2] = o + 2
  BY <1>1
<1>3. /\ HeapOk(g) /\ Len(g) = Len(h) + 3 /\ o \in LiveOf(g) /\ g[o].type = "object"
      /\ KeysOf(g[o].tab) = <<"messages", "rev">> /\ ValsOf(g[o].tab) = V
      /\ g[o + 1].type = "array" /\ g[o + 1].array = e
      /\ g[o + 2].type = "int" /\ g[o + 2].val = "rev"
  BY <1>1 DEF QueueBegun
<1>4. o \in 1 .. Len(g) /\ o + 1 \in 1 .. Len(g) /\ o + 2 \in 1 .. Len(g) /\ Len(h) < Len(g)
  BY <1>3
<1>5. ArrOf(g, o + 1, e)
  BY <1>2, <1>3, <1>4 DEF ArrOf
<1>6. QueueAt(g, o, q, e)
  BY <1>2, <1>3, <1>4, <1>5 DEF QueueAt
<1> QED
  BY <1>1, <1>2, <1>3, <1>4, <1>6 DEF QueueMade, QueueBegun

\* The consumers are added to the object.
LEMMA QueueWith ==
    ASSUME NEW h, NEW g, NEW r, r \in 1 .. Len(h), NEW q, q \in QIds, q \in included,
           NEW o, Len(h) \in Nat, o = Len(h) + 1,
           NEW P, NEW U, QueueBegun(h, g, r, q, o), HeapOwn(g, P, U),
           NEW f, f = Add(WithConsumers(g, q), o, "consumers", o + 3)
    PROVE  QueueMade(h, f, r, q, o) /\ HeapOwn(f, P, U)
<1>1. PICK n, a, b, c, w : n = Len(h) /\ a = o + 1 /\ b = o + 2 /\ c = o + 3 /\ w = WithConsumers(g, q)
  OBVIOUS
<1>2. n \in Nat /\ o = n + 1 /\ r \in 1 .. n /\ o \in Nat /\ a \in Nat /\ b \in Nat /\ c \in Nat
  BY <1>1
<1>3. PICK e, V, K : e = <<>> /\ V = <<a, b>> /\ K = <<"messages", "rev">>
  OBVIOUS
<1>4. Len(e) = 0 /\ V[1] = a /\ V[2] = b /\ Len(K) = 2 /\ K[1] = "messages" /\ K[2] = "rev"
  BY <1>3
<1>5. /\ HeapOk(g) /\ Len(g) = n + 3 /\ o \in LiveOf(g) /\ g[o].type = "object"
      /\ KeysOf(g[o].tab) = K /\ ValsOf(g[o].tab) = V
      /\ g[a].type = "array" /\ g[a].array = e
      /\ g[b].type = "int" /\ g[b].val = "rev"
  BY <1>1, <1>3 DEF QueueBegun
<1>6. /\ \A p \in 1 .. n : p # r => g[p] = h[p]
      /\ g[r].type = h[r].type /\ g[r].ref = h[r].ref
      /\ KeysOf(g[r].tab) = Append(KeysOf(h[r].tab), q) /\ ValsOf(g[r].tab) = Append(ValsOf(h[r].tab), o)
  BY <1>1 DEF QueueBegun
<1>7. PICK m, I : m = Len(ConsumersOf[q]) /\ I = IdsUpto(q, m)
  OBVIOUS
<1>8. c = Len(g) + 1 /\ a \in 1 .. Len(g) /\ b \in 1 .. Len(g) /\ o \in 1 .. Len(g)
  BY <1>1, <1>2, <1>5
<1>9. Gathered(g, P, U, q, m, c, w)
  BY <1>1, <1>5, <1>7, <1>8, ConsumersGathered
<1>10. /\ HeapOk(w) /\ Len(g) < Len(w) /\ (\A p \in 1 .. Len(g) : w[p] = g[p])
       /\ ArrOf(w, c, I) /\ HeapOwn(w, P, U \union {c})
  BY <1>7, <1>9 DEF Gathered
<1>11. w[o] = g[o] /\ w[a] = g[a] /\ w[b] = g[b] /\ Len(w) \in Nat
  BY <1>8, <1>10 DEF HeapOk
<1>12. o \in LiveOf(w) /\ w[o].type = "object" /\ KeysOf(w[o].tab) = K /\ ValsOf(w[o].tab) = V
  <2>1. o \in 1 .. Len(w) /\ g[o].ref = 1
    BY <1>5, <1>8, <1>10, <1>11 DEF LiveOf
  <2> QED
    BY <1>5, <1>11, <2>1 DEF LiveOf
<1>13. Attached(w, f, P, U \union {c}, o, "consumers", c, K, V)
  <2>1. NoKey(K, "consumers")
    <3>1. \A i \in 1 .. 2 : i = 1 \/ i = 2
      OBVIOUS
    <3> QED
      BY <1>4, <3>1 DEF NoKey
  <2>2. "consumers" \in Names /\ c \in U \union {c} /\ c > o /\ f = Add(w, o, "consumers", c)
    BY <1>1, <1>2, FieldNames
  <2> QED
    BY <1>10, <1>12, <2>1, <2>2, AttachField
<1>14. Tabbed(w, f, o, Append(K, "consumers"), Append(V, c)) /\ HeapOwn(f, P, (U \union {c}) \ {c})
  BY <1>13 DEF Attached
<1>15. (U \union {c}) \ {c} = U
  <2>1. U \subseteq 1 .. Len(g)
    BY DEF HeapOwn, Own, OwnTypes, LiveOf
  <2>2. c \notin 1 .. Len(g)
    BY <1>1, <1>2, <1>5
  <2> QED
    BY <2>1, <2>2
<1>16. PICK L, W : L = <<"messages", "rev", "consumers">> /\ W = <<a, b, c>>
  OBVIOUS
<1>17. Append(K, "consumers") = L /\ Append(V, c) = W /\ W[1] = a /\ W[2] = b /\ W[3] = c
  BY <1>3, <1>16, AppendThree
<1>18. /\ HeapOk(f) /\ Len(f) = Len(w) /\ (\A p \in 1 .. Len(w) : p # o => f[p] = w[p])
       /\ f[o].type = "object" /\ f[o].ref = w[o].ref
       /\ KeysOf(f[o].tab) = L /\ ValsOf(f[o].tab) = W
  BY <1>12, <1>14, <1>17 DEF Tabbed
<1>19. a \in 1 .. Len(w) /\ b \in 1 .. Len(w) /\ o \in 1 .. Len(w) /\ a # o /\ b # o /\ c # o
  BY <1>1, <1>2, <1>5, <1>10, <1>11
<1>20. f[a] = g[a] /\ f[b] = g[b]
  BY <1>11, <1>18, <1>19
<1>21. ArrOf(f, c, I)
  <2>1. ASSUME NEW p \in 1 .. Len(w), w[p].type = "string" \/ p = c
        PROVE  f[p].type = w[p].type /\ f[p].val = w[p].val /\ f[p].array = w[p].array
    <3>1. p # o
      BY <1>12, <1>19, <2>1
    <3> QED
      BY <1>18, <3>1
  <2> QED
    BY <1>10, <1>11, <1>18, <2>1, ArrKept
<1>22. ArrOf(f, a, e)
  BY <1>4, <1>5, <1>18, <1>19, <1>20 DEF ArrOf
<1>23. QueueAt(f, o, q, e)
  BY <1>5, <1>7, <1>16, <1>17, <1>18, <1>19, <1>20, <1>21, <1>22 DEF QueueAt
<1>24. \A p \in 1 .. n : p \in 1 .. Len(g) /\ p \in 1 .. Len(w) /\ p # o
  BY <1>2, <1>5, <1>10, <1>11
<1>25. \A p \in 1 .. n : f[p] = g[p]
  BY <1>10, <1>18, <1>24
<1>26. f[r] = g[r] /\ n < Len(f) /\ \A p \in 1 .. n : p # r => f[p] = h[p]
  BY <1>2, <1>5, <1>6, <1>10, <1>11, <1>18, <1>25
<1>27. QueueMade(h, f, r, q, o)
  BY <1>1, <1>3, <1>6, <1>17, <1>18, <1>23, <1>26 DEF QueueMade
<1> QED
  BY <1>14, <1>15, <1>27

\* NewQueueObject.
LEMMA QueueObjectMade ==
    ASSUME NEW h, HeapOk(h), NEW P, NEW U, HeapOwn(h, P, U), results \in LiveOf(h),
           h[results].type = "object", NEW q, q \in QIds, NoKey(KeysOf(h[results].tab), q),
           NEW o, o = Len(h) + 1, NEW g, g = NewQueueObject(h, q)
    PROVE  QueueMade(h, g, results, q, o) /\ HeapOwn(g, P, U)
<1>1. PICK r : r = results
  OBVIOUS
<1>2. PICK h1, h2, h3, h4 :
        /\ h1 = NewArray(NewObject(h)) /\ h2 = Add(h1, o, "messages", o + 1)
        /\ h3 = Add(NewInt(h2, "rev"), o, "rev", o + 2) /\ h4 = Add(h3, r, q, o)
  OBVIOUS
<1>3. g = IF q \in included THEN Add(WithConsumers(h4, q), o, "consumers", o + 3) ELSE h4
  BY <1>1, <1>2 DEF NewQueueObject
<1>4. QueueBegun(h, h4, r, q, o) /\ HeapOwn(h4, P, U)
  BY <1>1, <1>2, QueueBegins
<1>5. Len(h) \in Nat /\ o \in Nat /\ r \in 1 .. Len(h)
  BY <1>1 DEF HeapOk, LiveOf
<1>6. CASE q \in included
  <2>1. g = Add(WithConsumers(h4, q), o, "consumers", o + 3)
    BY <1>3, <1>6
  <2>2. QueueMade(h, g, r, q, o) /\ HeapOwn(g, P, U)
    BY <1>4, <1>5, <1>6, <2>1, QueueWith
  <2> QED
    BY <1>1, <2>2
<1>7. CASE q \notin included
  <2>1. g = h4
    BY <1>3, <1>7
  <2>2. QueueMade(h, h4, r, q, o)
    BY <1>4, <1>5, <1>7, QueueWithout
  <2> QED
    BY <1>1, <1>4, <2>1, <2>2
<1> QED
  BY <1>6, <1>7

-----------------------------------------------------------------------------
(* The result object *)

\* Keys and values of an object.
LEMMA TabLens ==
    ASSUME NEW h, HeapOk(h), NEW o, o \in 1 .. Len(h), NEW K, NEW V, K = KeysOf(h[o].tab), V = ValsOf(h[o].tab)
    PROVE  /\ K \in Seq(Names) /\ V \in Seq(Nat) /\ Len(K) = Len(V) /\ Len(K) \in Nat
           /\ Holds(h[o].tab, K, V)
<1>1. ObjOk(h[o])
  BY DEF HeapOk
<1>2. Holds(h[o].tab, K, V)
  BY <1>1 DEF ObjOk, TabOk
<1>3. K \in Seq(Names) /\ V \in Seq(Nat) /\ Len(K) = Len(V)
  BY <1>2, HoldsValues
<1> QED
  BY <1>2, <1>3

\* A field that is not there.
LEMMA GetNone ==
    ASSUME NEW h, HeapOk(h), NEW o, o \in 1 .. Len(h), NEW k, k \in Names, NoKey(KeysOf(h[o].tab), k)
    PROVE  json_object_object_get(h, o, k) = NULL
<1>1. PICK K, V, v : K = KeysOf(h[o].tab) /\ V = ValsOf(h[o].tab) /\ v = 0
  OBVIOUS
<1>2. v \in Nat /\ \A i \in 1 .. Len(K) : K[i] # k
  BY <1>1 DEF NoKey
<1> QED
  BY <1>1, <1>2, AddFresh

\* A field that is there.
LEMMA GetSome ==
    ASSUME NEW h, HeapOk(h), NEW o, o \in 1 .. Len(h), NEW k, NEW K, NEW V, K = KeysOf(h[o].tab),
           V = ValsOf(h[o].tab), NEW x, x \in 1 .. Len(K), k = K[x]
    PROVE  json_object_object_get(h, o, k) = V[x] /\ V[x] \in Nat /\ V[x] # NULL
<1>1. PICK v : v = 0 /\ v \in Nat
  OBVIOUS
<1>2. json_object_object_get(h, o, k) = V[x]
  BY <1>1, AddAgain
<1>3. V \in Seq(Nat) /\ Len(K) = Len(V)
  BY TabLens
<1>4. V[x] \in Nat
  BY <1>3
<1> QED
  BY <1>2, <1>4, ConstantsAssumption

\* What a live object contains is live, and contained nowhere else.
LEMMA Members ==
    ASSUME NEW h, HeapOk(h), NEW P, NEW U, HeapOwn(h, P, U), NEW o, o \in LiveOf(h),
           NEW i, i \in 1 .. Len(Conts(h, o))
    PROVE  Conts(h, o)[i] \in LiveOf(h) /\ Conts(h, o)[i] > o
<1>1. PICK n, C, L : n = Len(h) /\ C = AllConts(h) /\ L = LiveOf(h)
  OBVIOUS
<1>2. o \in 1 .. n /\ C[o] = Conts(h, o) /\ Own(n, L, C, P, U)
  BY <1>1 DEF LiveOf, AllConts, HeapOwn
<1>3. C[o][i] \in L /\ C[o][i] > o
  BY <1>1, <1>2 DEF Own, OwnTypes, OwnOnce
<1> QED
  BY <1>1, <1>2, <1>3

\* Members differ.
LEMMA MembersDiffer ==
    ASSUME NEW h, HeapOk(h), NEW P, NEW U, HeapOwn(h, P, U), NEW o, o \in LiveOf(h), NEW p, p \in LiveOf(h),
           NEW i, i \in 1 .. Len(Conts(h, o)), NEW j, j \in 1 .. Len(Conts(h, p)),
           Conts(h, o)[i] = Conts(h, p)[j]
    PROVE  o = p /\ i = j
<1>1. PICK n, C, L : n = Len(h) /\ C = AllConts(h) /\ L = LiveOf(h)
  OBVIOUS
<1>2. o \in 1 .. n /\ C[o] = Conts(h, o) /\ p \in 1 .. n /\ C[p] = Conts(h, p) /\ Own(n, L, C, P, U)
  BY <1>1 DEF LiveOf, AllConts, HeapOwn
<1> QED
  BY <1>1, <1>2 DEF Own, OwnOnce

\* Object p is the same in both heaps, except for its reference count.
Same(h, g, p) ==
    g[p].type = h[p].type /\ g[p].val = h[p].val /\ g[p].tab = h[p].tab /\ g[p].array = h[p].array

\* Only object x differs in what is in the heap h.
SameBut(h, g, x) ==
    /\ Len(h) \in Nat /\ Len(g) \in Nat /\ Len(h) <= Len(g)
    /\ \A p \in 1 .. Len(h) : p # x => Same(h, g, p)

\* An array of strings is the same.
LEMMA ArrSame ==
    ASSUME NEW h, NEW g, NEW x, SameBut(h, g, x), h[x].type # "string", NEW a, a # x, NEW S, ArrOf(h, a, S)
    PROVE  ArrOf(g, a, S)
<1>1. ASSUME NEW p \in 1 .. Len(h), h[p].type = "string" \/ p = a
      PROVE  g[p].type = h[p].type /\ g[p].val = h[p].val /\ g[p].array = h[p].array
  <2>1. p # x
    BY <1>1
  <2> QED
    BY <2>1 DEF SameBut, Same
<1> QED
  BY <1>1, ArrKept DEF SameBut

\* What of a queue's object is not its messages.
QueueRest(h, o, q) ==
    /\ o \in 1 .. Len(h) /\ h[o].type = "object"
    /\ KeysOf(h[o].tab) = IF q \in included THEN <<"messages", "rev", "consumers">> ELSE <<"messages", "rev">>
    /\ LET i == ValsOf(h[o].tab)[2] IN i \in 1 .. Len(h) /\ h[i].type = "int" /\ h[i].val = "rev"
    /\ q \in included => ArrOf(h, ValsOf(h[o].tab)[3], IdsUpto(q, Len(ConsumersOf[q])))

\* The two parts.
LEMMA QueueParts ==
    ASSUME NEW h, NEW o, NEW q, NEW M
    PROVE  QueueAt(h, o, q, M) <=> QueueRest(h, o, q) /\ ArrOf(h, ValsOf(h[o].tab)[1], M)
  BY DEF QueueAt, QueueRest

\* It has at least two fields.
LEMMA QueueLen ==
    ASSUME NEW h, HeapOk(h), NEW o, NEW q, QueueRest(h, o, q), NEW K, NEW V, K = KeysOf(h[o].tab), V = ValsOf(h[o].tab)
    PROVE  /\ 1 \in 1 .. Len(V) /\ 2 \in 1 .. Len(V) /\ (q \in included => 3 \in 1 .. Len(V)) /\ Conts(h, o) = V
           /\ K[1] = "messages" /\ Len(K) = Len(V)
<1>1. PICK K2, K3 : K2 = <<"messages", "rev">> /\ K3 = <<"messages", "rev", "consumers">>
  OBVIOUS
<1>2. Len(K2) = 2 /\ Len(K3) = 3 /\ K2[1] = "messages" /\ K3[1] = "messages"
  BY <1>1
<1>3. o \in 1 .. Len(h) /\ h[o].type = "object" /\ K = IF q \in included THEN K3 ELSE K2
  BY <1>1 DEF QueueRest
<1>4. Len(K) = Len(V) /\ Len(K) \in Nat
  <2>1. o \in 1 .. Len(h)
    BY <1>3
  <2> QED
    BY <2>1, TabLens
<1>5. Conts(h, o) = V
  BY <1>3 DEF Conts
<1>6. CASE q \in included
  <2>1. K = K3
    BY <1>3, <1>6
  <2>2. Len(V) = 3 /\ K[1] = "messages"
    BY <1>2, <1>4, <2>1
  <2> QED
    BY <1>4, <1>5, <2>2
<1>7. CASE q \notin included
  <2>1. K = K2
    BY <1>3, <1>7
  <2>2. Len(V) = 2 /\ K[1] = "messages"
    BY <1>2, <1>4, <2>1
  <2> QED
    BY <1>4, <1>5, <1>7, <2>2
<1> QED
  BY <1>6, <1>7

\* The rest of a queue's object stays.
LEMMA RestKept ==
    ASSUME NEW h, NEW g, NEW x, SameBut(h, g, x), h[x].type # "string", h[x].type # "int",
           NEW o, o # x, NEW q, QueueRest(h, o, q), q \in included => ValsOf(h[o].tab)[3] # x
    PROVE  QueueRest(g, o, q) /\ g[o].tab = h[o].tab
<1>1. o \in 1 .. Len(h) /\ h[o].type = "object"
  BY DEF QueueRest
<1>2. Same(h, g, o)
  BY <1>1 DEF SameBut
<1>3. PICK i : i = ValsOf(h[o].tab)[2]
  OBVIOUS
<1>4. i \in 1 .. Len(h) /\ h[i].type = "int" /\ h[i].val = "rev"
  BY <1>3 DEF QueueRest
<1>5. g[i].type = "int" /\ g[i].val = "rev"
  BY <1>4 DEF SameBut, Same
<1>6. i \in 1 .. Len(g) /\ o \in 1 .. Len(g)
  BY <1>1, <1>4 DEF SameBut
<1>7. PICK c : c = ValsOf(h[o].tab)[3]
  OBVIOUS
<1>8. q \in included => ArrOf(g, c, IdsUpto(q, Len(ConsumersOf[q])))
  <2>1. SUFFICES ASSUME q \in included PROVE ArrOf(g, c, IdsUpto(q, Len(ConsumersOf[q])))
    OBVIOUS
  <2>2. ArrOf(h, c, IdsUpto(q, Len(ConsumersOf[q]))) /\ c # x
    BY <1>7, <2>1 DEF QueueRest
  <2> QED
    BY <2>2, ArrSame
<1>9. KeysOf(h[o].tab) = IF q \in included THEN <<"messages", "rev", "consumers">> ELSE <<"messages", "rev">>
  BY DEF QueueRest
<1>10. g[o].tab = h[o].tab /\ g[o].type = "object"
  BY <1>1, <1>2 DEF Same
<1>11. QueueRest(g, o, q)
  BY <1>3, <1>5, <1>6, <1>7, <1>8, <1>9, <1>10 DEF QueueRest
<1> QED
  BY <1>10, <1>11

\* A queue's object stays.
LEMMA QueueKept ==
    ASSUME NEW h, NEW g, NEW x, SameBut(h, g, x), h[x].type # "string", h[x].type # "int",
           NEW o, o # x, NEW q, NEW M, QueueAt(h, o, q, M), ValsOf(h[o].tab)[1] # x,
           q \in included => ValsOf(h[o].tab)[3] # x
    PROVE  QueueAt(g, o, q, M)
<1>1. QueueRest(h, o, q) /\ ArrOf(h, ValsOf(h[o].tab)[1], M)
  BY QueueParts
<1>2. QueueRest(g, o, q) /\ g[o].tab = h[o].tab
  BY <1>1, RestKept
<1>3. ArrOf(g, ValsOf(h[o].tab)[1], M)
  BY <1>1, ArrSame
<1> QED
  BY <1>2, <1>3, QueueParts

\* Messages are strings, a sequence of them for every queue.
Msgs == Seq(Seq(Seq(Chars)))

\* Object r holds an object for each of the queues K, with the messages M.
ResultsAt(h, r, K, M) ==
    /\ r \in 1 .. Len(h) /\ h[r].type = "object" /\ KeysOf(h[r].tab) = K
    /\ M \in Msgs /\ Len(M) = Len(K)
    /\ \A i \in 1 .. Len(K) : QueueAt(h, ValsOf(h[r].tab)[i], K[i], M[i])

\* The result object after a change, below which nothing has changed.
ResultGrown(h, g, P, U, r, K, M) ==
    /\ HeapOk(g) /\ HeapOwn(g, P, U) /\ Len(h) < Len(g) /\ ResultsAt(g, r, K, M)
    /\ \A p \in 1 .. Len(h) : p < r => g[p] = h[p]
    /\ r \in LiveOf(g)

\* M with one more message s of queue x.
OneMore(M, x, s) == [M EXCEPT ![x] = Append(M[x], s)]

\* Its elements.
MoreOf(N, M, x, s, E) ==
    /\ N \in Seq(Seq(E)) /\ Len(N) = Len(M) /\ N[x] = Append(M[x], s)
    /\ \A i \in 1 .. Len(M) : i # x => N[i] = M[i]

\* They are what OneMore makes.
LEMMA OneMoreIs ==
    ASSUME NEW E, NEW M, M \in Seq(Seq(E)), NEW x, x \in 1 .. Len(M), NEW s, s \in E
    PROVE  MoreOf(OneMore(M, x, s), M, x, s, E)
<1>1. PICK F, y, n : F = Seq(E) /\ y = Append(M[x], s) /\ n = Len(M)
  OBVIOUS
<1>2. M[x] \in F
  BY <1>1, SeqAt
<1>3. y \in F
  BY <1>1, <1>2
<1>4. PICK N : N = [M EXCEPT ![x] = y]
  OBVIOUS
<1>5. N \in Seq(F) /\ Len(N) = n /\ N[x] = y /\ \A i \in 1 .. n : i # x => N[i] = M[i]
  BY <1>1, <1>3, <1>4
<1> QED
  BY <1>1, <1>4, <1>5 DEF OneMore, MoreOf

\* Object o is the i-th in r, the object of queue q with messages B.
InResults(h, r, i, o, q, B) ==
    /\ o \in LiveOf(h) /\ o > r /\ QueueAt(h, o, q, B) /\ i \in 1 .. Len(Conts(h, r)) /\ Conts(h, r)[i] = o

\* The queue objects that are in a result object.
LEMMA QueuesLive ==
    ASSUME NEW h, HeapOk(h), NEW P, NEW U, HeapOwn(h, P, U), NEW r, r \in LiveOf(h), NEW K, NEW M, ResultsAt(h, r, K, M),
           NEW i, i \in 1 .. Len(K), NEW o, o = ValsOf(h[r].tab)[i]
    PROVE  InResults(h, r, i, o, K[i], M[i])
<1>1. PICK V : V = ValsOf(h[r].tab)
  OBVIOUS
<1>2. r \in 1 .. Len(h) /\ h[r].type = "object" /\ KeysOf(h[r].tab) = K /\ QueueAt(h, o, K[i], M[i])
  BY DEF ResultsAt
<1>3. Len(K) = Len(V)
  BY <1>1, <1>2, TabLens
<1>4. Conts(h, r) = V
  BY <1>1, <1>2 DEF Conts
<1>5. i \in 1 .. Len(Conts(h, r)) /\ Conts(h, r)[i] = o
  BY <1>1, <1>3, <1>4
<1>6. o \in LiveOf(h) /\ o > r
  BY <1>5, Members
<1> QED
  BY <1>2, <1>5, <1>6 DEF InResults

\* The string s is added to the messages a of object o, the x-th of r.
Adds(h, r, K, x, s, o, a, g) ==
    /\ x \in 1 .. Len(K) /\ s \in Seq(Chars) /\ o = ValsOf(h[r].tab)[x] /\ a = ValsOf(h[o].tab)[1]
    /\ g = json_object_array_add(NewString(h, s), a, Len(NewString(h, s)))

\* A message is added for a queue that is in the result.
LEMMA PendingOld ==
    ASSUME NEW h, HeapOk(h), NEW P, NEW U, HeapOwn(h, P, U), NEW r, r \in LiveOf(h), NEW K, NEW M,
           ResultsAt(h, r, K, M), NEW x, NEW s, NEW o, NEW a, NEW g, Adds(h, r, K, x, s, o, a, g)
    PROVE  ResultGrown(h, g, P, U, r, K, OneMore(M, x, CString(s)))
<1>0. /\ x \in 1 .. Len(K) /\ s \in Seq(Chars) /\ o = ValsOf(h[r].tab)[x] /\ a = ValsOf(h[o].tab)[1]
      /\ g = json_object_array_add(NewString(h, s), a, Len(NewString(h, s)))
  BY DEF Adds
<1>1. PICK n, V, W, c, q, N :
        /\ n = Len(h) /\ V = ValsOf(h[r].tab) /\ W = ValsOf(h[o].tab)
        /\ c = CString(s) /\ q = K[x] /\ N = OneMore(M, x, c)
  OBVIOUS
<1>2. /\ o \in LiveOf(h) /\ o > r /\ QueueAt(h, o, q, M[x]) /\ x \in 1 .. Len(Conts(h, r))
      /\ Conts(h, r)[x] = o
  <2>1. InResults(h, r, x, o, K[x], M[x])
    BY <1>0, QueuesLive
  <2> QED
    BY <1>1, <2>1 DEF InResults
<1>3. QueueRest(h, o, q) /\ ArrOf(h, a, M[x])
  BY <1>0, <1>2, QueueParts
<1>4. 1 \in 1 .. Len(W) /\ (q \in included => 3 \in 1 .. Len(W)) /\ Conts(h, o) = W
  BY <1>1, <1>3, QueueLen
<1>5. a \in LiveOf(h) /\ a > o /\ 1 \in 1 .. Len(Conts(h, o)) /\ Conts(h, o)[1] = a
  <2>1. 1 \in 1 .. Len(Conts(h, o)) /\ Conts(h, o)[1] = a
    BY <1>0, <1>1, <1>4
  <2> QED
    BY <1>2, <2>1, Members
<1>6. n \in Nat /\ a \in 1 .. n /\ o \in 1 .. n /\ r \in 1 .. n /\ h[a].type = "array" /\ a > r /\ a # o /\ r # a
  <2>1. n \in Nat /\ a \in 1 .. n /\ o \in 1 .. n /\ r \in 1 .. n
    BY <1>1, <1>2, <1>5 DEF HeapOk, LiveOf
  <2>2. h[a].type = "array"
    BY <1>3 DEF ArrOf
  <2>3. a > o /\ o > r
    BY <1>2, <1>5
  <2>4. a > r /\ a # o /\ r # a
    BY <2>1, <2>3
  <2> QED
    BY <2>1, <2>2, <2>4
<1>7. StringPushed(h, g, a, c) /\ HeapOwn(g, P, U)
  BY <1>0, <1>1, <1>5, <1>6, PushString
<1>8. /\ HeapOk(g) /\ Len(g) = n + 1 /\ (\A p \in 1 .. n : p # a => g[p] = h[p])
      /\ g[a].type = h[a].type /\ g[a].ref = h[a].ref /\ g[a].tab = h[a].tab
  BY <1>1, <1>7 DEF StringPushed
<1>9. SameBut(h, g, a)
  <2>1. Len(h) \in Nat /\ Len(g) \in Nat /\ Len(h) <= Len(g)
    BY <1>1, <1>6, <1>8
  <2>2. ASSUME NEW p \in 1 .. Len(h), p # a PROVE Same(h, g, p)
    <3>1. g[p] = h[p]
      BY <1>1, <1>8, <2>2
    <3> QED
      BY <3>1 DEF Same
  <2> QED
    BY <2>1, <2>2 DEF SameBut
<1>10. c \in Seq(Chars) /\ M \in Seq(Seq(Seq(Chars))) /\ Len(M) = Len(K)
  BY <1>0, <1>1, CStringIs DEF ResultsAt, Msgs
<1>11. PICK E : E = Seq(Chars)
  OBVIOUS
<1>12. /\ N \in Seq(Seq(E)) /\ Len(N) = Len(M) /\ N[x] = Append(M[x], c)
       /\ \A i \in 1 .. Len(M) : i # x => N[i] = M[i]
  <2>1. M \in Seq(Seq(E)) /\ x \in 1 .. Len(M) /\ c \in E
    BY <1>0, <1>10, <1>11
  <2>2. MoreOf(OneMore(M, x, c), M, x, c, E)
    BY <2>1, OneMoreIs
  <2> QED
    BY <1>1, <2>2 DEF MoreOf
<1>13. g[r] = h[r]
  <2>1. r \in 1 .. n /\ r # a
    BY <1>6
  <2> QED
    BY <1>8, <2>1
<1>14. ASSUME NEW i, i \in 1 .. Len(K) PROVE QueueAt(g, V[i], K[i], N[i])
  <2>1. PICK p, k, Z : p = V[i] /\ k = K[i] /\ Z = ValsOf(h[p].tab)
    OBVIOUS
  <2>2. /\ p \in LiveOf(h) /\ p > r /\ QueueAt(h, p, k, M[i]) /\ i \in 1 .. Len(Conts(h, r))
        /\ Conts(h, r)[i] = p
    <3>1. p = ValsOf(h[r].tab)[i]
      BY <1>1, <2>1
    <3>2. InResults(h, r, i, p, K[i], M[i])
      BY <1>14, <3>1, QueuesLive
    <3> QED
      BY <2>1, <3>2 DEF InResults
  <2>3. QueueRest(h, p, k) /\ ArrOf(h, Z[1], M[i])
    BY <2>1, <2>2, QueueParts
  <2>4. 1 \in 1 .. Len(Z) /\ (k \in included => 3 \in 1 .. Len(Z)) /\ Conts(h, p) = Z
    BY <2>1, <2>3, QueueLen
  <2>5. p # a /\ h[a].type # "string" /\ h[a].type # "int"
    BY <1>6, <2>3 DEF QueueRest
  <2>6. k \in included => Z[3] # a
    <3>1. SUFFICES ASSUME k \in included, Z[3] = a PROVE FALSE
      OBVIOUS
    <3>2. 3 \in 1 .. Len(Conts(h, p)) /\ Conts(h, p)[3] = Conts(h, o)[1]
      BY <1>5, <2>4, <3>1
    <3>3. 3 = 1
      <4>1. o \in LiveOf(h) /\ p \in LiveOf(h) /\ 1 \in 1 .. Len(Conts(h, o))
        BY <1>2, <1>5, <2>2
      <4> QED
        BY <3>2, <4>1, MembersDiffer
    <3> QED
      BY <3>3
  <2>7. CASE i = x
    <3>1. p = o /\ k = q /\ Z = W
      BY <1>0, <1>1, <2>1, <2>7
    <3>2. QueueRest(g, o, q) /\ g[o].tab = h[o].tab
      <4>1. QueueRest(h, o, q) /\ o # a /\ (q \in included => ValsOf(h[o].tab)[3] # a)
        BY <2>1, <2>3, <2>5, <2>6, <3>1
      <4>2. SameBut(h, g, a) /\ h[a].type # "string" /\ h[a].type # "int"
        BY <1>9, <2>5
      <4> QED
        BY <4>1, <4>2, RestKept
    <3>3. PICK B : B = M[x] /\ B \in Seq(E)
      BY <1>10, <1>11, <2>7, <1>14, SeqAt
    <3>4. ArrOf(g, a, Append(B, c))
      BY <1>3, <1>7, <1>10, <1>11, <3>3, ArrGrows
    <3>5. QueueAt(g, o, q, N[x])
      BY <1>0, <1>1, <1>12, <3>2, <3>3, <3>4, QueueParts
    <3> QED
      BY <2>1, <2>7, <3>1, <3>5
  <2>8. CASE i # x
    <3>1. Z[1] # a
      <4>1. SUFFICES ASSUME Z[1] = a PROVE FALSE
        OBVIOUS
      <4>2. 1 \in 1 .. Len(Conts(h, p)) /\ Conts(h, p)[1] = Conts(h, o)[1]
        BY <1>5, <2>4, <4>1
      <4>3. p = o
        BY <1>2, <1>5, <2>2, <4>2, MembersDiffer
      <4>4. Conts(h, r)[i] = Conts(h, r)[x]
        BY <1>2, <2>2, <4>3
      <4>5. i = x
        BY <1>2, <2>2, <4>4, MembersDiffer
      <4> QED
        BY <2>8, <4>5
    <3>2. QueueAt(g, p, k, M[i])
      <4>1. QueueAt(h, p, k, M[i]) /\ p # a /\ (k \in included => ValsOf(h[p].tab)[3] # a) /\ ValsOf(h[p].tab)[1] # a
        BY <2>1, <2>2, <2>5, <2>6, <3>1
      <4>2. SameBut(h, g, a) /\ h[a].type # "string" /\ h[a].type # "int"
        BY <1>9, <2>5
      <4> QED
        BY <4>1, <4>2, QueueKept
    <3>3. N[i] = M[i]
      BY <1>10, <1>12, <1>14, <2>8
    <3> QED
      BY <2>1, <3>2, <3>3
  <2> QED
    BY <2>7, <2>8
<1>15. r \in 1 .. Len(g) /\ n < Len(g)
  <2>1. r \in 1 .. n /\ n \in Nat /\ Len(g) = n + 1
    BY <1>6, <1>8
  <2> QED
    BY <2>1
<1>16. ResultsAt(g, r, K, N)
  <2>1. h[r].type = "object" /\ KeysOf(h[r].tab) = K
    BY DEF ResultsAt
  <2> QED
    BY <1>1, <1>10, <1>11, <1>12, <1>13, <1>14, <1>15, <2>1 DEF ResultsAt, Msgs
<1>17. ASSUME NEW p \in 1 .. n, p < r PROVE g[p] = h[p]
  <2>1. p # a
    BY <1>6, <1>17
  <2> QED
    BY <1>8, <2>1
<1>18. r \in LiveOf(g)
  BY <1>13, <1>15 DEF LiveOf
<1>19. ResultGrown(h, g, P, U, r, K, N)
  BY <1>1, <1>7, <1>8, <1>15, <1>16, <1>17, <1>18 DEF ResultGrown
<1> QED
  BY <1>1, <1>19

\* The object o of a queue without messages is the last one of r.
LastIn(h, r, n, o) == ValsOf(h[r].tab)[n] = o /\ ValsOf(h[o].tab)[1] = o + 1

\* A queue is added to the result.
LEMMA QueueAdded ==
    ASSUME NEW h, HeapOk(h), NEW P, NEW U, HeapOwn(h, P, U), results \in LiveOf(h), NEW K, NEW M,
           ResultsAt(h, results, K, M), NEW q, q \in QIds, NoKey(K, q), NEW g, g = NewQueueObject(h, q)
    PROVE  /\ ResultGrown(h, g, P, U, results, Append(K, q), Append(M, <<>>))
           /\ LastIn(g, results, Len(K) + 1, Len(h) + 1)
<1>1. PICK r, n, o, V, e : r = results /\ n = Len(h) /\ o = n + 1 /\ V = ValsOf(h[r].tab) /\ e = <<>>
  OBVIOUS
<1>2. r \in 1 .. n /\ h[r].type = "object" /\ KeysOf(h[r].tab) = K /\ M \in Msgs /\ Len(M) = Len(K)
  BY <1>1 DEF ResultsAt
<1>3. K \in Seq(Names) /\ V \in Seq(Nat) /\ Len(K) = Len(V) /\ Len(K) \in Nat
  BY <1>1, <1>2, TabLens
<1>4. n \in Nat /\ o \in Nat /\ o # r /\ o > r
  <2>1. n \in Nat
    BY <1>1 DEF HeapOk
  <2> QED
    BY <1>1, <1>2, <2>1
<1>5. QueueMade(h, g, r, q, o) /\ HeapOwn(g, P, U)
  BY <1>1, <1>2, QueueObjectMade
<1>6. PICK L, W, N, m : L = Append(K, q) /\ W = Append(V, o) /\ N = Append(M, e) /\ m = Len(K)
  OBVIOUS
<1>7. /\ HeapOk(g) /\ n < Len(g) /\ (\A p \in 1 .. n : p # r => g[p] = h[p])
      /\ g[r].type = h[r].type /\ g[r].ref = h[r].ref
      /\ KeysOf(g[r].tab) = L /\ ValsOf(g[r].tab) = W
      /\ QueueAt(g, o, q, e) /\ ValsOf(g[o].tab)[1] = o + 1
  BY <1>1, <1>2, <1>5, <1>6 DEF QueueMade
<1>8. q \in Names
  BY FieldNames
<1>9. Len(L) = m + 1 /\ L[m + 1] = q /\ \A i \in 1 .. m : L[i] = K[i]
  BY <1>3, <1>6, <1>8
<1>10. Len(W) = m + 1 /\ W[m + 1] = o /\ \A i \in 1 .. m : W[i] = V[i]
  BY <1>3, <1>4, <1>6
<1>11. PICK E : E = Seq(Seq(Chars))
  OBVIOUS
<1>12. M \in Seq(E) /\ e \in E /\ Len(M) = m
  BY <1>1, <1>2, <1>6, <1>11 DEF Msgs
<1>13. N \in Seq(E) /\ Len(N) = m + 1 /\ N[m + 1] = e /\ \A i \in 1 .. m : N[i] = M[i]
  BY <1>3, <1>6, <1>12
<1>14. SameBut(h, g, r)
  <2>1. Len(h) \in Nat /\ Len(g) \in Nat /\ Len(h) <= Len(g)
    BY <1>1, <1>4, <1>7 DEF HeapOk
  <2>2. ASSUME NEW p \in 1 .. Len(h), p # r PROVE Same(h, g, p)
    <3>1. g[p] = h[p]
      BY <1>1, <1>7, <2>2
    <3> QED
      BY <3>1 DEF Same
  <2> QED
    BY <2>1, <2>2 DEF SameBut
<1>15. ASSUME NEW i, i \in 1 .. m + 1 PROVE QueueAt(g, W[i], L[i], N[i])
  <2>1. CASE i = m + 1
    BY <1>7, <1>9, <1>10, <1>13, <2>1
  <2>2. CASE i # m + 1
    <3>1. i \in 1 .. m /\ i \in 1 .. Len(K)
      BY <1>3, <1>6, <1>15, <2>2
    <3>2. PICK p, k, Z : p = V[i] /\ k = K[i] /\ Z = ValsOf(h[p].tab)
      OBVIOUS
    <3>3. InResults(h, r, i, p, k, M[i])
      <4>1. ResultsAt(h, r, K, M) /\ r \in LiveOf(h) /\ p = ValsOf(h[r].tab)[i]
        BY <1>1, <3>2
      <4>2. InResults(h, r, i, p, K[i], M[i])
        BY <3>1, <4>1, QueuesLive
      <4> QED
        BY <3>2, <4>2
    <3>4. p \in LiveOf(h) /\ p > r /\ QueueAt(h, p, k, M[i])
      BY <3>3 DEF InResults
    <3>5. p # r
      BY <1>2, <1>4, <3>4 DEF LiveOf
    <3>6. QueueRest(h, p, k) /\ ArrOf(h, Z[1], M[i])
      BY <3>2, <3>4, QueueParts
    <3>7. Z[1] # r
      BY <1>2, <3>6 DEF ArrOf
    <3>8. k \in included => Z[3] # r
      BY <1>2, <3>2, <3>6 DEF QueueRest, ArrOf
    <3>9. h[r].type # "string" /\ h[r].type # "int"
      BY <1>2
    <3>10. QueueAt(g, p, k, M[i])
      <4>1. ValsOf(h[p].tab)[1] # r /\ (k \in included => ValsOf(h[p].tab)[3] # r)
        BY <3>2, <3>7, <3>8
      <4> QED
        BY <1>14, <3>4, <3>5, <3>9, <4>1, QueueKept
    <3>11. W[i] = p /\ L[i] = k /\ N[i] = M[i]
      BY <1>9, <1>10, <1>13, <3>1, <3>2
    <3> QED
      BY <3>10, <3>11
  <2> QED
    BY <2>1, <2>2
<1>16. r \in 1 .. Len(g)
  <2>1. Len(g) \in Nat /\ n < Len(g)
    BY <1>7 DEF HeapOk
  <2> QED
    BY <1>2, <1>4, <2>1
<1>17. ResultsAt(g, r, L, N)
  BY <1>2, <1>7, <1>9, <1>11, <1>13, <1>15, <1>16 DEF ResultsAt, Msgs
<1>18. ASSUME NEW p \in 1 .. n, p < r PROVE g[p] = h[p]
  <2>1. p # r
    BY <1>2, <1>18
  <2> QED
    BY <1>7, <2>1
<1>19. r \in LiveOf(g)
  <2>1. h[r].ref = 1
    BY <1>1 DEF LiveOf
  <2> QED
    BY <1>7, <1>16, <2>1 DEF LiveOf
<1>20. ResultGrown(h, g, P, U, r, L, N)
  BY <1>1, <1>5, <1>7, <1>17, <1>18, <1>19 DEF ResultGrown
<1>21. LastIn(g, r, m + 1, o)
  BY <1>7, <1>10 DEF LastIn
<1> QED
  BY <1>1, <1>6, <1>20, <1>21

\* The result grows twice.
LEMMA GrownTwice ==
    ASSUME NEW h, NEW f, NEW g, HeapOk(h), HeapOk(g), NEW P, NEW U, NEW r, NEW K, NEW M, NEW L, NEW N,
           ResultGrown(h, f, P, U, r, K, M), ResultGrown(f, g, P, U, r, L, N)
    PROVE  ResultGrown(h, g, P, U, r, L, N)
<1>1. Len(h) \in Nat /\ Len(f) \in Nat /\ Len(g) \in Nat
  BY DEF HeapOk, ResultGrown
<1>2. Len(h) < Len(f) /\ Len(f) < Len(g)
  BY DEF ResultGrown
<1>3. Len(h) < Len(g)
  BY <1>1, <1>2
<1>4. ASSUME NEW p \in 1 .. Len(h), p < r PROVE g[p] = h[p]
  <2>1. p \in 1 .. Len(f)
    BY <1>1, <1>2
  <2>2. f[p] = h[p]
    BY <1>4 DEF ResultGrown
  <2>3. g[p] = f[p]
    BY <1>4, <2>1 DEF ResultGrown
  <2> QED
    BY <2>2, <2>3
<1> QED
  BY <1>3, <1>4 DEF ResultGrown

\* A message of a queue that is not in the result yet.
LEMMA PendingNew ==
    ASSUME NEW h, HeapOk(h), NEW P, NEW U, HeapOwn(h, P, U), results \in LiveOf(h), NEW K, NEW M,
           ResultsAt(h, results, K, M), NEW q, q \in QIds, NoKey(K, q), NEW s, s \in Seq(Chars),
           NEW f, f = NewQueueObject(h, q), NEW a, a = Len(h) + 2,
           NEW g, g = json_object_array_add(NewString(f, s), a, Len(NewString(f, s)))
    PROVE  ResultGrown(h, g, P, U, results, Append(K, q), OneMore(Append(M, <<>>), Len(K) + 1, CString(s)))
<1>1. PICK r, o, L, N, m : r = results /\ o = Len(h) + 1 /\ L = Append(K, q) /\ N = Append(M, <<>>) /\ m = Len(K) + 1
  OBVIOUS
<1>2. ResultGrown(h, f, P, U, r, L, N) /\ LastIn(f, r, m, o)
  BY <1>1, QueueAdded
<1>3. HeapOk(f) /\ HeapOwn(f, P, U) /\ r \in LiveOf(f) /\ ResultsAt(f, r, L, N)
  BY <1>2 DEF ResultGrown
<1>4. K \in Seq(Names) /\ Len(K) \in Nat /\ q \in Names /\ Len(h) \in Nat
  <2>1. r \in 1 .. Len(h) /\ K = KeysOf(h[r].tab)
    BY <1>1 DEF ResultsAt
  <2>2. q \in Names /\ Len(h) \in Nat
    BY FieldNames DEF HeapOk
  <2> QED
    BY <2>1, <2>2, TabLens
<1>5. m \in 1 .. Len(L)
  BY <1>1, <1>4
<1>6. a = o + 1
  BY <1>1, <1>4
<1>7. Adds(f, r, L, m, s, o, a, g)
  BY <1>2, <1>5, <1>6 DEF Adds, LastIn
<1>8. ResultGrown(f, g, P, U, r, L, OneMore(N, m, CString(s)))
  BY <1>3, <1>7, PendingOld
<1>9. HeapOk(g)
  BY <1>8 DEF ResultGrown
<1>10. ResultGrown(h, g, P, U, r, L, OneMore(N, m, CString(s)))
  BY <1>2, <1>8, <1>9, GrownTwice
<1> QED
  BY <1>1, <1>10

-----------------------------------------------------------------------------
(* Steps *)

\* The data of a message.
LEMMA DataIs ==
    ASSUME NEW m, m \in 1 .. MaxPending
    PROVE  MsgData[m] \in Seq(Chars)
<1>1. PICK s, E : s = MsgData[m] /\ E = {s[l] : l \in DOMAIN s}
  OBVIOUS
<1>2. s \in Seq(E)
  BY <1>1, ConstantsAssumption DEF IsSeq
<1>3. ASSUME NEW c \in E PROVE c \in Chars
  <2>1. PICK l \in DOMAIN MsgData[m] : c = MsgData[m][l]
    BY <1>1, <1>3
  <2>2. c \in {MsgData[m][j] : j \in DOMAIN MsgData[m]}
    BY <2>1
  <2>3. c \in UNION {{MsgData[i][j] : j \in DOMAIN MsgData[i]} : i \in 1 .. MaxPending}
    BY <2>2
  <2> QED
    BY <2>3 DEF Chars
<1> QED
  BY <1>1, <1>2, <1>3

\* The queues L and messages N are K and M with the message c of queue q.
Extended(K, M, q, c, L, N) ==
    \/ \E x \in 1 .. Len(K) : K[x] = q /\ L = K /\ N = OneMore(M, x, c)
    \/ NoKey(K, q) /\ L = Append(K, q) /\ N = OneMore(Append(M, <<>>), Len(K) + 1, c)

\* The field at position x is found.
Found(h, o, K, V, x) == json_object_object_get(h, o, K[x]) = V[x] /\ V[x] # NULL

\* Every field is.
LEMMA FoundIs ==
    ASSUME NEW h, HeapOk(h), NEW o, o \in 1 .. Len(h), NEW K, NEW V, K = KeysOf(h[o].tab),
           V = ValsOf(h[o].tab), NEW x, x \in 1 .. Len(K)
    PROVE  Found(h, o, K, V, x)
<1>1. PICK v, k : v = 0 /\ v \in Nat /\ k = K[x]
  OBVIOUS
<1>2. /\ Tabbed(h, Add(h, o, k, v), o, Append(Drop(K, x), k), Append(Drop(V, x), v))
      /\ json_object_object_get(h, o, k) = V[x] /\ Replaced(h, o, k) = <<V[x]>>
  BY <1>1, AddAgain
<1>3. V \in Seq(Nat) /\ Len(K) = Len(V)
  BY TabLens
<1>4. V[x] \in Nat
  BY <1>3
<1> QED
  BY <1>1, <1>2, <1>4, ConstantsAssumption DEF Found

\* One round of the loop over pending messages.
LEMMA PendingStep ==
    ASSUME HeapOk(heap), NEW U, HeapOwn(heap, puts, U), results \in LiveOf(heap), NEW K, NEW M,
           ResultsAt(heap, results, K, M), AddPending, pending \in Seq(QIds), Len(pending) <= MaxPending,
           done \in 0 .. Len(pending)
    PROVE  \E L, N : /\ ResultGrown(heap, heap', puts, U, results, L, N)
                     /\ Extended(K, M, pending[done + 1], CString(MsgData[done + 1]), L, N)
<1>1. PICK h, r, q, s, V : /\ h = heap /\ r = results /\ q = pending[done + 1] /\ s = MsgData[done + 1]
                           /\ V = ValsOf(h[r].tab)
  OBVIOUS
<1>2. done + 1 \in 1 .. Len(pending) /\ done + 1 \in 1 .. MaxPending
  BY ConstantsAssumption DEF AddPending
<1>3. q \in QIds /\ q \in Names
  <2>1. q \in QIds
    BY <1>1, <1>2
  <2> QED
    BY <2>1, FieldNames
<1>4. s \in Seq(Chars)
  BY <1>1, <1>2, DataIs
<1>5. PICK o : o = json_object_object_get(h, r, q)
  OBVIOUS
<1>6. PICK f, a : /\ f = IF o = NULL THEN NewQueueObject(h, q) ELSE h
                  /\ a = IF o = NULL THEN Len(h) + 2 ELSE json_object_object_get(h, o, "messages")
  OBVIOUS
<1>7. heap' = json_object_array_add(NewString(f, s), a, Len(NewString(f, s)))
  BY <1>1, <1>5, <1>6 DEF AddPending
<1>8. r \in 1 .. Len(h) /\ K = KeysOf(h[r].tab)
  BY <1>1 DEF ResultsAt
<1>9. CASE NoKey(K, q)
  <2>1. o = NULL
    BY <1>1, <1>3, <1>5, <1>8, <1>9, GetNone
  <2>2. f = NewQueueObject(h, q) /\ a = Len(h) + 2
    BY <1>6, <2>1
  <2>3. PICK g : g = heap'
    OBVIOUS
  <2>4. g = json_object_array_add(NewString(f, s), a, Len(NewString(f, s)))
    BY <1>7, <2>3
  <2>5. ResultGrown(h, g, puts, U, results, Append(K, q), OneMore(Append(M, <<>>), Len(K) + 1, CString(s)))
    BY <1>1, <1>3, <1>4, <1>9, <2>2, <2>4, PendingNew
  <2> QED
    BY <1>1, <1>9, <2>3, <2>5 DEF Extended
<1>10. CASE ~NoKey(K, q)
  <2>1. PICK x \in 1 .. Len(K) : K[x] = q
    BY <1>10 DEF NoKey
  <2>2. o = V[x] /\ o # NULL
    <3>1. q = K[x] /\ V = ValsOf(h[r].tab) /\ x \in 1 .. Len(K) /\ HeapOk(h)
      BY <1>1, <2>1
    <3>2. json_object_object_get(h, r, q) = V[x] /\ V[x] # NULL
      <4>1. r \in 1 .. Len(h) /\ K = KeysOf(h[r].tab)
        BY <1>8
      <4>2. Found(h, r, K, V, x)
        BY <3>1, <4>1, FoundIs
      <4> QED
        BY <3>1, <4>2 DEF Found
    <3> QED
      BY <1>5, <3>2
  <2>3. f = h /\ a = json_object_object_get(h, o, "messages")
    BY <1>6, <2>2
  <2>4. InResults(h, r, x, o, K[x], M[x])
    <3>1. HeapOk(h) /\ HeapOwn(h, puts, U) /\ r \in LiveOf(h) /\ ResultsAt(h, r, K, M) /\ o = ValsOf(h[r].tab)[x]
      BY <1>1, <2>2
    <3> QED
      BY <2>1, <3>1, QueuesLive
  <2>5. o \in 1 .. Len(h) /\ QueueRest(h, o, q)
    <3>1. QueueAt(h, o, q, M[x]) /\ o \in LiveOf(h)
      BY <2>1, <2>4 DEF InResults
    <3> QED
      BY <3>1, QueueParts DEF LiveOf
  <2>6. PICK KO, VO : KO = KeysOf(h[o].tab) /\ VO = ValsOf(h[o].tab)
    OBVIOUS
  <2>7. 1 \in 1 .. Len(VO) /\ KO[1] = "messages" /\ Len(KO) = Len(VO)
    BY <1>1, <2>5, <2>6, QueueLen
  <2>8. a = VO[1]
    <3>1. 1 \in 1 .. Len(KO) /\ HeapOk(h) /\ "messages" = KO[1]
      BY <1>1, <2>7
    <3> QED
      BY <2>3, <2>5, <2>6, <3>1, GetSome
  <2>9. PICK g : g = heap'
    OBVIOUS
  <2>10. g = json_object_array_add(NewString(h, s), a, Len(NewString(h, s)))
    BY <1>7, <2>3, <2>9
  <2>11. Adds(h, r, K, x, s, o, a, g)
    BY <1>1, <1>4, <2>1, <2>2, <2>6, <2>8, <2>10 DEF Adds
  <2>12. ResultGrown(h, g, puts, U, r, K, OneMore(M, x, CString(s)))
    BY <1>1, <2>11, PendingOld
  <2> QED
    BY <1>1, <2>1, <2>9, <2>12 DEF Extended
<1> QED
  BY <1>9, <1>10

\* The heap g is h with the field k of the response, whose value u was the
\* code's: the value it may have had is to be put.
RootAdded(h, g, U, k, u) ==
    /\ HeapOk(g) /\ HeapOwn(g, Replaced(h, 1, k), U \ {u}) /\ Len(g) = Len(h)
    /\ \A p \in 1 .. Len(h) : p # 1 => g[p] = h[p]
    /\ g[1].type = "object"
    /\ NoKey(KeysOf(h[1].tab), k) =>
            /\ Replaced(h, 1, k) = <<>>
            /\ KeysOf(g[1].tab) = Append(KeysOf(h[1].tab), k)
            /\ ValsOf(g[1].tab) = Append(ValsOf(h[1].tab), u)

\* A field of the response is added, or replaced.
LEMMA RootAdd ==
    ASSUME NEW x, HeapOk(x), NEW U, HeapOwn(x, <<>>, U), 1 \in LiveOf(x), x[1].type = "object",
           NEW k, k \in Fields, NEW u, u \in U, u > 1, NEW g, g = Add(x, 1, k, u)
    PROVE  RootAdded(x, g, U, k, u)
<1>1. PICK K, V, e : K = KeysOf(x[1].tab) /\ V = ValsOf(x[1].tab) /\ e = <<>>
  OBVIOUS
<1>2. u \in Nat /\ 1 \in 1 .. Len(x) /\ k \in Names
  <2>1. 1 \in 1 .. Len(x) /\ k \in Names
    BY FieldNames DEF LiveOf
  <2>2. u \in Nat
    BY DEF HeapOwn, Own, OwnTypes
  <2> QED
    BY <2>1, <2>2
<1>3. CASE NoKey(K, k)
  <2>1. Attached(x, g, e, U, 1, k, u, K, V)
    BY <1>1, <1>2, <1>3, AttachField
  <2>2. Tabbed(x, g, 1, Append(K, k), Append(V, u)) /\ HeapOwn(g, e, U \ {u}) /\ Replaced(x, 1, k) = e
    BY <1>1, <2>1 DEF Attached
  <2>3. /\ HeapOk(g) /\ Len(g) = Len(x) /\ (\A p \in 1 .. Len(x) : p # 1 => g[p] = x[p]) /\ g[1].type = "object"
        /\ KeysOf(g[1].tab) = Append(K, k) /\ ValsOf(g[1].tab) = Append(V, u)
    BY <2>2 DEF Tabbed
  <2> QED
    BY <1>1, <2>2, <2>3 DEF RootAdded
<1>4. CASE ~NoKey(K, k)
  <2>1. PICK j \in 1 .. Len(K) : K[j] = k
    BY <1>4 DEF NoKey
  <2>2. Len(K) = Len(V)
    BY <1>1, <1>2, TabLens
  <2>3. Tabbed(x, g, 1, Append(Drop(K, j), k), Append(Drop(V, j), u)) /\ Replaced(x, 1, k) = <<V[j]>>
    <3>1. K = KeysOf(x[1].tab) /\ V = ValsOf(x[1].tab) /\ k = K[j]
      BY <1>1, <2>1
    <3>2. /\ Tabbed(x, Add(x, 1, k, u), 1, Append(Drop(K, j), k), Append(Drop(V, j), u))
          /\ json_object_object_get(x, 1, k) = V[j] /\ Replaced(x, 1, k) = <<V[j]>>
      BY <1>2, <3>1, AddAgain
    <3> QED
      BY <3>2
  <2>4. HeapOwn(g, <<V[j]>>, U \ {u})
    <3>1. j \in 1 .. Len(ValsOf(x[1].tab))
      BY <1>1, <2>1, <2>2
    <3>2. Tabbed(x, g, 1, Append(Drop(K, j), k), Append(Drop(ValsOf(x[1].tab), j), u))
      BY <1>1, <2>3
    <3>3. HeapOwn(g, <<ValsOf(x[1].tab)[j]>>, U \ {u})
      BY <3>1, <3>2, HeapReplace
    <3> QED
      BY <1>1, <3>3
  <2>5. HeapOk(g) /\ Len(g) = Len(x) /\ (\A p \in 1 .. Len(x) : p # 1 => g[p] = x[p]) /\ g[1].type = "object"
    BY <2>3 DEF Tabbed
  <2> QED
    BY <1>1, <1>4, <2>3, <2>4, <2>5 DEF RootAdded
<1> QED
  BY <1>3, <1>4

\* The heap g is h with the new field k of the response, of type ty and value v.
FieldAdded(h, g, U, k, ty, v) ==
    /\ HeapOk(g) /\ HeapOwn(g, Replaced(h, 1, k), U) /\ Len(g) = Len(h) + 1
    /\ \A p \in 1 .. Len(h) : p # 1 => g[p] = h[p]
    /\ g[1].type = "object" /\ g[Len(h) + 1].type = ty /\ g[Len(h) + 1].val = v
    /\ NoKey(KeysOf(h[1].tab), k) =>
            /\ Replaced(h, 1, k) = <<>>
            /\ KeysOf(g[1].tab) = Append(KeysOf(h[1].tab), k)
            /\ ValsOf(g[1].tab) = Append(ValsOf(h[1].tab), Len(h) + 1)

\* A field is created and added.
LEMMA FieldStep ==
    ASSUME NEW h, HeapOk(h), NEW U, HeapOwn(h, <<>>, U), 1 \in LiveOf(h), h[1].type = "object",
           NEW k, k \in Fields, NEW ty, ty \in Types, NEW v, v \in Vals, ty = "string" => v \in Seq(Chars),
           NEW x, Created(h, x, NewObj(ty, v)), NEW g, g = Add(x, 1, k, Len(h) + 1)
    PROVE  FieldAdded(h, g, U, k, ty, v)
<1>1. PICK n, m, K, V, e : n = Len(h) /\ m = n + 1 /\ K = KeysOf(h[1].tab) /\ V = ValsOf(h[1].tab) /\ e = <<>>
  OBVIOUS
<1>2. n \in Nat /\ 1 \in 1 .. n /\ m \in Nat /\ m > 1
  <2>1. n \in Nat /\ 1 \in 1 .. n
    BY <1>1 DEF HeapOk, LiveOf
  <2> QED
    BY <1>1, <2>1
<1>3. CreatedOwned(h, x, e, U, ty, v, m)
  BY <1>1, CreateOwned
<1>4. /\ HeapOk(x) /\ Len(x) = m /\ m \notin U /\ LiveOf(h) \subseteq LiveOf(x)
      /\ HeapOwn(x, e, U \union {m}) /\ (\A p \in 1 .. n : x[p] = h[p])
      /\ x[m].type = ty /\ x[m].val = v
  BY <1>1, <1>3 DEF CreatedOwned
<1>5. x[1] = h[1] /\ 1 \in LiveOf(x) /\ m # 1 /\ m \in 1 .. m
  BY <1>2, <1>4
<1>6. Replaced(h, 1, k) = Replaced(x, 1, k)
  BY <1>5 DEF Replaced, json_object_object_get
<1>7. (U \union {m}) \ {m} = U
  BY <1>4
<1>8. RootAdded(x, g, U \union {m}, k, m)
  <2>1. m \in U \union {m} /\ g = Add(x, 1, k, m) /\ x[1].type = "object" /\ HeapOwn(x, <<>>, U \union {m})
    BY <1>1, <1>4, <1>5
  <2> QED
    BY <1>2, <1>4, <1>5, <2>1, RootAdd
<1>9. /\ HeapOk(g) /\ HeapOwn(g, Replaced(h, 1, k), U) /\ Len(g) = m
      /\ (\A p \in 1 .. m : p # 1 => g[p] = x[p]) /\ g[1].type = "object"
      /\ NoKey(K, k) => /\ Replaced(h, 1, k) = <<>>
                        /\ KeysOf(g[1].tab) = Append(K, k) /\ ValsOf(g[1].tab) = Append(V, m)
  BY <1>1, <1>4, <1>5, <1>6, <1>7, <1>8 DEF RootAdded
<1>10. \A p \in 1 .. n : p \in 1 .. m
  BY <1>1, <1>2
<1>11. g[m] = x[m] /\ \A p \in 1 .. n : p # 1 => g[p] = h[p]
  BY <1>4, <1>5, <1>9, <1>10
<1> QED
  BY <1>1, <1>4, <1>9, <1>11 DEF FieldAdded

-----------------------------------------------------------------------------
(* The inductive invariant *)

\* What the code that builds the response holds: the response and, until it is
\* added, the result.
Roots ==
    IF pc = "build" THEN {1} \union (IF results # NULL /\ todo # <<>> THEN {results} ELSE {}) ELSE {}

\* Types.
Typed ==
    /\ pc \in {"idle", "build", "put"} /\ todo \in Seq(Fields)
    /\ pending \in Seq(QIds) /\ Len(pending) <= MaxPending /\ included \subseteq QIds
    /\ done \in 0 .. Len(pending) /\ HeapOk(heap)
    /\ results # NULL => results \in 2 .. Len(heap)

\* The result is the last field, and complete when it is added.
Ordered ==
    /\ \A i \in 1 .. Len(todo) : todo[i] = "results" => i = Len(todo)
    /\ pc = "build" /\ results # NULL =>
            \/ todo = <<"results">>
            \/ todo = <<>> /\ done = Len(pending)

\* Every object that is not freed has exactly one owner.
Held ==
    /\ HeapOwn(heap, puts, Roots)
    /\ pc = "idle" => puts = <<>>
    /\ pc = "build" => heap[1].type = "object"

\* The result is an object of queues.
InResult == pc = "build" /\ results # NULL => \E K, M : ResultsAt(heap, results, K, M)

RespInv == Typed /\ Ordered /\ Held /\ InResult

\* No objects.
LEMMA EmptyHeap ==
    HeapOk(<<>>) /\ HeapOwn(<<>>, <<>>, {})
<1>1. PICK e : e = <<>>
  OBVIOUS
<1>2. e \in Seq(Objects) /\ Len(e) = 0
  BY <1>1
<1>3. HeapOk(e)
  BY <1>2 DEF HeapOk
<1>4. LiveOf(e) = {}
  BY <1>2 DEF LiveOf
<1>5. AllConts(e) \in [1 .. 0 -> Seq(1 .. 0)]
  BY <1>2 DEF AllConts
<1>6. Own(0, {}, AllConts(e), e, {})
  BY <1>1, <1>2, <1>5 DEF Own, OwnTypes, OwnOnce
<1> QED
  BY <1>1, <1>2, <1>3, <1>4, <1>6 DEF HeapOwn

\* The invariant holds in the beginning.
LEMMA RespInit ==
    Init => RespInv
<1> SUFFICES ASSUME Init PROVE RespInv
  OBVIOUS
<1>1. PICK e : e = <<>>
  OBVIOUS
<1>2. /\ heap = e /\ todo = e /\ pending = e /\ included = {}
      /\ done = 0 /\ results = NULL /\ puts = e /\ pc = "idle"
  BY <1>1 DEF Init
<1>3. e \in Seq(Fields) /\ e \in Seq(QIds) /\ Len(e) = 0 /\ HeapOk(e) /\ HeapOwn(e, e, {})
  BY <1>1, EmptyHeap
<1>4. Typed
  BY <1>2, <1>3, ConstantsAssumption DEF Typed
<1>5. Roots = {}
  BY <1>2 DEF Roots
<1> QED
  BY <1>1, <1>2, <1>3, <1>4, <1>5 DEF RespInv, Ordered, Held, InResult

\* A sequence of fields in which only the last one may be the result.
LastOnly(s) == s \in Seq(Fields) /\ \A i \in 1 .. Len(s) : s[i] = "results" => i = Len(s)

\* It is one behind other fields.
LEMMA LastBehind ==
    ASSUME NEW s, NEW t, LastOnly(t), Len(t) > 0, s \in Seq(Fields), \A i \in 1 .. Len(s) : s[i] # "results"
    PROVE  LastOnly(s \o t)
<1>1. PICK r, E : r = s \o t /\ E = Fields
  OBVIOUS
<1>2. s \in Seq(E) /\ t \in Seq(E)
  BY <1>1 DEF LastOnly
<1>3. ConcatIs(E, s, t, r)
  BY <1>1, <1>2, Concat
<1>4. PICK m, n : m = Len(s) /\ n = Len(t) /\ m \in Nat /\ n \in Nat
  BY <1>2
<1>5. /\ r \in Seq(E) /\ Len(r) = m + n
      /\ (\A i \in 1 .. m : r[i] = s[i]) /\ (\A i \in 1 .. n : r[m + i] = t[i])
  BY <1>3, <1>4 DEF ConcatIs
<1>6. ASSUME NEW i \in 1 .. m + n, r[i] = "results" PROVE i = m + n
  <2>1. CASE i <= m
    <3>1. i \in 1 .. m
      BY <1>4, <2>1
    <3> QED
      BY <1>4, <1>5, <1>6, <3>1
  <2>2. CASE i > m
    <3>1. PICK j : j = i - m
      OBVIOUS
    <3>2. j \in 1 .. n /\ m + j = i
      BY <1>4, <2>2, <3>1
    <3>3. t[j] = "results"
      BY <1>5, <1>6, <3>2
    <3>4. j = n
      BY <1>4, <3>2, <3>3 DEF LastOnly
    <3> QED
      BY <3>2, <3>4
  <2> QED
    BY <1>4, <2>1, <2>2
<1> QED
  BY <1>1, <1>5, <1>6 DEF LastOnly

\* The fields of a response: the result is the last one.
LEMMA FieldsOf ==
    ASSUME NEW ret, ret \in DOMAIN RetFields, NEW s, s = <<"version", "ret">> \o RetFields[ret]
    PROVE  LastOnly(s)
<1>1. ret \in {"NOT_FOUND", "MSGS", "MSG_ADDED", "QUEUE_INFO", "OK"}
  BY DEF RetFields
<1>2. /\ "version" \in Fields /\ "ret" \in Fields /\ "error" \in Fields /\ "results" \in Fields
      /\ "ret_desc" \in Fields /\ "rev" \in Fields /\ "msgs_in_queue" \in Fields
  BY ConstantsAssumption
<1>3. PICK a, b, t : a = <<"version", "ret">> /\ b = <<"ret_desc", "rev">> /\ t = RetFields[ret]
  OBVIOUS
<1>4. a \in Seq(Fields) /\ Len(a) = 2 /\ a[1] = "version" /\ a[2] = "ret"
  BY <1>2, <1>3
<1>5. b \in Seq(Fields) /\ Len(b) = 2 /\ b[1] = "ret_desc" /\ b[2] = "rev"
  BY <1>2, <1>3
<1>6. \A i \in 1 .. 2 : i = 1 \/ i = 2
  OBVIOUS
<1>7. \A i \in 1 .. Len(a) : a[i] # "results"
  BY <1>4, <1>6
<1>8. \A i \in 1 .. Len(b) : b[i] # "results"
  BY <1>5, <1>6
<1>9. PICK c : c = <<"ret_desc", "rev", "msgs_in_queue">>
  OBVIOUS
<1>10. c \in Seq(Fields) /\ Len(c) = 3 /\ c[1] = "ret_desc" /\ c[2] = "rev" /\ c[3] = "msgs_in_queue"
  BY <1>2, <1>9
<1>11. LastOnly(c) /\ Len(c) > 0
  <2>1. \A i \in 1 .. 3 : i = 1 \/ i = 2 \/ i = 3
    OBVIOUS
  <2> QED
    BY <1>10, <2>1 DEF LastOnly
<1>12. CASE ret = "OK"
  <2>1. t = <<>>
    BY <1>3, <1>12 DEF RetFields
  <2>2. s = a
    BY <1>3, <1>4, <2>1
  <2> QED
    BY <1>4, <1>7, <2>2 DEF LastOnly
<1>13. ASSUME LastOnly(t), Len(t) > 0 PROVE LastOnly(s)
  <2>1. LastOnly(a \o t)
    BY <1>4, <1>7, <1>13, LastBehind
  <2> QED
    BY <1>3, <2>1
<1>14. CASE ret = "NOT_FOUND"
  <2>1. t = <<"error">>
    BY <1>3, <1>14 DEF RetFields
  <2>2. t \in Seq(Fields) /\ Len(t) = 1
    BY <1>2, <2>1
  <2>3. LastOnly(t) /\ Len(t) > 0
    BY <2>2 DEF LastOnly
  <2> QED
    BY <1>13, <2>3
<1>15. CASE ret = "MSGS"
  <2>1. t = <<"results">>
    BY <1>3, <1>15 DEF RetFields
  <2>2. t \in Seq(Fields) /\ Len(t) = 1
    BY <1>2, <2>1
  <2>3. LastOnly(t) /\ Len(t) > 0
    BY <2>2 DEF LastOnly
  <2> QED
    BY <1>13, <2>3
<1>16. CASE ret = "QUEUE_INFO"
  <2>1. t = c
    BY <1>3, <1>9, <1>16 DEF RetFields
  <2> QED
    BY <1>11, <1>13, <2>1
<1>17. CASE ret = "MSG_ADDED"
  <2>1. t = b \o c
    BY <1>3, <1>9, <1>17 DEF RetFields
  <2>2. LastOnly(b \o c)
    BY <1>5, <1>8, <1>11, LastBehind
  <2>3. Len(t) > 0
    <3>1. ConcatIs(Fields, b, c, t)
      BY <1>5, <1>10, <2>1, Concat
    <3>2. Len(t) = Len(b) + Len(c)
      BY <3>1 DEF ConcatIs
    <3> QED
      BY <1>5, <1>10, <3>2
  <2> QED
    BY <1>13, <2>1, <2>2, <2>3
<1> QED
  BY <1>1, <1>12, <1>14, <1>15, <1>16, <1>17

\* A response begins.
LEMMA RespondStep ==
    ASSUME RespInv, NEW ret, ret \in DOMAIN RetFields, Respond(ret)
    PROVE  RespInv'
<1>1. PICK e, g : e = <<>> /\ g = NewObject(e)
  OBVIOUS
<1>2. /\ pc' = "build" /\ heap' = g /\ todo' = <<"version", "ret">> \o RetFields[ret]
      /\ done' = 0 /\ results' = NULL /\ puts' = e
  BY <1>1 DEF Respond
<1>3. pending' \in Seq(QIds) /\ Len(pending') <= MaxPending /\ included' \subseteq QIds
  <2>1. CASE ret = "MSGS"
    <3>1. included' \subseteq QIds /\ pending' \in UNION {[1 .. n -> QIds] : n \in 1 .. MaxPending}
      BY <2>1 DEF Respond
    <3>2. PICK n \in 1 .. MaxPending : pending' \in [1 .. n -> QIds]
      BY <3>1
    <3>3. MaxPending \in Nat
      BY ConstantsAssumption
    <3>4. n \in Nat /\ n <= MaxPending
      BY <3>2, <3>3
    <3>5. pending' \in Seq(QIds) /\ Len(pending') = n
      BY <3>2, <3>4
    <3> QED
      BY <3>1, <3>4, <3>5
  <2>2. CASE ret # "MSGS"
    <3>1. pending' = e /\ included' = {}
      BY <1>1, <2>2 DEF Respond
    <3>2. e \in Seq(QIds) /\ Len(e) = 0 /\ MaxPending \in Nat
      BY <1>1, ConstantsAssumption
    <3> QED
      BY <3>1, <3>2
  <2> QED
    BY <2>1, <2>2
<1>4. HeapOk(e) /\ HeapOwn(e, e, {}) /\ Len(e) = 0
  BY <1>1, EmptyHeap
<1>5. CreatedOwned(e, g, e, {}, "object", NULL, 1)
  <2>1. Created(e, g, NewObj("object", NULL)) /\ "object" \in Types /\ NULL \in Vals /\ "object" # "string"
    BY <1>1, <1>4, NewIs, FieldNames
  <2>2. 1 = Len(e) + 1
    BY <1>4
  <2> QED
    BY <1>4, <2>1, <2>2, CreateOwned
<1>6. HeapOk(g) /\ HeapOwn(g, e, {} \union {1}) /\ g[1].type = "object"
  BY <1>5 DEF CreatedOwned
<1>7. {} \union {1} = {1} /\ Roots' = {1}
  BY <1>2 DEF Roots
<1>8. todo' \in Seq(Fields) /\ \A i \in 1 .. Len(todo') : todo'[i] = "results" => i = Len(todo')
  <2>1. LastOnly(todo')
    BY <1>2, FieldsOf
  <2> QED
    BY <2>1 DEF LastOnly
<1>9. 0 \in 0 .. Len(pending')
  BY <1>3
<1>10. Typed'
  BY <1>2, <1>3, <1>6, <1>8, <1>9 DEF Typed
<1>11. Ordered'
  BY <1>2, <1>8 DEF Ordered
<1>12. Held'
  BY <1>2, <1>6, <1>7 DEF Held
<1>13. InResult'
  BY <1>2 DEF InResult
<1> QED
  BY <1>10, <1>11, <1>12, <1>13 DEF RespInv

\* The result in the next state.
LEMMA PrimedResults ==
    ASSUME NEW K, NEW M, included' = included, NEW g, g = heap', NEW r, r = results', ResultsAt(g, r, K, M)
    PROVE  ResultsAt(heap, results, K, M)'
<1>1. ASSUME NEW o, NEW q, NEW B, QueueAt(g, o, q, B) PROVE QueueAt(heap, o, q, B)'
  BY <1>1 DEF QueueAt
<1> QED
  BY <1>1 DEF ResultsAt

\* A result stays while nothing but an object below it changes.
LEMMA ResultsSame ==
    ASSUME NEW h, HeapOk(h), NEW P, NEW U, HeapOwn(h, P, U), NEW g, NEW x, SameBut(h, g, x), h[x].type = "object",
           NEW r, r > x, x \in Nat, NEW K, NEW M, ResultsAt(h, r, K, M)
    PROVE  ResultsAt(g, r, K, M)
<1>1. PICK V, n : V = ValsOf(h[r].tab) /\ n = Len(h) /\ n \in Nat
  BY DEF HeapOk
<1>2. r \in 1 .. n /\ h[r].type = "object" /\ KeysOf(h[r].tab) = K /\ M \in Msgs /\ Len(M) = Len(K) /\ r # x
  BY <1>1 DEF ResultsAt
<1>3. Len(K) = Len(V)
  BY <1>1, <1>2, TabLens
<1>4. AllConts(h)[r] = V /\ r \in 1 .. n
  BY <1>1, <1>2 DEF AllConts, Conts
<1>5. ASSUME NEW i, i \in 1 .. Len(K) PROVE QueueAt(g, V[i], K[i], M[i])
  <2>1. PICK o, q, Z : o = V[i] /\ q = K[i] /\ Z = ValsOf(h[o].tab)
    OBVIOUS
  <2>2. QueueAt(h, o, q, M[i])
    BY <1>1, <1>5, <2>1 DEF ResultsAt
  <2>3. o > r
    <3>1. PICK C : C = AllConts(h)
      OBVIOUS
    <3>2. \A p \in 1 .. n : \A j \in 1 .. Len(C[p]) : C[p][j] > p
      BY <1>1, <3>1 DEF HeapOwn, Own, OwnTypes
    <3>3. i \in 1 .. Len(C[r]) /\ C[r][i] = o
      BY <1>3, <1>4, <1>5, <2>1, <3>1
    <3> QED
      BY <1>2, <3>2, <3>3
  <2>4. QueueRest(h, o, q) /\ ArrOf(h, Z[1], M[i])
    BY <2>1, <2>2, QueueParts
  <2>5. o # x
    <3>1. o \in 1 .. n
      BY <1>1, <2>4 DEF QueueRest
    <3> QED
      BY <1>2, <2>3, <3>1
  <2>6. Z[1] # x
    BY <2>4 DEF ArrOf
  <2>7. q \in included => Z[3] # x
    BY <2>1, <2>4 DEF QueueRest, ArrOf
  <2>8. h[x].type # "string" /\ h[x].type # "int"
    OBVIOUS
  <2>9. QueueAt(g, o, q, M[i])
    <3>1. ValsOf(h[o].tab)[1] # x /\ (q \in included => ValsOf(h[o].tab)[3] # x)
      BY <2>1, <2>6, <2>7
    <3> QED
      BY <2>2, <2>5, <2>8, <3>1, QueueKept
  <2> QED
    BY <2>1, <2>9
<1>6. Same(h, g, r) /\ r \in 1 .. Len(g)
  BY <1>1, <1>2 DEF SameBut
<1> QED
  BY <1>1, <1>2, <1>5, <1>6 DEF ResultsAt, Same

\* A result without queues.
LEMMA ResultsEmpty ==
    ASSUME NEW h, HeapOk(h), NEW r, r \in 1 .. Len(h), h[r].type = "object", KeysOf(h[r].tab) = <<>>
    PROVE  ResultsAt(h, r, <<>>, <<>>)
<1>1. PICK e : e = <<>>
  OBVIOUS
<1>2. Len(e) = 0 /\ e \in Msgs
  BY <1>1 DEF Msgs
<1>3. ResultsAt(h, r, e, e)
  BY <1>1, <1>2 DEF ResultsAt
<1> QED
  BY <1>1, <1>3

\* The rest of the fields.
LEMMA LastTail ==
    ASSUME NEW s, LastOnly(s), s # <<>>
    PROVE  /\ LastOnly(Tail(s)) /\ Head(s) \in Fields
           /\ Head(s) = "results" => s = <<"results">>
<1>1. PICK n : n = Len(s) /\ n \in Nat /\ n > 0 /\ s \in Seq(Fields)
  BY DEF LastOnly
<1>2. PICK t : t = Tail(s)
  OBVIOUS
<1>3. t \in Seq(Fields) /\ Len(t) = n - 1 /\ (\A i \in 1 .. n - 1 : t[i] = s[i + 1]) /\ Head(s) = s[1] /\ s[1] \in Fields
  BY <1>1, <1>2
<1>4. ASSUME NEW i \in 1 .. n - 1, t[i] = "results" PROVE i = n - 1
  <2>1. PICK j : j = i + 1
    OBVIOUS
  <2>2. j \in 1 .. n /\ s[j] = "results"
    BY <1>1, <1>3, <1>4, <2>1
  <2>3. j = n
    BY <1>1, <2>2 DEF LastOnly
  <2> QED
    BY <1>1, <2>1, <2>3
<1>5. LastOnly(t)
  BY <1>3, <1>4 DEF LastOnly
<1>6. ASSUME Head(s) = "results" PROVE s = <<"results">>
  <2>1. 1 \in 1 .. n /\ s[1] = "results"
    BY <1>1, <1>3, <1>6
  <2>2. n = 1
    BY <1>1, <2>1 DEF LastOnly
  <2>3. PICK w : w = <<"results">>
    OBVIOUS
  <2>4. w \in Seq(Fields) /\ Len(w) = 1 /\ w[1] = "results"
    <3>1. "results" \in Fields
      BY ConstantsAssumption
    <3> QED
      BY <2>3, <3>1
  <2>5. \A i \in 1 .. 1 : i = 1
    OBVIOUS
  <2>6. s = w
    BY <1>1, <2>1, <2>2, <2>4, <2>5, SeqEqual
  <2> QED
    BY <2>3, <2>6
<1> QED
  BY <1>2, <1>3, <1>5, <1>6

\* Fields are not the character that ends a string.
LEMMA FieldString ==
    ASSUME NEW k, k \in Fields, k # "NUL"
    PROVE  <<k>> \in Seq(Chars) /\ CString(<<k>>) = <<k>>
<1>1. PICK w : w = <<k>>
  OBVIOUS
<1>2. k \in Chars
  BY FieldNames DEF Chars
<1>3. w \in Seq(Chars) /\ Len(w) = 1 /\ w[1] = k /\ DOMAIN w = {1}
  BY <1>1, <1>2
<1>4. {j \in DOMAIN w : w[j] = "NUL"} = {}
  BY <1>3
<1>5. CString(w) = w
  BY <1>4 DEF CString
<1> QED
  BY <1>1, <1>3, <1>5

\* A field is created.
FieldOf(h, k, x, ty, v) ==
    /\ ty \in Types /\ v \in Vals /\ (ty = "string" => v \in Seq(Chars))
    /\ Created(h, x, NewObj(ty, v)) /\ (ty = "string" /\ k # "NUL" => v = <<k>>)

\* A string or an int.
LEMMA FieldNew ==
    ASSUME NEW h, HeapOk(h), NEW k, k \in Fields,
           NEW x, x = IF k \in {"rev", "msgs_in_queue"} THEN NewInt(h, k) ELSE NewString(h, <<k>>)
    PROVE  \E v : FieldOf(h, k, x, IF k \in {"rev", "msgs_in_queue"} THEN "int" ELSE "string", v)
<1>1. k \in Names /\ k \in Vals /\ k \in Chars
  BY FieldNames DEF Chars
<1>2. CASE k \in {"rev", "msgs_in_queue"}
  <2>1. x = NewInt(h, k)
    BY <1>2
  <2>2. Created(h, x, NewObj("int", k))
    BY <1>1, <2>1, NewIs
  <2>3. FieldOf(h, k, x, "int", k)
    BY <1>1, <2>2, FieldNames DEF FieldOf
  <2> QED
    BY <1>2, <2>3
<1>3. CASE k \notin {"rev", "msgs_in_queue"}
  <2>1. x = NewString(h, <<k>>)
    BY <1>3
  <2>2. PICK w, v : w = <<k>> /\ v = CString(w)
    OBVIOUS
  <2>3. w \in Seq(Chars)
    BY <1>1, <2>2
  <2>4. v \in Seq(Chars) /\ v \in Vals
    BY <2>2, <2>3, CStringIs DEF Vals
  <2>5. Created(h, x, NewObj("string", v))
    BY <2>1, <2>2, <2>3, NewIs
  <2>6. k # "NUL" => v = <<k>>
    BY <2>2, FieldString
  <2>7. FieldOf(h, k, x, "string", v)
    BY <2>4, <2>5, <2>6, FieldNames DEF FieldOf
  <2> QED
    BY <1>3, <2>7
<1> QED
  BY <1>2, <1>3

\* The first object while a response is built.
LEMMA RootIs ==
    ASSUME RespInv, pc = "build"
    PROVE  1 \in LiveOf(heap) /\ heap[1].type = "object" /\ Len(heap) \in Nat /\ Len(heap) >= 1
<1>1. 1 \in Roots
  BY DEF Roots
<1>2. 1 \in LiveOf(heap)
  BY <1>1 DEF RespInv, Held, HeapOwn, Own, OwnTypes
<1>3. heap[1].type = "object" /\ Len(heap) \in Nat
  BY DEF RespInv, Held, Typed, HeapOk
<1>4. 1 \in 1 .. Len(heap)
  BY <1>2 DEF LiveOf
<1> QED
  BY <1>2, <1>3, <1>4

\* The fields that are still to be added.
LEMMA TodoIs ==
    ASSUME RespInv, todo # <<>>
    PROVE  /\ LastOnly(todo) /\ LastOnly(Tail(todo)) /\ Head(todo) \in Fields
           /\ Head(todo) = "results" => todo = <<"results">>
           /\ pc = "build" /\ results # NULL => todo = <<"results">>
<1>1. LastOnly(todo)
  BY DEF RespInv, Typed, Ordered, LastOnly
<1>2. /\ LastOnly(Tail(todo)) /\ Head(todo) \in Fields
      /\ Head(todo) = "results" => todo = <<"results">>
  BY <1>1, LastTail
<1> QED
  BY <1>1, <1>2 DEF RespInv, Ordered

\* A field is added.
LEMMA AddFieldStep ==
    ASSUME RespInv, AddField
    PROVE  RespInv'
<1>1. PICK h, k, x : /\ h = heap /\ k = Head(todo)
                     /\ x = IF k \in {"rev", "msgs_in_queue"} THEN NewInt(h, k) ELSE NewString(h, <<k>>)
  OBVIOUS
<1>2. /\ pc = "build" /\ puts = <<>> /\ todo # <<>> /\ k # "results"
      /\ heap' = Add(x, 1, k, Len(h) + 1) /\ puts' = Replaced(h, 1, k) /\ todo' = Tail(todo)
  BY <1>1 DEF AddField, Building
<1>3. UNCHANGED <<pending, included, done, results, pc>>
  BY DEF AddField, request
<1>4. LastOnly(todo') /\ k \in Fields
  BY <1>1, <1>2, TodoIs
<1>5. results = NULL
  <2>1. SUFFICES ASSUME results # NULL PROVE FALSE
    OBVIOUS
  <2>2. todo = <<"results">>
    BY <1>2, <2>1, TodoIs
  <2>3. Head(todo) = "results"
    BY <2>2
  <2> QED
    BY <1>1, <1>2, <2>3
<1>6. 1 \in LiveOf(h) /\ h[1].type = "object" /\ HeapOk(h)
  BY <1>1, <1>2, RootIs DEF RespInv, Typed
<1>7. Roots = {1} /\ Roots' = {1}
  BY <1>2, <1>3, <1>5 DEF Roots
<1>8. HeapOwn(h, <<>>, {1})
  BY <1>1, <1>2, <1>7 DEF RespInv, Held
<1>9. PICK ty, v : FieldOf(h, k, x, ty, v)
  BY <1>1, <1>4, <1>6, FieldNew
<1>10. PICK g : g = heap'
  OBVIOUS
<1>11. FieldAdded(h, g, {1}, k, ty, v)
  <2>1. /\ ty \in Types /\ v \in Vals /\ (ty = "string" => v \in Seq(Chars))
        /\ Created(h, x, NewObj(ty, v)) /\ g = Add(x, 1, k, Len(h) + 1)
    BY <1>2, <1>9, <1>10 DEF FieldOf
  <2> QED
    BY <1>4, <1>6, <1>8, <2>1, FieldStep
<1>12. HeapOk(g) /\ HeapOwn(g, Replaced(h, 1, k), {1}) /\ g[1].type = "object"
  BY <1>11 DEF FieldAdded
<1>13. Typed'
  BY <1>3, <1>4, <1>5, <1>10, <1>12 DEF RespInv, Typed, LastOnly
<1>14. Ordered'
  BY <1>3, <1>4, <1>5 DEF Ordered, LastOnly
<1>15. Held'
  BY <1>2, <1>3, <1>7, <1>10, <1>12 DEF Held
<1>16. InResult'
  BY <1>3, <1>5 DEF InResult
<1> QED
  BY <1>13, <1>14, <1>15, <1>16 DEF RespInv

\* The result begins.
LEMMA NewResultsStep ==
    ASSUME RespInv, NewResults
    PROVE  RespInv'
<1>1. PICK h, g, r, e : h = heap /\ g = heap' /\ r = Len(h) + 1 /\ e = <<>>
  OBVIOUS
<1>2. /\ pc = "build" /\ puts = e /\ todo # <<>> /\ Head(todo) = "results" /\ results = NULL
      /\ g = NewObject(h) /\ results' = r
  BY <1>1 DEF NewResults, Building
<1>3. UNCHANGED <<todo, pending, included, done, puts, pc>>
  BY DEF NewResults, request
<1>4. todo = <<"results">> /\ LastOnly(todo)
  BY <1>2, TodoIs
<1>5. Len(h) \in Nat /\ Len(h) >= 1 /\ h[1].type = "object" /\ HeapOk(h)
  BY <1>1, <1>2, RootIs DEF RespInv, Typed
<1>6. r \in Nat /\ r >= 2 /\ r # NULL
  <2>1. r \in Nat /\ r >= 2
    BY <1>1, <1>5
  <2> QED
    BY <2>1, ConstantsAssumption
<1>7. Roots = {1}
  BY <1>2 DEF Roots
<1>8. Roots' = {1} \union {r}
  BY <1>2, <1>3, <1>6 DEF Roots
<1>9. HeapOwn(h, e, {1})
  BY <1>1, <1>2, <1>7 DEF RespInv, Held
<1>10. CreatedOwned(h, g, e, {1}, "object", NULL, r)
  <2>1. Created(h, g, NewObj("object", NULL)) /\ "object" \in Types /\ NULL \in Vals /\ "object" # "string"
    BY <1>2, <1>5, NewIs, FieldNames
  <2> QED
    BY <1>1, <1>5, <1>9, <2>1, CreateOwned
<1>11. /\ HeapOk(g) /\ Len(g) = r /\ HeapOwn(g, e, {1} \union {r}) /\ (\A p \in 1 .. Len(h) : g[p] = h[p])
       /\ g[r].type = "object" /\ KeysOf(g[r].tab) = <<>>
  BY <1>10 DEF CreatedOwned
<1>12. g[1].type = "object"
  <2>1. 1 \in 1 .. Len(h)
    BY <1>5
  <2> QED
    BY <1>5, <1>11, <2>1
<1>13. r \in 1 .. Len(g) /\ r \in 2 .. Len(g)
  BY <1>6, <1>11
<1>14. ResultsAt(g, r, <<>>, <<>>)
  BY <1>11, <1>13, ResultsEmpty
<1>15. Typed'
  BY <1>1, <1>2, <1>3, <1>11, <1>13 DEF RespInv, Typed
<1>16. Ordered'
  BY <1>3, <1>4 DEF Ordered, LastOnly
<1>17. Held'
  BY <1>1, <1>2, <1>3, <1>8, <1>11, <1>12 DEF Held
<1>18. InResult'
  <2>1. ResultsAt(heap, results, <<>>, <<>>)'
    BY <1>1, <1>2, <1>3, <1>14, PrimedResults
  <2> QED
    BY <2>1 DEF InResult
<1> QED
  BY <1>15, <1>16, <1>17, <1>18 DEF RespInv

\* A message is added to the result.
LEMMA AddPendingStep ==
    ASSUME RespInv, AddPending
    PROVE  RespInv'
<1>1. PICK h, g, r : h = heap /\ g = heap' /\ r = results
  OBVIOUS
<1>2. pc = "build" /\ puts = <<>> /\ results # NULL /\ done < Len(pending) /\ done' = done + 1
  BY DEF AddPending, Building
<1>3. UNCHANGED <<todo, pending, included, results, puts, pc>>
  BY DEF AddPending, request
<1>4. done \in 0 .. Len(pending) /\ pending \in Seq(QIds) /\ Len(pending) <= MaxPending /\ HeapOk(heap)
  BY DEF RespInv, Typed
<1>5. Len(pending) \in Nat
  BY <1>4
<1>6. done # Len(pending) /\ done' \in 0 .. Len(pending)
  BY <1>2, <1>4, <1>5
<1>7. todo = <<"results">> /\ todo # <<>>
  <2>1. todo = <<"results">>
    BY <1>2, <1>6 DEF RespInv, Ordered
  <2> QED
    BY <2>1
<1>8. r \in Roots /\ Roots' = Roots
  BY <1>1, <1>2, <1>3, <1>7 DEF Roots
<1>9. HeapOwn(heap, puts, Roots)
  BY DEF RespInv, Held
<1>10. results \in LiveOf(heap)
  BY <1>1, <1>8, <1>9 DEF HeapOwn, Own, OwnTypes
<1>11. PICK K, M : ResultsAt(heap, results, K, M)
  BY <1>2 DEF RespInv, InResult
<1>12. PICK L, N : ResultGrown(heap, heap', puts, Roots, results, L, N)
  BY <1>4, <1>9, <1>10, <1>11, PendingStep
<1>13. /\ HeapOk(g) /\ HeapOwn(g, puts, Roots) /\ Len(h) < Len(g) /\ ResultsAt(g, r, L, N)
       /\ \A p \in 1 .. Len(h) : p < r => g[p] = h[p]
  BY <1>1, <1>12 DEF ResultGrown
<1>14. r \in 2 .. Len(h) /\ Len(h) \in Nat /\ Len(h) >= 1 /\ h[1].type = "object" /\ Len(g) \in Nat
  BY <1>1, <1>2, <1>13, RootIs DEF RespInv, Typed, HeapOk
<1>15. 1 \in 1 .. Len(h) /\ 1 < r /\ r \in 2 .. Len(g)
  BY <1>13, <1>14
<1>16. g[1].type = "object"
  BY <1>13, <1>14, <1>15
<1>17. Typed'
  BY <1>1, <1>3, <1>6, <1>13, <1>15 DEF RespInv, Typed
<1>18. Ordered'
  BY <1>3, <1>7 DEF RespInv, Ordered
<1>19. Held'
  BY <1>1, <1>2, <1>3, <1>8, <1>13, <1>16 DEF Held
<1>20. InResult'
  <2>1. ResultsAt(heap, results, L, N)'
    BY <1>1, <1>3, <1>13, PrimedResults
  <2> QED
    BY <2>1 DEF InResult
<1> QED
  BY <1>17, <1>18, <1>19, <1>20 DEF RespInv

\* The result is added to the response.
LEMMA AddResultsStep ==
    ASSUME RespInv, AddResults
    PROVE  RespInv'
<1>1. PICK h, g, r : h = heap /\ g = heap' /\ r = results
  OBVIOUS
<1>2. /\ pc = "build" /\ puts = <<>> /\ todo # <<>> /\ r # NULL /\ done = Len(pending)
      /\ g = Add(h, 1, "results", r) /\ puts' = Replaced(h, 1, "results") /\ todo' = Tail(todo)
  BY <1>1 DEF AddResults, Building
<1>3. UNCHANGED <<pending, included, done, results, pc>>
  BY DEF AddResults, request
<1>4. todo = <<"results">>
  BY <1>1, <1>2, TodoIs
<1>5. todo' = <<>>
  BY <1>2, <1>4
<1>6. PICK U : U = {1} \union {r}
  OBVIOUS
<1>7. Roots = U /\ Roots' = {1}
  BY <1>1, <1>2, <1>3, <1>5, <1>6 DEF Roots
<1>8. /\ HeapOwn(h, <<>>, U) /\ HeapOk(h) /\ 1 \in LiveOf(h) /\ h[1].type = "object"
      /\ r \in 2 .. Len(h) /\ Len(h) \in Nat
  BY <1>1, <1>2, <1>7, RootIs DEF RespInv, Held, Typed
<1>9. RootAdded(h, g, U, "results", r)
  <2>1. r \in U /\ r > 1 /\ "results" \in Fields
    BY <1>6, <1>8, ConstantsAssumption
  <2> QED
    BY <1>2, <1>8, <2>1, RootAdd
<1>10. /\ HeapOk(g) /\ HeapOwn(g, Replaced(h, 1, "results"), U \ {r}) /\ Len(g) = Len(h)
       /\ (\A p \in 1 .. Len(h) : p # 1 => g[p] = h[p]) /\ g[1].type = "object"
  BY <1>9 DEF RootAdded
<1>11. U \ {r} = {1}
  BY <1>6, <1>8
<1>12. SameBut(h, g, 1)
  BY <1>8, <1>10 DEF SameBut, Same
<1>13. PICK K, M : ResultsAt(h, r, K, M)
  BY <1>1, <1>2 DEF RespInv, InResult
<1>14. ResultsAt(g, r, K, M)
  <2>1. 1 \in Nat /\ r > 1
    BY <1>8
  <2> QED
    BY <1>8, <1>12, <1>13, <2>1, ResultsSame
<1>15. PICK e : e = <<>>
  OBVIOUS
<1>16. e \in Seq(Fields) /\ Len(e) = 0
  BY <1>15
<1>17. Typed'
  BY <1>1, <1>3, <1>5, <1>8, <1>10, <1>15, <1>16 DEF RespInv, Typed
<1>18. Ordered'
  BY <1>2, <1>3, <1>5, <1>15, <1>16 DEF Ordered
<1>19. Held'
  BY <1>1, <1>2, <1>3, <1>7, <1>10, <1>11 DEF Held
<1>20. InResult'
  <2>1. ResultsAt(heap, results, K, M)'
    BY <1>1, <1>3, <1>14, PrimedResults
  <2> QED
    BY <2>1 DEF InResult
<1> QED
  BY <1>17, <1>18, <1>19, <1>20 DEF RespInv

\* The response is written.
LEMMA SendStep ==
    ASSUME RespInv, Send
    PROVE  RespInv'
<1>1. pc = "build" /\ puts = <<>> /\ todo = <<>> /\ pc' = "put" /\ puts' = <<1>>
  BY DEF Send, Building
<1>2. UNCHANGED <<heap, todo, pending, included, done, results>>
  BY DEF Send, request
<1>3. Roots = {1} /\ Roots' = {}
  BY <1>1 DEF Roots
<1>4. Own(Len(heap), LiveOf(heap), AllConts(heap), <<>>, {1})
  BY <1>1, <1>3 DEF RespInv, Held, HeapOwn
<1>5. Own(Len(heap), LiveOf(heap), AllConts(heap), <<1>>, {})
  BY <1>4, OwnSend
<1>6. PICK h, Q : h = heap /\ Q = <<1>> /\ HeapOwn(h, Q, {})
  BY <1>5 DEF HeapOwn
<1>7. Held'
  BY <1>1, <1>2, <1>3, <1>6 DEF Held
<1>8. Typed'
  BY <1>1, <1>2 DEF RespInv, Typed
<1>9. Ordered' /\ InResult'
  BY <1>1, <1>2 DEF RespInv, Ordered, InResult
<1> QED
  BY <1>7, <1>8, <1>9 DEF RespInv

\* Contents is what an object contains.
LEMMA ContentsAre ==
    ASSUME HeapOk(heap), NEW o, o \in 1 .. Len(heap)
    PROVE  Contents(o) = Conts(heap, o)
<1>1. heap[o].type \in Types
  <2>1. heap[o] \in Objects
    BY DEF HeapOk
  <2> QED
    BY <2>1 DEF Objects
<1>2. heap[o].type = "object" \/ heap[o].type = "array" \/ heap[o].type \in {"string", "int"}
  BY <1>1 DEF Types
<1>3. CASE heap[o].type = "object"
  BY <1>3 DEF Contents, Conts, ValsOf
<1>4. CASE heap[o].type = "array"
  BY <1>4 DEF Contents, Conts
<1>5. CASE heap[o].type \in {"string", "int"}
  BY <1>5 DEF Contents, Conts
<1> QED
  BY <1>2, <1>3, <1>4, <1>5

\* An object is put.
LEMMA PutStep ==
    ASSUME RespInv, Put
    PROVE  RespInv'
<1>1. PICK h, g, o, P : h = heap /\ g = heap' /\ o = Head(puts) /\ P = puts
  OBVIOUS
<1>2. /\ P # <<>> /\ g = [h EXCEPT ![o].ref = @ - 1]
      /\ puts' = (IF h[o].ref = 1 THEN Contents(o) ELSE <<>>) \o Tail(P)
  BY <1>1 DEF Put
<1>3. UNCHANGED <<todo, pending, included, done, results, pc>>
  BY DEF Put, request
<1>4. HeapOk(h) /\ HeapOwn(h, P, Roots) /\ o = Head(P)
  BY <1>1 DEF RespInv, Typed, Held
<1>5. /\ o \in 1 .. Len(h) /\ h[o].ref = 1 /\ HeapOk(g) /\ HeapOwn(g, Conts(h, o) \o Tail(P), Roots)
      /\ Len(g) = Len(h)
      /\ \A p \in 1 .. Len(h) : /\ g[p].type = h[p].type /\ g[p].val = h[p].val
                                /\ g[p].tab = h[p].tab /\ g[p].array = h[p].array
  <2>1. PutDone(h, g, P, Roots, o)
    BY <1>2, <1>4, HeapPut
  <2> QED
    BY <2>1 DEF PutDone
<1>6. puts' = Conts(h, o) \o Tail(P)
  <2>1. Contents(o) = Conts(h, o)
    BY <1>1, <1>4, <1>5, ContentsAre
  <2> QED
    BY <1>2, <1>5, <2>1
<1>7. Roots' = Roots /\ pc # "idle"
  BY <1>1, <1>2, <1>3 DEF Roots, RespInv, Held
<1>8. Len(h) \in Nat
  BY <1>4 DEF HeapOk
<1>9. pc = "build" => 1 \in 1 .. Len(h) /\ h[1].type = "object"
  BY <1>1, <1>8, RootIs
<1>10. Typed'
  BY <1>1, <1>3, <1>5 DEF RespInv, Typed
<1>11. Ordered'
  BY <1>3 DEF RespInv, Ordered
<1>12. Held'
  BY <1>1, <1>3, <1>5, <1>6, <1>7, <1>9 DEF Held
<1>13. InResult'
  <2>1. SUFFICES ASSUME pc = "build", results # NULL PROVE \E K, M : ResultsAt(heap, results, K, M)'
    BY <1>3 DEF InResult
  <2>2. PICK K, M : ResultsAt(heap, results, K, M)
    BY <2>1 DEF RespInv, InResult
  <2>3. PICK r : r = results /\ r > 1
    BY <2>1 DEF RespInv, Typed
  <2>4. SameBut(h, g, 1)
    <3>1. ASSUME NEW p \in 1 .. Len(h) PROVE Same(h, g, p)
      BY <1>5 DEF Same
    <3> QED
      BY <1>5, <1>8, <3>1 DEF SameBut
  <2>5. ResultsAt(g, r, K, M)
    <3>1. 1 \in Nat /\ h[1].type = "object" /\ ResultsAt(h, r, K, M)
      BY <1>1, <1>9, <2>1, <2>2, <2>3
    <3> QED
      BY <1>4, <2>3, <2>4, <3>1, ResultsSame
  <2>6. ResultsAt(heap, results, K, M)'
    BY <1>1, <1>3, <2>3, <2>5, PrimedResults
  <2> QED
    BY <2>6
<1> QED
  BY <1>10, <1>11, <1>12, <1>13 DEF RespInv

\* The response is freed.
LEMMA FinishStep ==
    ASSUME RespInv, Finish
    PROVE  RespInv'
<1>1. pc = "put" /\ puts = <<>> /\ pc' = "idle"
  BY DEF Finish
<1>2. UNCHANGED <<heap, todo, pending, included, done, results, puts>>
  BY DEF Finish, request
<1>3. Roots' = Roots
  BY <1>1 DEF Roots
<1>4. Typed'
  BY <1>1, <1>2 DEF RespInv, Typed
<1>5. Ordered' /\ InResult'
  BY <1>1, <1>2 DEF RespInv, Ordered, InResult
<1>6. Held'
  BY <1>1, <1>2, <1>3 DEF RespInv, Held
<1> QED
  BY <1>4, <1>5, <1>6 DEF RespInv

\* Every step keeps the invariant.
LEMMA RespNext ==
    ASSUME RespInv, [Next]_vars
    PROVE  RespInv'
<1>1. ASSUME NEW ret \in DOMAIN RetFields, Respond(ret) PROVE RespInv'
  BY <1>1, RespondStep
<1>2. CASE AddField
  BY <1>2, AddFieldStep
<1>3. CASE NewResults
  BY <1>3, NewResultsStep
<1>4. CASE AddPending
  BY <1>4, AddPendingStep
<1>5. CASE AddResults
  BY <1>5, AddResultsStep
<1>6. CASE Send
  BY <1>6, SendStep
<1>7. CASE Put
  BY <1>7, PutStep
<1>8. CASE Finish
  BY <1>8, FinishStep
<1>9. CASE UNCHANGED vars
  <2>1. UNCHANGED <<heap, todo, pending, included, done, results, puts, pc>>
    BY <1>9 DEF vars, request
  <2>2. Roots' = Roots
    BY <2>1 DEF Roots
  <2>3. Typed' /\ Ordered' /\ Held'
    BY <2>1, <2>2 DEF RespInv, Typed, Ordered, Held
  <2>4. InResult'
    <3>1. SUFFICES ASSUME pc = "build", results # NULL PROVE \E K, M : ResultsAt(heap, results, K, M)'
      BY <2>1 DEF InResult
    <3>2. PICK K, M : ResultsAt(heap, results, K, M)
      BY <3>1 DEF RespInv, InResult
    <3>3. PICK g, r : g = heap' /\ r = results' /\ ResultsAt(g, r, K, M)
      BY <2>1, <3>2
    <3>4. ResultsAt(heap, results, K, M)'
      BY <2>1, <3>3, PrimedResults
    <3> QED
      BY <3>4
  <2> QED
    BY <2>3, <2>4 DEF RespInv
<1> QED
  BY <1>1, <1>2, <1>3, <1>4, <1>5, <1>6, <1>7, <1>8, <1>9 DEF Next

\* The invariant of every state.
THEOREM Invariant == Spec => []RespInv
<1>1. Init => RespInv
  BY RespInit
<1>2. RespInv /\ [Next]_vars => RespInv'
  BY RespNext
<1> QED
  BY <1>1, <1>2, PTL DEF Spec

\* The state keeps its types: every object is of a known type, counts are
\* natural numbers, what is to be put exists.
THEOREM TypeCorrect == Spec => []TypeOK
<1>1. ASSUME RespInv PROVE TypeOK
  <2>1. /\ pc \in {"idle", "build", "put"} /\ todo \in Seq(Fields) /\ pending \in Seq(QIds)
        /\ included \subseteq QIds /\ done \in 0 .. Len(pending) /\ HeapOk(heap)
        /\ results # NULL => results \in 2 .. Len(heap)
    BY <1>1 DEF RespInv, Typed
  <2>2. heap \in Seq(Objects)
    BY <2>1 DEF HeapOk
  <2>3. DOMAIN heap = 1 .. Len(heap) /\ Len(heap) \in Nat
    BY <2>2
  <2>4. ASSUME NEW o \in DOMAIN heap
        PROVE  heap[o].type \in {"object", "array", "string", "int"} /\ heap[o].ref \in Nat
    <3>1. heap[o] \in Objects
      BY <2>2
    <3> QED
      BY <3>1 DEF Objects, Types
  <2>5. \A i \in DOMAIN todo : todo[i] \in Fields
    BY <2>1
  <2>6. \A i \in DOMAIN pending : pending[i] \in QIds
    BY <2>1
  <2>7. \A i \in DOMAIN puts : puts[i] \in DOMAIN heap
    <3>1. puts \in Seq(LiveOf(heap))
      BY <1>1 DEF RespInv, Held, HeapOwn, Own, OwnTypes
    <3>2. \A i \in DOMAIN puts : puts[i] \in LiveOf(heap)
      BY <3>1
    <3> QED
      BY <2>3, <3>2 DEF LiveOf
  <2>8. results \in DOMAIN heap \union {NULL}
    <3>1. results # NULL => results \in 1 .. Len(heap)
      BY <2>1, <2>3
    <3> QED
      BY <2>3, <3>1
  <2> QED
    BY <2>1, <2>4, <2>5, <2>6, <2>7, <2>8 DEF TypeOK
<1> QED
  BY <1>1, Invariant, PTL

\* What HeapOk says of a table.
LEMMA TablesOk ==
    ASSUME RespInv, NEW o \in DOMAIN heap
    PROVE  HasEmpty(heap[o].tab) /\ Consistent(heap[o].tab) /\ Len(heap[o].array) <= heap[o].size
<1>1. HeapOk(heap)
  BY DEF RespInv, Typed
<1>2. o \in 1 .. Len(heap)
  BY <1>1 DEF HeapOk
<1>3. ObjOk(heap[o])
  BY <1>1, <1>2 DEF HeapOk
<1>4. PICK t, K, V : t = heap[o].tab /\ Holds(t, K, V)
  BY <1>3 DEF ObjOk, TabOk
<1>5. HasEmpty(t) /\ Consistent(t)
  BY <1>4, HoldsEnds, HoldsConsistent
<1> QED
  BY <1>3, <1>4, <1>5 DEF ObjOk

\* Every table keeps an empty slot, so that every lookup ends.
THEOREM TablesEnd == Spec => []SearchesEnd
<1>1. RespInv => SearchesEnd
  BY TablesOk DEF SearchesEnd
<1> QED
  BY <1>1, Invariant, PTL

\* The tables stay consistent through collisions, replaced fields and resizes.
THEOREM TablesStayExact == Spec => []TablesExact
<1>1. RespInv => TablesExact
  BY TablesOk DEF TablesExact
<1> QED
  BY <1>1, Invariant, PTL

\* Every object of a response is freed, once.
THEOREM AllFreedOnce == Spec => []FreedOnce
<1>1. ASSUME RespInv PROVE FreedOnce
  <2>1. HeapOwn(heap, puts, Roots) /\ HeapOk(heap)
    BY <1>1 DEF RespInv, Held, Typed
  <2>2. ASSUME NEW i \in DOMAIN puts PROVE heap[puts[i]].ref > 0
    <3>1. puts \in Seq(LiveOf(heap))
      BY <2>1 DEF HeapOwn, Own, OwnTypes
    <3>2. puts[i] \in LiveOf(heap)
      BY <3>1
    <3> QED
      BY <3>2 DEF LiveOf
  <2>3. ASSUME pc = "idle", NEW o \in DOMAIN heap PROVE heap[o].ref = 0
    <3>1. Roots = {} /\ puts = <<>>
      BY <1>1, <2>3 DEF Roots, RespInv, Held
    <3>2. Own(Len(heap), LiveOf(heap), AllConts(heap), <<>>, {})
      BY <2>1, <3>1 DEF HeapOwn
    <3>3. LiveOf(heap) = {}
      BY <3>2, NothingLeft
    <3>4. o \in 1 .. Len(heap) /\ heap[o] \in Objects
      BY <2>1 DEF HeapOk
    <3>5. heap[o].ref \in {0, 1}
      BY <3>4 DEF Objects
    <3> QED
      BY <3>3, <3>4, <3>5 DEF LiveOf
  <2> QED
    BY <2>2, <2>3 DEF FreedOnce
<1> QED
  BY <1>1, Invariant, PTL

-----------------------------------------------------------------------------
(* Text *)

\* The equation of Joined, for the first m sequences.
Joins(ss, f, m) == f = [i \in 0 .. m |-> IF i = 0 THEN <<>> ELSE f[i - 1] \o ss[i]]

\* It has a solution.
LEMMA JoinsExists ==
    ASSUME NEW ss, NEW n \in Nat
    PROVE  \E f : Joins(ss, f, n)
<1> DEFINE S == {m \in 0 .. n : \E f : Joins(ss, f, m)}
<1>1. 0 \in S
  <2>1. PICK f : f = [i \in 0 .. 0 |-> <<>>]
    OBVIOUS
  <2>2. Joins(ss, f, 0)
    BY <2>1 DEF Joins
  <2> QED
    BY <2>2
<1>2. ASSUME NEW m \in 0 .. n - 1, m \in S PROVE m + 1 \in S
  <2>1. PICK f : Joins(ss, f, m)
    BY <1>2
  <2>2. PICK x : x = f[m] \o ss[m + 1]
    OBVIOUS
  <2>3. PICK g : g = [i \in 0 .. m + 1 |-> IF i = m + 1 THEN x ELSE f[i]]
    OBVIOUS
  <2>4. ASSUME NEW i \in 0 .. m + 1
        PROVE  g[i] = IF i = 0 THEN <<>> ELSE g[i - 1] \o ss[i]
    <3>1. CASE i = m + 1
      <4>1. i # 0 /\ i - 1 = m /\ m \in 0 .. m + 1 /\ m # m + 1
        BY <3>1
      <4>2. g[i - 1] = f[m] /\ g[i] = x
        BY <2>3, <3>1, <4>1
      <4> QED
        BY <2>2, <3>1, <4>1, <4>2
    <3>2. CASE i # m + 1
      <4>1. i \in 0 .. m /\ g[i] = f[i]
        BY <2>3, <3>2
      <4>2. f[i] = IF i = 0 THEN <<>> ELSE f[i - 1] \o ss[i]
        BY <2>1, <4>1 DEF Joins
      <4>3. i # 0 => g[i - 1] = f[i - 1]
        BY <2>3, <4>1
      <4> QED
        BY <4>1, <4>2, <4>3
    <3> QED
      BY <3>1, <3>2
  <2>5. g = [i \in 0 .. m + 1 |-> g[i]]
    BY <2>3
  <2>6. Joins(ss, g, m + 1)
    BY <2>4, <2>5 DEF Joins
  <2>7. m + 1 \in 0 .. n
    OBVIOUS
  <2> QED
    BY <2>6, <2>7
<1> HIDE DEF S
<1>3. n \in 0 .. n /\ \A i \in 0 .. n : i \in S
  BY <1>1, <1>2, Upto
<1> QED
  BY <1>3 DEF S

\* The function to leads to the sequences of ss one behind the other.
JoinedBy(to, ss, E) ==
    /\ to[0] = <<>> /\ \A i \in 1 .. Len(ss) : to[i] = to[i - 1] \o ss[i]
    /\ \A i \in 0 .. Len(ss) : to[i] \in Seq(E)
    /\ Joined(ss) = to[Len(ss)]

\* There is such a function.
LEMMA JoinedIs ==
    ASSUME NEW E, NEW ss, ss \in Seq(Seq(E))
    PROVE  \E to : JoinedBy(to, ss, E)
<1>1. PICK n : n = Len(ss) /\ n \in Nat
  OBVIOUS
<1>2. PICK f : f = CHOOSE x : Joins(ss, x, n)
  OBVIOUS
<1>3. Joined(ss) = f[n]
  BY <1>1, <1>2 DEF Joined, Joins
<1>4. Joins(ss, f, n)
  BY <1>1, <1>2, JoinsExists
<1>5. \A i \in 0 .. n : f[i] = IF i = 0 THEN <<>> ELSE f[i - 1] \o ss[i]
  BY <1>4 DEF Joins
<1>6. 0 \in 0 .. n /\ f[0] = <<>>
  BY <1>1, <1>5
<1>7. \A i \in 1 .. n : f[i] = f[i - 1] \o ss[i]
  <2>1. \A i \in 1 .. n : i \in 0 .. n /\ i # 0
    BY <1>1
  <2> QED
    BY <1>5, <2>1
<1> DEFINE S == {i \in 0 .. n : f[i] \in Seq(E)}
<1>8. 0 \in S
  <2>1. <<>> \in Seq(E)
    OBVIOUS
  <2> QED
    BY <1>6, <2>1
<1>9. ASSUME NEW m \in 0 .. n - 1, m \in S PROVE m + 1 \in S
  <2>1. PICK i : i = m + 1
    OBVIOUS
  <2>2. i \in 1 .. n /\ i - 1 = m /\ i \in 0 .. n
    BY <1>1, <2>1
  <2>3. f[i] = f[m] \o ss[i]
    BY <1>7, <2>2
  <2>4. PICK F, u, v : F = Seq(E) /\ u = f[m] /\ v = ss[i]
    OBVIOUS
  <2>5. v \in F
    BY <1>1, <2>2, <2>4, SeqAt
  <2>6. u \in Seq(E) /\ v \in Seq(E)
    BY <1>9, <2>4, <2>5
  <2>7. u \o v \in Seq(E)
    BY <2>6
  <2> QED
    BY <2>1, <2>2, <2>3, <2>4, <2>7
<1> HIDE DEF S
<1>10. \A i \in 0 .. n : i \in S
  BY <1>1, <1>8, <1>9, Upto
<1>11. \A i \in 0 .. n : f[i] \in Seq(E)
  BY <1>10 DEF S
<1>12. JoinedBy(f, ss, E)
  BY <1>1, <1>3, <1>6, <1>7, <1>11 DEF JoinedBy
<1> QED
  BY <1>12

\* Joined is a sequence.
LEMMA JoinedSeq ==
    ASSUME NEW E, NEW ss, ss \in Seq(Seq(E))
    PROVE  Joined(ss) \in Seq(E)
<1>1. PICK to : JoinedBy(to, ss, E)
  BY JoinedIs
<1>2. Len(ss) \in 0 .. Len(ss)
  <2>1. Len(ss) \in Nat
    OBVIOUS
  <2> QED
    BY <2>1
<1> QED
  BY <1>1, <1>2 DEF JoinedBy

\* A buffer: everything written to it was written inside of its memory.
Buf(p, E) == p.size \in Nat /\ p.buf \in Seq(E) /\ p.fits = TRUE

\* The buffer r is p with s behind it.
Appended(r, p, s, E) == Buf(r, E) /\ r.buf = p.buf \o s

\* Appending to a buffer: it grows enough.
LEMMA MemAppend ==
    ASSUME NEW E, NEW p, Buf(p, E), NEW s, s \in Seq(E), NEW r, r = printbuf_memappend(p, s)
    PROVE  Appended(r, p, s, E)
<1>1. PICK u : u = p.buf /\ u \in Seq(E) /\ p.fits = TRUE /\ p.size \in Nat
  BY DEF Buf
<1>2. PICK b, n, z : b = Len(u) /\ n = Len(s) /\ z = p.size
  OBVIOUS
<1>3. b \in Nat /\ n \in Nat /\ z \in Nat
  BY <1>1, <1>2
<1>4. PICK y : y = IF z - b > n THEN z ELSE IF 2 * z > b + n + 8 THEN 2 * z ELSE b + n + 8
  OBVIOUS
<1>5. y \in Nat /\ b + n + 1 <= y
  BY <1>3, <1>4
<1>6. PICK f : f = (p.fits /\ b + n + 1 <= y)
  OBVIOUS
<1>7. f = TRUE
  BY <1>1, <1>5, <1>6
<1>8. r = [size |-> y, buf |-> u \o s, fits |-> f]
  BY <1>1, <1>2, <1>4, <1>6 DEF printbuf_memappend
<1>9. u \o s \in Seq(E)
  BY <1>1
<1>10. r.size = y /\ r.buf = u \o s /\ r.fits = f
  BY <1>8
<1> QED
  BY <1>1, <1>5, <1>7, <1>9, <1>10 DEF Buf, Appended

\* The characters an escape is made of.
EscapeChars == {"\\", "\"", "n", "u", "0", "1", "f"}

\* A set of characters with them.
Alphabet(E) == EscapeChars \subseteq E

\* What a character is written as.
LEMMA EscapeIs ==
    ASSUME NEW E, Alphabet(E), NEW c, c \in E
    PROVE  Escape(c) \in Seq(E)
<1>1. "\\" \in E /\ "\"" \in E /\ "n" \in E /\ "u" \in E /\ "0" \in E /\ "1" \in E /\ "f" \in E
  BY DEF Alphabet, EscapeChars
<1>2. <<"\\", "\"">> \in Seq(E) /\ <<"\\", "\\">> \in Seq(E) /\ <<"\\", "n">> \in Seq(E)
  <2>1. \A x, y \in E : <<x, y>> \in Seq(E)
    OBVIOUS
  <2> QED
    BY <1>1, <2>1
<1>3. <<"\\", "u", "0", "0", "1", "f">> \in Seq(E)
  <2>1. \A x, y, z, v, w \in E : <<x, y, z, z, v, w>> \in Seq(E)
    OBVIOUS
  <2> QED
    BY <1>1, <2>1
<1>4. <<c>> \in Seq(E)
  OBVIOUS
<1>5. CASE c = "QUOTE"
  <2>1. Escape(c) = <<"\\", "\"">>
    BY <1>5 DEF Escape
  <2> QED
    BY <1>2, <2>1
<1>6. CASE c = "BACKSLASH"
  <2>1. Escape(c) = <<"\\", "\\">>
    BY <1>6 DEF Escape
  <2> QED
    BY <1>2, <2>1
<1>7. CASE c = "LF"
  <2>1. Escape(c) = <<"\\", "n">>
    BY <1>7 DEF Escape
  <2> QED
    BY <1>2, <2>1
<1>8. CASE c = "CTRL"
  <2>1. Escape(c) = <<"\\", "u", "0", "0", "1", "f">>
    BY <1>8 DEF Escape
  <2> QED
    BY <1>3, <2>1
<1>9. CASE c # "QUOTE" /\ c # "BACKSLASH" /\ c # "LF" /\ c # "CTRL"
  <2>1. Escape(c) = <<c>>
    BY <1>9 DEF Escape
  <2> QED
    BY <1>4, <2>1
<1> QED
  BY <1>5, <1>6, <1>7, <1>8, <1>9

\* One round of json_escape_str at position i.
Escaped(a, s, i) ==
    IF Escape(s[i]) = <<s[i]>> THEN a
    ELSE [p |-> printbuf_memappend(Unflushed(a.p, s, a.start, i), Escape(s[i])), start |-> i + 1]

\* The equation of json_escape_str, up to position m.
Escapes(p, s, f, m) ==
    f = [i \in 0 .. m |-> IF i = 0 THEN [p |-> p, start |-> 1] ELSE Escaped(f[i - 1], s, i)]

\* It has a solution.
LEMMA EscapesExists ==
    ASSUME NEW p, NEW s, NEW n \in Nat
    PROVE  \E f : Escapes(p, s, f, n)
<1>0. PICK z : z = [p |-> p, start |-> 1]
  OBVIOUS
<1> DEFINE S == {m \in 0 .. n : \E f : Escapes(p, s, f, m)}
<1>1. 0 \in S
  <2>1. PICK f : f = [i \in 0 .. 0 |-> z]
    OBVIOUS
  <2>2. Escapes(p, s, f, 0)
    BY <1>0, <2>1 DEF Escapes
  <2> QED
    BY <2>2
<1>2. ASSUME NEW m \in 0 .. n - 1, m \in S PROVE m + 1 \in S
  <2>1. PICK f : Escapes(p, s, f, m)
    BY <1>2
  <2>2. PICK x : x = Escaped(f[m], s, m + 1)
    OBVIOUS
  <2>3. PICK g : g = [i \in 0 .. m + 1 |-> IF i = m + 1 THEN x ELSE f[i]]
    OBVIOUS
  <2>4. ASSUME NEW i \in 0 .. m + 1
        PROVE  g[i] = IF i = 0 THEN z ELSE Escaped(g[i - 1], s, i)
    <3>1. CASE i = m + 1
      <4>1. i # 0 /\ i - 1 = m /\ m \in 0 .. m + 1 /\ m # m + 1
        BY <3>1
      <4>2. g[i - 1] = f[m] /\ g[i] = x
        BY <2>3, <3>1, <4>1
      <4> QED
        BY <2>2, <3>1, <4>1, <4>2
    <3>2. CASE i # m + 1
      <4>1. i \in 0 .. m /\ g[i] = f[i]
        BY <2>3, <3>2
      <4>2. f[i] = IF i = 0 THEN z ELSE Escaped(f[i - 1], s, i)
        BY <1>0, <2>1, <4>1 DEF Escapes
      <4>3. i # 0 => g[i - 1] = f[i - 1]
        BY <2>3, <4>1
      <4> QED
        BY <4>1, <4>2, <4>3
    <3> QED
      BY <3>1, <3>2
  <2>5. g = [i \in 0 .. m + 1 |-> g[i]]
    BY <2>3
  <2>6. Escapes(p, s, g, m + 1)
    BY <1>0, <2>4, <2>5 DEF Escapes
  <2>7. m + 1 \in 0 .. n
    OBVIOUS
  <2> QED
    BY <2>6, <2>7
<1> HIDE DEF S
<1>3. n \in 0 .. n /\ \A i \in 0 .. n : i \in S
  BY <1>1, <1>2, Upto
<1> QED
  BY <1>3 DEF S

\* A run of characters is written.
LEMMA Flush ==
    ASSUME NEW E, NEW p, Buf(p, E), NEW s, s \in Seq(E), NEW i, NEW a, i \in 1 .. Len(s) + 1, a \in 1 .. i,
           NEW r, r = Unflushed(p, s, a, i)
    PROVE  Appended(r, p, SubSeq(s, a, i - 1), E) /\ SubSeq(s, a, i - 1) \in Seq(E)
<1>1. PICK u, j : u = SubSeq(s, a, j) /\ j = i - 1
  OBVIOUS
<1>2. Len(s) \in Nat
  OBVIOUS
<1>3. a \in Int /\ j \in Int /\ \A l \in a .. j : l \in 1 .. Len(s)
  BY <1>1, <1>2
<1>4. u \in Seq(E)
  <2>1. \A l \in a .. j : s[l] \in E
    BY <1>3, SeqAt
  <2> QED
    BY <1>1, <1>3, <2>1, SubSeqProperties
<1>5. CASE i > a
  <2>1. r = printbuf_memappend(p, u)
    BY <1>1, <1>5 DEF Unflushed
  <2>2. Appended(r, p, u, E)
    BY <1>4, <2>1, MemAppend
  <2> QED
    BY <1>1, <1>4, <2>2
<1>6. CASE ~(i > a)
  <2>1. r = p /\ j < a
    BY <1>1, <1>2, <1>6 DEF Unflushed
  <2>2. u = <<>>
    BY <1>1, <1>3, <2>1, SubSeqEmpty
  <2>3. p.buf \in Seq(E)
    BY DEF Buf
  <2>4. p.buf \o <<>> = p.buf
    BY <2>3, ConcatEmptySeq
  <2> QED
    BY <1>1, <1>4, <2>1, <2>2, <2>4 DEF Appended
<1> QED
  BY <1>5, <1>6

\* What is known when json_escape_str has read s up to position i: what was
\* written and the run that was not are the escapes of these characters.
EscapedTo(a, p, s, to, i, E) ==
    /\ Buf(a.p, E) /\ a.start \in 1 .. i + 1
    /\ a.p.buf \o SubSeq(s, a.start, i) = p.buf \o to[i]

\* Three sequences one behind the other, put together in either order.
Associate(u, v, w) == (u \o v) \o w = u \o (v \o w)

\* It does not matter.
LEMMA Associative ==
    ASSUME NEW E, NEW u, NEW v, NEW w, u \in Seq(E), v \in Seq(E), w \in Seq(E)
    PROVE  Associate(u, v, w)
  BY ConcatAssociative DEF Associate

\* One round of json_escape_str.
LEMMA EscapeRound ==
    ASSUME NEW E, Alphabet(E), NEW p, Buf(p, E), NEW s, s \in Seq(E), NEW to, NEW a,
           NEW i, i \in 1 .. Len(s), to[i - 1] \in Seq(E), to[i] = to[i - 1] \o Escape(s[i]),
           EscapedTo(a, p, s, to, i - 1, E)
    PROVE  EscapedTo(Escaped(a, s, i), p, s, to, i, E)
<1>1. PICK u, v, w, x, c : u = a.p.buf /\ v = SubSeq(s, a.start, i - 1) /\ w = p.buf /\ x = to[i - 1] /\ c = s[i]
  OBVIOUS
<1>2. PICK n, st, b : n = Len(s) /\ n \in Nat /\ st = a.start /\ b = a.p
  OBVIOUS
<1>3. i \in 1 .. n /\ st \in 1 .. i - 1 + 1
  BY <1>2 DEF EscapedTo
<1>4. i \in Nat /\ st \in 1 .. i /\ i \in 1 .. n + 1
  BY <1>2, <1>3
<1>5. Buf(b, E) /\ u \o v = w \o x
  BY <1>1, <1>2 DEF EscapedTo
<1>6. u \in Seq(E) /\ w \in Seq(E) /\ x \in Seq(E)
  BY <1>1, <1>2, <1>5 DEF Buf
<1>7. c \in E
  BY <1>1, SeqAt
<1>8. PICK e : e = Escape(c) /\ e \in Seq(E)
  BY <1>7, EscapeIs
<1>9. PICK r : r = Unflushed(b, s, st, i)
  OBVIOUS
<1>10. Appended(r, b, v, E) /\ v \in Seq(E)
  BY <1>1, <1>2, <1>4, <1>5, <1>9, Flush
<1>11. to[i] = x \o e
  BY <1>1, <1>8
<1>12. (u \o v) \o e = w \o to[i]
  <2>1. (w \o x) \o e = w \o (x \o e)
    <3>1. Associate(w, x, e)
      BY <1>6, <1>8, Associative
    <3> QED
      BY <3>1 DEF Associate
  <2> QED
    BY <1>5, <1>11, <2>1
<1>13. CASE Escape(s[i]) = <<s[i]>>
  <2>1. Escaped(a, s, i) = a
    BY <1>13 DEF Escaped
  <2>2. SubSeq(s, st, i) = v \o e
    <3>1. st \in 1 .. n /\ i \in st .. n
      BY <1>2, <1>3, <1>4
    <3>2. SubSeq(s, st, i) = SubSeq(s, st, i - 1) \o <<s[i]>>
      BY <1>2, <3>1, SubSeqRecursiveSecond
    <3> QED
      BY <1>1, <1>2, <1>8, <1>13, <3>2
  <2>3. u \o (v \o e) = w \o to[i]
    <3>1. (u \o v) \o e = u \o (v \o e)
      <4>1. Associate(u, v, e)
        BY <1>6, <1>8, <1>10, Associative
      <4> QED
        BY <4>1 DEF Associate
    <3> QED
      BY <1>12, <3>1
  <2>4. st \in 1 .. i + 1
    BY <1>4
  <2> QED
    BY <1>1, <1>2, <1>5, <2>1, <2>2, <2>3, <2>4 DEF EscapedTo
<1>14. CASE Escape(s[i]) # <<s[i]>>
  <2>1. PICK y : y = printbuf_memappend(r, e)
    OBVIOUS
  <2>2. Escaped(a, s, i) = [p |-> y, start |-> i + 1]
    BY <1>1, <1>2, <1>8, <1>9, <1>14, <2>1 DEF Escaped
  <2>3. Buf(r, E) /\ r.buf = u \o v
    BY <1>1, <1>2, <1>10 DEF Appended
  <2>4. Appended(y, r, e, E)
    BY <1>8, <2>1, <2>3, MemAppend
  <2>5. Buf(y, E) /\ y.buf = (u \o v) \o e
    BY <2>3, <2>4 DEF Appended
  <2>6. SubSeq(s, i + 1, i) = <<>>
    <3>1. i + 1 \in Int /\ i \in Int /\ i < i + 1
      BY <1>4
    <3> QED
      BY <3>1, SubSeqEmpty
  <2>7. y.buf \in Seq(E)
    BY <2>5 DEF Buf
  <2>8. y.buf \o <<>> = y.buf
    BY <2>7, ConcatEmptySeq
  <2>9. i + 1 \in 1 .. i + 1
    BY <1>4
  <2>10. PICK g : g = Escaped(a, s, i) /\ g.p = y /\ g.start = i + 1
    BY <2>2
  <2>11. EscapedTo(g, p, s, to, i, E)
    BY <1>1, <1>12, <2>5, <2>6, <2>8, <2>9, <2>10 DEF EscapedTo
  <2> QED
    BY <2>10, <2>11
<1> QED
  BY <1>13, <1>14

\* The escapes of the characters of a string.
Escapings(s) == [j \in DOMAIN s |-> Escape(s[j])]

\* They are sequences.
LEMMA EscapingsAre ==
    ASSUME NEW E, Alphabet(E), NEW s, s \in Seq(E)
    PROVE  Escapings(s) \in Seq(Seq(E)) /\ Len(Escapings(s)) = Len(s)
<1>1. PICK n : n = Len(s) /\ n \in Nat /\ DOMAIN s = 1 .. n
  OBVIOUS
<1>2. PICK F : F = Seq(E)
  OBVIOUS
<1>3. \A j \in 1 .. n : Escape(s[j]) \in F
  <2> TAKE j \in 1 .. n
  <2>1. s[j] \in E
    BY <1>1, SeqAt
  <2> QED
    BY <1>2, <2>1, EscapeIs
<1>4. PICK g : g = Escapings(s)
  OBVIOUS
<1>5. g = [j \in 1 .. n |-> Escape(s[j])]
  BY <1>1, <1>4 DEF Escapings
<1>6. g \in [1 .. n -> F]
  BY <1>3, <1>5
<1>7. g \in Seq(F) /\ Len(g) = n
  BY <1>1, <1>6
<1> QED
  BY <1>1, <1>2, <1>4, <1>7

\* json_escape_str writes every character's escape and nothing else.
LEMMA EscapeStr ==
    ASSUME NEW E, Alphabet(E), NEW p, Buf(p, E), NEW s, s \in Seq(E),
           NEW r, r = json_escape_str(p, s)
    PROVE  Appended(r, p, Joined(Escapings(s)), E)
<1>1. PICK n : n = Len(s) /\ n \in Nat
  OBVIOUS
<1>2. PICK J : J = Escapings(s) /\ J \in Seq(Seq(E)) /\ Len(J) = n
  BY <1>1, EscapingsAre
<1>3. PICK to : JoinedBy(to, J, E)
  BY <1>2, JoinedIs
<1>4. PICK f : f = CHOOSE x : Escapes(p, s, x, n)
  OBVIOUS
<1>5. Escapes(p, s, f, n)
  BY <1>1, <1>4, EscapesExists
<1>6. r = Unflushed(f[n].p, s, f[n].start, n + 1)
  BY <1>1, <1>4 DEF json_escape_str, Escapes, Escaped
<1>7. \A i \in 0 .. n : f[i] = IF i = 0 THEN [p |-> p, start |-> 1] ELSE Escaped(f[i - 1], s, i)
  BY <1>5 DEF Escapes
<1>8. to[0] = <<>> /\ \A i \in 0 .. n : to[i] \in Seq(E)
  BY <1>2, <1>3 DEF JoinedBy
<1>9. \A i \in 1 .. n : to[i] = to[i - 1] \o Escape(s[i])
  <2> TAKE i \in 1 .. n
  <2>1. to[i] = to[i - 1] \o J[i]
    BY <1>2, <1>3 DEF JoinedBy
  <2>2. i \in DOMAIN s
    BY <1>1
  <2>3. J[i] = Escape(s[i])
    BY <1>2, <2>2 DEF Escapings
  <2> QED
    BY <2>1, <2>3
<1> DEFINE S == {i \in 0 .. n : EscapedTo(f[i], p, s, to, i, E)}
<1>10. 0 \in S
  <2>1. 0 \in 0 .. n
    BY <1>1
  <2>2. f[0] = [p |-> p, start |-> 1]
    BY <1>7, <2>1
  <2>3. PICK a : a = f[0] /\ a.p = p /\ a.start = 1
    BY <2>2
  <2>4. SubSeq(s, 1, 0) = <<>>
    BY SubSeqEmpty
  <2>5. EscapedTo(a, p, s, to, 0, E)
    <3>1. 1 \in 1 .. 0 + 1
      OBVIOUS
    <3>2. a.p.buf \o SubSeq(s, a.start, 0) = p.buf \o to[0]
      BY <1>8, <2>3, <2>4
    <3> QED
      BY <2>3, <3>1, <3>2 DEF EscapedTo
  <2> QED
    BY <2>1, <2>3, <2>5
<1>11. ASSUME NEW m \in 0 .. n - 1, m \in S PROVE m + 1 \in S
  <2>1. PICK i : i = m + 1
    OBVIOUS
  <2>2. i \in 1 .. n /\ i - 1 = m /\ i \in 0 .. n /\ i # 0 /\ m \in 0 .. n
    BY <1>1, <2>1
  <2>3. PICK a : a = f[m]
    OBVIOUS
  <2>4. f[i] = Escaped(a, s, i)
    BY <1>7, <2>2, <2>3
  <2>5. to[i - 1] \in Seq(E) /\ to[i] = to[i - 1] \o Escape(s[i])
    BY <1>8, <1>9, <2>2
  <2>6. EscapedTo(a, p, s, to, i - 1, E)
    BY <1>11, <2>2, <2>3
  <2>7. EscapedTo(Escaped(a, s, i), p, s, to, i, E)
    BY <1>1, <2>2, <2>5, <2>6, EscapeRound
  <2> QED
    BY <2>1, <2>2, <2>4, <2>7
<1> HIDE DEF S
<1>12. n \in 0 .. n /\ \A i \in 0 .. n : i \in S
  BY <1>1, <1>10, <1>11, Upto
<1>13. PICK a : a = f[n]
  OBVIOUS
<1>14. EscapedTo(a, p, s, to, n, E)
  BY <1>12, <1>13 DEF S
<1>15. PICK b, st : b = a.p /\ st = a.start
  OBVIOUS
<1>16. Buf(b, E) /\ st \in 1 .. n + 1 /\ b.buf \o SubSeq(s, st, n) = p.buf \o to[n]
  BY <1>14, <1>15 DEF EscapedTo
<1>17. PICK i : i = n + 1 /\ i \in 1 .. n + 1 /\ i - 1 = n
  BY <1>1
<1>18. r = Unflushed(b, s, st, i)
  BY <1>6, <1>13, <1>15, <1>17
<1>19. Appended(r, b, SubSeq(s, st, i - 1), E)
  BY <1>1, <1>16, <1>17, <1>18, Flush
<1>20. Joined(J) = to[n]
  BY <1>2, <1>3 DEF JoinedBy
<1> QED
  BY <1>2, <1>16, <1>17, <1>19, <1>20 DEF Appended

\* Pieces of a text with characters of E.
Pieces(E) == [escape : BOOLEAN, s : Seq(E)]

\* A piece is written.
Wrote(p, x) == IF x.escape THEN json_escape_str(p, x.s) ELSE printbuf_memappend(p, x.s)

\* What is written for it.
Writing(x) == IF x.escape THEN Joined([j \in DOMAIN x.s |-> Escape(x.s[j])]) ELSE x.s

\* A piece adds what it has to.
LEMMA PieceWritten ==
    ASSUME NEW E, Alphabet(E), NEW p, Buf(p, E), NEW x, x \in Pieces(E)
    PROVE  Appended(Wrote(p, x), p, Writing(x), E)
<1>1. PICK s : s = x.s /\ s \in Seq(E)
  BY DEF Pieces
<1>2. CASE x.escape
  <2>1. Wrote(p, x) = json_escape_str(p, s)
    BY <1>1, <1>2 DEF Wrote
  <2>2. Writing(x) = Joined(Escapings(s))
    BY <1>1, <1>2 DEF Writing, Escapings
  <2> QED
    BY <1>1, <2>1, <2>2, EscapeStr
<1>3. CASE ~x.escape
  <2>1. Wrote(p, x) = printbuf_memappend(p, s)
    BY <1>1, <1>3 DEF Wrote
  <2>2. Writing(x) = s
    BY <1>1, <1>3 DEF Writing
  <2> QED
    BY <1>1, <2>1, <2>2, MemAppend
<1> QED
  BY <1>2, <1>3

\* What is written for a piece is a sequence of characters.
LEMMA WritingIs ==
    ASSUME NEW E, Alphabet(E), NEW x, x \in Pieces(E)
    PROVE  Writing(x) \in Seq(E)
<1>1. PICK s : s = x.s /\ s \in Seq(E)
  BY DEF Pieces
<1>2. CASE x.escape
  <2>1. Writing(x) = Joined(Escapings(s))
    BY <1>1, <1>2 DEF Writing, Escapings
  <2>2. PICK J : J = Escapings(s) /\ J \in Seq(Seq(E))
    BY <1>1, EscapingsAre
  <2>3. Joined(J) \in Seq(E)
    BY <2>2, JoinedSeq
  <2> QED
    BY <2>1, <2>2, <2>3
<1>3. CASE ~x.escape
  <2>1. Writing(x) = s
    BY <1>1, <1>3 DEF Writing
  <2> QED
    BY <1>1, <2>1
<1> QED
  BY <1>2, <1>3

\* The equation of Printed, for the first m pieces.
Prints(text, f, m) ==
    f = [i \in 0 .. m |-> IF i = 0 THEN printbuf_new ELSE Wrote(f[i - 1], text[i])]

\* It has a solution.
LEMMA PrintsExists ==
    ASSUME NEW text, NEW n \in Nat
    PROVE  \E f : Prints(text, f, n)
<1>0. PICK z : z = printbuf_new
  OBVIOUS
<1> DEFINE S == {m \in 0 .. n : \E f : Prints(text, f, m)}
<1>1. 0 \in S
  <2>1. PICK f : f = [i \in 0 .. 0 |-> z]
    OBVIOUS
  <2>2. Prints(text, f, 0)
    BY <1>0, <2>1 DEF Prints
  <2> QED
    BY <2>2
<1>2. ASSUME NEW m \in 0 .. n - 1, m \in S PROVE m + 1 \in S
  <2>1. PICK f : Prints(text, f, m)
    BY <1>2
  <2>2. PICK x : x = Wrote(f[m], text[m + 1])
    OBVIOUS
  <2>3. PICK g : g = [i \in 0 .. m + 1 |-> IF i = m + 1 THEN x ELSE f[i]]
    OBVIOUS
  <2>4. ASSUME NEW i \in 0 .. m + 1
        PROVE  g[i] = IF i = 0 THEN z ELSE Wrote(g[i - 1], text[i])
    <3>1. CASE i = m + 1
      <4>1. i # 0 /\ i - 1 = m /\ m \in 0 .. m + 1 /\ m # m + 1
        BY <3>1
      <4>2. g[i - 1] = f[m] /\ g[i] = x
        BY <2>3, <3>1, <4>1
      <4> QED
        BY <2>2, <3>1, <4>1, <4>2
    <3>2. CASE i # m + 1
      <4>1. i \in 0 .. m /\ g[i] = f[i]
        BY <2>3, <3>2
      <4>2. f[i] = IF i = 0 THEN z ELSE Wrote(f[i - 1], text[i])
        BY <1>0, <2>1, <4>1 DEF Prints
      <4>3. i # 0 => g[i - 1] = f[i - 1]
        BY <2>3, <4>1
      <4> QED
        BY <4>1, <4>2, <4>3
    <3> QED
      BY <3>1, <3>2
  <2>5. g = [i \in 0 .. m + 1 |-> g[i]]
    BY <2>3
  <2>6. Prints(text, g, m + 1)
    BY <1>0, <2>4, <2>5 DEF Prints
  <2>7. m + 1 \in 0 .. n
    OBVIOUS
  <2> QED
    BY <2>6, <2>7
<1> HIDE DEF S
<1>3. n \in 0 .. n /\ \A i \in 0 .. n : i \in S
  BY <1>1, <1>2, Upto
<1> QED
  BY <1>3 DEF S

\* What is written for the pieces of a text.
Writings(text) == [i \in DOMAIN text |-> Writing(text[i])]

\* These are sequences.
LEMMA WritingsAre ==
    ASSUME NEW E, Alphabet(E), NEW text, text \in Seq(Pieces(E))
    PROVE  Writings(text) \in Seq(Seq(E)) /\ Len(Writings(text)) = Len(text)
<1>1. PICK n, P : n = Len(text) /\ n \in Nat /\ DOMAIN text = 1 .. n /\ P = Pieces(E)
  OBVIOUS
<1>2. PICK F : F = Seq(E)
  OBVIOUS
<1>3. \A j \in 1 .. n : Writing(text[j]) \in F
  <2> TAKE j \in 1 .. n
  <2>1. text \in Seq(P) /\ j \in 1 .. Len(text)
    BY <1>1
  <2>2. text[j] \in P
    BY <2>1, SeqAt
  <2> QED
    BY <1>1, <1>2, <2>2, WritingIs
<1>4. PICK g : g = Writings(text)
  OBVIOUS
<1>5. g = [j \in 1 .. n |-> Writing(text[j])]
  BY <1>1, <1>4 DEF Writings
<1>6. g \in [1 .. n -> F]
  BY <1>3, <1>5
<1>7. g \in Seq(F) /\ Len(g) = n
  BY <1>1, <1>6
<1> QED
  BY <1>1, <1>2, <1>4, <1>7

\* A text is printed into a buffer without a byte outside of it, and what is
\* in the buffer then is what the text has to be.
LEMMA PrintedIs ==
    ASSUME NEW E, Alphabet(E), NEW text, text \in Seq(Pieces(E))
    PROVE  Buf(Printed(text), E) /\ Printed(text).buf = Reference(text)
<1>1. PICK n, P : n = Len(text) /\ n \in Nat /\ P = Pieces(E) /\ text \in Seq(P)
  OBVIOUS
<1>2. PICK J : J = Writings(text) /\ J \in Seq(Seq(E)) /\ Len(J) = n
  BY <1>1, WritingsAre
<1>3. PICK to : JoinedBy(to, J, E)
  BY <1>2, JoinedIs
<1>4. PICK f : f = CHOOSE x : Prints(text, x, n)
  OBVIOUS
<1>5. Prints(text, f, n)
  BY <1>1, <1>4, PrintsExists
<1>6. Printed(text) = f[n]
  BY <1>1, <1>4 DEF Printed, Prints, Wrote
<1>7. \A i \in 0 .. n : f[i] = IF i = 0 THEN printbuf_new ELSE Wrote(f[i - 1], text[i])
  BY <1>5 DEF Prints
<1>8. to[0] = <<>> /\ \A i \in 0 .. n : to[i] \in Seq(E)
  BY <1>2, <1>3 DEF JoinedBy
<1>9. \A i \in 1 .. n : to[i] = to[i - 1] \o Writing(text[i])
  <2> TAKE i \in 1 .. n
  <2>1. to[i] = to[i - 1] \o J[i]
    BY <1>2, <1>3 DEF JoinedBy
  <2>2. i \in DOMAIN text
    BY <1>1
  <2>3. J[i] = Writing(text[i])
    BY <1>2, <2>2 DEF Writings
  <2> QED
    BY <2>1, <2>3
<1> DEFINE S == {i \in 0 .. n : Buf(f[i], E) /\ f[i].buf = to[i]}
<1>10. 0 \in S
  <2>1. 0 \in 0 .. n
    BY <1>1
  <2>2. f[0] = printbuf_new
    BY <1>7, <2>1
  <2>3. PICK a, t : a = f[0] /\ t = TRUE /\ a = [size |-> PrintbufSize, buf |-> <<>>, fits |-> t]
    BY <2>2 DEF printbuf_new
  <2>4. a.size = PrintbufSize /\ a.buf = <<>> /\ a.fits = t
    BY <2>3
  <2>5. PrintbufSize \in Nat
    BY ConstantsAssumption
  <2>6. <<>> \in Seq(E)
    OBVIOUS
  <2>7. Buf(a, E)
    BY <2>3, <2>4, <2>5, <2>6 DEF Buf
  <2> QED
    BY <1>8, <2>1, <2>3, <2>4, <2>7
<1>11. ASSUME NEW m \in 0 .. n - 1, m \in S PROVE m + 1 \in S
  <2>1. PICK i : i = m + 1
    OBVIOUS
  <2>2. i \in 1 .. n /\ i - 1 = m /\ i \in 0 .. n /\ i # 0 /\ m \in 0 .. n
    BY <1>1, <2>1
  <2>3. PICK a, x : a = f[m] /\ x = text[i]
    OBVIOUS
  <2>4. f[i] = Wrote(a, x)
    BY <1>7, <2>2, <2>3
  <2>5. x \in Pieces(E)
    BY <1>1, <2>2, <2>3, SeqAt
  <2>6. Buf(a, E) /\ a.buf = to[m]
    BY <1>11, <2>3
  <2>7. Appended(Wrote(a, x), a, Writing(x), E)
    BY <2>5, <2>6, PieceWritten
  <2>8. PICK r : r = f[i]
    OBVIOUS
  <2>9. Buf(r, E) /\ r.buf = a.buf \o Writing(x)
    BY <2>4, <2>7, <2>8 DEF Appended
  <2>10. r.buf = to[i]
    BY <1>9, <2>2, <2>3, <2>6, <2>9
  <2> QED
    BY <2>1, <2>2, <2>8, <2>9, <2>10
<1> HIDE DEF S
<1>12. n \in 0 .. n /\ \A i \in 0 .. n : i \in S
  BY <1>1, <1>10, <1>11, Upto
<1>13. Buf(f[n], E) /\ f[n].buf = to[n]
  BY <1>12 DEF S
<1>14. Joined(J) = to[n]
  BY <1>2, <1>3 DEF JoinedBy
<1>15. Reference(text) = Joined(J)
  BY <1>2 DEF Reference, Writings, Writing
<1> QED
  BY <1>6, <1>13, <1>14, <1>15

\* The characters a response is written with.
Layout == {"{", " \"", "\": ", ",", " }", "[", " ", ", ", " ]"}
Out == Vals \union Chars \union EscapeChars \union Layout

\* The texts made of them.
Text == Seq(Pieces(Out))

\* All characters an escape needs are there, and those of the library.
LEMMA OutHas ==
    Alphabet(Out) /\ Chars \subseteq Out /\ Vals \subseteq Out /\ Layout \subseteq Out /\ "\"" \in Out
  BY DEF Alphabet, Out, EscapeChars

\* Two texts one behind the other.
LEMMA TextConcat ==
    ASSUME NEW a, NEW b, a \in Text, b \in Text
    PROVE  a \o b \in Text
<1>1. PICK P : P = Pieces(Out)
  OBVIOUS
<1>2. a \in Seq(P) /\ b \in Seq(P)
  BY <1>1 DEF Text
<1>3. a \o b \in Seq(P)
  BY <1>2
<1> QED
  BY <1>1, <1>3 DEF Text

\* No text at all.
LEMMA TextEmpty ==
    <<>> \in Text
<1>1. PICK P : P = Pieces(Out)
  OBVIOUS
<1>2. <<>> \in Seq(P)
  OBVIOUS
<1> QED
  BY <1>1, <1>2 DEF Text

\* A piece of layout.
LEMMA PlainIs ==
    ASSUME NEW x, x \in Out
    PROVE  Plain(x) \in Text
<1>1. PICK P, f, s : P = Pieces(Out) /\ f = FALSE /\ s = <<x>>
  OBVIOUS
<1>a. f \in BOOLEAN
  BY <1>1
<1>b. s \in Seq(Out)
  BY <1>1
<1>2. s \in Seq(Out) /\ f \in BOOLEAN
  BY <1>a, <1>b
<1>3. PICK y : y = [escape |-> f, s |-> s]
  OBVIOUS
<1>4. y \in P
  BY <1>1, <1>2, <1>3 DEF Pieces
<1>5. <<y>> \in Seq(P)
  BY <1>4
<1>6. Plain(x) = <<y>>
  BY <1>1, <1>3 DEF Plain
<1> QED
  BY <1>1, <1>5, <1>6 DEF Text

\* A string to escape.
LEMMA QuotedIs ==
    ASSUME NEW s, s \in Seq(Out)
    PROVE  Quoted(s) \in Text
<1>1. PICK P, f : P = Pieces(Out) /\ f = TRUE
  OBVIOUS
<1>2. f \in BOOLEAN
  BY <1>1
<1>3. PICK y : y = [escape |-> f, s |-> s]
  OBVIOUS
<1>4. y \in P
  BY <1>1, <1>2, <1>3 DEF Pieces
<1>5. <<y>> \in Seq(P)
  BY <1>4
<1>6. Quoted(s) = <<y>>
  BY <1>1, <1>3 DEF Quoted
<1> QED
  BY <1>1, <1>5, <1>6 DEF Text

\* A string between quotes.
LEMMA StringTextIs ==
    ASSUME NEW s, s \in Seq(Out)
    PROVE  StringText(s) \in Text
<1>1. PICK a, b : a = Plain("\"") /\ b = Quoted(s)
  OBVIOUS
<1>2. a \in Text /\ b \in Text
  BY <1>1, OutHas, PlainIs, QuotedIs
<1>3. a \o b \in Text
  BY <1>2, TextConcat
<1>4. (a \o b) \o a \in Text
  BY <1>2, <1>3, TextConcat
<1> QED
  BY <1>1, <1>4 DEF StringText

\* Elements of a container one behind the other.
LEMMA ElementsIs ==
    ASSUME NEW G, G \in Seq(Text), NEW a, a \in Text, NEW b, b \in Text
    PROVE  Elements(G, a, b) \in Text
<1>1. PICK n, X : n = Len(G) /\ n \in Nat /\ DOMAIN G = 1 .. n /\ X = Text /\ G \in Seq(X)
  OBVIOUS
<1>2. PICK J : J = [i \in 1 .. n |-> (IF i = 1 THEN a ELSE b) \o G[i]]
  OBVIOUS
<1>3. \A i \in 1 .. n : (IF i = 1 THEN a ELSE b) \o G[i] \in X
  <2> TAKE i \in 1 .. n
  <2>1. G[i] \in X
    BY <1>1, SeqAt
  <2>2. PICK c : c = IF i = 1 THEN a ELSE b
    OBVIOUS
  <2>3. c \in Text
    BY <2>2
  <2>4. c \o G[i] \in Text
    BY <1>1, <2>1, <2>3, TextConcat
  <2> QED
    BY <1>1, <2>2, <2>4
<1>4. J \in [1 .. n -> X]
  BY <1>2, <1>3
<1>5. J \in Seq(X)
  BY <1>1, <1>4
<1>6. Elements(G, a, b) = Joined(J)
  BY <1>1, <1>2 DEF Elements
<1>7. PICK P : P = Pieces(Out) /\ X = Seq(P)
  BY <1>1 DEF Text
<1>8. Joined(J) \in Seq(P)
  BY <1>5, <1>7, JoinedSeq
<1> QED
  BY <1>1, <1>6, <1>7, <1>8

\* An array.
LEMMA ArrayTextIs ==
    ASSUME NEW G, G \in Seq(Text)
    PROVE  ArrayText(G) \in Text
<1>1. PICK a, b, c, d : a = Plain("[") /\ b = Plain(" ") /\ c = Plain(", ") /\ d = Plain(" ]")
  OBVIOUS
<1>2. "[" \in Out /\ " " \in Out /\ ", " \in Out /\ " ]" \in Out
  BY OutHas DEF Layout
<1>3. a \in Text /\ b \in Text /\ c \in Text /\ d \in Text
  BY <1>1, <1>2, PlainIs
<1>4. PICK e : e = Elements(G, b, c) /\ e \in Text
  BY <1>3, ElementsIs
<1>5. a \o e \in Text
  BY <1>3, <1>4, TextConcat
<1>6. (a \o e) \o d \in Text
  BY <1>3, <1>5, TextConcat
<1> QED
  BY <1>1, <1>4, <1>6 DEF ArrayText

\* The name of a field and its text.
FieldText(k, x) == Plain(" \"") \o Quoted(k) \o Plain("\": ") \o x

\* It is a text.
LEMMA FieldTextIs ==
    ASSUME NEW k, k \in Seq(Out), NEW x, x \in Text
    PROVE  FieldText(k, x) \in Text
<1>1. PICK a, b, c : a = Plain(" \"") /\ b = Quoted(k) /\ c = Plain("\": ")
  OBVIOUS
<1>2. " \"" \in Out /\ "\": " \in Out
  BY OutHas DEF Layout
<1>3. a \in Text /\ b \in Text /\ c \in Text
  BY <1>1, <1>2, PlainIs, QuotedIs
<1>4. a \o b \in Text
  BY <1>3, TextConcat
<1>5. (a \o b) \o c \in Text
  BY <1>3, <1>4, TextConcat
<1>6. ((a \o b) \o c) \o x \in Text
  BY <1>5, TextConcat
<1> QED
  BY <1>1, <1>6 DEF FieldText

\* The fields of an object: names and texts.
IsFields(F) == F \in Seq(Seq(Out) \X Text)

\* An object.
LEMMA ObjectTextIs ==
    ASSUME NEW F, IsFields(F)
    PROVE  ObjectText(F) \in Text
<1>0. PICK Y : Y = Seq(Out) \X Text /\ F \in Seq(Y)
  BY DEF IsFields
<1>1. PICK n : n = Len(F) /\ n \in Nat /\ DOMAIN F = 1 .. n
  BY <1>0
<1>2. PICK G : G = [i \in 1 .. n |-> FieldText(F[i][1], F[i][2])]
  OBVIOUS
<1>3. PICK X : X = Text
  OBVIOUS
<1>4. \A i \in 1 .. n : FieldText(F[i][1], F[i][2]) \in X
  <2> TAKE i \in 1 .. n
  <2>1. F[i] \in Y
    BY <1>0, <1>1, SeqAt
  <2>2. PICK k, x : k = F[i][1] /\ x = F[i][2]
    OBVIOUS
  <2>3. k \in Seq(Out) /\ x \in Text
    BY <1>0, <2>1, <2>2
  <2> QED
    BY <1>3, <2>2, <2>3, FieldTextIs
<1>5. G \in [1 .. n -> X]
  BY <1>2, <1>4
<1>6. G \in Seq(X)
  BY <1>1, <1>5
<1>7. PICK a, b, c, z : a = Plain("{") /\ b = Plain(",") /\ c = Plain(" }") /\ z = <<>>
  OBVIOUS
<1>8. "{" \in Out /\ "," \in Out /\ " }" \in Out
  BY OutHas DEF Layout
<1>9. a \in Text /\ b \in Text /\ c \in Text /\ z \in Text
  BY <1>7, <1>8, PlainIs, TextEmpty
<1>10. PICK e : e = Elements(G, z, b) /\ e \in Text
  BY <1>3, <1>6, <1>9, ElementsIs
<1>11. a \o e \in Text
  BY <1>9, <1>10, TextConcat
<1>12. (a \o e) \o c \in Text
  BY <1>9, <1>11, TextConcat
<1>13. ObjectText(F) = (a \o e) \o c
  BY <1>1, <1>2, <1>7, <1>10 DEF ObjectText, FieldText
<1> QED
  BY <1>12, <1>13

-----------------------------------------------------------------------------
(* The text of a response *)

\* The texts of the elements of an array, and of the fields of an object.
TextsOf(A, f) == [i \in 1 .. Len(A) |-> f[A[i]]]
FieldsText(K, V, f) == [i \in 1 .. Len(V) |-> << <<K[i]>>, f[V[i]]>>]

\* The text of an array.
LEMMA NodeArray ==
    ASSUME NEW h, HeapOk(h), NEW o, o \in 1 .. Len(h), h[o].type = "array", NEW f
    PROVE  Node(h, f, o) = ArrayText(TextsOf(h[o].array, f)) /\ h[o].array = Conts(h, o) /\ h[o].array \in Seq(Nat)
<1>1. PICK A : A = h[o].array
  OBVIOUS
<1>2. A \in Seq(Nat)
  <2>1. h[o] \in Objects
    BY SeqAt DEF HeapOk
  <2> QED
    BY <1>1, <2>1 DEF Objects
<1>3. DOMAIN A = 1 .. Len(A)
  BY <1>2
<1>4. Node(h, f, o) = ArrayText([i \in DOMAIN A |-> f[A[i]]])
  BY <1>1 DEF Node
<1> QED
  BY <1>1, <1>2, <1>3, <1>4 DEF TextsOf, Conts

\* The text of an object.
LEMMA NodeObject ==
    ASSUME NEW h, HeapOk(h), NEW o, o \in 1 .. Len(h), h[o].type = "object", NEW f
    PROVE  Node(h, f, o) = ObjectText(FieldsText(KeysOf(h[o].tab), ValsOf(h[o].tab), f))
<1>1. PICK t, L, K, V : t = h[o].tab /\ L = Listed(t) /\ K = KeysOf(t) /\ V = ValsOf(t)
  OBVIOUS
<1>2. V \in Seq(Nat)
  BY <1>1, TabLens
<1>3. K = [i \in DOMAIN L |-> t.k[L[i]]] /\ V = [i \in DOMAIN L |-> t.v[L[i]]]
  BY <1>1 DEF KeysOf, ValsOf
<1>4. DOMAIN V = 1 .. Len(V)
  BY <1>2
<1>5. DOMAIN L = 1 .. Len(V)
  BY <1>3, <1>4
<1>6. Node(h, f, o) = ObjectText([i \in DOMAIN L |-> << <<t.k[L[i]]>>, f[t.v[L[i]]]>>])
  BY <1>1 DEF Node
<1>7. [i \in DOMAIN L |-> << <<t.k[L[i]]>>, f[t.v[L[i]]]>>] = [i \in 1 .. Len(V) |-> << <<K[i]>>, f[V[i]]>>]
  <2>1. \A i \in DOMAIN L : t.k[L[i]] = K[i] /\ t.v[L[i]] = V[i]
    BY <1>3
  <2>2. \A i \in DOMAIN L : << <<t.k[L[i]]>>, f[t.v[L[i]]]>> = << <<K[i]>>, f[V[i]]>>
    BY <2>1
  <2> QED
    BY <1>5, <2>2
<1> QED
  BY <1>1, <1>6, <1>7 DEF FieldsText

\* The text of a string or a number.
LEMMA NodeScalar ==
    ASSUME NEW h, HeapOk(h), NEW o, o \in 1 .. Len(h), NEW f
    PROVE  /\ h[o].type = "string" => Node(h, f, o) = StringText(h[o].val) /\ h[o].val \in Seq(Chars)
           /\ h[o].type = "int" => Node(h, f, o) = Plain(h[o].val) /\ h[o].val \in Vals
<1>1. ObjOk(h[o]) /\ h[o] \in Objects
  BY SeqAt DEF HeapOk
<1>2. (h[o].type = "string" => h[o].val \in Seq(Chars)) /\ h[o].val \in Vals
  BY <1>1 DEF ObjOk, Objects
<1>3. h[o].type = "string" => Node(h, f, o) = StringText(h[o].val)
  BY DEF Node
<1>4. h[o].type = "int" => Node(h, f, o) = Plain(h[o].val)
  BY DEF Node
<1> QED
  BY <1>2, <1>3, <1>4

\* What types there are.
LEMMA TypeIs ==
    ASSUME NEW h, HeapOk(h), NEW o, o \in 1 .. Len(h)
    PROVE  h[o].type = "object" \/ h[o].type = "array" \/ h[o].type = "string" \/ h[o].type = "int"
<1>1. h[o] \in Objects
  BY SeqAt DEF HeapOk
<1> QED
  BY <1>1 DEF Objects, Types

\* f and g have the same text for what o contains.
AgreeOn(h, f, g, o) == \A i \in 1 .. Len(Conts(h, o)) : f[Conts(h, o)[i]] = g[Conts(h, o)[i]]

\* Then they make the same text of o.
LEMMA NodeSame ==
    ASSUME NEW h, HeapOk(h), NEW o, o \in 1 .. Len(h), NEW f, NEW g, AgreeOn(h, f, g, o)
    PROVE  Node(h, f, o) = Node(h, g, o)
<1>1. CASE h[o].type = "object"
  <2>1. PICK K, V : K = KeysOf(h[o].tab) /\ V = ValsOf(h[o].tab)
    OBVIOUS
  <2>2. Conts(h, o) = V
    BY <1>1, <2>1 DEF Conts
  <2>3. \A i \in 1 .. Len(V) : f[V[i]] = g[V[i]]
    BY <2>2 DEF AgreeOn
  <2>4. \A i \in 1 .. Len(V) : << <<K[i]>>, f[V[i]]>> = << <<K[i]>>, g[V[i]]>>
    BY <2>3
  <2>5. FieldsText(K, V, f) = FieldsText(K, V, g)
    BY <2>4 DEF FieldsText
  <2> QED
    BY <1>1, <2>1, <2>5, NodeObject
<1>2. CASE h[o].type = "array"
  <2>1. PICK A : A = h[o].array
    OBVIOUS
  <2>2. \A i \in 1 .. Len(A) : f[A[i]] = g[A[i]]
    BY <1>2, <2>1 DEF AgreeOn, Conts
  <2>3. TextsOf(A, f) = TextsOf(A, g)
    BY <2>2 DEF TextsOf
  <2> QED
    BY <1>2, <2>1, <2>3, NodeArray
<1>3. CASE h[o].type = "string" \/ h[o].type = "int"
  BY <1>3, NodeScalar
<1> QED
  BY <1>1, <1>2, <1>3, TypeIs

\* f has a text for everything o contains.
TextsFor(h, f, o) == \A i \in 1 .. Len(Conts(h, o)) : f[Conts(h, o)[i]] \in Text

\* Then what is made of o is one.
LEMMA NodeText ==
    ASSUME NEW h, HeapOk(h), NEW o, o \in 1 .. Len(h), NEW f, TextsFor(h, f, o)
    PROVE  Node(h, f, o) \in Text
<1>1. CASE h[o].type = "object"
  <2>1. PICK K, V : K = KeysOf(h[o].tab) /\ V = ValsOf(h[o].tab)
    OBVIOUS
  <2>2. K \in Seq(Names) /\ V \in Seq(Nat) /\ Len(K) = Len(V)
    BY <2>1, TabLens
  <2>3. PICK n : n = Len(V) /\ n \in Nat
    BY <2>2
  <2>4. \A i \in 1 .. n : f[V[i]] \in Text
    BY <1>1, <2>1, <2>3 DEF TextsFor, Conts
  <2>5. \A i \in 1 .. n : <<K[i]>> \in Seq(Out)
    <3> TAKE i \in 1 .. n
    <3>1. K[i] \in Names
      BY <2>2, <2>3, SeqAt
    <3>2. K[i] \in Out
      BY <3>1 DEF Out, Chars
    <3> QED
      BY <3>2
  <2>6. PICK S, X, Y : S = Seq(Out) /\ X = Text /\ Y = S \X X
    OBVIOUS
  <2>7. \A i \in 1 .. n : << <<K[i]>>, f[V[i]]>> \in Y
    BY <2>4, <2>5, <2>6
  <2>8. FieldsText(K, V, f) \in [1 .. n -> Y]
    BY <2>3, <2>7 DEF FieldsText
  <2>9. FieldsText(K, V, f) \in Seq(Y)
    BY <2>3, <2>8
  <2>10. IsFields(FieldsText(K, V, f))
    BY <2>6, <2>9 DEF IsFields
  <2> QED
    BY <1>1, <2>1, <2>10, NodeObject, ObjectTextIs
<1>2. CASE h[o].type = "array"
  <2>1. PICK A, G, X : A = h[o].array /\ G = TextsOf(A, f) /\ X = Text
    OBVIOUS
  <2>2. A = Conts(h, o) /\ A \in Seq(Nat) /\ Node(h, f, o) = ArrayText(G)
    BY <1>2, <2>1, NodeArray
  <2>3. PICK n : n = Len(A) /\ n \in Nat
    BY <2>2
  <2>4. \A i \in 1 .. n : f[A[i]] \in X
    BY <2>1, <2>2, <2>3 DEF TextsFor
  <2>5. G \in [1 .. n -> X]
    BY <2>1, <2>3, <2>4 DEF TextsOf
  <2>6. G \in Seq(X)
    BY <2>3, <2>5
  <2> QED
    BY <2>1, <2>2, <2>6, ArrayTextIs
<1>3. CASE h[o].type = "string"
  <2>1. PICK s : s = h[o].val /\ s \in Seq(Chars) /\ Node(h, f, o) = StringText(s)
    BY <1>3, NodeScalar
  <2>2. s \in Seq(Out)
    <3>1. Chars \subseteq Out
      BY OutHas
    <3> QED
      BY <2>1, <3>1
  <2> QED
    BY <2>1, <2>2, StringTextIs
<1>4. CASE h[o].type = "int"
  BY <1>4, NodeScalar, OutHas, PlainIs
<1> QED
  BY <1>1, <1>2, <1>3, <1>4, TypeIs

\* What an object contains was created after it.
Nested(h) ==
    \A o \in 1 .. Len(h) : \A i \in 1 .. Len(Conts(h, o)) :
        Conts(h, o)[i] \in 1 .. Len(h) /\ Conts(h, o)[i] > o

\* That is so.
LEMMA NestedIs ==
    ASSUME NEW h, NEW P, NEW U, HeapOwn(h, P, U)
    PROVE  Nested(h)
<1>1. PICK n, C : n = Len(h) /\ C = AllConts(h)
  OBVIOUS
<1>2. C \in [1 .. n -> Seq(1 .. n)] /\ \A o \in 1 .. n : \A i \in 1 .. Len(C[o]) : C[o][i] > o
  BY <1>1 DEF HeapOwn, Own, OwnTypes
<1>3. ASSUME NEW o \in 1 .. n, NEW i \in 1 .. Len(Conts(h, o))
      PROVE  Conts(h, o)[i] \in 1 .. n /\ Conts(h, o)[i] > o
  <2>1. PICK A : A = C[o] /\ A = Conts(h, o)
    BY <1>1 DEF AllConts
  <2>2. A \in Seq(1 .. n) /\ i \in 1 .. Len(A)
    BY <1>2, <2>1
  <2>3. A[i] \in 1 .. n
    BY <2>2, SeqAt
  <2>4. A[i] > o
    BY <1>2, <2>1, <2>2
  <2> QED
    BY <2>1, <2>3, <2>4
<1> QED
  BY <1>1, <1>3 DEF Nested

\* f solves the equation of ToJson for the objects from m on.
Solves(h, f, m) ==
    /\ f = [o \in 1 .. Len(h) |-> f[o]]
    /\ \A o \in m .. Len(h) : f[o] = Node(h, f, o)

\* There is a solution: an object needs the texts of later objects only.
LEMMA Solvable ==
    ASSUME NEW h, HeapOk(h), Nested(h)
    PROVE  \E f : Solves(h, f, 1)
<1>1. PICK n : n = Len(h) /\ n \in Nat
  BY DEF HeapOk
<1> DEFINE S == {d \in 0 .. n : \E f : Solves(h, f, n - d + 1)}
<1>2. 0 \in S
  <2>1. PICK f : f = [o \in 1 .. n |-> 0]
    OBVIOUS
  <2>2. f = [o \in 1 .. n |-> f[o]]
    BY <2>1
  <2>3. \A o \in n + 1 .. n : FALSE
    BY <1>1
  <2>4. n - 0 + 1 = n + 1 /\ 0 \in 0 .. n
    BY <1>1
  <2>5. Solves(h, f, n + 1)
    BY <1>1, <2>2, <2>3 DEF Solves
  <2> QED
    BY <2>4, <2>5
<1>3. ASSUME NEW d \in 0 .. n - 1, d \in S PROVE d + 1 \in S
  <2>1. PICK m : m = n - d /\ m \in 1 .. n /\ n - d + 1 = m + 1 /\ n - (d + 1) + 1 = m /\ d + 1 \in 0 .. n
    BY <1>1
  <2>2. PICK f : Solves(h, f, m + 1)
    BY <1>3, <2>1
  <2>3. PICK x, g : x = Node(h, f, m) /\ g = [o \in 1 .. n |-> IF o = m THEN x ELSE f[o]]
    OBVIOUS
  <2>4. g = [o \in 1 .. n |-> g[o]]
    BY <2>3
  <2>5. ASSUME NEW o \in m .. n PROVE g[o] = Node(h, g, o)
    <3>1. o \in 1 .. n /\ m \in Nat
      BY <1>1, <2>1, <2>5
    <3>2. ASSUME NEW i \in 1 .. Len(Conts(h, o)) PROVE g[Conts(h, o)[i]] = f[Conts(h, o)[i]]
      <4>1. PICK p : p = Conts(h, o)[i] /\ p \in 1 .. n /\ p > o
        BY <1>1, <3>1, <3>2 DEF Nested
      <4>2. p # m
        BY <3>1, <4>1
      <4> QED
        BY <2>3, <4>1, <4>2
    <3>3. AgreeOn(h, g, f, o)
      BY <3>2 DEF AgreeOn
    <3>4. Node(h, g, o) = Node(h, f, o)
      BY <1>1, <3>1, <3>3, NodeSame
    <3>5. CASE o = m
      BY <2>3, <3>1, <3>4, <3>5
    <3>6. CASE o # m
      <4>1. o \in m + 1 .. n
        BY <1>1, <2>1, <3>6
      <4>2. f[o] = Node(h, f, o)
        BY <1>1, <2>2, <4>1 DEF Solves
      <4> QED
        BY <2>3, <3>1, <3>4, <3>6, <4>2
    <3> QED
      BY <3>5, <3>6
  <2>6. Solves(h, g, m)
    BY <1>1, <2>4, <2>5 DEF Solves
  <2> QED
    BY <2>1, <2>6
<1> HIDE DEF S
<1>4. \A d \in 0 .. n : d \in S
  BY <1>1, <1>2, <1>3, Upto
<1>5. n \in S /\ n - n + 1 = 1
  BY <1>1, <1>4
<1> QED
  BY <1>5 DEF S

\* Every solution has texts only.
LEMMA SolutionText ==
    ASSUME NEW h, HeapOk(h), Nested(h), NEW f, Solves(h, f, 1)
    PROVE  \A o \in 1 .. Len(h) : f[o] \in Text
<1>1. PICK n : n = Len(h) /\ n \in Nat
  BY DEF HeapOk
<1> DEFINE S == {d \in 0 .. n : \A o \in n - d + 1 .. n : f[o] \in Text}
<1>2. 0 \in S
  <2>1. \A o \in n - 0 + 1 .. n : FALSE
    BY <1>1
  <2>2. 0 \in 0 .. n
    BY <1>1
  <2> QED
    BY <2>1, <2>2
<1>3. ASSUME NEW d \in 0 .. n - 1, d \in S PROVE d + 1 \in S
  <2>1. PICK m : m = n - d /\ m \in 1 .. n /\ n - d + 1 = m + 1 /\ n - (d + 1) + 1 = m /\ d + 1 \in 0 .. n
    BY <1>1
  <2>2. \A o \in m + 1 .. n : f[o] \in Text
    BY <1>3, <2>1
  <2>3. f[m] \in Text
    <3>1. ASSUME NEW i \in 1 .. Len(Conts(h, m)) PROVE f[Conts(h, m)[i]] \in Text
      <4>1. PICK p : p = Conts(h, m)[i] /\ p \in 1 .. n /\ p > m
        BY <1>1, <2>1, <3>1 DEF Nested
      <4>2. p \in m + 1 .. n
        BY <1>1, <2>1, <4>1
      <4> QED
        BY <2>2, <4>1, <4>2
    <3>2. TextsFor(h, f, m)
      BY <3>1 DEF TextsFor
    <3>3. Node(h, f, m) \in Text
      BY <1>1, <2>1, <3>2, NodeText
    <3>4. f[m] = Node(h, f, m)
      BY <1>1, <2>1 DEF Solves
    <3> QED
      BY <3>3, <3>4
  <2>4. ASSUME NEW o \in m .. n PROVE f[o] \in Text
    <3>1. o = m \/ o \in m + 1 .. n
      BY <1>1, <2>1
    <3> QED
      BY <2>2, <2>3, <3>1
  <2> QED
    BY <2>1, <2>4
<1> HIDE DEF S
<1>4. \A d \in 0 .. n : d \in S
  BY <1>1, <1>2, <1>3, Upto
<1>5. n \in S /\ n - n + 1 = 1
  BY <1>1, <1>4
<1> QED
  BY <1>1, <1>5 DEF S

\* f gives every object its text.
Json(h, f) == Solves(h, f, 1) /\ \A o \in 1 .. Len(h) : f[o] \in Text

\* ToJson is the text of the first object.
LEMMA ToJsonIs ==
    ASSUME NEW h, HeapOk(h), Nested(h)
    PROVE  \E f : Json(h, f) /\ ToJson(h) = f[1]
<1>1. DOMAIN h = 1 .. Len(h)
  BY DEF HeapOk
<1>2. PICK f : f = CHOOSE x : x = [o \in DOMAIN h |-> Node(h, x, o)]
  OBVIOUS
<1>3. ToJson(h) = f[1]
  BY <1>2 DEF ToJson
<1>4. \E g : g = [o \in DOMAIN h |-> Node(h, g, o)]
  <2>1. PICK g : Solves(h, g, 1)
    BY Solvable
  <2>2. g = [o \in 1 .. Len(h) |-> g[o]] /\ \A o \in 1 .. Len(h) : g[o] = Node(h, g, o)
    BY <2>1 DEF Solves
  <2>3. [o \in 1 .. Len(h) |-> g[o]] = [o \in 1 .. Len(h) |-> Node(h, g, o)]
    BY <2>2
  <2> QED
    BY <1>1, <2>2, <2>3
<1>5. f = [o \in DOMAIN h |-> Node(h, f, o)]
  BY <1>2, <1>4
<1>6. f = [o \in 1 .. Len(h) |-> f[o]] /\ \A o \in 1 .. Len(h) : f[o] = Node(h, f, o)
  BY <1>1, <1>5
<1>7. Solves(h, f, 1)
  BY <1>6 DEF Solves
<1>8. \A o \in 1 .. Len(h) : f[o] \in Text
  BY <1>7, SolutionText
<1> QED
  BY <1>3, <1>7, <1>8 DEF Json

\* What is printed is the text of the response, all of it inside the buffer.
LEMMA SendText ==
    ASSUME RespInv, pc = "build"
    PROVE  Printed(ToJson(heap)).fits = TRUE /\ Printed(ToJson(heap)).buf = Reference(ToJson(heap))
<1>1. PICK h : h = heap /\ HeapOk(h) /\ HeapOwn(h, puts, Roots)
  BY DEF RespInv, Typed, Held
<1>2. Nested(h)
  BY <1>1, NestedIs
<1>3. PICK f : Json(h, f) /\ ToJson(h) = f[1]
  BY <1>1, <1>2, ToJsonIs
<1>4. 1 \in 1 .. Len(h)
  BY <1>1, RootIs
<1>5. PICK x : x = ToJson(h) /\ x \in Text
  BY <1>3, <1>4 DEF Json
<1>6. x \in Seq(Pieces(Out)) /\ Alphabet(Out)
  BY <1>5, OutHas DEF Text
<1>7. Buf(Printed(x), Out) /\ Printed(x).buf = Reference(x)
  BY <1>6, PrintedIs
<1> QED
  BY <1>1, <1>5, <1>7 DEF Buf

\* The arrays and the buffer of a response grow in time.
THEOREM BuffersStayFit == Spec => []BuffersFit
<1> DEFINE Fits == RespInv /\ printed.fits = TRUE
<1>1. ASSUME Init PROVE Fits
  <2>1. RespInv
    BY <1>1, RespInit
  <2>2. printed.fits = TRUE
    BY <1>1 DEF Init, printbuf_new
  <2> QED
    BY <2>1, <2>2
<1>2. ASSUME Fits, [Next]_vars PROVE Fits'
  <2>1. RespInv'
    BY <1>2, RespNext
  <2>2. CASE \E ret \in DOMAIN RetFields : Respond(ret)
    <3>1. printed' = printbuf_new
      BY <2>2 DEF Respond
    <3>2. printed'.fits = TRUE
      BY <3>1 DEF printbuf_new
    <3> QED
      BY <2>1, <3>2
  <2>3. CASE Send
    <3>1. printed' = Printed(ToJson(heap)) /\ pc = "build"
      BY <2>3 DEF Send, Building
    <3>2. Printed(ToJson(heap)).fits = TRUE
      BY <1>2, <3>1, SendText
    <3> QED
      BY <2>1, <3>1, <3>2
  <2>4. CASE AddField \/ NewResults \/ AddPending \/ AddResults \/ Put \/ Finish \/ UNCHANGED vars
    <3>1. printed' = printed
      BY <2>4 DEF AddField, NewResults, AddPending, AddResults, Put, Finish, vars
    <3> QED
      BY <1>2, <2>1, <3>1
  <2> QED
    BY <1>2, <2>2, <2>3, <2>4 DEF Next
<1>3. ASSUME Fits PROVE BuffersFit
  <2>1. \A o \in DOMAIN heap : Len(heap[o].array) <= heap[o].size
    BY <1>3, TablesOk
  <2>2. printed.fits
    BY <1>3
  <2> QED
    BY <2>1, <2>2 DEF BuffersFit
<1> HIDE DEF Fits
<1> QED
  BY <1>1, <1>2, <1>3, PTL DEF Spec

-----------------------------------------------------------------------------
(* What a poll's answer has to say *)

\* The first d elements of a sequence.
Prefix(P, d) == [i \in 1 .. d |-> P[i]]

\* They are a sequence.
LEMMA PrefixIs ==
    ASSUME NEW E, NEW P, P \in Seq(E), NEW d, d \in 0 .. Len(P)
    PROVE  Prefix(P, d) \in Seq(E) /\ Len(Prefix(P, d)) = d
<1>1. PICK n : n = Len(P) /\ n \in Nat /\ d \in Nat /\ \A i \in 1 .. d : i \in 1 .. n
  OBVIOUS
<1>2. \A i \in 1 .. d : P[i] \in E
  BY <1>1, SeqAt
<1>3. PICK g : g = Prefix(P, d)
  OBVIOUS
<1>4. g = [i \in 1 .. d |-> P[i]]
  BY <1>3 DEF Prefix
<1>5. g \in [1 .. d -> E]
  BY <1>2, <1>4
<1>6. g \in Seq(E) /\ Len(g) = d
  BY <1>1, <1>5
<1> QED
  BY <1>3, <1>6

\* All of them are the sequence itself.
LEMMA PrefixAll ==
    ASSUME NEW E, NEW P, P \in Seq(E)
    PROVE  Prefix(P, Len(P)) = P
<1>1. DOMAIN P = 1 .. Len(P)
  OBVIOUS
<1>2. P = [i \in DOMAIN P |-> P[i]]
  OBVIOUS
<1> QED
  BY <1>1, <1>2 DEF Prefix

\* One sequence more.
JoinedMore(X, d) == Joined(Prefix(X, d + 1)) = Joined(Prefix(X, d)) \o X[d + 1]

\* Joined goes on from what it had.
LEMMA JoinedNext ==
    ASSUME NEW E, NEW X, X \in Seq(Seq(E)), NEW d, d \in 0 .. Len(X) - 1
    PROVE  JoinedMore(X, d)
<1>1. PICK n, F : n = Len(X) /\ n \in Nat /\ F = Seq(E) /\ X \in Seq(F)
  OBVIOUS
<1>2. d \in Nat /\ d \in 0 .. Len(X) /\ d + 1 \in 0 .. Len(X)
  BY <1>1
<1>3. PICK S, T : S = Prefix(X, d + 1) /\ T = Prefix(X, d)
  OBVIOUS
<1>4. S \in Seq(F) /\ Len(S) = d + 1 /\ T \in Seq(F) /\ Len(T) = d
  BY <1>1, <1>2, <1>3, PrefixIs
<1>5. S \in Seq(Seq(E)) /\ T \in Seq(Seq(E))
  BY <1>1, <1>4
<1>6. PICK s : JoinedBy(s, S, E)
  BY <1>5, JoinedIs
<1>7. PICK t : JoinedBy(t, T, E)
  BY <1>5, JoinedIs
<1>8. s[0] = <<>> /\ (\A i \in 1 .. d + 1 : s[i] = s[i - 1] \o S[i]) /\ Joined(S) = s[d + 1]
  BY <1>4, <1>6 DEF JoinedBy
<1>9. t[0] = <<>> /\ (\A i \in 1 .. d : t[i] = t[i - 1] \o T[i]) /\ Joined(T) = t[d]
  BY <1>4, <1>7 DEF JoinedBy
<1>10. ASSUME NEW i \in 1 .. d PROVE i \in 1 .. d + 1 /\ S[i] = T[i]
  <2>1. i \in 1 .. d + 1
    BY <1>2
  <2> QED
    BY <1>3, <2>1 DEF Prefix
<1> DEFINE A == {i \in 0 .. d : s[i] = t[i]}
<1>11. 0 \in A
  BY <1>2, <1>8, <1>9
<1>12. ASSUME NEW m \in 0 .. d - 1, m \in A PROVE m + 1 \in A
  <2>1. PICK i : i = m + 1 /\ i \in 1 .. d /\ i - 1 = m /\ i \in 0 .. d
    BY <1>2
  <2>2. s[i] = s[m] \o S[i] /\ t[i] = t[m] \o T[i]
    BY <1>8, <1>9, <1>10, <2>1
  <2>3. s[m] = t[m]
    BY <1>12
  <2> QED
    BY <1>10, <2>1, <2>2, <2>3
<1> HIDE DEF A
<1>a. \A i \in 0 .. d : i \in A
  BY <1>2, <1>11, <1>12, Upto
<1>b. d \in 0 .. d
  BY <1>2
<1>13. d \in A
  BY <1>a, <1>b
<1>14. s[d] = t[d]
  BY <1>13 DEF A
<1>15. PICK e : e = d + 1 /\ e \in 1 .. d + 1 /\ e - 1 = d
  BY <1>2
<1>16. s[e] = s[e - 1] \o S[e]
  BY <1>8, <1>15
<1>17. S[e] = X[e]
  BY <1>3, <1>15 DEF Prefix
<1>18. Joined(S) = Joined(T) \o X[e]
  BY <1>8, <1>9, <1>14, <1>15, <1>16, <1>17
<1> QED
  BY <1>3, <1>15, <1>18 DEF JoinedMore

\* Nothing joined.
LEMMA JoinedNone ==
    ASSUME NEW X
    PROVE  Joined(Prefix(X, 0)) = <<>>
<1>1. PICK T, E : T = Prefix(X, 0) /\ E = {0}
  OBVIOUS
<1>2. T = [i \in 1 .. 0 |-> X[i]]
  BY <1>1 DEF Prefix
<1>3. T = <<>>
  BY <1>2
<1>4. T \in Seq(Seq(E)) /\ Len(T) = 0
  BY <1>3
<1>5. PICK t : JoinedBy(t, T, E)
  BY <1>4, JoinedIs
<1> QED
  BY <1>1, <1>4, <1>5 DEF JoinedBy

\* What message i adds to the queues, and to the data of queue q.
FirstOf(P, i) == \A j \in 1 .. i - 1 : P[j] # P[i]
QueueTerm(P, i) == IF FirstOf(P, i) THEN <<P[i]>> ELSE <<>>
DataTerm(P, q, i) == IF P[i] = q THEN <<CString(MsgData[i])>> ELSE <<>>

\* The sequences of what they add.
QueueTerms(P) == [i \in 1 .. Len(P) |-> QueueTerm(P, i)]
DataTerms(P, q) == [i \in 1 .. Len(P) |-> DataTerm(P, q, i)]

\* They are sequences of sequences.
LEMMA TermsAre ==
    ASSUME NEW P, P \in Seq(QIds), Len(P) <= MaxPending, NEW q
    PROVE  /\ QueueTerms(P) \in Seq(Seq(QIds)) /\ Len(QueueTerms(P)) = Len(P)
           /\ DataTerms(P, q) \in Seq(Seq(Seq(Chars))) /\ Len(DataTerms(P, q)) = Len(P)
<1>1. PICK n, F, G, H : n = Len(P) /\ n \in Nat /\ F = Seq(QIds) /\ G = Seq(Chars) /\ H = Seq(G)
  OBVIOUS
<1>2. PICK S, T : S = QueueTerms(P) /\ T = DataTerms(P, q)
  OBVIOUS
<1>3. S = [i \in 1 .. n |-> QueueTerm(P, i)] /\ T = [i \in 1 .. n |-> DataTerm(P, q, i)]
  BY <1>1, <1>2 DEF QueueTerms, DataTerms
<1>4. ASSUME NEW i \in 1 .. n PROVE QueueTerm(P, i) \in F
  <2>1. P[i] \in QIds
    BY <1>1, SeqAt
  <2>2. <<P[i]>> \in Seq(QIds) /\ <<>> \in Seq(QIds)
    BY <2>1
  <2> QED
    BY <1>1, <2>2 DEF QueueTerm
<1>5. ASSUME NEW i \in 1 .. n PROVE DataTerm(P, q, i) \in H
  <2>1. i \in 1 .. MaxPending
    BY <1>1, ConstantsAssumption
  <2>2. PICK c : c = CString(MsgData[i])
    OBVIOUS
  <2>3. c \in G
    BY <1>1, <2>1, <2>2, DataIs, CStringIs
  <2>4. <<c>> \in Seq(G) /\ <<>> \in Seq(G)
    BY <2>3
  <2> QED
    BY <1>1, <2>2, <2>4 DEF DataTerm
<1>6. S \in [1 .. n -> F] /\ T \in [1 .. n -> H]
  BY <1>3, <1>4, <1>5
<1>7. S \in Seq(F) /\ Len(S) = n
  BY <1>1, <1>6
<1>8. T \in Seq(H) /\ Len(T) = n
  BY <1>1, <1>6
<1> QED
  BY <1>1, <1>2, <1>7, <1>8

\* The queues and the data of the first d messages are what these add.
LEMMA PrefixTerms ==
    ASSUME NEW P, P \in Seq(QIds), NEW d, d \in 0 .. Len(P), NEW q
    PROVE  /\ QueuesOf(Prefix(P, d)) = Joined(Prefix(QueueTerms(P), d))
           /\ DataOf(Prefix(P, d), q) = Joined(Prefix(DataTerms(P, q), d))
<1>1. PICK n : n = Len(P) /\ n \in Nat /\ d \in Nat /\ \A i \in 1 .. d : i \in 1 .. n
  OBVIOUS
<1>2. PICK Q : Q = Prefix(P, d) /\ Len(Q) = d
  BY PrefixIs
<1>3. \A i \in 1 .. d : Q[i] = P[i]
  BY <1>2 DEF Prefix
<1>4. PICK S, T : S = Prefix(QueueTerms(P), d) /\ T = Prefix(DataTerms(P, q), d)
  OBVIOUS
<1>5. S = [i \in 1 .. d |-> QueueTerm(P, i)] /\ T = [i \in 1 .. d |-> DataTerm(P, q, i)]
  <2>1. \A i \in 1 .. d : QueueTerms(P)[i] = QueueTerm(P, i) /\ DataTerms(P, q)[i] = DataTerm(P, q, i)
    BY <1>1 DEF QueueTerms, DataTerms
  <2> QED
    BY <1>4, <2>1 DEF Prefix
<1>6. ASSUME NEW i \in 1 .. d
      PROVE  QueueTerm(Q, i) = QueueTerm(P, i) /\ DataTerm(Q, q, i) = DataTerm(P, q, i)
  <2>1. i \in Nat /\ \A j \in 1 .. i - 1 : j \in 1 .. d
    BY <1>1
  <2>2. Q[i] = P[i] /\ \A j \in 1 .. i - 1 : Q[j] = P[j]
    BY <1>3, <2>1
  <2>3. FirstOf(Q, i) <=> FirstOf(P, i)
    BY <2>2 DEF FirstOf
  <2> QED
    BY <2>2, <2>3 DEF QueueTerm, DataTerm
<1>7. QueuesOf(Q) = Joined([i \in 1 .. d |-> QueueTerm(Q, i)])
  BY <1>2 DEF QueuesOf, QueueTerm, FirstOf
<1>8. DataOf(Q, q) = Joined([i \in 1 .. d |-> DataTerm(Q, q, i)])
  BY <1>2 DEF DataOf, DataTerm
<1>9. [i \in 1 .. d |-> QueueTerm(Q, i)] = S
  BY <1>5, <1>6
<1>10. [i \in 1 .. d |-> DataTerm(Q, q, i)] = T
  BY <1>5, <1>6
<1> QED
  BY <1>2, <1>4, <1>7, <1>8, <1>9, <1>10

\* The first d messages of a poll.
Polled(P, d) == P \in Seq(QIds) /\ Len(P) <= MaxPending /\ d \in 0 .. Len(P)

\* An element behind a sequence.
LEMMA ConcatOne ==
    ASSUME NEW E, NEW s, s \in Seq(E), NEW x, x \in E
    PROVE  s \o <<x>> = Append(s, x) /\ s \o <<>> = s
  OBVIOUS

\* What one more message adds to the queues K, and to the data B of queue q.
QueuesGrow(P, e, K, L) == K \in Seq(QIds) /\ L = IF FirstOf(P, e) THEN Append(K, P[e]) ELSE K
DataGrow(P, e, q, B, C) ==
    B \in Seq(Seq(Chars)) /\ C = IF P[e] = q THEN Append(B, CString(MsgData[e])) ELSE B

\* The queues of the first d messages, and those of one more.
LEMMA QueuesNext ==
    ASSUME NEW P, NEW d, d + 1 \in Nat, Polled(P, d + 1), Polled(P, d), NEW K, NEW L,
           K = QueuesOf(Prefix(P, d)), L = QueuesOf(Prefix(P, d + 1))
    PROVE  QueuesGrow(P, d + 1, K, L)
<1>1. PICK n, e : n = Len(P) /\ n \in Nat /\ e = d + 1 /\ d \in 0 .. n /\ e \in 1 .. n /\ d \in 0 .. n - 1 /\ e \in 0 .. n
  BY DEF Polled
<1>2. PICK X : X = QueueTerms(P)
  OBVIOUS
<1>3. P \in Seq(QIds) /\ Len(P) <= MaxPending
  BY DEF Polled
<1>4. X \in Seq(Seq(QIds)) /\ Len(X) = n
  BY <1>1, <1>2, <1>3, TermsAre
<1>5. K = Joined(Prefix(X, d)) /\ L = Joined(Prefix(X, e))
  BY <1>1, <1>2, <1>3, PrefixTerms
<1>6. JoinedMore(X, d)
  BY <1>1, <1>4, JoinedNext
<1>7. L = K \o X[e]
  BY <1>1, <1>5, <1>6 DEF JoinedMore
<1>8. X[e] = QueueTerm(P, e)
  BY <1>1, <1>2 DEF QueueTerms
<1>9. K \in Seq(QIds)
  <2>1. PICK F, Y : F = Seq(QIds) /\ Y = Prefix(X, d)
    OBVIOUS
  <2>2. X \in Seq(F) /\ d \in 0 .. Len(X)
    BY <1>1, <1>4, <2>1
  <2>3. Y \in Seq(F)
    BY <2>1, <2>2, PrefixIs
  <2>4. Joined(Y) \in Seq(QIds)
    BY <2>1, <2>3, JoinedSeq
  <2> QED
    BY <1>5, <2>1, <2>4
<1>10. P[e] \in QIds
  BY <1>1, <1>3, SeqAt
<1>11. PICK y : y = P[e] /\ y \in QIds
  BY <1>10
<1>12. K \o <<y>> = Append(K, y) /\ K \o <<>> = K
  BY <1>9, <1>11, ConcatOne
<1> QED
  BY <1>1, <1>7, <1>8, <1>9, <1>11, <1>12 DEF QueueTerm, QueuesGrow

\* The data of a queue's first d messages, and of one more.
LEMMA DataNext ==
    ASSUME NEW P, NEW d, d + 1 \in Nat, Polled(P, d + 1), Polled(P, d), NEW q, NEW B, NEW C,
           B = DataOf(Prefix(P, d), q), C = DataOf(Prefix(P, d + 1), q)
    PROVE  DataGrow(P, d + 1, q, B, C)
<1>1. PICK n, e : n = Len(P) /\ n \in Nat /\ e = d + 1 /\ d \in 0 .. n /\ e \in 1 .. n /\ d \in 0 .. n - 1 /\ e \in 0 .. n
  BY DEF Polled
<1>2. PICK X, G : X = DataTerms(P, q) /\ G = Seq(Chars)
  OBVIOUS
<1>3. P \in Seq(QIds) /\ Len(P) <= MaxPending
  BY DEF Polled
<1>4. X \in Seq(Seq(G)) /\ Len(X) = n
  BY <1>1, <1>2, <1>3, TermsAre
<1>5. B = Joined(Prefix(X, d)) /\ C = Joined(Prefix(X, e))
  BY <1>1, <1>2, <1>3, PrefixTerms
<1>6. JoinedMore(X, d)
  BY <1>1, <1>4, JoinedNext
<1>7. C = B \o X[e]
  BY <1>1, <1>5, <1>6 DEF JoinedMore
<1>8. X[e] = DataTerm(P, q, e)
  BY <1>1, <1>2 DEF DataTerms
<1>9. B \in Seq(G)
  <2>1. PICK F, Y : F = Seq(G) /\ Y = Prefix(X, d)
    OBVIOUS
  <2>2. X \in Seq(F) /\ d \in 0 .. Len(X)
    BY <1>1, <1>4, <2>1
  <2>3. Y \in Seq(F)
    BY <2>1, <2>2, PrefixIs
  <2>4. Joined(Y) \in Seq(G)
    BY <2>1, <2>3, JoinedSeq
  <2> QED
    BY <1>5, <2>1, <2>4
<1>10. PICK y : y = CString(MsgData[e]) /\ y \in G
  <2>1. e \in 1 .. MaxPending
    BY <1>1, <1>3, ConstantsAssumption
  <2> QED
    BY <1>2, <2>1, DataIs, CStringIs
<1>11. B \o <<y>> = Append(B, y) /\ B \o <<>> = B
  BY <1>9, <1>10, ConcatOne
<1> QED
  BY <1>1, <1>2, <1>7, <1>8, <1>9, <1>10, <1>11 DEF DataTerm, DataGrow

\* Before the first message there is nothing.
LEMMA NothingPolled ==
    ASSUME NEW P, Polled(P, 0), NEW q
    PROVE  QueuesOf(Prefix(P, 0)) = <<>> /\ DataOf(Prefix(P, 0), q) = <<>>
<1>1. P \in Seq(QIds) /\ 0 \in 0 .. Len(P)
  BY DEF Polled
<1> QED
  BY <1>1, PrefixTerms, JoinedNone

\* The queues K are those of the first d messages, each of them once.
QueuesKnown(P, d, K) ==
    /\ K \in Seq(QIds)
    /\ \A x, y \in 1 .. Len(K) : K[x] = K[y] => x = y
    /\ \A i \in 1 .. d : \E x \in 1 .. Len(K) : K[x] = P[i]
    /\ \A x \in 1 .. Len(K) : \E i \in 1 .. d : P[i] = K[x]

\* One more message keeps it so.
LEMMA KnownNext ==
    ASSUME NEW P, NEW d, d \in Nat, P[d + 1] \in QIds, NEW K, QueuesKnown(P, d, K), NEW L,
           QueuesGrow(P, d + 1, K, L)
    PROVE  QueuesKnown(P, d + 1, L)
<1>0. PICK m, y, e : m = Len(K) /\ y = P[e] /\ e = d + 1
  OBVIOUS
<1>a. e - 1 = d
  BY <1>0
<1>b. y \in QIds
  BY <1>0
<1>1. m = Len(K) /\ y = P[e] /\ e = d + 1 /\ y \in QIds /\ e - 1 = d
  BY <1>0, <1>a, <1>b
<1>2. K \in Seq(QIds) /\ m \in Nat
  BY <1>1 DEF QueuesKnown
<1>3. \A i \in 1 .. e : i = e \/ i \in 1 .. d
  BY <1>1
<1>4. e \in 1 .. e /\ \A i \in 1 .. d : i \in 1 .. e
  BY <1>1
<1>5. CASE FirstOf(P, e)
  <2>1. L = Append(K, y)
    BY <1>1, <1>5 DEF QueuesGrow
  <2>2. /\ L \in Seq(QIds) /\ Len(L) = m + 1 /\ L[m + 1] = y /\ \A x \in 1 .. m : L[x] = K[x]
    BY <1>1, <1>2, <2>1
  <2>3. \A i \in 1 .. d : P[i] # y
    BY <1>1, <1>5 DEF FirstOf
  <2>4. \A x \in 1 .. m : K[x] # y
    BY <1>1, <2>3 DEF QueuesKnown
  <2>5. \A x \in 1 .. m + 1 : x = m + 1 \/ x \in 1 .. m
    BY <1>2
  <2>6. ASSUME NEW x \in 1 .. m + 1, NEW z \in 1 .. m + 1, L[x] = L[z] PROVE x = z
    <3>1. CASE x = m + 1
      BY <2>2, <2>4, <2>5, <2>6, <3>1
    <3>2. CASE z = m + 1
      BY <2>2, <2>4, <2>5, <2>6, <3>2
    <3>3. CASE x \in 1 .. m /\ z \in 1 .. m
      BY <1>1, <2>2, <2>6, <3>3 DEF QueuesKnown
    <3> QED
      BY <2>5, <3>1, <3>2, <3>3
  <2>7. ASSUME NEW i \in 1 .. e PROVE \E x \in 1 .. m + 1 : L[x] = P[i]
    <3>1. CASE i = e
      <4>1. m + 1 \in 1 .. m + 1
        BY <1>2
      <4> QED
        BY <1>1, <2>2, <3>1, <4>1
    <3>2. CASE i \in 1 .. d
      <4>1. PICK x \in 1 .. m : K[x] = P[i]
        BY <1>1, <3>2 DEF QueuesKnown
      <4>2. x \in 1 .. m + 1
        BY <1>2
      <4> QED
        BY <2>2, <4>1, <4>2
    <3> QED
      BY <1>3, <3>1, <3>2
  <2>8. ASSUME NEW x \in 1 .. m + 1 PROVE \E i \in 1 .. e : P[i] = L[x]
    <3>1. CASE x = m + 1
      BY <1>1, <1>4, <2>2, <3>1
    <3>2. CASE x \in 1 .. m
      <4>1. PICK i \in 1 .. d : P[i] = K[x]
        BY <1>1, <3>2 DEF QueuesKnown
      <4> QED
        BY <1>4, <2>2, <3>2, <4>1
    <3> QED
      BY <2>5, <3>1, <3>2
  <2>9. PICK w : w = m + 1 /\ w = Len(L)
    BY <2>2
  <2>10. /\ \A x, z \in 1 .. w : L[x] = L[z] => x = z
         /\ \A i \in 1 .. e : \E x \in 1 .. w : L[x] = P[i]
         /\ \A x \in 1 .. w : \E i \in 1 .. e : P[i] = L[x]
    BY <2>6, <2>7, <2>8, <2>9
  <2>11. QueuesKnown(P, e, L)
    BY <2>2, <2>9, <2>10 DEF QueuesKnown
  <2> QED
    BY <1>1, <2>11
<1>6. CASE ~FirstOf(P, e)
  <2>1. L = K
    BY <1>1, <1>6 DEF QueuesGrow
  <2>2. PICK j \in 1 .. d : P[j] = y
    BY <1>1, <1>6 DEF FirstOf
  <2>3. ASSUME NEW i \in 1 .. e PROVE \E x \in 1 .. m : K[x] = P[i]
    <3>1. PICK l \in 1 .. d : P[l] = P[i]
      BY <1>1, <1>3, <2>2
    <3>2. PICK x \in 1 .. m : K[x] = P[l]
      BY <1>1, <3>1 DEF QueuesKnown
    <3> QED
      BY <3>1, <3>2
  <2>4. ASSUME NEW x \in 1 .. m PROVE \E i \in 1 .. e : P[i] = K[x]
    <3>1. PICK i \in 1 .. d : P[i] = K[x]
      BY <1>1 DEF QueuesKnown
    <3> QED
      BY <1>4, <3>1
  <2>5. \A x, z \in 1 .. m : K[x] = K[z] => x = z
    BY <1>1 DEF QueuesKnown
  <2> QED
    BY <1>1, <1>2, <2>1, <2>3, <2>4, <2>5 DEF QueuesKnown
<1> QED
  BY <1>5, <1>6

\* All of a prefix is polled too.
LEMMA PolledLess ==
    ASSUME NEW P, NEW n, Polled(P, n), NEW m, m \in 0 .. n - 1
    PROVE  /\ Polled(P, m) /\ Polled(P, m + 1) /\ m + 1 \in Nat /\ m \in Nat
           /\ m + 1 \in 1 .. Len(P) /\ m + 1 \in 1 .. MaxPending /\ P[m + 1] \in QIds
<1>1. PICK l : l = Len(P) /\ l \in Nat /\ n \in 0 .. l /\ P \in Seq(QIds) /\ l <= MaxPending
  BY DEF Polled
<1>2. m \in Nat /\ m + 1 \in Nat /\ m \in 0 .. l /\ m + 1 \in 0 .. l /\ m + 1 \in 1 .. l
  BY <1>1
<1>3. m + 1 \in 1 .. MaxPending
  BY <1>1, <1>2, ConstantsAssumption
<1>4. P[m + 1] \in QIds
  BY <1>1, <1>2, SeqAt
<1> QED
  BY <1>1, <1>2, <1>3, <1>4 DEF Polled

\* The queues of any prefix.
LEMMA KnownAt ==
    ASSUME NEW P, NEW n, Polled(P, n)
    PROVE  QueuesKnown(P, n, QueuesOf(Prefix(P, n)))
<1>1. n \in Nat /\ Polled(P, 0)
  BY DEF Polled
<1> DEFINE S == {d \in 0 .. n : QueuesKnown(P, d, QueuesOf(Prefix(P, d)))}
<1>2. 0 \in S
  <2>a. PICK e : e = <<>>
    OBVIOUS
  <2>1. QueuesOf(Prefix(P, 0)) = e
    BY <1>1, <2>a, NothingPolled
  <2>2. e \in Seq(QIds) /\ Len(e) = 0
    BY <2>a
  <2>3. QueuesKnown(P, 0, e)
    BY <2>2 DEF QueuesKnown
  <2> QED
    BY <1>1, <2>1, <2>3
<1>3. ASSUME NEW m \in 0 .. n - 1, m \in S PROVE m + 1 \in S
  <2>1. PICK K, L : K = QueuesOf(Prefix(P, m)) /\ L = QueuesOf(Prefix(P, m + 1))
    OBVIOUS
  <2>2. Polled(P, m) /\ Polled(P, m + 1) /\ m + 1 \in Nat /\ m \in Nat /\ P[m + 1] \in QIds
    BY PolledLess
  <2>3. QueuesGrow(P, m + 1, K, L)
    BY <2>1, <2>2, QueuesNext
  <2>4. QueuesKnown(P, m, K)
    BY <1>3, <2>1
  <2>5. QueuesKnown(P, m + 1, L)
    BY <2>2, <2>3, <2>4, KnownNext
  <2>6. m + 1 \in 0 .. n
    BY <1>1
  <2> QED
    BY <2>1, <2>5, <2>6
<1> HIDE DEF S
<1>4. \A d \in 0 .. n : d \in S
  BY <1>1, <1>2, <1>3, Upto
<1>5. n \in S
  BY <1>1, <1>4
<1> QED
  BY <1>5 DEF S

\* The data of a queue are strings; there are none without a message.
DataKnown(P, d, q, B) == B \in Seq(Seq(Chars)) /\ ((\A i \in 1 .. d : P[i] # q) => B = <<>>)

\* That is so.
LEMMA DataAt ==
    ASSUME NEW P, NEW n, Polled(P, n), NEW q
    PROVE  DataKnown(P, n, q, DataOf(Prefix(P, n), q))
<1>1. n \in Nat /\ Polled(P, 0)
  BY DEF Polled
<1> DEFINE S == {d \in 0 .. n : DataKnown(P, d, q, DataOf(Prefix(P, d), q))}
<1>2. 0 \in S
  <2>a. PICK e : e = <<>>
    OBVIOUS
  <2>1. DataOf(Prefix(P, 0), q) = e
    BY <1>1, <2>a, NothingPolled
  <2>2. e \in Seq(Seq(Chars))
    BY <2>a
  <2>3. DataKnown(P, 0, q, e)
    BY <2>a, <2>2 DEF DataKnown
  <2> QED
    BY <1>1, <2>1, <2>3
<1>3. ASSUME NEW m \in 0 .. n - 1, m \in S PROVE m + 1 \in S
  <2>1. PICK B, C : B = DataOf(Prefix(P, m), q) /\ C = DataOf(Prefix(P, m + 1), q)
    OBVIOUS
  <2>2. /\ Polled(P, m) /\ Polled(P, m + 1) /\ m + 1 \in Nat /\ m \in Nat
        /\ m + 1 \in 1 .. MaxPending
    BY PolledLess
  <2>3. PICK c, e : c = CString(MsgData[m + 1]) /\ e = m + 1
    OBVIOUS
  <2>4. C = IF P[e] = q THEN Append(B, c) ELSE B
    <3>1. DataGrow(P, m + 1, q, B, C)
      BY <2>1, <2>2, DataNext
    <3> QED
      BY <2>3, <3>1 DEF DataGrow
  <2>5. DataKnown(P, m, q, B)
    BY <1>3, <2>1
  <2>6. PICK G : G = Seq(Chars) /\ B \in Seq(G)
    BY <2>5 DEF DataKnown
  <2>7. c \in G
    BY <2>2, <2>3, <2>6, DataIs, CStringIs
  <2>8. Append(B, c) \in Seq(G)
    BY <2>6, <2>7
  <2>9. C \in Seq(G)
    BY <2>4, <2>6, <2>8
  <2>10. e \in 1 .. e /\ \A i \in 1 .. m : i \in 1 .. e
    BY <2>2, <2>3
  <2>11. ASSUME \A i \in 1 .. e : P[i] # q PROVE C = <<>>
    <3>1. P[e] # q /\ \A i \in 1 .. m : P[i] # q
      BY <2>10, <2>11
    <3>2. B = <<>>
      BY <2>5, <3>1 DEF DataKnown
    <3> QED
      BY <2>4, <3>1, <3>2
  <2>12. DataKnown(P, e, q, C)
    BY <2>6, <2>9, <2>11 DEF DataKnown
  <2>13. m + 1 \in 0 .. n
    BY <1>1
  <2> QED
    BY <2>1, <2>3, <2>12, <2>13
<1> HIDE DEF S
<1>4. \A d \in 0 .. n : d \in S
  BY <1>1, <1>2, <1>3, Upto
<1>5. n \in S
  BY <1>1, <1>4
<1> QED
  BY <1>5 DEF S

\* The data of all queues of the first d messages.
AllData(P, d) == LET K == QueuesOf(Prefix(P, d)) IN [x \in 1 .. Len(K) |-> DataOf(Prefix(P, d), K[x])]

\* It is a sequence.
LEMMA AllDataIs ==
    ASSUME NEW P, NEW d, Polled(P, d), NEW K, K = QueuesOf(Prefix(P, d)), NEW M, M = AllData(P, d)
    PROVE  /\ M \in Msgs /\ Len(M) = Len(K) /\ Len(K) \in Nat /\ QueuesKnown(P, d, K)
           /\ \A x \in 1 .. Len(K) : M[x] = DataOf(Prefix(P, d), K[x])
<1>1. QueuesKnown(P, d, K)
  BY KnownAt
<1>2. PICK m, G : m = Len(K) /\ G = Seq(Seq(Chars))
  OBVIOUS
<1>3. m \in Nat
  BY <1>1, <1>2 DEF QueuesKnown
<1>4. M = [x \in 1 .. m |-> DataOf(Prefix(P, d), K[x])]
  BY <1>2 DEF AllData
<1>5. \A x \in 1 .. m : DataOf(Prefix(P, d), K[x]) \in G
  <2> TAKE x \in 1 .. m
  <2>1. PICK q : q = K[x]
    OBVIOUS
  <2>2. DataKnown(P, d, q, DataOf(Prefix(P, d), q))
    BY DataAt
  <2> QED
    BY <1>2, <2>1, <2>2 DEF DataKnown
<1>6. M \in [1 .. m -> G]
  BY <1>4, <1>5
<1>7. M \in Seq(G) /\ Len(M) = m
  BY <1>3, <1>6
<1> QED
  BY <1>1, <1>2, <1>3, <1>4, <1>7 DEF Msgs

\* Data of one more message, for a queue that is known.
DataStep(P, e, q, B, C, c) == C = IF P[e] = q THEN Append(B, c) ELSE B

\* What it adds for any queue.
LEMMA DataStepIs ==
    ASSUME NEW P, NEW d, d + 1 \in Nat, Polled(P, d), Polled(P, d + 1), NEW q
    PROVE  DataStep(P, d + 1, q, DataOf(Prefix(P, d), q), DataOf(Prefix(P, d + 1), q), CString(MsgData[d + 1]))
<1>1. PICK B, C : B = DataOf(Prefix(P, d), q) /\ C = DataOf(Prefix(P, d + 1), q)
  OBVIOUS
<1>2. DataGrow(P, d + 1, q, B, C)
  BY <1>1, DataNext
<1> QED
  BY <1>1, <1>2 DEF DataGrow, DataStep

\* A message of a queue that is in the result.
LEMMA ExtendedOld ==
    ASSUME NEW P, NEW d, d \in Nat, Polled(P, d), Polled(P, d + 1), NEW K, K = QueuesOf(Prefix(P, d)),
           NEW M, M = AllData(P, d), NEW x, x \in 1 .. Len(K), K[x] = P[d + 1],
           NEW N, N = OneMore(M, x, CString(MsgData[d + 1]))
    PROVE  K = QueuesOf(Prefix(P, d + 1)) /\ N = AllData(P, d + 1)
<1>0. PICK e, c, q, m : e = d + 1 /\ c = CString(MsgData[e]) /\ q = P[e] /\ m = Len(K)
  OBVIOUS
<1>1. e \in Nat /\ d + 1 \in Nat /\ e - 1 = d /\ e \in 1 .. MaxPending
  <2>1. Len(P) \in Nat /\ Len(P) <= MaxPending /\ d + 1 \in 0 .. Len(P)
    BY DEF Polled
  <2> QED
    BY <1>0, <2>1, ConstantsAssumption
<1>2. PICK L, R : L = QueuesOf(Prefix(P, e)) /\ R = AllData(P, e)
  OBVIOUS
<1>3. /\ M \in Msgs /\ Len(M) = m /\ m \in Nat /\ QueuesKnown(P, d, K)
      /\ \A y \in 1 .. m : M[y] = DataOf(Prefix(P, d), K[y])
  BY <1>0, AllDataIs
<1>4. /\ R \in Msgs /\ Len(R) = Len(L)
      /\ \A y \in 1 .. Len(L) : R[y] = DataOf(Prefix(P, e), L[y])
  BY <1>0, <1>2, AllDataIs
<1>5. QueuesGrow(P, e, K, L)
  BY <1>0, <1>1, <1>2, QueuesNext
<1>6. ~FirstOf(P, e)
  <2>1. PICK i \in 1 .. d : P[i] = K[x]
    BY <1>3 DEF QueuesKnown
  <2> QED
    BY <1>0, <1>1, <2>1 DEF FirstOf
<1>7. L = K
  BY <1>5, <1>6 DEF QueuesGrow
<1>8. PICK G, F : G = Seq(Chars) /\ F = Seq(G) /\ M \in Seq(F) /\ R \in Seq(F)
  BY <1>3, <1>4 DEF Msgs
<1>9. c \in G
  BY <1>0, <1>1, <1>8, DataIs, CStringIs
<1>10. MoreOf(N, M, x, c, G)
  <2>1. M \in Seq(Seq(G)) /\ x \in 1 .. Len(M)
    BY <1>0, <1>3, <1>8
  <2> QED
    BY <1>0, <1>9, <2>1, OneMoreIs
<1>11. N \in Seq(F) /\ Len(N) = m /\ N[x] = Append(M[x], c) /\ \A y \in 1 .. m : y # x => N[y] = M[y]
  BY <1>3, <1>8, <1>10 DEF MoreOf
<1>12. ASSUME NEW y \in 1 .. m PROVE N[y] = R[y]
  <2>1. PICK k : k = K[y]
    OBVIOUS
  <2>2. M[y] = DataOf(Prefix(P, d), k) /\ R[y] = DataOf(Prefix(P, e), k)
    BY <1>0, <1>3, <1>4, <1>7, <2>1
  <2>3. DataStep(P, e, k, M[y], R[y], c)
    BY <1>0, <1>1, <2>2, DataStepIs
  <2>4. R[y] = IF q = k THEN Append(M[y], c) ELSE M[y]
    BY <1>0, <2>3 DEF DataStep
  <2>5. CASE y = x
    BY <1>0, <1>11, <2>1, <2>4, <2>5
  <2>6. CASE y # x
    <3>1. k # q
      <4>1. \A u, v \in 1 .. m : K[u] = K[v] => u = v
        BY <1>0, <1>3 DEF QueuesKnown
      <4>2. x \in 1 .. m /\ K[x] = q
        BY <1>0
      <4>3. K[y] # K[x]
        BY <2>6, <4>1, <4>2
      <4> QED
        BY <2>1, <4>2, <4>3
    <3> QED
      BY <1>11, <2>4, <2>6, <3>1
  <2> QED
    BY <2>5, <2>6
<1>13. N = R
  BY <1>0, <1>4, <1>7, <1>8, <1>11, <1>12, SeqEqual
<1> QED
  BY <1>0, <1>2, <1>7, <1>13

\* A message of a queue that is not in the result yet.
LEMMA ExtendedNew ==
    ASSUME NEW P, NEW d, d \in Nat, Polled(P, d), Polled(P, d + 1), NEW K, K = QueuesOf(Prefix(P, d)),
           NEW M, M = AllData(P, d), NoKey(K, P[d + 1]), NEW X, X = Append(K, P[d + 1]),
           NEW N, N = OneMore(Append(M, <<>>), Len(K) + 1, CString(MsgData[d + 1]))
    PROVE  X = QueuesOf(Prefix(P, d + 1)) /\ N = AllData(P, d + 1)
<1>0. PICK e, c, q, m, z : e = d + 1 /\ c = CString(MsgData[e]) /\ q = P[e] /\ m = Len(K) /\ z = <<>>
  OBVIOUS
<1>1. e \in Nat /\ d + 1 \in Nat /\ e - 1 = d /\ e \in 1 .. MaxPending /\ e \in 1 .. Len(P)
  <2>1. Len(P) \in Nat /\ Len(P) <= MaxPending /\ d + 1 \in 0 .. Len(P)
    BY DEF Polled
  <2> QED
    BY <1>0, <2>1, ConstantsAssumption
<1>2. PICK L, R : L = QueuesOf(Prefix(P, e)) /\ R = AllData(P, e)
  OBVIOUS
<1>3. /\ M \in Msgs /\ Len(M) = m /\ m \in Nat /\ QueuesKnown(P, d, K)
      /\ \A y \in 1 .. m : M[y] = DataOf(Prefix(P, d), K[y])
  BY <1>0, AllDataIs
<1>4. /\ R \in Msgs /\ Len(R) = Len(L)
      /\ \A y \in 1 .. Len(L) : R[y] = DataOf(Prefix(P, e), L[y])
  BY <1>0, <1>2, AllDataIs
<1>5. QueuesGrow(P, e, K, L)
  BY <1>0, <1>1, <1>2, QueuesNext
<1>6. \A i \in 1 .. d : P[i] # q
  <2>1. SUFFICES ASSUME NEW i \in 1 .. d, P[i] = q PROVE FALSE
    OBVIOUS
  <2>2. PICK x \in 1 .. m : K[x] = P[i]
    BY <1>0, <1>3, <2>1 DEF QueuesKnown
  <2> QED
    BY <1>0, <2>1, <2>2 DEF NoKey
<1>7. L = Append(K, q) /\ X = L
  <2>1. FirstOf(P, e)
    BY <1>0, <1>1, <1>6 DEF FirstOf
  <2> QED
    BY <1>0, <1>5, <2>1 DEF QueuesGrow
<1>8. q \in QIds /\ K \in Seq(QIds)
  <2>1. P \in Seq(QIds)
    BY DEF Polled
  <2>2. P[e] \in QIds
    BY <1>1, <2>1, SeqAt
  <2> QED
    BY <1>0, <1>3, <2>2 DEF QueuesKnown
<1>9. Len(L) = m + 1 /\ L[m + 1] = q /\ \A y \in 1 .. m : L[y] = K[y]
  BY <1>0, <1>7, <1>8
<1>10. PICK G, F : G = Seq(Chars) /\ F = Seq(G) /\ M \in Seq(F) /\ R \in Seq(F)
  BY <1>3, <1>4 DEF Msgs
<1>11. c \in G
  BY <1>0, <1>1, <1>10, DataIs, CStringIs
<1>12. PICK A : A = Append(M, z)
  OBVIOUS
<1>13. z \in F
  BY <1>0, <1>10
<1>14. A \in Seq(F) /\ Len(A) = m + 1 /\ A[m + 1] = z /\ \A y \in 1 .. m : A[y] = M[y]
  BY <1>3, <1>10, <1>12, <1>13
<1>15. PICK w : w = m + 1 /\ w \in 1 .. w /\ \A y \in 1 .. w : y = w \/ y \in 1 .. m
  BY <1>3
<1>16. MoreOf(N, A, w, c, G)
  <2>1. A \in Seq(Seq(G)) /\ w \in 1 .. Len(A) /\ N = OneMore(A, w, c)
    BY <1>0, <1>10, <1>12, <1>14, <1>15
  <2> QED
    BY <1>11, <2>1, OneMoreIs
<1>17. N \in Seq(F) /\ Len(N) = w /\ N[w] = Append(z, c) /\ \A y \in 1 .. w : y # w => N[y] = A[y]
  BY <1>10, <1>14, <1>15, <1>16 DEF MoreOf
<1>18. ASSUME NEW y \in 1 .. w PROVE N[y] = R[y]
  <2>1. PICK k, B : k = L[y] /\ B = DataOf(Prefix(P, d), k)
    OBVIOUS
  <2>2. R[y] = DataOf(Prefix(P, e), k)
    BY <1>4, <1>9, <1>15, <2>1
  <2>3. DataStep(P, e, k, B, R[y], c)
    BY <1>0, <1>1, <2>1, <2>2, DataStepIs
  <2>4. R[y] = IF q = k THEN Append(B, c) ELSE B
    BY <1>0, <2>3 DEF DataStep
  <2>5. CASE y = w
    <3>1. k = q
      BY <1>9, <1>15, <2>1, <2>5
    <3>2. DataKnown(P, d, k, B)
      BY <2>1, DataAt
    <3>3. B = z
      BY <1>0, <1>6, <3>1, <3>2 DEF DataKnown
    <3> QED
      BY <1>17, <2>4, <2>5, <3>1, <3>3
  <2>6. CASE y \in 1 .. m
    <3>1. k = K[y] /\ M[y] = B /\ y # w
      BY <1>3, <1>9, <1>15, <2>1, <2>6
    <3>2. k # q
      BY <1>0, <2>6, <3>1 DEF NoKey
    <3> QED
      BY <1>14, <1>17, <2>4, <2>6, <3>1, <3>2
  <2> QED
    BY <1>15, <2>5, <2>6
<1>19. N = R
  BY <1>4, <1>9, <1>10, <1>15, <1>17, <1>18, SeqEqual
<1> QED
  BY <1>0, <1>2, <1>7, <1>19

\* What a message adds to the result is what it has to add.
LEMMA ExtendedIs ==
    ASSUME NEW P, NEW d, d \in Nat, Polled(P, d), Polled(P, d + 1), NEW L, NEW N,
           Extended(QueuesOf(Prefix(P, d)), AllData(P, d), P[d + 1], CString(MsgData[d + 1]), L, N)
    PROVE  L = QueuesOf(Prefix(P, d + 1)) /\ N = AllData(P, d + 1)
<1>1. PICK K, M, q, c : K = QueuesOf(Prefix(P, d)) /\ M = AllData(P, d) /\ q = P[d + 1] /\ c = CString(MsgData[d + 1])
  OBVIOUS
<1>2. Extended(K, M, q, c, L, N)
  BY <1>1
<1>3. CASE \E x \in 1 .. Len(K) : K[x] = q /\ L = K /\ N = OneMore(M, x, c)
  <2>1. PICK x \in 1 .. Len(K) : K[x] = q /\ L = K /\ N = OneMore(M, x, c)
    BY <1>3
  <2>2. x \in 1 .. Len(K) /\ K[x] = P[d + 1] /\ N = OneMore(M, x, CString(MsgData[d + 1]))
    BY <1>1, <2>1
  <2>3. K = QueuesOf(Prefix(P, d + 1)) /\ N = AllData(P, d + 1)
    BY <1>1, <2>2, ExtendedOld
  <2> QED
    BY <2>1, <2>3
<1>4. CASE NoKey(K, q) /\ L = Append(K, q) /\ N = OneMore(Append(M, <<>>), Len(K) + 1, c)
  BY <1>1, <1>4, ExtendedNew
<1> QED
  BY <1>2, <1>3, <1>4 DEF Extended

-----------------------------------------------------------------------------
(* The text of a poll's answer *)

\* The text of every object.
LEMMA JsonAt ==
    ASSUME NEW h, NEW f, Json(h, f), NEW o, o \in 1 .. Len(h)
    PROVE  f[o] = Node(h, f, o)
  BY DEF Json, Solves

\* A string.
LEMMA StrText ==
    ASSUME NEW h, HeapOk(h), NEW f, Json(h, f), NEW o, NEW s, StrAt(h, o, s)
    PROVE  f[o] = StringText(s)
<1>1. o \in 1 .. Len(h) /\ h[o].type = "string" /\ h[o].val = s
  BY DEF StrAt
<1>2. Node(h, f, o) = StringText(s)
  BY <1>1, NodeScalar
<1> QED
  BY <1>1, <1>2, JsonAt

\* An array of strings.
LEMMA ArrText ==
    ASSUME NEW h, HeapOk(h), NEW f, Json(h, f), NEW a, NEW S, ArrOf(h, a, S)
    PROVE  f[a] = Strings(S)
<1>1. PICK A, n : A = h[a].array /\ n = Len(A)
  OBVIOUS
<1>2. a \in 1 .. Len(h) /\ h[a].type = "array" /\ n = Len(S) /\ \A i \in 1 .. n : StrAt(h, A[i], S[i])
  BY <1>1 DEF ArrOf
<1>3. Node(h, f, a) = ArrayText(TextsOf(A, f))
  BY <1>1, <1>2, NodeArray
<1>4. \A i \in 1 .. n : f[A[i]] = StringText(S[i])
  BY <1>2, StrText
<1>5. TextsOf(A, f) = [i \in 1 .. Len(S) |-> StringText(S[i])]
  BY <1>1, <1>2, <1>4 DEF TextsOf
<1> QED
  BY <1>2, <1>3, <1>5, JsonAt DEF Strings

\* A function is a sequence.
LEMMA FunctionSeq ==
    ASSUME NEW S, NEW n, n \in Nat, NEW F, F \in [1 .. n -> S]
    PROVE  F \in Seq(S) /\ Len(F) = n
  OBVIOUS

\* The fields of an object with two fields.
LEMMA TwoFields ==
    ASSUME NEW K, NEW V, NEW f, Len(V) = 2, NEW a, NEW b, NEW x, NEW y,
           K[1] = a, K[2] = b, f[V[1]] = x, f[V[2]] = y
    PROVE  FieldsText(K, V, f) = << << <<a>>, x>>, << <<b>>, y>> >>
<1>1. PICK u, v, S : u = << <<a>>, x>> /\ v = << <<b>>, y>> /\ S = {u, v}
  OBVIOUS
<1>2. PICK F : F = FieldsText(K, V, f)
  OBVIOUS
<1>3. F = [i \in 1 .. 2 |-> << <<K[i]>>, f[V[i]]>>]
  BY <1>2 DEF FieldsText
<1>4. F[1] = u /\ F[2] = v
  BY <1>1, <1>3
<1>5. \A i \in 1 .. 2 : i = 1 \/ i = 2
  OBVIOUS
<1>6. \A i \in 1 .. 2 : F[i] \in S
  BY <1>1, <1>4, <1>5
<1>7. DOMAIN F = 1 .. 2 /\ F = [i \in 1 .. 2 |-> F[i]]
  BY <1>3
<1>8. F \in [1 .. 2 -> S]
  BY <1>6, <1>7
<1>9. F \in Seq(S) /\ Len(F) = 2
  BY <1>8, FunctionSeq
<1>10. PICK t : t = <<u, v>>
  OBVIOUS
<1>11. t \in Seq(S) /\ Len(t) = 2 /\ t[1] = u /\ t[2] = v
  BY <1>1, <1>10
<1>12. \A i \in 1 .. 2 : F[i] = t[i]
  BY <1>4, <1>5, <1>11
<1>13. F = t
  BY <1>9, <1>11, <1>12, SeqEqual
<1> QED
  BY <1>1, <1>2, <1>10, <1>13

\* And of one with three.
LEMMA ThreeFields ==
    ASSUME NEW K, NEW V, NEW f, Len(V) = 3, NEW a, NEW b, NEW c, NEW x, NEW y, NEW z,
           K[1] = a, K[2] = b, K[3] = c, f[V[1]] = x, f[V[2]] = y, f[V[3]] = z
    PROVE  FieldsText(K, V, f) = << << <<a>>, x>>, << <<b>>, y>>, << <<c>>, z>> >>
<1>1. PICK u, v, w, S : u = << <<a>>, x>> /\ v = << <<b>>, y>> /\ w = << <<c>>, z>> /\ S = {u, v, w}
  OBVIOUS
<1>2. PICK F : F = FieldsText(K, V, f)
  OBVIOUS
<1>3. F = [i \in 1 .. 3 |-> << <<K[i]>>, f[V[i]]>>]
  BY <1>2 DEF FieldsText
<1>4. F[1] = u /\ F[2] = v /\ F[3] = w
  BY <1>1, <1>3
<1>5. \A i \in 1 .. 3 : i = 1 \/ i = 2 \/ i = 3
  OBVIOUS
<1>6. \A i \in 1 .. 3 : F[i] \in S
  BY <1>1, <1>4, <1>5
<1>7. DOMAIN F = 1 .. 3 /\ F = [i \in 1 .. 3 |-> F[i]]
  BY <1>3
<1>8. F \in [1 .. 3 -> S]
  BY <1>6, <1>7
<1>9. F \in Seq(S) /\ Len(F) = 3
  BY <1>8, FunctionSeq
<1>10. PICK t : t = <<u, v, w>>
  OBVIOUS
<1>11. t \in Seq(S) /\ Len(t) = 3 /\ t[1] = u /\ t[2] = v /\ t[3] = w
  BY <1>1, <1>10
<1>12. \A i \in 1 .. 3 : F[i] = t[i]
  BY <1>4, <1>5, <1>11
<1>13. F = t
  BY <1>9, <1>11, <1>12, SeqEqual
<1> QED
  BY <1>1, <1>2, <1>10, <1>13

\* The third of three elements.
LEMMA ConcatThree ==
    ASSUME NEW u, NEW v, NEW w
    PROVE  <<u, v>> \o <<w>> = <<u, v, w>> /\ <<u, v>> \o <<>> = <<u, v>>
<1>1. PICK S, s : S = {u, v, w} /\ s = <<u, v>>
  OBVIOUS
<1>2. s \in Seq(S) /\ w \in S
  BY <1>1
<1>3. s \o <<w>> = Append(s, w) /\ s \o <<>> = s
  BY <1>2, ConcatOne
<1>4. Append(<<u, v>>, w) = <<u, v, w>>
  BY AppendThree
<1> QED
  BY <1>1, <1>3, <1>4

\* The consumers of a queue, as they are in a queue's object.
LEMMA ConsumersText ==
    ASSUME NEW q, q \in QIds
    PROVE  IdsUpto(q, Len(ConsumersOf[q])) = [i \in DOMAIN ConsumersOf[q] |-> <<ConsumersOf[q][i]>>]
<1>1. PICK s, E : s = ConsumersOf[q] /\ E = {s[i] : i \in DOMAIN s}
  OBVIOUS
<1>2. s \in Seq(E)
  BY <1>1, ConstantsAssumption DEF IsSeq
<1>3. DOMAIN s = 1 .. Len(s)
  BY <1>2
<1> QED
  BY <1>1, <1>3 DEF IdsUpto

\* An object.
LEMMA ObjText ==
    ASSUME NEW h, HeapOk(h), NEW f, Json(h, f), NEW o, o \in 1 .. Len(h), h[o].type = "object",
           NEW K, NEW V, K = KeysOf(h[o].tab), V = ValsOf(h[o].tab)
    PROVE  Len(K) = Len(V) /\ f[o] = ObjectText(FieldsText(K, V, f))
<1>1. Len(K) = Len(V)
  BY TabLens
<1>2. f[o] = Node(h, f, o)
  BY JsonAt
<1>3. Node(h, f, o) = ObjectText(FieldsText(K, V, f))
  BY NodeObject
<1> QED
  BY <1>1, <1>2, <1>3

\* The object of a queue.
LEMMA QueueShown ==
    ASSUME NEW h, HeapOk(h), NEW f, Json(h, f), NEW o, NEW q, q \in QIds,
           NEW B, B = DataOf(pending, q), QueueAt(h, o, q, B)
    PROVE  f[o] = QueueText(q)
<1>1. o \in 1 .. Len(h) /\ h[o].type = "object"
  BY DEF QueueAt
<1>2. PICK K, V : K = KeysOf(h[o].tab) /\ V = ValsOf(h[o].tab)
  OBVIOUS
<1>3. Len(K) = Len(V) /\ f[o] = ObjectText(FieldsText(K, V, f))
  BY <1>1, <1>2, ObjText
<1>4. PICK a, b, c : a = "messages" /\ b = "rev" /\ c = "consumers"
  OBVIOUS
<1>5. /\ o \in 1 .. Len(h) /\ h[o].type = "object" /\ ArrOf(h, V[1], B)
      /\ V[2] \in 1 .. Len(h) /\ h[V[2]].type = "int" /\ h[V[2]].val = "rev"
      /\ K = IF q \in included THEN <<a, b, c>> ELSE <<a, b>>
  BY <1>2, <1>4 DEF QueueAt
<1>6. q \in included => ArrOf(h, V[3], IdsUpto(q, Len(ConsumersOf[q])))
  BY <1>2 DEF QueueAt
<1>7. Len(K) = Len(V)
  BY <1>3
<1>8. f[o] = ObjectText(FieldsText(K, V, f))
  BY <1>3
<1>9. PICK x, y, z : /\ x = Strings(B) /\ y = Plain("rev")
                     /\ z = Strings([i \in DOMAIN ConsumersOf[q] |-> <<ConsumersOf[q][i]>>])
  OBVIOUS
<1>10. f[V[1]] = x
  BY <1>5, <1>9, ArrText
<1>11. f[V[2]] = y
  <2>1. PICK i : i = V[2]
    OBVIOUS
  <2>2. i \in 1 .. Len(h) /\ h[i].type = "int" /\ h[i].val = "rev"
    BY <1>5, <2>1
  <2>3. Node(h, f, i) = Plain("rev")
    BY <2>2, NodeScalar
  <2> QED
    BY <1>9, <2>1, <2>2, <2>3, JsonAt
<1>12. PICK u, v, w : u = << <<a>>, x>> /\ v = << <<b>>, y>> /\ w = << <<c>>, z>>
  OBVIOUS
<1>13. CASE q \in included
  <2>1. f[V[3]] = z
    BY <1>6, <1>9, <1>13, ArrText, ConsumersText
  <2>2. PICK t : t = <<a, b, c>>
    OBVIOUS
  <2>3. t[1] = a /\ t[2] = b /\ t[3] = c /\ Len(t) = 3
    BY <2>2
  <2>4. K = t /\ Len(V) = 3 /\ K[1] = a /\ K[2] = b /\ K[3] = c
    BY <1>5, <1>7, <1>13, <2>2, <2>3
  <2>5. FieldsText(K, V, f) = << << <<a>>, x>>, << <<b>>, y>>, << <<c>>, z>> >>
    BY <1>10, <1>11, <2>1, <2>4, ThreeFields
  <2>6. FieldsText(K, V, f) = <<u, v>> \o <<w>>
    BY <1>12, <2>5, ConcatThree
  <2>7. QueueText(q) = ObjectText(<<u, v>> \o <<w>>)
    BY <1>4, <1>9, <1>12, <1>13 DEF QueueText
  <2> QED
    BY <1>8, <2>6, <2>7
<1>14. CASE q \notin included
  <2>1. PICK t : t = <<a, b>>
    OBVIOUS
  <2>2. t[1] = a /\ t[2] = b /\ Len(t) = 2
    BY <2>1
  <2>3. K = t /\ Len(V) = 2 /\ K[1] = a /\ K[2] = b
    BY <1>5, <1>7, <1>14, <2>1, <2>2
  <2>4. FieldsText(K, V, f) = << << <<a>>, x>>, << <<b>>, y>> >>
    BY <1>10, <1>11, <2>3, TwoFields
  <2>5. FieldsText(K, V, f) = <<u, v>> \o <<>>
    BY <1>12, <2>4, ConcatThree
  <2>6. QueueText(q) = ObjectText(<<u, v>> \o <<>>)
    BY <1>4, <1>9, <1>12, <1>14 DEF QueueText
  <2> QED
    BY <1>8, <2>5, <2>6
<1> QED
  BY <1>13, <1>14

\* The result of a poll is complete.
Complete(h, r) == ResultsAt(h, r, QueuesOf(pending), AllData(pending, Len(pending)))

\* Its text.
LEMMA ResultShown ==
    ASSUME NEW h, HeapOk(h), NEW f, Json(h, f), pending \in Seq(QIds), Len(pending) <= MaxPending,
           NEW r, Complete(h, r)
    PROVE  f[r] = ObjectText([i \in 1 .. Len(QueuesOf(pending)) |->
                        << <<QueuesOf(pending)[i]>>, QueueText(QueuesOf(pending)[i])>>])
<1>1. PICK K, V, M, n : K = QueuesOf(pending) /\ V = ValsOf(h[r].tab) /\ M = AllData(pending, n) /\ n = Len(pending)
  OBVIOUS
<1>2. Prefix(pending, n) = pending
  BY <1>1, PrefixAll
<1>3. Polled(pending, n)
  <2>1. n \in Nat
    BY <1>1
  <2> QED
    BY <1>1, <2>1 DEF Polled
<1>4. ResultsAt(h, r, K, M)
  BY <1>1 DEF Complete
<1>5. /\ r \in 1 .. Len(h) /\ h[r].type = "object" /\ KeysOf(h[r].tab) = K
      /\ \A i \in 1 .. Len(K) : QueueAt(h, V[i], K[i], M[i])
  BY <1>1, <1>4 DEF ResultsAt
<1>6. Len(K) = Len(V)
  BY <1>1, <1>5, TabLens
<1>7. K = QueuesOf(Prefix(pending, n))
  BY <1>1, <1>2
<1>8. QueuesKnown(pending, n, K) /\ \A i \in 1 .. Len(K) : M[i] = DataOf(Prefix(pending, n), K[i])
  BY <1>1, <1>3, <1>7, AllDataIs
<1>9. ASSUME NEW i \in 1 .. Len(K) PROVE f[V[i]] = QueueText(K[i])
  <2>1. PICK q, o, B : q = K[i] /\ o = V[i] /\ B = M[i]
    OBVIOUS
  <2>2. B = DataOf(pending, q)
    BY <1>2, <1>8, <2>1
  <2>3. q \in QIds
    <3>1. K \in Seq(QIds)
      BY <1>8 DEF QueuesKnown
    <3> QED
      BY <2>1, <3>1, SeqAt
  <2>4. QueueAt(h, o, q, B)
    BY <1>5, <2>1
  <2>5. f[o] = QueueText(q)
    BY <2>2, <2>3, <2>4, QueueShown
  <2> QED
    BY <2>1, <2>5
<1>10. FieldsText(K, V, f) = [i \in 1 .. Len(K) |-> << <<K[i]>>, QueueText(K[i])>>]
  <2>1. \A i \in 1 .. Len(K) : << <<K[i]>>, f[V[i]]>> = << <<K[i]>>, QueueText(K[i])>>
    BY <1>9
  <2> QED
    BY <1>6, <2>1 DEF FieldsText
<1>11. f[r] = ObjectText(FieldsText(K, V, f))
  BY <1>1, <1>5, NodeObject, JsonAt
<1> QED
  BY <1>1, <1>10, <1>11

\* The response has n fields; the i-th is k, a string which is below object b.
HasFields(h, n) == 1 \in 1 .. Len(h) /\ h[1].type = "object" /\ Len(KeysOf(h[1].tab)) = n
FieldAt(h, i, k, b) ==
    /\ KeysOf(h[1].tab)[i] = k
    /\ StrAt(h, ValsOf(h[1].tab)[i], <<k>>) /\ ValsOf(h[1].tab)[i] < b

\* The response to a poll with all of its fields, the last of which is r.
Answered(h, r) ==
    /\ HasFields(h, 3) /\ FieldAt(h, 1, "version", r) /\ FieldAt(h, 2, "ret", r)
    /\ KeysOf(h[1].tab)[3] = "results" /\ ValsOf(h[1].tab)[3] = r

\* Its text is what the answer has to say.
LEMMA AnswerShown ==
    ASSUME NEW h, HeapOk(h), NEW f, Json(h, f), pending \in Seq(QIds), Len(pending) <= MaxPending,
           NEW r, Complete(h, r), Answered(h, r)
    PROVE  f[1] = AnswerText
<1>1. 1 \in 1 .. Len(h) /\ h[1].type = "object"
  BY DEF Answered, HasFields
<1>2. PICK K, V : K = KeysOf(h[1].tab) /\ V = ValsOf(h[1].tab)
  OBVIOUS
<1>3. Len(K) = Len(V) /\ f[1] = ObjectText(FieldsText(K, V, f))
  BY <1>1, <1>2, ObjText
<1>4. PICK a, b, c : a = "version" /\ b = "ret" /\ c = "results"
  OBVIOUS
<1>5. StrAt(h, V[1], <<a>>) /\ StrAt(h, V[2], <<b>>) /\ V[3] = r
  BY <1>2, <1>4 DEF Answered, FieldAt
<1>6. Len(K) = 3 /\ K[1] = a /\ K[2] = b /\ K[3] = c
  BY <1>2, <1>4 DEF Answered, HasFields, FieldAt
<1>7. Len(V) = 3
  BY <1>3, <1>6
<1>8. PICK x, y, z : x = StringText(<<a>>) /\ y = StringText(<<b>>) /\ z = f[r]
  OBVIOUS
<1>9. f[V[1]] = x /\ f[V[2]] = y /\ f[V[3]] = z
  BY <1>5, <1>8, StrText
<1>10. FieldsText(K, V, f) = << << <<a>>, x>>, << <<b>>, y>>, << <<c>>, z>> >>
  BY <1>6, <1>7, <1>9, ThreeFields
<1>11. f[1] = ObjectText(FieldsText(K, V, f))
  BY <1>3
<1>12. z = ObjectText([i \in 1 .. Len(QueuesOf(pending)) |->
                        << <<QueuesOf(pending)[i]>>, QueueText(QueuesOf(pending)[i])>>])
  BY <1>8, ResultShown
<1>13. AnswerText = ObjectText(<< << <<a>>, x>>, << <<b>>, y>>, << <<c>>, z>> >>)
  BY <1>4, <1>8, <1>12 DEF AnswerText
<1> QED
  BY <1>10, <1>11, <1>13

-----------------------------------------------------------------------------
(* The fields of the response to a poll *)

\* The fields that are still to be added.
Todo3 == <<"version", "ret", "results">>
Todo2 == <<"ret", "results">>
Todo1 == <<"results">>
Todo0 == <<>>

\* They are added one after the other.
LEMMA Todos ==
    /\ Todo3 # <<>> /\ Head(Todo3) = "version" /\ Tail(Todo3) = Todo2
    /\ Todo2 # <<>> /\ Head(Todo2) = "ret" /\ Tail(Todo2) = Todo1
    /\ Todo1 # <<>> /\ Head(Todo1) = "results" /\ Tail(Todo1) = Todo0 /\ Todo0 = <<>>
<1>1. Todo3 # <<>> /\ Head(Todo3) = "version" /\ Tail(Todo3) = Todo2
  BY DEF Todo3, Todo2
<1>2. Todo2 # <<>> /\ Head(Todo2) = "ret" /\ Tail(Todo2) = Todo1
  BY DEF Todo2, Todo1
<1>3. Todo1 # <<>> /\ Head(Todo1) = "results" /\ Tail(Todo1) = Todo0 /\ Todo0 = <<>>
  BY DEF Todo1, Todo0
<1> QED
  BY <1>1, <1>2, <1>3

\* The response has the fields that are not to be added any more, and the
\* strings among them are below object b.
RootAt(h, s, r, b) ==
    \/ s = Todo3 /\ HasFields(h, 0)
    \/ s = Todo2 /\ HasFields(h, 1) /\ FieldAt(h, 1, "version", b)
    \/ s = Todo1 /\ HasFields(h, 2) /\ FieldAt(h, 1, "version", b) /\ FieldAt(h, 2, "ret", b)
    \/ s = Todo0 /\ r # NULL /\ b = r /\ Answered(h, r)

\* The objects below b are the same.
SameBelow(h, g, b) ==
    /\ Len(h) \in Nat /\ Len(g) \in Nat /\ Len(h) <= Len(g) /\ b \in Nat /\ b > 1
    /\ \A p \in 1 .. Len(h) : p < b => Same(h, g, p)

\* The fields are the same.
LEMMA FieldSame ==
    ASSUME NEW h, NEW g, NEW b, SameBelow(h, g, b), NEW n, HasFields(h, n)
    PROVE  /\ HasFields(g, n) /\ g[1].tab = h[1].tab
           /\ \A i, k : FieldAt(h, i, k, b) => FieldAt(g, i, k, b)
<1>1. 1 \in 1 .. Len(h) /\ 1 < b /\ 1 \in 1 .. Len(g)
  BY DEF SameBelow, HasFields
<1>2. g[1].tab = h[1].tab /\ g[1].type = h[1].type
  BY <1>1 DEF SameBelow, Same
<1>3. HasFields(g, n)
  BY <1>1, <1>2 DEF HasFields
<1>4. ASSUME NEW i, NEW k, FieldAt(h, i, k, b) PROVE FieldAt(g, i, k, b)
  <2>1. PICK v : v = ValsOf(h[1].tab)[i]
    OBVIOUS
  <2>2. KeysOf(h[1].tab)[i] = k /\ v \in 1 .. Len(h) /\ h[v].type = "string" /\ h[v].val = <<k>> /\ v < b
    BY <1>4, <2>1 DEF FieldAt, StrAt
  <2>3. v \in 1 .. Len(g) /\ Same(h, g, v)
    BY <2>2 DEF SameBelow
  <2>4. g[v].type = "string" /\ g[v].val = <<k>>
    BY <2>2, <2>3 DEF Same
  <2> QED
    BY <1>2, <2>1, <2>2, <2>3, <2>4 DEF FieldAt, StrAt
<1> QED
  BY <1>2, <1>3, <1>4

\* The response is the same.
LEMMA RootSame ==
    ASSUME NEW h, NEW g, NEW b, SameBelow(h, g, b), NEW s, NEW r, RootAt(h, s, r, b)
    PROVE  RootAt(g, s, r, b)
<1>1. PICK n : HasFields(h, n)
  BY DEF RootAt, Answered
<1>2. g[1].tab = h[1].tab
  BY <1>1, FieldSame
<1>3. \A m : HasFields(h, m) => HasFields(g, m)
  BY FieldSame
<1>4. \A i, k : FieldAt(h, i, k, b) => FieldAt(g, i, k, b)
  BY <1>1, FieldSame
<1>5. b = r /\ Answered(h, r) => Answered(g, r)
  BY <1>2, <1>3, <1>4 DEF Answered
<1> QED
  BY <1>3, <1>4, <1>5 DEF RootAt

\* Fields below an object are below any higher one.
LEMMA RootHigher ==
    ASSUME NEW h, HeapOk(h), NEW s, s # Todo0, NEW r, NEW t, NEW b, NEW c, b \in Nat, c \in Nat, b <= c,
           RootAt(h, s, r, b)
    PROVE  RootAt(h, s, t, c)
<1>1. ASSUME NEW i, NEW k, FieldAt(h, i, k, b) PROVE FieldAt(h, i, k, c)
  <2>1. PICK v : v = ValsOf(h[1].tab)[i]
    OBVIOUS
  <2>2. v \in 1 .. Len(h) /\ v < b /\ Len(h) \in Nat
    BY <1>1, <2>1 DEF FieldAt, StrAt, HeapOk
  <2>3. v < c
    BY <2>2
  <2> QED
    BY <1>1, <2>1, <2>3 DEF FieldAt
<1> QED
  BY <1>1 DEF RootAt

\* The heap g is h with one more field k of the response, with value u.
FieldBehind(h, g, k, u) ==
    /\ HeapOk(g) /\ Len(h) <= Len(g) /\ g[1].type = "object"
    /\ KeysOf(g[1].tab) = Append(KeysOf(h[1].tab), k) /\ ValsOf(g[1].tab) = Append(ValsOf(h[1].tab), u)
    /\ \A p \in 1 .. Len(h) : p # 1 => g[p] = h[p]

\* Fields that were there are there.
FieldsKept(h, g, n) == \A i \in 1 .. n : \A x, b : FieldAt(h, i, x, b) => FieldAt(g, i, x, b)

\* One more field of the response, behind the others.
LEMMA FieldsGrow ==
    ASSUME NEW h, HeapOk(h), NEW g, NEW n, n \in Nat, HasFields(h, n), NEW k, NEW u, FieldBehind(h, g, k, u),
           NEW m, m = n + 1
    PROVE  /\ HasFields(g, m) /\ KeysOf(g[1].tab)[m] = k /\ ValsOf(g[1].tab)[m] = u
           /\ FieldsKept(h, g, n)
<1>1. HeapOk(g) /\ Len(h) <= Len(g) /\ g[1].type = "object"
  BY DEF FieldBehind
<1>2. PICK K, V, L, W : /\ K = KeysOf(h[1].tab) /\ V = ValsOf(h[1].tab)
                        /\ L = KeysOf(g[1].tab) /\ W = ValsOf(g[1].tab)
  OBVIOUS
<1>3. 1 \in 1 .. Len(h) /\ h[1].type = "object" /\ Len(K) = n
  BY <1>2 DEF HasFields
<1>4. K \in Seq(Names) /\ V \in Seq(Nat) /\ Len(V) = n
  BY <1>2, <1>3, TabLens
<1>5. Len(h) \in Nat /\ Len(g) \in Nat
  BY <1>1 DEF HeapOk
<1>6. 1 \in 1 .. Len(g)
  BY <1>1, <1>3, <1>5
<1>7. L \in Seq(Names) /\ W \in Seq(Nat)
  BY <1>1, <1>2, <1>6, TabLens
<1>8. L = Append(K, k) /\ W = Append(V, u)
  BY <1>2 DEF FieldBehind
<1>9. Len(L) = n + 1 /\ L[n + 1] = k /\ \A i \in 1 .. n : L[i] = K[i]
  <2>1. PICK E : K \in Seq(E)
    BY <1>4
  <2> QED
    BY <1>3, <1>8, <2>1
<1>10. Len(W) = n + 1 /\ W[n + 1] = u /\ \A i \in 1 .. n : W[i] = V[i]
  BY <1>4, <1>8
<1>11. ASSUME NEW i \in 1 .. n, NEW x, NEW b, FieldAt(h, i, x, b) PROVE FieldAt(g, i, x, b)
  <2>1. PICK v : v = V[i]
    OBVIOUS
  <2>2. K[i] = x /\ v \in 1 .. Len(h) /\ h[v].type = "string" /\ h[v].val = <<x>> /\ v < b
    BY <1>2, <1>11, <2>1 DEF FieldAt, StrAt
  <2>3. "string" # "object"
    OBVIOUS
  <2>4. v # 1
    BY <1>3, <2>2, <2>3
  <2>5. g[v] = h[v]
    BY <2>2, <2>4 DEF FieldBehind
  <2>6. v \in 1 .. Len(g)
    BY <1>1, <1>5, <2>2
  <2>7. L[i] = x /\ W[i] = v
    BY <1>9, <1>10, <2>1, <2>2
  <2> QED
    BY <1>2, <2>2, <2>5, <2>6, <2>7 DEF FieldAt, StrAt
<1> QED
  BY <1>1, <1>2, <1>6, <1>9, <1>10, <1>11 DEF HasFields, FieldsKept

\* A string becomes the last field of the response.
LEMMA StringField ==
    ASSUME NEW h, HeapOk(h), NEW g, NEW U, NEW n, n \in Nat, HasFields(h, n), NEW k, NoKey(KeysOf(h[1].tab), k),
           FieldAdded(h, g, U, k, "string", <<k>>), NEW c, c = Len(g) + 1
    PROVE  HasFields(g, n + 1) /\ FieldAt(g, n + 1, k, c) /\ FieldsKept(h, g, n)
<1>1. PICK u : u = Len(h) + 1
  OBVIOUS
<1>2. HeapOk(g) /\ Len(g) = Len(h) + 1 /\ g[1].type = "object"
  BY DEF FieldAdded
<1>3. g[u].type = "string" /\ g[u].val = <<k>>
  BY <1>1 DEF FieldAdded
<1>4. Len(h) \in Nat
  BY DEF HeapOk
<1>5. FieldBehind(h, g, k, u)
  BY <1>1, <1>2, <1>4 DEF FieldBehind, FieldAdded
<1>6. /\ HasFields(g, n + 1) /\ KeysOf(g[1].tab)[n + 1] = k /\ ValsOf(g[1].tab)[n + 1] = u
      /\ FieldsKept(h, g, n)
  BY <1>5, FieldsGrow
<1>7. u \in 1 .. Len(g) /\ u < c
  BY <1>1, <1>2, <1>4
<1>8. FieldAt(g, n + 1, k, c)
  BY <1>3, <1>6, <1>7 DEF FieldAt, StrAt
<1> QED
  BY <1>6, <1>8

\* The next field of the response is added.
LEMMA RootField ==
    ASSUME NEW h, HeapOk(h), NEW g, NEW U, NEW s, s # <<>>, NEW k, k = Head(s), k # "results",
           NEW r, NEW b, b = Len(h) + 1, RootAt(h, s, r, b),
           FieldAdded(h, g, U, k, "string", <<k>>), NEW c, c = Len(g) + 1
    PROVE  RootAt(g, Tail(s), r, c)
<1>1. Len(h) \in Nat /\ Len(g) = Len(h) + 1 /\ HeapOk(g)
  BY DEF HeapOk, FieldAdded
<1>2. b \in Nat /\ c \in Nat /\ b <= c
  BY <1>1
<1>3. \/ s = Todo3 /\ HasFields(h, 0)
      \/ s = Todo2 /\ HasFields(h, 1) /\ FieldAt(h, 1, "version", b)
  <2>1. s # Todo1 /\ s # Todo0
    BY Todos
  <2> QED
    BY <2>1 DEF RootAt
<1>4. CASE s = Todo3 /\ HasFields(h, 0)
  <2>1. k = "version" /\ Tail(s) = Todo2
    BY <1>4, Todos
  <2>2. NoKey(KeysOf(h[1].tab), k)
    BY <1>4 DEF HasFields, NoKey
  <2>3. HasFields(g, 0 + 1) /\ FieldAt(g, 0 + 1, k, c)
    <3>1. 0 \in Nat /\ HasFields(h, 0)
      BY <1>4
    <3> QED
      BY <2>2, <3>1, StringField
  <2>4. 0 + 1 = 1
    OBVIOUS
  <2> QED
    BY <2>1, <2>3, <2>4 DEF RootAt
<1>5. CASE s = Todo2 /\ HasFields(h, 1) /\ FieldAt(h, 1, "version", b)
  <2>1. k = "ret" /\ Tail(s) = Todo1
    BY <1>5, Todos
  <2>2. NoKey(KeysOf(h[1].tab), k)
    <3>1. "version" # k
      BY <2>1
    <3>2. Len(KeysOf(h[1].tab)) = 1 /\ KeysOf(h[1].tab)[1] = "version"
      BY <1>5 DEF HasFields, FieldAt
    <3> QED
      BY <3>1, <3>2 DEF NoKey
  <2>3. HasFields(g, 1 + 1) /\ FieldAt(g, 1 + 1, k, c) /\ FieldsKept(h, g, 1)
    <3>1. 1 \in Nat /\ HasFields(h, 1)
      BY <1>5
    <3> QED
      BY <2>2, <3>1, StringField
  <2>4. 1 + 1 = 2 /\ 1 \in 1 .. 1
    OBVIOUS
  <2>5. FieldAt(g, 1, "version", b)
    BY <1>5, <2>3, <2>4 DEF FieldsKept
  <2>6. FieldAt(g, 1, "version", c)
    <3>1. PICK v : v = ValsOf(g[1].tab)[1]
      OBVIOUS
    <3>2. v \in 1 .. Len(g) /\ v < b /\ Len(g) \in Nat
      BY <1>1, <2>5, <3>1 DEF FieldAt, StrAt
    <3>3. v < c
      BY <1>2, <3>2
    <3> QED
      BY <2>5, <3>1, <3>3 DEF FieldAt
  <2> QED
    BY <2>1, <2>3, <2>4, <2>6 DEF RootAt
<1> QED
  BY <1>3, <1>4, <1>5

\* The result is added.
LEMMA RootResult ==
    ASSUME NEW h, HeapOk(h), NEW g, NEW U, NEW r, r # NULL, RootAt(h, Todo1, r, r),
           RootAdded(h, g, U, "results", r)
    PROVE  RootAt(g, Todo0, r, r)
<1>1. HasFields(h, 2) /\ FieldAt(h, 1, "version", r) /\ FieldAt(h, 2, "ret", r)
  <2>1. Todo1 # Todo0 /\ Todo1 # Todo2 /\ Todo1 # Todo3
    <3>1. Todo1 # Todo0
      BY Todos
    <3>2. "results" # "ret" /\ "results" # "version"
      OBVIOUS
    <3> QED
      BY <3>1, <3>2, Todos
  <2> QED
    BY <2>1 DEF RootAt
<1>2. PICK k : k = "results"
  OBVIOUS
<1>3. NoKey(KeysOf(h[1].tab), k)
  <2>1. "version" # k /\ "ret" # k
    BY <1>2
  <2>2. Len(KeysOf(h[1].tab)) = 2 /\ KeysOf(h[1].tab)[1] # k /\ KeysOf(h[1].tab)[2] # k
    BY <1>1, <2>1 DEF HasFields, FieldAt
  <2> QED
    BY <2>2 DEF NoKey
<1>4. Len(h) \in Nat
  BY DEF HeapOk
<1>5. FieldBehind(h, g, k, r)
  BY <1>2, <1>3, <1>4 DEF FieldBehind, RootAdded
<1>6. 2 \in Nat /\ HasFields(h, 2)
  BY <1>1
<1>7. /\ HasFields(g, 2 + 1) /\ KeysOf(g[1].tab)[2 + 1] = k /\ ValsOf(g[1].tab)[2 + 1] = r
      /\ FieldsKept(h, g, 2)
  BY <1>5, <1>6, FieldsGrow
<1>8. 2 + 1 = 3 /\ 1 \in 1 .. 2 /\ 2 \in 1 .. 2
  OBVIOUS
<1>9. Answered(g, r)
  BY <1>1, <1>2, <1>7, <1>8 DEF Answered, FieldsKept
<1> QED
  BY <1>9 DEF RootAt

-----------------------------------------------------------------------------
(* The invariant of a poll's answer *)

\* The result has what the messages so far have to add.
ShownAt(h, r, P, d) ==
    IF r = NULL THEN d = 0 ELSE ResultsAt(h, r, QueuesOf(Prefix(P, d)), AllData(P, d))

\* The object below which the strings of the response are.
Bound(h, r) == IF r = NULL THEN Len(h) + 1 ELSE r

Shown == pc = "build" => ShownAt(heap, results, pending, done)
RootShown == pc = "build" /\ pending # <<>> => RootAt(heap, todo, results, Bound(heap, results))
PollInv == Shown /\ RootShown /\ ResultExact

\* A response begins.
LEMMA RespondPoll ==
    ASSUME NEW ret, ret \in DOMAIN RetFields, Respond(ret)
    PROVE  PollInv'
<1>1. PICK e, g : e = <<>> /\ g = NewObject(e)
  OBVIOUS
<1>2. pc' = "build" /\ heap' = g /\ todo' = <<"version", "ret">> \o RetFields[ret] /\ done' = 0 /\ results' = NULL
  BY <1>1 DEF Respond
<1>3. pc' # "put"
  BY <1>2
<1>4. ResultExact'
  BY <1>3 DEF ResultExact
<1>5. Shown'
  BY <1>2 DEF Shown, ShownAt
<1>6. ASSUME pending' # <<>> PROVE todo' = Todo3
  <2>1. ret = "MSGS"
    BY <1>6 DEF Respond
  <2>2. RetFields[ret] = <<"results">>
    BY <2>1 DEF RetFields
  <2>3. <<"version", "ret">> \o <<"results">> = <<"version", "ret", "results">>
    BY ConcatThree
  <2> QED
    BY <1>2, <2>2, <2>3 DEF Todo3
<1>7. HasFields(g, 0)
  <2>1. HeapOk(e) /\ HeapOwn(e, e, {}) /\ Len(e) = 0
    BY <1>1, EmptyHeap
  <2>2. Created(e, g, NewObj("object", NULL)) /\ "object" \in Types /\ NULL \in Vals /\ "object" # "string"
    BY <1>1, <2>1, NewIs, FieldNames
  <2>3. 1 = Len(e) + 1
    BY <2>1
  <2>4. CreatedOwned(e, g, e, {}, "object", NULL, 1)
    BY <2>1, <2>2, <2>3, CreateOwned
  <2>5. g[1].type = "object" /\ KeysOf(g[1].tab) = e /\ Len(g) = 1
    BY <1>1, <2>4 DEF CreatedOwned
  <2>6. 1 \in 1 .. Len(g)
    BY <2>5
  <2> QED
    BY <2>1, <2>5, <2>6 DEF HasFields
<1>8. RootShown'
  BY <1>2, <1>6, <1>7 DEF RootShown, RootAt
<1> QED
  BY <1>4, <1>5, <1>8 DEF PollInv

\* A field is added.
LEMMA AddFieldPoll ==
    ASSUME RespInv, PollInv, AddField
    PROVE  PollInv'
<1>1. PICK h, k, x, g, s : /\ h = heap /\ k = Head(todo) /\ g = heap' /\ s = todo
                           /\ x = IF k \in {"rev", "msgs_in_queue"} THEN NewInt(h, k) ELSE NewString(h, <<k>>)
  OBVIOUS
<1>2. /\ pc = "build" /\ puts = <<>> /\ todo # <<>> /\ k # "results"
      /\ g = Add(x, 1, k, Len(h) + 1) /\ todo' = Tail(s)
  BY <1>1 DEF AddField, Building
<1>3. UNCHANGED <<pending, included, done, results, pc>>
  BY DEF AddField, request
<1>4. k \in Fields
  BY <1>1, <1>2, TodoIs
<1>5. results = NULL
  <2>1. SUFFICES ASSUME results # NULL PROVE FALSE
    OBVIOUS
  <2>2. todo = <<"results">>
    BY <1>2, <2>1, TodoIs
  <2>3. Head(todo) = "results"
    BY <2>2
  <2> QED
    BY <1>1, <1>2, <2>3
<1>6. ResultExact'
  <2>1. pc' # "put"
    BY <1>2, <1>3
  <2> QED
    BY <2>1 DEF ResultExact
<1>7. Shown'
  BY <1>2, <1>3, <1>5 DEF PollInv, Shown, ShownAt
<1>8. ASSUME pending # <<>> PROVE RootAt(g, Tail(s), NULL, Len(g) + 1)
  <2>1. RootAt(h, s, NULL, Len(h) + 1)
    BY <1>1, <1>2, <1>5, <1>8 DEF PollInv, RootShown, Bound
  <2>2. k \notin {"rev", "msgs_in_queue", "NUL"}
    <3>1. k = "version" \/ k = "ret"
      <4>1. s # Todo1 /\ s # Todo0
        BY <1>1, <1>2, Todos
      <4>2. s = Todo3 \/ s = Todo2
        BY <2>1, <4>1 DEF RootAt
      <4> QED
        BY <1>1, <4>2, Todos
    <3> QED
      BY <3>1
  <2>3. 1 \in LiveOf(h) /\ h[1].type = "object" /\ HeapOk(h)
    BY <1>1, <1>2, RootIs DEF RespInv, Typed
  <2>4. Roots = {1}
    BY <1>2, <1>5 DEF Roots
  <2>5. HeapOwn(h, <<>>, {1})
    BY <1>1, <1>2, <2>4 DEF RespInv, Held
  <2>6. PICK v : FieldOf(h, k, x, "string", v)
    BY <1>1, <1>4, <2>2, <2>3, FieldNew
  <2>7. /\ "string" \in Types /\ v \in Vals /\ ("string" = "string" => v \in Seq(Chars))
        /\ Created(h, x, NewObj("string", v)) /\ v = <<k>>
    BY <2>2, <2>6 DEF FieldOf
  <2>8. FieldAdded(h, g, {1}, k, "string", v)
    BY <1>2, <1>4, <2>3, <2>5, <2>7, FieldStep
  <2>9. s # <<>> /\ k = Head(s)
    BY <1>1, <1>2
  <2>10. FieldAdded(h, g, {1}, k, "string", <<k>>)
    BY <2>7, <2>8
  <2> QED
    BY <1>2, <2>1, <2>3, <2>9, <2>10, RootField
<1>9. RootShown'
  BY <1>1, <1>2, <1>3, <1>5, <1>8 DEF RootShown, Bound
<1> QED
  BY <1>6, <1>7, <1>9 DEF PollInv

\* While it is built, nothing has been printed.
LEMMA NotSent ==
    ASSUME pc' = "build"
    PROVE  ResultExact'
<1>1. pc' # "put"
  OBVIOUS
<1> QED
  BY <1>1 DEF ResultExact

\* The result begins.
LEMMA NewResultsPoll ==
    ASSUME RespInv, PollInv, NewResults
    PROVE  PollInv'
<1>1. PICK h, g, r, s : h = heap /\ g = heap' /\ r = Len(h) + 1 /\ s = todo
  OBVIOUS
<1>2. /\ pc = "build" /\ todo # <<>> /\ results = NULL
      /\ g = NewObject(h) /\ results' = r
  BY <1>1 DEF NewResults, Building
<1>3. UNCHANGED <<todo, pending, included, done, pc>>
  BY DEF NewResults, request
<1>4. done = 0
  BY <1>2 DEF PollInv, Shown, ShownAt
<1>5. HeapOk(h) /\ Len(h) \in Nat /\ Len(h) >= 1 /\ h[1].type = "object"
  BY <1>1, <1>2, RootIs DEF RespInv, Typed
<1>6. /\ HeapOk(g) /\ Len(g) = r /\ (\A o \in 1 .. Len(h) : g[o] = h[o])
      /\ g[r].type = "object" /\ KeysOf(g[r].tab) = <<>>
  <2>1. Created(h, g, NewObj("object", NULL))
    BY <1>2, <1>5, NewIs
  <2>2. "object" \in Types /\ NULL \in Vals /\ "object" # "string"
    BY FieldNames
  <2>3. KeysOf(NewObj("object", NULL).tab) = <<>>
    BY <2>2, NewObjIs
  <2>4. NewObj("object", NULL).type = "object"
    BY DEF NewObj
  <2> QED
    BY <1>1, <2>1, <2>3, <2>4 DEF Created
<1>7. r \in Nat /\ r > 1 /\ r \in 1 .. Len(g) /\ r # NULL
  BY <1>1, <1>5, <1>6, ConstantsAssumption
<1>8. ResultsAt(g, r, <<>>, <<>>)
  BY <1>6, <1>7, ResultsEmpty
<1>9. Polled(pending, 0)
  <2>1. Len(pending) \in Nat
    BY DEF RespInv, Typed
  <2> QED
    BY <2>1 DEF RespInv, Typed, Polled
<1>10. PICK K, M, e : K = QueuesOf(Prefix(pending, 0)) /\ M = AllData(pending, 0) /\ e = <<>>
  OBVIOUS
<1>11. K = e /\ Len(e) = 0
  BY <1>9, <1>10, NothingPolled
<1>12. M = e
  <2>1. M \in Msgs /\ Len(M) = Len(K)
    BY <1>9, <1>10, AllDataIs
  <2>2. PICK E : M \in Seq(E)
    BY <2>1 DEF Msgs
  <2>3. Len(M) = 0
    BY <1>11, <2>1
  <2> QED
    BY <1>10, <2>2, <2>3
<1>13. ResultsAt(g, r, K, M)
  BY <1>8, <1>10, <1>11, <1>12
<1>14. Shown'
  <2>1. ResultsAt(heap, results, K, M)'
    BY <1>1, <1>2, <1>3, <1>13, PrimedResults
  <2>2. QueuesOf(Prefix(pending, done))' = K /\ AllData(pending, done)' = M
    BY <1>3, <1>4, <1>10
  <2> QED
    BY <1>2, <1>7, <2>1, <2>2 DEF Shown, ShownAt
<1>15. ASSUME pending # <<>> PROVE RootAt(g, s, r, r)
  <2>1. RootAt(h, s, NULL, r)
    BY <1>1, <1>2, <1>15 DEF PollInv, RootShown, Bound
  <2>2. s # Todo0
    BY <1>1, <1>2, Todos
  <2>3. r <= r
    BY <1>7
  <2>4. RootAt(h, s, r, r)
    BY <1>5, <1>7, <2>1, <2>2, <2>3, RootHigher
  <2>5. SameBelow(h, g, r)
    <3>1. Len(g) \in Nat /\ Len(h) <= Len(g)
      BY <1>1, <1>5, <1>6
    <3>2. \A p \in 1 .. Len(h) : Same(h, g, p)
      BY <1>6 DEF Same
    <3> QED
      BY <1>5, <1>7, <3>1, <3>2 DEF SameBelow
  <2> QED
    BY <2>4, <2>5, RootSame
<1>16. RootShown'
  BY <1>1, <1>2, <1>3, <1>7, <1>15 DEF RootShown, Bound
<1> QED
  BY <1>2, <1>3, <1>14, <1>16, NotSent DEF PollInv

\* A message is added to the result.
LEMMA AddPendingPoll ==
    ASSUME RespInv, PollInv, AddPending
    PROVE  PollInv'
<1>1. PICK h, g, r, s, P, d : h = heap /\ g = heap' /\ r = results /\ s = todo /\ P = pending /\ d = done
  OBVIOUS
<1>2. pc = "build" /\ puts = <<>> /\ results # NULL /\ done < Len(pending) /\ done' = done + 1
  BY DEF AddPending, Building
<1>3. UNCHANGED <<todo, pending, included, results, puts, pc>>
  BY DEF AddPending, request
<1>4. done \in 0 .. Len(pending) /\ pending \in Seq(QIds) /\ Len(pending) <= MaxPending /\ HeapOk(heap)
  BY DEF RespInv, Typed
<1>5. Len(pending) \in Nat
  BY <1>4
<1>6. done # Len(pending) /\ d \in Nat /\ d + 1 \in 0 .. Len(P) /\ d \in 0 .. Len(P)
  BY <1>1, <1>2, <1>4, <1>5
<1>7. todo = <<"results">> /\ todo # <<>>
  <2>1. todo = <<"results">>
    BY <1>2, <1>6 DEF RespInv, Ordered
  <2> QED
    BY <2>1
<1>8. r \in Roots
  BY <1>1, <1>2, <1>7 DEF Roots
<1>9. HeapOwn(heap, puts, Roots)
  BY DEF RespInv, Held
<1>10. results \in LiveOf(heap)
  BY <1>1, <1>8, <1>9 DEF HeapOwn, Own, OwnTypes
<1>11. PICK K, M : /\ K = QueuesOf(Prefix(P, d)) /\ M = AllData(P, d)
                   /\ ResultsAt(heap, results, K, M)
  BY <1>1, <1>2 DEF PollInv, Shown, ShownAt
<1>12. PICK L, N : /\ ResultGrown(heap, heap', puts, Roots, results, L, N)
                   /\ Extended(K, M, pending[done + 1], CString(MsgData[done + 1]), L, N)
  BY <1>4, <1>9, <1>10, <1>11, PendingStep
<1>13. Polled(P, d) /\ Polled(P, d + 1)
  BY <1>1, <1>4, <1>6 DEF Polled
<1>14. Extended(QueuesOf(Prefix(P, d)), AllData(P, d), P[d + 1], CString(MsgData[d + 1]), L, N)
  BY <1>1, <1>11, <1>12
<1>15. L = QueuesOf(Prefix(P, d + 1)) /\ N = AllData(P, d + 1)
  BY <1>6, <1>13, <1>14, ExtendedIs
<1>16. /\ HeapOk(g) /\ Len(h) < Len(g) /\ ResultsAt(g, r, L, N)
       /\ \A p \in 1 .. Len(h) : p < r => g[p] = h[p]
  BY <1>1, <1>12 DEF ResultGrown
<1>17. Shown'
  <2>1. ResultsAt(heap, results, L, N)'
    BY <1>1, <1>3, <1>16, PrimedResults
  <2>2. QueuesOf(Prefix(pending, done))' = L /\ AllData(pending, done)' = N
    BY <1>1, <1>2, <1>3, <1>15
  <2> QED
    BY <1>2, <1>3, <2>1, <2>2 DEF Shown, ShownAt
<1>18. ASSUME pending # <<>> PROVE RootAt(g, s, r, r)
  <2>1. RootAt(h, s, r, r)
    BY <1>1, <1>2, <1>18 DEF PollInv, RootShown, Bound
  <2>2. Len(h) \in Nat /\ Len(g) \in Nat /\ r \in 2 .. Len(h)
    BY <1>1, <1>2, <1>4, <1>16 DEF HeapOk, RespInv, Typed
  <2>3. Len(h) <= Len(g) /\ r \in Nat /\ r > 1
    BY <1>16, <2>2
  <2>4. \A p \in 1 .. Len(h) : p < r => Same(h, g, p)
    BY <1>16 DEF Same
  <2>5. SameBelow(h, g, r)
    BY <2>2, <2>3, <2>4 DEF SameBelow
  <2> QED
    BY <2>1, <2>5, RootSame
<1>19. RootShown'
  BY <1>1, <1>2, <1>3, <1>18 DEF RootShown, Bound
<1> QED
  BY <1>2, <1>3, <1>17, <1>19, NotSent DEF PollInv

\* The result is added to the response.
LEMMA AddResultsPoll ==
    ASSUME RespInv, PollInv, AddResults
    PROVE  PollInv'
<1>1. PICK h, g, r : h = heap /\ g = heap' /\ r = results
  OBVIOUS
<1>2. /\ pc = "build" /\ puts = <<>> /\ todo # <<>> /\ r # NULL /\ done = Len(pending)
      /\ g = Add(h, 1, "results", r) /\ todo' = Tail(todo)
  BY <1>1 DEF AddResults, Building
<1>3. UNCHANGED <<pending, included, done, results, pc>>
  BY DEF AddResults, request
<1>4. todo = <<"results">>
  BY <1>1, <1>2, TodoIs
<1>5. todo = Todo1 /\ todo' = Todo0
  <2>1. todo = Todo1
    BY <1>4 DEF Todo1
  <2> QED
    BY <1>2, <2>1, Todos
<1>6. PICK U : U = {1} \union {r}
  OBVIOUS
<1>7. Roots = U
  BY <1>1, <1>2, <1>6 DEF Roots
<1>8. /\ HeapOwn(h, <<>>, U) /\ HeapOk(h) /\ 1 \in LiveOf(h) /\ h[1].type = "object"
      /\ r \in 2 .. Len(h) /\ Len(h) \in Nat
  BY <1>1, <1>2, <1>7, RootIs DEF RespInv, Held, Typed
<1>9. RootAdded(h, g, U, "results", r)
  <2>1. r \in U /\ r > 1 /\ "results" \in Fields
    BY <1>6, <1>8, ConstantsAssumption
  <2> QED
    BY <1>2, <1>8, <2>1, RootAdd
<1>10. Len(g) = Len(h) /\ \A p \in 1 .. Len(h) : p # 1 => g[p] = h[p]
  BY <1>9 DEF RootAdded
<1>11. SameBut(h, g, 1)
  BY <1>8, <1>10 DEF SameBut, Same
<1>12. PICK K, M : /\ K = QueuesOf(Prefix(pending, done)) /\ M = AllData(pending, done)
                   /\ ResultsAt(h, r, K, M)
  BY <1>1, <1>2 DEF PollInv, Shown, ShownAt
<1>13. ResultsAt(g, r, K, M)
  <2>1. 1 \in Nat /\ r > 1
    BY <1>8
  <2> QED
    BY <1>8, <1>11, <1>12, <2>1, ResultsSame
<1>14. Shown'
  <2>1. ResultsAt(heap, results, K, M)'
    BY <1>1, <1>3, <1>13, PrimedResults
  <2>2. QueuesOf(Prefix(pending, done))' = K /\ AllData(pending, done)' = M
    BY <1>3, <1>12
  <2> QED
    BY <1>1, <1>2, <1>3, <2>1, <2>2 DEF Shown, ShownAt
<1>15. ASSUME pending # <<>> PROVE RootAt(g, Todo0, r, r)
  <2>1. RootAt(h, Todo1, r, r)
    BY <1>1, <1>2, <1>5, <1>15 DEF PollInv, RootShown, Bound
  <2> QED
    BY <1>2, <1>8, <1>9, <2>1, RootResult
<1>16. RootShown'
  BY <1>1, <1>2, <1>3, <1>5, <1>15 DEF RootShown, Bound
<1> QED
  BY <1>2, <1>3, <1>14, <1>16, NotSent DEF PollInv

\* The response is written.
LEMMA SendPoll ==
    ASSUME RespInv, PollInv, Send
    PROVE  PollInv'
<1>1. PICK h, r : h = heap /\ r = results
  OBVIOUS
<1>2. /\ pc = "build" /\ todo = <<>> /\ pc' = "put"
      /\ printed' = Printed(ToJson(heap))
  BY DEF Send, Building
<1>3. UNCHANGED <<pending, included>>
  BY DEF Send, request
<1>4. pc' # "build"
  BY <1>2
<1>5. Shown' /\ RootShown'
  BY <1>4 DEF Shown, RootShown
<1>6. printed'.buf = Reference(ToJson(heap))
  BY <1>2, SendText
<1>7. HeapOk(h) /\ HeapOwn(h, puts, Roots) /\ pending \in Seq(QIds) /\ Len(pending) <= MaxPending
  BY <1>1 DEF RespInv, Typed, Held
<1>8. ASSUME pending # <<>> PROVE ToJson(heap) = AnswerText
  <2>1. r # NULL /\ Answered(h, r)
    <3>1. RootAt(h, Todo0, r, Bound(h, r))
      BY <1>1, <1>2, <1>8 DEF PollInv, RootShown, Todo0
    <3>2. Todo0 # Todo1 /\ Todo0 # Todo2 /\ Todo0 # Todo3
      BY Todos
    <3> QED
      BY <3>1, <3>2 DEF RootAt
  <2>2. done = Len(pending)
    <3>1. todo # <<"results">>
      BY <1>2
    <3> QED
      BY <1>1, <1>2, <2>1, <3>1 DEF RespInv, Ordered
  <2>3. Complete(h, r)
    <3>1. ResultsAt(h, r, QueuesOf(Prefix(pending, done)), AllData(pending, done))
      BY <1>1, <1>2, <2>1 DEF PollInv, Shown, ShownAt
    <3>2. Prefix(pending, Len(pending)) = pending
      BY <1>7, PrefixAll
    <3> QED
      BY <2>2, <3>1, <3>2 DEF Complete
  <2>4. Nested(h)
    BY <1>7, NestedIs
  <2>5. PICK f : Json(h, f) /\ ToJson(h) = f[1]
    BY <1>7, <2>4, ToJsonIs
  <2>6. f[1] = AnswerText
    BY <1>7, <2>1, <2>3, <2>5, AnswerShown
  <2> QED
    BY <1>1, <2>5, <2>6
<1>9. AnswerText' = AnswerText
  BY <1>3 DEF AnswerText, QueueText
<1>10. ResultExact'
  BY <1>3, <1>6, <1>8, <1>9 DEF ResultExact
<1> QED
  BY <1>5, <1>10 DEF PollInv

\* What has been written is not changed any more.
LEMMA StillExact ==
    ASSUME ResultExact, UNCHANGED <<pending, included, printed>>, pc' = pc
    PROVE  ResultExact'
<1>1. AnswerText' = AnswerText
  BY DEF AnswerText, QueueText
<1> QED
  BY <1>1 DEF ResultExact

\* An object is put.
LEMMA PutPoll ==
    ASSUME RespInv, PollInv, Put
    PROVE  PollInv'
<1>1. PICK h, g, o, P, r : h = heap /\ g = heap' /\ o = Head(puts) /\ P = puts /\ r = results
  OBVIOUS
<1>2. P # <<>> /\ g = [h EXCEPT ![o].ref = @ - 1]
  BY <1>1 DEF Put
<1>3. UNCHANGED <<todo, pending, included, done, results, pc, printed>>
  BY DEF Put, request
<1>4. HeapOk(h) /\ HeapOwn(h, P, Roots) /\ o = Head(P)
  BY <1>1 DEF RespInv, Typed, Held
<1>5. Len(g) = Len(h) /\ \A p \in 1 .. Len(h) : Same(h, g, p)
  <2>1. PutDone(h, g, P, Roots, o)
    BY <1>2, <1>4, HeapPut
  <2> QED
    BY <2>1 DEF PutDone, Same
<1>6. Len(h) \in Nat
  BY <1>4 DEF HeapOk
<1>7. ResultExact'
  BY <1>3, StillExact DEF PollInv
<1>8. Shown'
  <2>1. SUFFICES ASSUME pc = "build" PROVE ShownAt(heap, results, pending, done)'
    BY <1>3 DEF Shown
  <2>2. ShownAt(heap, results, pending, done)
    BY <2>1 DEF PollInv, Shown
  <2>3. CASE results = NULL
    BY <1>3, <2>2, <2>3 DEF ShownAt
  <2>4. CASE results # NULL
    <3>1. PICK K, M : /\ K = QueuesOf(Prefix(pending, done)) /\ M = AllData(pending, done)
                      /\ ResultsAt(h, r, K, M)
      BY <1>1, <2>2, <2>4 DEF ShownAt
    <3>2. r > 1 /\ h[1].type = "object" /\ 1 \in Nat
      BY <1>1, <2>1, <2>4, RootIs DEF RespInv, Typed
    <3>3. SameBut(h, g, 1)
      BY <1>5, <1>6 DEF SameBut
    <3>4. ResultsAt(g, r, K, M)
      BY <1>4, <3>1, <3>2, <3>3, ResultsSame
    <3>5. ResultsAt(heap, results, K, M)'
      BY <1>1, <1>3, <3>4, PrimedResults
    <3>6. QueuesOf(Prefix(pending, done))' = K /\ AllData(pending, done)' = M
      BY <1>3, <3>1
    <3> QED
      BY <1>3, <2>4, <3>5, <3>6 DEF ShownAt
  <2> QED
    BY <2>3, <2>4
<1>9. RootShown'
  <2>1. SUFFICES ASSUME pc = "build", pending # <<>>
                 PROVE  RootAt(g, todo, r, Bound(g, r))
    BY <1>1, <1>3 DEF RootShown
  <2>2. PICK b : b = Bound(h, r) /\ b = Bound(g, r) /\ RootAt(h, todo, r, b)
    BY <1>1, <1>5, <2>1 DEF PollInv, RootShown, Bound
  <2>3. Len(h) >= 1 /\ (r # NULL => r \in 2 .. Len(h))
    BY <1>1, <2>1, RootIs DEF RespInv, Typed
  <2>4. b \in Nat /\ b > 1
    BY <1>6, <2>2, <2>3 DEF Bound
  <2>5. SameBelow(h, g, b)
    BY <1>5, <1>6, <2>4 DEF SameBelow
  <2> QED
    BY <2>2, <2>5, RootSame
<1> QED
  BY <1>7, <1>8, <1>9 DEF PollInv

\* The response is freed.
LEMMA FinishPoll ==
    ASSUME Finish
    PROVE  PollInv'
<1>1. pc' # "build" /\ pc' # "put"
  BY DEF Finish
<1> QED
  BY <1>1 DEF PollInv, Shown, RootShown, ResultExact

\* Nothing happens.
LEMMA SamePoll ==
    ASSUME PollInv, UNCHANGED vars
    PROVE  PollInv'
<1>1. UNCHANGED <<heap, todo, pending, included, done, results, pc, printed>>
  BY DEF vars, request
<1>2. ResultExact'
  BY <1>1, StillExact DEF PollInv
<1>3. RootShown'
  BY <1>1 DEF PollInv, RootShown
<1>4. Shown'
  <2>1. SUFFICES ASSUME pc = "build" PROVE ShownAt(heap, results, pending, done)'
    BY <1>1 DEF Shown
  <2>2. ShownAt(heap, results, pending, done)
    BY <2>1 DEF PollInv, Shown
  <2>3. PICK K, M, g, r : /\ K = QueuesOf(Prefix(pending, done)) /\ M = AllData(pending, done)
                          /\ g = heap' /\ r = results'
    OBVIOUS
  <2>4. QueuesOf(Prefix(pending, done))' = K /\ AllData(pending, done)' = M
    BY <1>1, <2>3
  <2>5. CASE results = NULL
    BY <1>1, <2>2, <2>5 DEF ShownAt
  <2>6. CASE results # NULL
    <3>1. ResultsAt(g, r, K, M)
      BY <1>1, <2>2, <2>3, <2>6 DEF ShownAt
    <3>2. ResultsAt(heap, results, K, M)'
      BY <1>1, <2>3, <3>1, PrimedResults
    <3> QED
      BY <1>1, <2>4, <2>6, <3>2 DEF ShownAt
  <2> QED
    BY <2>5, <2>6
<1> QED
  BY <1>2, <1>3, <1>4 DEF PollInv

\* What is written as the answer to a poll is exactly what it has to say:
\* every queue with messages once, with all of their data in order, and its
\* consumers if they were asked for.
THEOREM ResultsStayExact == Spec => []ResultExact
<1>1. ASSUME Init PROVE RespInv /\ PollInv
  <2>1. pc # "build" /\ pc # "put"
    BY <1>1 DEF Init
  <2>2. PollInv
    BY <2>1 DEF PollInv, Shown, RootShown, ResultExact
  <2> QED
    BY <1>1, <2>2, RespInit
<1>2. ASSUME RespInv, PollInv, [Next]_vars PROVE RespInv' /\ PollInv'
  <2>1. RespInv'
    BY <1>2, RespNext
  <2>2. PollInv'
    BY <1>2, RespondPoll, AddFieldPoll, NewResultsPoll, AddPendingPoll, AddResultsPoll, SendPoll, PutPoll,
       FinishPoll, SamePoll DEF Next
  <2> QED
    BY <2>1, <2>2
<1>3. PollInv => ResultExact
  BY DEF PollInv
<1> QED
  BY <1>1, <1>2, <1>3, PTL DEF Spec

=============================================================================
