--------------------------- MODULE HashTableProofs ---------------------------
(***************************************************************************)
(* The pointer structure of hash.c, for every set of keys, every set of    *)
(* addresses, every number of buckets and every hash function: whatever is *)
(* inserted and removed, the lists of the buckets and the ordered list     *)
(* hold exactly the items of the table, and a lookup finds the item of its *)
(* key, if there is one.  The table implements the map in order of         *)
(* insertion of module OrderedMap.                                         *)
(***************************************************************************)
EXTENDS HashTable, Integers, WellFoundedInduction, SequenceTheorems, TLAPS

\* Every non-empty set of natural numbers has a least element.
LEMMA LeastNat ==
    ASSUME NEW S \in SUBSET Nat, S # {}
    PROVE  \E n \in S : \A m \in S : n <= m
<1>1. \A x, y \in Nat : x < y => <<x, y>> \in OpToRel(<, Nat)
  BY DEF OpToRel
<1>2. PICK R : /\ IsWellFoundedOn(R, Nat)
               /\ \A x, y \in Nat : x < y => <<x, y>> \in R
  BY <1>1, NatLessThanWellFounded
<1>3. IsWellFoundedOn(R, Nat) /\ S \subseteq Nat
  BY <1>2
<1>4. \E n \in S : \A y \in S : ~(<<y, n>> \in R)
  BY <1>3, WFMin, Zenon
<1>5. PICK n \in S : \A m \in S : ~(m < n)
  BY <1>2, <1>3, <1>4
<1> QED
  BY <1>3, <1>5

\* A set in which every element has one with a smaller measure is empty.
LEMMA Descent ==
    ASSUME NEW D, NEW mu \in [D -> Nat], NEW E \in SUBSET D,
           \A d \in E : \E e \in E : mu[e] < mu[d]
    PROVE  E = {}
<1> DEFINE M == {mu[d] : d \in E}
<1>1. \A d \in E : mu[d] \in Nat
  OBVIOUS
<1>2. M \in SUBSET Nat
  BY <1>1
<1>3. ASSUME M # {} PROVE FALSE
  <2>1. PICK n \in M : \A m \in M : n <= m
    BY <1>2, <1>3, LeastNat
  <2>2. PICK d \in E : mu[d] = n
    BY <2>1
  <2>3. PICK e \in E : mu[e] < mu[d]
    OBVIOUS
  <2>4. n <= mu[e] /\ mu[e] \in Nat /\ n \in Nat
    BY <2>1, <1>1, <1>2
  <2> QED
    BY <2>2, <2>3, <2>4
<1> QED
  BY <1>3

\* The pointers of l come closer to the end, by the measure mu.
Descends(l, D, mu) ==
    /\ DOMAIN l.next = D /\ mu \in [D -> Nat]
    /\ \A d \in D : l.next[d] # NULL => l.next[d] \in D /\ mu[l.next[d]] < mu[d]

\* The equation of LIST_FOREACH.
Visits(l, W) ==
    W = [d \in DOMAIN l.next |->
            IF l.next[d] = NULL THEN {} ELSE {l.next[d]} \union W[l.next[d]]]

\* A FOREACH along pointers that descend visits what any solution of its
\* equation says.
LEMMA ForeachIs ==
    ASSUME NEW l, NEW D, NEW mu, Descends(l, D, mu),
           NEW W, Visits(l, W), NEW c \in D
    PROVE  LIST_FOREACH(l, c) = W[c]
<1>1. PICK F : LIST_FOREACH(l, c) = F[c] /\ F = CHOOSE f : Visits(l, f)
  BY DEF LIST_FOREACH, Visits
<1>2. Visits(l, F)
  BY <1>1
<1> DEFINE Eq(f, d) == f[d] = IF l.next[d] = NULL THEN {} ELSE {l.next[d]} \union f[l.next[d]]
<1>3. \A d \in D : Eq(F, d) /\ Eq(W, d)
  BY <1>2 DEF Visits, Descends
<1> DEFINE Bad == {e \in D : F[e] # W[e]}
<1>4. ASSUME NEW d \in Bad PROVE \E e \in Bad : mu[e] < mu[d]
  <2>1. d \in D /\ F[d] # W[d] /\ Eq(F, d) /\ Eq(W, d)
    BY <1>3
  <2>2. l.next[d] # NULL /\ F[l.next[d]] # W[l.next[d]]
    BY <2>1
  <2> QED
    BY <2>1, <2>2 DEF Descends
<1>5. Bad = {}
  BY <1>4, Descent DEF Descends
<1> QED
  BY <1>1, <1>5

-----------------------------------------------------------------------------
(* Lists of cells *)

\* From the head h the pointers lead through the elements S in the order of
\* the positions p, all of them up to hi, and prev is the cell before.
Chain(next, prev, h, S, p, hi) ==
    /\ \A c \in {h} \union S : p[c] \in Int /\ p[c] <= hi
    /\ \A i \in S : p[h] < p[i]
    /\ \A i, j \in S : p[i] = p[j] => i = j
    /\ \A c \in {h} \union S : next[c] = NULL => \A j \in S : p[j] <= p[c]
    /\ \A c \in {h} \union S : next[c] # NULL =>
            /\ next[c] \in S /\ p[c] < p[next[c]]
            /\ \A j \in S : p[j] <= p[c] \/ p[next[c]] <= p[j]
    /\ \A i \in S : prev[i] \in {h} \union S /\ next[prev[i]] = i

\* A list does not change with what is not its own.
LEMMA ChainFrame ==
    ASSUME NEW next, NEW prev, NEW h, NEW S, NEW p, NEW hi \in Int,
           Chain(next, prev, h, S, p, hi),
           NEW next2, NEW prev2, NEW p2, NEW hi2 \in Int, hi <= hi2,
           \A c \in {h} \union S : next2[c] = next[c] /\ p2[c] = p[c],
           \A i \in S : prev2[i] = prev[i]
    PROVE  Chain(next2, prev2, h, S, p2, hi2)
<1>1. \A c \in {h} \union S : p2[c] \in Int /\ p2[c] <= hi2
  BY DEF Chain
<1>2. \A i \in S : prev2[i] \in {h} \union S /\ next2[prev2[i]] = i
  BY DEF Chain
<1>3. \A c \in {h} \union S : next[c] # NULL => next[c] \in S
  BY DEF Chain
<1> QED
  BY <1>1, <1>2, <1>3 DEF Chain

\* An element comes in behind the head.
LEMMA ChainPush ==
    ASSUME NEW next, NEW prev, NEW h, NEW S, NEW p, NEW hi \in Int,
           Chain(next, prev, h, S, p, hi),
           NEW e, e \notin S \union {h, NULL}, h \notin S, NULL \notin S,
           NEW next2, NEW prev2, NEW p2,
           next2[e] = next[h], next2[h] = e, prev2[e] = h,
           \A i \in S : next2[i] = next[i]
                        /\ prev2[i] = IF i = next[h] THEN e ELSE prev[i],
           p2[h] = p[h] - 1, p2[e] = p[h], \A i \in S : p2[i] = p[i]
    PROVE  Chain(next2, prev2, h, S \union {e}, p2, hi)
<1>1. p[h] \in Int /\ p[h] <= hi /\ \A i \in S : p[i] \in Int /\ p[i] <= hi /\ p[h] < p[i]
  BY DEF Chain
<1>2. \A c \in {h} \union (S \union {e}) : p2[c] \in Int /\ p2[c] <= hi
  BY <1>1
<1>3. \A i \in S \union {e} : p2[h] < p2[i]
  BY <1>1
<1>4. \A i, j \in S \union {e} : p2[i] = p2[j] => i = j
  <2>1. \A i, j \in S : p[i] = p[j] => i = j
    BY DEF Chain
  <2> QED
    BY <2>1, <1>1
<1>5. ASSUME NEW c \in {h} \union (S \union {e}), next2[c] = NULL
      PROVE  \A j \in S \union {e} : p2[j] <= p2[c]
  <2>1. c # h
    BY <1>5
  <2>2. CASE c = e
    <3>1. next[h] = NULL
      BY <2>2, <1>5
    <3>2. \A j \in S : p[j] <= p[h]
      BY <3>1 DEF Chain
    <3> QED
      BY <3>2, <2>2, <1>1
  <2>3. CASE c \in S
    <3>1. \A j \in S : p[j] <= p[c]
      BY <2>3, <1>5 DEF Chain
    <3> QED
      BY <3>1, <2>3, <1>1
  <2> QED
    BY <2>1, <2>2, <2>3
<1>6. ASSUME NEW c \in {h} \union (S \union {e}), next2[c] # NULL
      PROVE  /\ next2[c] \in S \union {e} /\ p2[c] < p2[next2[c]]
             /\ \A j \in S \union {e} : p2[j] <= p2[c] \/ p2[next2[c]] <= p2[j]
  <2>1. CASE c = h
    BY <2>1, <1>1
  <2>2. CASE c = e
    <3>1. /\ next[h] \in S /\ p[h] < p[next[h]]
          /\ \A j \in S : p[j] <= p[h] \/ p[next[h]] <= p[j]
      BY <2>2, <1>6 DEF Chain
    <3> QED
      BY <3>1, <2>2, <1>1
  <2>3. CASE c \in S
    <3>1. /\ next[c] \in S /\ p[c] < p[next[c]]
          /\ \A j \in S : p[j] <= p[c] \/ p[next[c]] <= p[j]
      BY <2>3, <1>6 DEF Chain
    <3> QED
      BY <3>1, <2>3, <1>1
  <2> QED
    BY <2>1, <2>2, <2>3
<1>7. ASSUME NEW i \in S \union {e}
      PROVE  prev2[i] \in {h} \union (S \union {e}) /\ next2[prev2[i]] = i
  <2>1. CASE i = e
    BY <2>1
  <2>2. CASE i \in S /\ i = next[h]
    BY <2>2
  <2>3. CASE i \in S /\ i # next[h]
    <3>1. prev[i] \in {h} \union S /\ next[prev[i]] = i
      BY <2>3 DEF Chain
    <3> QED
      BY <3>1, <2>3
  <2> QED
    BY <2>1, <2>2, <2>3
<1> QED
  BY <1>2, <1>3, <1>4, <1>5, <1>6, <1>7 DEF Chain

\* An element comes in behind the last cell.
LEMMA ChainAppend ==
    ASSUME NEW next, NEW prev, NEW h, NEW S, NEW p, NEW hi \in Int,
           Chain(next, prev, h, S, p, hi),
           NEW last \in {h} \union S, next[last] = NULL,
           NEW e, e \notin S \union {h, NULL}, NULL \notin S,
           NEW next2, NEW prev2, NEW p2,
           next2[e] = NULL, prev2[e] = last,
           \A c \in {h} \union S : next2[c] = IF c = last THEN e ELSE next[c],
           \A i \in S : prev2[i] = prev[i],
           p2[e] = hi + 1, \A c \in {h} \union S : p2[c] = p[c]
    PROVE  Chain(next2, prev2, h, S \union {e}, p2, hi + 1)
<1>1. /\ p[h] \in Int /\ p[h] <= hi
      /\ \A i \in S : p[i] \in Int /\ p[i] <= hi /\ p[h] < p[i]
      /\ \A i \in S : p[i] <= p[last]
  BY DEF Chain
<1>2. \A c \in {h} \union (S \union {e}) : p2[c] \in Int /\ p2[c] <= hi + 1
  BY <1>1
<1>3. \A i \in S \union {e} : p2[h] < p2[i]
  BY <1>1
<1>4. \A i, j \in S \union {e} : p2[i] = p2[j] => i = j
  <2>1. \A i, j \in S : p[i] = p[j] => i = j
    BY DEF Chain
  <2> QED
    BY <2>1, <1>1
<1>5. ASSUME NEW c \in {h} \union (S \union {e}), next2[c] = NULL
      PROVE  \A j \in S \union {e} : p2[j] <= p2[c]
  <2>1. CASE c = e
    BY <2>1, <1>1
  <2>2. CASE c # e
    \* Two cells without a next one are the same.
    <3>1. next[c] = NULL /\ c # last
      BY <2>2, <1>5
    <3>2. \A j \in S : p[j] <= p[c]
      BY <3>1, <2>2 DEF Chain
    <3>3. c \in S => p[c] = p[last] \/ last = h
      BY <3>2, <1>1, <2>2
    <3>4. \A i, j \in S : p[i] = p[j] => i = j
      BY DEF Chain
    <3> QED
      BY <3>1, <3>2, <3>3, <3>4, <1>1, <2>2
  <2> QED
    BY <2>1, <2>2
<1>6. ASSUME NEW c \in {h} \union (S \union {e}), next2[c] # NULL
      PROVE  /\ next2[c] \in S \union {e} /\ p2[c] < p2[next2[c]]
             /\ \A j \in S \union {e} : p2[j] <= p2[c] \/ p2[next2[c]] <= p2[j]
  <2>1. CASE c = last
    BY <2>1, <1>1
  <2>2. CASE c # last
    <3>0. c \in {h} \union S /\ next2[c] = next[c]
      BY <2>2, <1>6
    <3>1. /\ next[c] \in S /\ p[c] < p[next[c]]
          /\ \A j \in S : p[j] <= p[c] \/ p[next[c]] <= p[j]
      BY <3>0, <1>6 DEF Chain
    <3> QED
      BY <3>0, <3>1, <1>1
  <2> QED
    BY <2>1, <2>2
<1>7. ASSUME NEW i \in S \union {e}
      PROVE  prev2[i] \in {h} \union (S \union {e}) /\ next2[prev2[i]] = i
  <2>1. CASE i = e
    BY <2>1
  <2>2. CASE i \in S
    <3>1. prev[i] \in {h} \union S /\ next[prev[i]] = i
      BY <2>2 DEF Chain
    <3>2. prev[i] # last
      BY <3>1, <2>2
    <3> QED
      BY <3>1, <3>2, <2>2
  <2> QED
    BY <2>1, <2>2
<1> QED
  BY <1>2, <1>3, <1>4, <1>5, <1>6, <1>7 DEF Chain

\* Only the cell before e points to e.
LEMMA ChainBefore ==
    ASSUME NEW next, NEW prev, NEW h, NEW S, NEW p, NEW hi,
           Chain(next, prev, h, S, p, hi), NULL \notin S,
           NEW c \in {h} \union S, NEW d \in {h} \union S, NEW e \in S,
           next[c] = e, next[d] = e
    PROVE  c = d
<1>1. /\ p[c] \in Int /\ p[d] \in Int /\ p[e] \in Int /\ p[h] \in Int
      /\ p[c] < p[e] /\ p[d] < p[e]
      /\ c \in S => p[c] <= p[d] \/ p[e] <= p[c]
      /\ d \in S => p[d] <= p[c] \/ p[e] <= p[d]
      /\ c \in S => p[h] < p[c]
      /\ d \in S => p[h] < p[d]
  BY DEF Chain
<1>2. c \in S /\ d \in S => p[c] = p[d]
  BY <1>1
<1>3. c \in S /\ d \in S /\ p[c] = p[d] => c = d
  BY DEF Chain
<1> QED
  BY <1>1, <1>2, <1>3

\* An element goes: its neighbours point to each other.
LEMMA ChainCut ==
    ASSUME NEW next, NEW prev, NEW h, NEW S, NEW p, NEW hi,
           Chain(next, prev, h, S, p, hi),
           NEW e \in S, h \notin S, NULL \notin S,
           NEW next2, NEW prev2,
           \A c \in ({h} \union S) \ {e} :
                next2[c] = IF c = prev[e] THEN next[e] ELSE next[c],
           \A i \in S \ {e} : prev2[i] = IF i = next[e] THEN prev[e] ELSE prev[i]
    PROVE  Chain(next2, prev2, h, S \ {e}, p, hi)
<1>1. /\ \A c \in {h} \union S : p[c] \in Int /\ p[c] <= hi
      /\ \A i \in S : p[h] < p[i]
      /\ \A i, j \in S : p[i] = p[j] => i = j
  BY DEF Chain
<1>2. /\ prev[e] \in {h} \union S /\ next[prev[e]] = e
      /\ p[prev[e]] < p[e]
      /\ \A j \in S : p[j] <= p[prev[e]] \/ p[e] <= p[j]
  BY DEF Chain
<1>3. prev[e] # e /\ p[prev[e]] \in Int /\ p[e] \in Int
  BY <1>1, <1>2
<1>4. next[e] = NULL => \A j \in S : p[j] <= p[e]
  BY DEF Chain
<1>5. next[e] # NULL => /\ next[e] \in S /\ p[e] < p[next[e]]
                        /\ \A j \in S : p[j] <= p[e] \/ p[next[e]] <= p[j]
  BY DEF Chain
<1>6. next[e] # e
  BY <1>1, <1>3, <1>5
<1>7. ASSUME NEW c \in {h} \union (S \ {e}), next2[c] = NULL, NEW j \in S \ {e}
      PROVE  p[j] <= p[c]
  <2>1. CASE c = prev[e]
    <3>1. next[e] = NULL
      BY <2>1, <1>7
    <3>2. p[j] <= p[e] /\ p[j] # p[e]
      BY <3>1, <1>1, <1>4
    <3> QED
      BY <2>1, <3>2, <1>1, <1>2, <1>3
  <2>2. CASE c # prev[e]
    <3>1. next[c] = NULL
      BY <2>2, <1>7
    <3> QED
      BY <3>1 DEF Chain
  <2> QED
    BY <2>1, <2>2
<1>8. ASSUME NEW c \in {h} \union (S \ {e}), next2[c] # NULL
      PROVE  /\ next2[c] \in S \ {e} /\ p[c] < p[next2[c]]
             /\ \A j \in S \ {e} : p[j] <= p[c] \/ p[next2[c]] <= p[j]
  <2>1. CASE c = prev[e]
    <3>1. next2[c] = next[e] /\ next[e] # NULL
      BY <2>1, <1>8
    <3>2. /\ next[e] \in S \ {e} /\ p[e] < p[next[e]] /\ p[next[e]] \in Int
          /\ \A j \in S : p[j] <= p[e] \/ p[next[e]] <= p[j]
      BY <3>1, <1>1, <1>5, <1>6
    <3>3. p[c] < p[next[e]]
      BY <2>1, <3>2, <1>2, <1>3
    <3>4. ASSUME NEW j \in S \ {e} PROVE p[j] <= p[c] \/ p[next[e]] <= p[j]
      BY <2>1, <3>2, <1>1, <1>2, <1>3
    <3> QED
      BY <3>1, <3>2, <3>3, <3>4
  <2>2. CASE c # prev[e]
    <3>1. next2[c] = next[c] /\ next[c] # NULL
      BY <2>2, <1>8
    <3>2. /\ next[c] \in S /\ p[c] < p[next[c]]
          /\ \A j \in S : p[j] <= p[c] \/ p[next[c]] <= p[j]
      BY <3>1 DEF Chain
    <3>3. next[c] # e
      BY <2>2, <1>2, ChainBefore
    <3> QED
      BY <3>1, <3>2, <3>3
  <2> QED
    BY <2>1, <2>2
<1>9. ASSUME NEW i \in S \ {e}
      PROVE  prev2[i] \in {h} \union (S \ {e}) /\ next2[prev2[i]] = i
  <2>0. prev[i] \in {h} \union S /\ next[prev[i]] = i
    BY DEF Chain
  <2>1. CASE i = next[e]
    BY <2>1, <1>2, <1>3
  <2>2. CASE i # next[e]
    <3>1. prev[i] # e /\ prev[i] # prev[e]
      BY <2>0, <2>2, <1>2
    <3> QED
      BY <2>0, <2>2, <3>1
  <2> QED
    BY <2>1, <2>2
<1> QED
  BY <1>1, <1>7, <1>8, <1>9 DEF Chain

-----------------------------------------------------------------------------
(* All the lists of a table *)

\* Of the elements E, those in A are linked, each in the list of its home,
\* one of the heads H; the others point nowhere.
Linked(l, H, E, A, home, p, hi) ==
    /\ DOMAIN l.next = H \union E
    /\ H \cap E = {} /\ A \subseteq E /\ NULL \notin H \union E
    /\ home \in [H \union A -> H] /\ \A h \in H : home[h] = h
    /\ p \in [H \union E -> Int] /\ hi \in Int
    /\ \A h \in H : Chain(l.next, l.prev, h, {i \in A : home[i] = h}, p, hi)
    /\ \A i \in E \ A : l.next[i] = NULL

\* The step from cell d to the next one of its list: none of its elements
\* lies between.
NextCell(l, A, home, p, d) ==
    /\ l.next[d] = NULL => \A i \in A : home[i] = home[d] => p[i] <= p[d]
    /\ l.next[d] # NULL =>
        /\ l.next[d] \in A /\ home[l.next[d]] = home[d]
        /\ p[d] < p[l.next[d]]
        /\ \A i \in A : home[i] = home[d] =>
                p[i] <= p[d] \/ p[l.next[d]] < p[i] \/ i = l.next[d]

\* Every cell of a list leads to the next one.
LEMMA LinkedCell ==
    ASSUME NEW l, NEW H, NEW E, NEW A, NEW home, NEW p, NEW hi,
           Linked(l, H, E, A, home, p, hi), NEW d \in H \union A
    PROVE  p[d] \in Int /\ p[d] <= hi /\ NextCell(l, A, home, p, d)
<1>1. PICK h \in H : h = home[d]
  BY DEF Linked
<1>2. PICK S : S = {i \in A : home[i] = h}
  OBVIOUS
<1>3. Chain(l.next, l.prev, h, S, p, hi)
  BY <1>2 DEF Linked
<1>4. d \in {h} \union S
  BY <1>1, <1>2 DEF Linked
<1>5. p[d] \in Int /\ p[d] <= hi /\ \A i \in S : p[i] \in Int
  BY <1>3, <1>4 DEF Chain
<1>6. ASSUME l.next[d] = NULL, NEW i \in A, home[i] = home[d] PROVE p[i] <= p[d]
  BY <1>1, <1>2, <1>3, <1>4, <1>6 DEF Chain
<1>7. ASSUME l.next[d] # NULL
      PROVE  /\ l.next[d] \in A /\ home[l.next[d]] = home[d]
             /\ p[d] < p[l.next[d]]
             /\ \A i \in A : home[i] = home[d] =>
                    p[i] <= p[d] \/ p[l.next[d]] < p[i] \/ i = l.next[d]
  <2>1. PICK n : n = l.next[d]
    OBVIOUS
  <2>2. /\ n \in S /\ p[d] < p[n]
        /\ \A i \in S : p[i] <= p[d] \/ p[n] <= p[i]
        /\ \A i, j \in S : p[i] = p[j] => i = j
    BY <1>3, <1>4, <1>7, <2>1 DEF Chain
  <2>3. \A i \in S : p[i] <= p[d] \/ p[n] < p[i] \/ i = n
    BY <2>2, <1>5
  <2> QED
    BY <2>1, <2>2, <2>3, <1>1, <1>2
<1> QED
  BY <1>5, <1>6, <1>7 DEF NextCell

\* How far a cell is from the end of its list.
Distance(H, E, A, p, hi) ==
    [d \in H \union E |-> IF d \in H \union A THEN hi - p[d] ELSE 0]

\* Following the pointers comes closer to the end.
LEMMA LinkedDescends ==
    ASSUME NEW l, NEW H, NEW E, NEW A, NEW home, NEW p, NEW hi,
           Linked(l, H, E, A, home, p, hi), NEW mu, mu = Distance(H, E, A, p, hi)
    PROVE  Descends(l, H \union E, mu)
<1>1. hi \in Int /\ A \subseteq E
  BY DEF Linked
<1>2. \A d \in H \union A : p[d] \in Int /\ p[d] <= hi
  BY LinkedCell
<1>3. \A d \in H \union A : hi - p[d] \in Nat
  BY <1>1, <1>2
<1>4. mu \in [H \union E -> Nat]
  BY <1>3 DEF Distance
<1>5. ASSUME NEW d \in H \union E, l.next[d] # NULL
      PROVE  l.next[d] \in H \union E /\ mu[l.next[d]] < mu[d]
  <2>1. d \in H \union A
    BY <1>5 DEF Linked
  <2>2. l.next[d] \in A /\ p[d] < p[l.next[d]]
    BY <1>5, <2>1, LinkedCell DEF NextCell
  <2>3. mu[d] = hi - p[d] /\ mu[l.next[d]] = hi - p[l.next[d]]
    BY <2>1, <2>2, <1>1 DEF Distance
  <2>4. p[d] \in Int /\ p[l.next[d]] \in Int
    BY <2>1, <2>2, <1>2
  <2> QED
    BY <2>2, <2>3, <2>4, <1>1
<1>6. DOMAIN l.next = H \union E
  BY DEF Linked
<1> QED
  BY <1>4, <1>5, <1>6 DEF Descends

\* A FOREACH over a list visits exactly the elements at home there.
LEMMA LinkedForeach ==
    ASSUME NEW l, NEW H, NEW E, NEW A, NEW home, NEW p, NEW hi,
           Linked(l, H, E, A, home, p, hi), NEW h \in H
    PROVE  LIST_FOREACH(l, h) = {i \in A : home[i] = h}
<1> DEFINE Behind(d) == {i \in A : home[i] = home[d] /\ p[d] < p[i]}
<1>1. PICK W : W = [d \in H \union E |-> IF d \in H \union A THEN Behind(d) ELSE {}]
  OBVIOUS
<1>2. A \subseteq E /\ DOMAIN l.next = H \union E
  BY DEF Linked
<1>3. ASSUME NEW d \in H \union E
      PROVE  W[d] = IF l.next[d] = NULL THEN {} ELSE {l.next[d]} \union W[l.next[d]]
  <2>1. CASE d \notin H \union A
    BY <2>1, <1>1 DEF Linked
  <2>2. CASE d \in H \union A
    <3>0. PICK n : n = l.next[d]
      OBVIOUS
    <3>1. \A i \in A : p[i] \in Int
      BY LinkedCell
    <3>2. p[d] \in Int /\ NextCell(l, A, home, p, d)
      BY <2>2, LinkedCell
    <3>a. W[d] = Behind(d)
      BY <2>2, <1>1
    <3>3. CASE n = NULL
      <4>1. \A i \in A : home[i] = home[d] => p[i] <= p[d]
        BY <3>0, <3>2, <3>3 DEF NextCell
      <4>2. Behind(d) = {}
        BY <4>1, <3>1, <3>2
      <4> QED
        BY <4>2, <3>0, <3>a, <3>3
    <3>4. CASE n # NULL
      <4>1. /\ n \in A /\ home[n] = home[d] /\ p[d] < p[n]
            /\ \A i \in A : home[i] = home[d] =>
                    p[i] <= p[d] \/ p[n] < p[i] \/ i = n
        BY <3>0, <3>2, <3>4 DEF NextCell
      <4>2. W[n] = Behind(n)
        BY <4>1, <1>1, <1>2
      <4>a. p[n] \in Int /\ p[d] \in Int
        BY <4>1, <3>1, <3>2
      <4>b. ASSUME NEW i \in A
            PROVE  i \in Behind(d) <=> i = n \/ i \in Behind(n)
        <5>1. p[i] \in Int
          BY <3>1
        <5> QED
          BY <4>1, <4>a, <5>1
      <4>3. Behind(d) = {n} \union Behind(n)
        BY <4>1, <4>b
      <4> QED
        BY <4>2, <4>3, <3>0, <3>a, <3>4
    <3> QED
      BY <3>3, <3>4
  <2> QED
    BY <2>1, <2>2
<1>4. Visits(l, W)
  BY <1>1, <1>2, <1>3 DEF Visits
<1>5. LIST_FOREACH(l, h) = W[h]
  <2>1. PICK mu : mu = Distance(H, E, A, p, hi)
    OBVIOUS
  <2>2. PICK D : D = H \union E
    OBVIOUS
  <2>3. Descends(l, D, mu) /\ h \in D
    BY <2>1, <2>2, LinkedDescends
  <2> QED
    BY <1>4, <2>3, ForeachIs
<1>6. \A i \in A : home[i] = h => p[h] < p[i]
  <2>1. PICK S : S = {i \in A : home[i] = h}
    OBVIOUS
  <2>2. Chain(l.next, l.prev, h, S, p, hi)
    BY <2>1 DEF Linked
  <2> QED
    BY <2>1, <2>2 DEF Chain
<1>7. home[h] = h
  BY DEF Linked
<1>8. W[h] = Behind(h)
  BY <1>1
<1>9. Behind(h) = {i \in A : home[i] = h}
  BY <1>6, <1>7
<1> QED
  BY <1>5, <1>8, <1>9

-----------------------------------------------------------------------------
(* The lists of the hash table *)

\* The bucket of a cell of the buckets' lists.
Home == [d \in Buckets \union Allocated |->
            IF d \in Buckets THEN d ELSE h_hash_func[key[d]]]

\* The buckets' lists hold the items of the table, each in its bucket.
BucketLists(p, hi) == Linked(items, Buckets, Items, Allocated, Home, p, hi)

\* The ordered list holds the items of the table, the last cell last.
OrderHome == [d \in {Order} \union Allocated |-> Order]
OrderList(p, hi) ==
    /\ Linked(ordered, {Order}, Items, Allocated, OrderHome, p, hi)
    /\ ordered.last \in {Order} \union Allocated
    /\ ordered.next[ordered.last] = NULL

\* h_insert refuses a key that the table has.
KeysUnique == \A i, j \in Allocated : key[i] = key[j] => i = j

\* h_free only takes items out of the ordered list.
HashInv ==
    /\ TypeOK
    /\ pc = "none" => Allocated = {}
    /\ pc = "live" => (\E p, hi : BucketLists(p, hi)) /\ KeysUnique
    /\ pc # "none" => \E p, hi : OrderList(p, hi)

\* The equation of Find.
Seeks(k, f) ==
    f = [c \in Buckets \union Items |->
            LET i == items.next[c] IN IF i = NULL \/ key[i] = k THEN i ELSE f[i]]

\* Find(k) is what any solution of its equation says.
LEMMA FindSolves ==
    ASSUME NEW k \in Keys, NEW D, D = Buckets \union Items,
           NEW mu, Descends(items, D, mu), NEW W, Seeks(k, W)
    PROVE  Find(k) = W[h_hash_func[k]]
<1>1. PICK F : Find(k) = F[h_hash_func[k]] /\ F = CHOOSE f : Seeks(k, f)
  BY DEF Find, Seeks
<1>2. Seeks(k, F)
  BY <1>1
<1> DEFINE Eq(f, d) == f[d] = IF items.next[d] = NULL \/ key[items.next[d]] = k
                              THEN items.next[d] ELSE f[items.next[d]]
<1>3. \A d \in D : Eq(F, d) /\ Eq(W, d)
  BY <1>2 DEF Seeks
<1> DEFINE Bad == {e \in D : F[e] # W[e]}
<1>4. ASSUME NEW d \in Bad PROVE \E e \in Bad : mu[e] < mu[d]
  <2>1. d \in D /\ F[d] # W[d] /\ Eq(F, d) /\ Eq(W, d)
    BY <1>3
  <2>2. items.next[d] # NULL /\ F[items.next[d]] # W[items.next[d]]
    BY <2>1
  <2> QED
    BY <2>1, <2>2 DEF Descends
<1>5. Bad = {}
  <2>1. PICK B : B = Bad
    OBVIOUS
  <2>2. /\ mu \in [D -> Nat] /\ B \in SUBSET D
        /\ \A d \in B : \E e \in B : mu[e] < mu[d]
    BY <1>4, <2>1 DEF Descends
  <2>3. B = {}
    BY <2>2, Descent
  <2> QED
    BY <2>1, <2>3
<1>6. h_hash_func[k] \in D
  BY ConstantsAssumption
<1> QED
  BY <1>1, <1>5, <1>6

\* A lookup finds the item of the key, if there is one, in spite of the
\* other items of its bucket.
Found(k, x) ==
    \/ x = NULL /\ \A i \in Allocated : key[i] # k
    \/ x \in Allocated /\ key[x] = k

\* Find is exact in a table whose lists are.
LEMMA FindIs ==
    ASSUME NEW k \in Keys, NEW p, NEW hi, BucketLists(p, hi), KeysUnique
    PROVE  Found(k, Find(k))
<1> DEFINE Later(d) == {i \in Allocated : Home[i] = Home[d] /\ p[d] < p[i] /\ key[i] = k}
           First(d) == IF Later(d) = {} THEN NULL ELSE CHOOSE i \in Later(d) : TRUE
<1>1. PICK D, mu : D = Buckets \union Items /\ mu = Distance(Buckets, Items, Allocated, p, hi)
  OBVIOUS
<1>2. Descends(items, D, mu)
  BY <1>1, LinkedDescends DEF BucketLists
<1>3. PICK W : W = [d \in D |-> IF d \in Buckets \union Allocated THEN First(d) ELSE NULL]
  OBVIOUS
<1>4. Allocated \subseteq Items /\ NULL \notin Items
  BY ConstantsAssumption DEF Allocated
<1>5. ASSUME NEW d \in D
      PROVE  W[d] = IF items.next[d] = NULL \/ key[items.next[d]] = k
                    THEN items.next[d] ELSE W[items.next[d]]
  <2>1. CASE d \notin Buckets \union Allocated
    BY <2>1, <1>1, <1>3, <1>5 DEF BucketLists, Linked
  <2>2. CASE d \in Buckets \union Allocated
    <3>0. PICK n : n = items.next[d]
      OBVIOUS
    <3>1. W[d] = First(d)
      BY <2>2, <1>3
    <3>2. /\ p[d] \in Int /\ NextCell(items, Allocated, Home, p, d)
          /\ \A i \in Allocated : p[i] \in Int
      BY <2>2, LinkedCell DEF BucketLists
    <3>3. CASE n = NULL
      <4>1. \A i \in Allocated : Home[i] = Home[d] => p[i] <= p[d]
        BY <3>0, <3>2, <3>3 DEF NextCell
      <4>2. Later(d) = {}
        BY <4>1, <3>2
      <4> QED
        BY <4>2, <3>0, <3>1, <3>3
    <3>4. CASE n # NULL
      <4>1. /\ n \in Allocated /\ Home[n] = Home[d] /\ p[d] < p[n]
            /\ \A i \in Allocated : Home[i] = Home[d] =>
                    p[i] <= p[d] \/ p[n] < p[i] \/ i = n
        BY <3>0, <3>2, <3>4 DEF NextCell
      <4>2. CASE key[n] = k
        <5>1. n \in Later(d)
          BY <4>1, <4>2
        <5>2. \A i \in Later(d) : i = n
          BY <4>1, <4>2 DEF KeysUnique
        <5>3. First(d) = n
          BY <5>1, <5>2
        <5> QED
          BY <5>3, <4>2, <3>0, <3>1
      <4>3. CASE key[n] # k
        <5>0. p[n] \in Int /\ p[d] \in Int
          BY <4>1, <3>2
        <5>1. ASSUME NEW i \in Allocated PROVE i \in Later(d) <=> i \in Later(n)
          <6>1. p[i] \in Int
            BY <3>2
          <6> QED
            BY <4>1, <4>3, <5>0, <6>1
        <5>2. Later(d) = Later(n)
          BY <5>1
        <5>3. W[n] = First(n)
          BY <4>1, <1>1, <1>3, <1>4
        <5> QED
          BY <5>2, <5>3, <4>3, <3>0, <3>1, <3>4
      <4> QED
        BY <4>2, <4>3
    <3> QED
      BY <3>3, <3>4
  <2> QED
    BY <2>1, <2>2
<1>6. Seeks(k, W)
  BY <1>1, <1>3, <1>5 DEF Seeks
<1>7. PICK b \in Buckets : b = h_hash_func[k] /\ Find(k) = W[b]
  BY <1>1, <1>2, <1>6, FindSolves, ConstantsAssumption
<1>8. W[b] = First(b)
  BY <1>1, <1>3
<1>9. ASSUME NEW i \in Allocated, key[i] = k PROVE i \in Later(b)
  <2>1. Home[i] = b /\ Home[b] = b
    BY <1>4, <1>7, <1>9, ConstantsAssumption DEF Home
  <2>2. PICK S : S = {j \in Allocated : Home[j] = b}
    OBVIOUS
  <2>3. Chain(items.next, items.prev, b, S, p, hi)
    BY <2>2 DEF BucketLists, Linked
  <2>4. p[b] < p[i]
    BY <2>1, <2>2, <2>3 DEF Chain
  <2> QED
    BY <2>1, <2>4, <1>9
<1>10. CASE Later(b) = {}
  BY <1>7, <1>8, <1>9, <1>10 DEF Found
<1>11. CASE Later(b) # {}
  <2>1. First(b) \in Later(b)
    BY <1>11
  <2> QED
    BY <2>1, <1>7, <1>8 DEF Found
<1> QED
  BY <1>10, <1>11

-----------------------------------------------------------------------------
(* What the macros do to the lists *)

\* Empty lists, whose heads are H.
LEMMA LinkedNone ==
    ASSUME NEW l, NEW H, NEW E, H \cap E = {}, NULL \notin H \union E,
           l.next = [c \in H \union E |-> NULL],
           NEW home \in [H -> H], \A h \in H : home[h] = h
    PROVE  \E p, hi : Linked(l, H, E, {}, home, p, hi)
<1>1. PICK p : p = [c \in H \union E |-> 0]
  OBVIOUS
<1>2. PICK none : none = {}
  OBVIOUS
<1>3. \A h \in H : Chain(l.next, l.prev, h, none, p, 0)
  BY <1>1, <1>2 DEF Chain
<1>4. \A h \in H : none = {i \in {} : home[i] = h}
  BY <1>2
<1>5. \A h \in H : Chain(l.next, l.prev, h, {i \in {} : home[i] = h}, p, 0)
  BY <1>3, <1>4
<1>6. /\ DOMAIN l.next = H \union E /\ {} \subseteq E /\ 0 \in Int
      /\ home \in [H \union {} -> H]
      /\ p \in [H \union E -> Int]
      /\ \A i \in E \ {} : l.next[i] = NULL
  BY <1>1
<1>7. Linked(l, H, E, {}, home, p, 0)
  BY <1>5, <1>6 DEF Linked
<1> QED
  BY <1>7

\* The heads keep their lists, e has the home h.
Joins(H, A, home, e, h, home2) ==
    /\ home2 \in [H \union (A \union {e}) -> H]
    /\ \A c \in H \union A : home2[c] = home[c]
    /\ home2[e] = h

\* The fields after LIST_INSERT_HEAD.
Pushed(l, H, E, h, e, l2) ==
    /\ DOMAIN l2.next = H \union E
    /\ \A c \in H \union E : l2.next[c] = IF c = h THEN e ELSE
                                          IF c = e THEN l.next[h] ELSE l.next[c]
    /\ \A i \in E : l2.prev[i] = IF i = e THEN h ELSE
                                 IF i = l.next[h] THEN e ELSE l.prev[i]

\* An element that was in no list becomes the first of the list of h.
LEMMA LinkedPush ==
    ASSUME NEW l, NEW H, NEW E, NEW A, NEW home, NEW p, NEW hi,
           Linked(l, H, E, A, home, p, hi),
           NEW h \in H, NEW e \in E \ A, NEW l2, Pushed(l, H, E, h, e, l2),
           NEW home2, Joins(H, A, home, e, h, home2)
    PROVE  \E p2 : Linked(l2, H, E, A \union {e}, home2, p2, hi)
<1>1. /\ H \cap E = {} /\ A \subseteq E /\ NULL \notin H \union E /\ hi \in Int
      /\ home \in [H \union A -> H] /\ p \in [H \union E -> Int]
      /\ \A g \in H : home[g] = g
      /\ \A i \in E \ A : l.next[i] = NULL
  BY DEF Linked
<1>2. PICK p2 : p2 = [c \in H \union E |-> IF c = h THEN p[h] - 1 ELSE
                                           IF c = e THEN p[h] ELSE p[c]]
  OBVIOUS
<1>3. p[h] \in Int /\ p2 \in [H \union E -> Int]
  BY <1>1, <1>2
<1>4. ASSUME NEW g \in H
      PROVE  Chain(l2.next, l2.prev, g, {i \in A \union {e} : home2[i] = g}, p2, hi)
  <2>1. PICK S : S = {i \in A : home[i] = g}
    OBVIOUS
  <2>2. Chain(l.next, l.prev, g, S, p, hi)
    BY <2>1 DEF Linked
  <2>3. S \subseteq E /\ g \notin S /\ NULL \notin S /\ e \notin S /\ g # e /\ e # NULL
    BY <2>1, <1>1
  <2>4. CASE g = h
    <3>1. {i \in A \union {e} : home2[i] = g} = S \union {e}
      BY <2>1, <2>4, <1>1 DEF Joins
    <3>2. /\ l2.next[e] = l.next[g] /\ l2.next[g] = e /\ l2.prev[e] = g
          /\ \A i \in S : /\ l2.next[i] = l.next[i]
                          /\ l2.prev[i] = IF i = l.next[g] THEN e ELSE l.prev[i]
      BY <2>3, <2>4 DEF Pushed
    <3>3. p2[g] = p[g] - 1 /\ p2[e] = p[g] /\ \A i \in S : p2[i] = p[i]
      BY <2>3, <2>4, <1>2
    <3>4. Chain(l2.next, l2.prev, g, S \union {e}, p2, hi)
      <4>1. PICK nx, pv, nx2, pv2 : /\ nx = l.next /\ pv = l.prev
                                    /\ nx2 = l2.next /\ pv2 = l2.prev
        OBVIOUS
      <4>2. /\ Chain(nx, pv, g, S, p, hi) /\ hi \in Int
            /\ e \notin S \union {g, NULL} /\ g \notin S /\ NULL \notin S
        BY <2>2, <2>3, <4>1, <1>1
      <4>3. /\ nx2[e] = nx[g] /\ nx2[g] = e /\ pv2[e] = g
            /\ \A i \in S : nx2[i] = nx[i]
                            /\ pv2[i] = IF i = nx[g] THEN e ELSE pv[i]
        BY <3>2, <4>1
      <4>4. Chain(nx2, pv2, g, S \union {e}, p2, hi)
        BY <3>3, <4>2, <4>3, ChainPush
      <4> QED
        BY <4>1, <4>4
    <3> QED
      BY <3>1, <3>4
  <2>5. CASE g # h
    <3>1. {i \in A \union {e} : home2[i] = g} = S
      BY <2>1, <2>5, <1>1 DEF Joins
    <3>2. l.next[h] = NULL \/ (l.next[h] \in A /\ home[l.next[h]] = h)
      BY <1>1, LinkedCell DEF NextCell
    <3>3. l.next[h] \notin S
      BY <3>2, <2>1, <2>3, <2>5
    <3>4. h \notin S
      BY <2>3, <1>1
    <3>5. \A c \in {g} \union S : l2.next[c] = l.next[c] /\ p2[c] = p[c]
      BY <2>3, <2>5, <3>4, <1>2 DEF Pushed
    <3>6. \A i \in S : l2.prev[i] = l.prev[i]
      BY <2>3, <3>3 DEF Pushed
    <3>7. Chain(l2.next, l2.prev, g, S, p2, hi)
      BY <2>2, <3>5, <3>6, <1>1, ChainFrame
    <3> QED
      BY <3>1, <3>7
  <2> QED
    BY <2>4, <2>5
<1>5. \A i \in E \ (A \union {e}) : l2.next[i] = NULL
  BY <1>1 DEF Pushed
<1>6. /\ DOMAIN l2.next = H \union E /\ A \union {e} \subseteq E
      /\ home2 \in [H \union (A \union {e}) -> H] /\ \A g \in H : home2[g] = g
  BY <1>1 DEF Pushed, Joins
<1>7. Linked(l2, H, E, A \union {e}, home2, p2, hi)
  BY <1>1, <1>3, <1>4, <1>5, <1>6 DEF Linked
<1> QED
  BY <1>7

\* The fields after LIST_REMOVE, e's own cleared.
Cut(l, H, E, e, l2) ==
    /\ DOMAIN l2.next = H \union E
    /\ \A c \in H \union E : l2.next[c] = IF c = e THEN NULL ELSE
                                          IF c = l.prev[e] THEN l.next[e] ELSE l.next[c]
    /\ \A i \in E \ {e} : l2.prev[i] = IF i = l.next[e] THEN l.prev[e] ELSE l.prev[i]

\* An element, wherever it is in its list, goes.
LEMMA LinkedCut ==
    ASSUME NEW l, NEW H, NEW E, NEW A, NEW home, NEW p, NEW hi,
           Linked(l, H, E, A, home, p, hi),
           NEW e \in A, NEW l2, Cut(l, H, E, e, l2),
           NEW home2 \in [H \union (A \ {e}) -> H],
           \A c \in H \union (A \ {e}) : home2[c] = home[c]
    PROVE  Linked(l2, H, E, A \ {e}, home2, p, hi)
<1>1. /\ H \cap E = {} /\ A \subseteq E /\ NULL \notin H \union E /\ hi \in Int
      /\ home \in [H \union A -> H] /\ p \in [H \union E -> Int]
      /\ \A g \in H : home[g] = g
      /\ \A i \in E \ A : l.next[i] = NULL
  BY DEF Linked
<1>2. PICK h \in H : h = home[e]
  BY <1>1
<1>3. PICK T : T = {i \in A : home[i] = h}
  OBVIOUS
<1>4. Chain(l.next, l.prev, h, T, p, hi) /\ e \in T
  BY <1>2, <1>3 DEF Linked
<1>5. l.prev[e] \in {h} \union T /\ (l.next[e] = NULL \/ l.next[e] \in T)
  BY <1>4 DEF Chain
<1>6. ASSUME NEW g \in H
      PROVE  Chain(l2.next, l2.prev, g, {i \in A \ {e} : home2[i] = g}, p, hi)
  <2>1. PICK S : S = {i \in A : home[i] = g}
    OBVIOUS
  <2>2. Chain(l.next, l.prev, g, S, p, hi)
    BY <2>1 DEF Linked
  <2>3. S \subseteq E /\ g \notin S /\ NULL \notin S /\ g # e /\ g \notin E
    BY <2>1, <1>1
  <2>4. CASE g = h
    <3>1. {i \in A \ {e} : home2[i] = g} = S \ {e}
      BY <2>1, <2>4
    <3>2. e \in S
      BY <2>1, <2>4, <1>3, <1>4
    <3>3. \A c \in ({g} \union S) \ {e} :
              l2.next[c] = IF c = l.prev[e] THEN l.next[e] ELSE l.next[c]
      BY <2>3 DEF Cut
    <3>4. \A i \in S \ {e} : l2.prev[i] = IF i = l.next[e] THEN l.prev[e] ELSE l.prev[i]
      BY <2>3 DEF Cut
    <3>5. Chain(l2.next, l2.prev, g, S \ {e}, p, hi)
      BY <2>2, <2>3, <3>2, <3>3, <3>4, ChainCut
    <3> QED
      BY <3>1, <3>5
  <2>5. CASE g # h
    <3>1. {i \in A \ {e} : home2[i] = g} = S
      BY <2>1, <2>5, <1>2
    <3>2. S \cap T = {} /\ g \notin T /\ h \notin S /\ T \subseteq E
      BY <2>1, <2>3, <2>5, <1>1, <1>3
    <3>3. \A c \in {g} \union S : c # e /\ c # l.prev[e] /\ c # l.next[e]
      BY <2>3, <2>5, <3>2, <1>1, <1>4, <1>5
    <3>4. \A c \in {g} \union S : l2.next[c] = l.next[c] /\ p[c] = p[c]
      BY <2>3, <3>3 DEF Cut
    <3>5. \A i \in S : l2.prev[i] = l.prev[i]
      BY <2>3, <3>3 DEF Cut
    <3>6. hi <= hi
      BY <1>1
    <3>7. Chain(l2.next, l2.prev, g, S, p, hi)
      BY <2>2, <3>4, <3>5, <3>6, <1>1, ChainFrame
    <3> QED
      BY <3>1, <3>7
  <2> QED
    BY <2>4, <2>5
<1>7. \A i \in E \ (A \ {e}) : l2.next[i] = NULL
  <2>1. ASSUME NEW i \in E \ (A \ {e}) PROVE l2.next[i] = NULL
    <3>1. i # e => i \notin A /\ i \notin {h} \union T
      BY <1>1, <1>3
    <3> QED
      BY <3>1, <1>1, <1>5 DEF Cut
  <2> QED
    BY <2>1
<1>8. /\ DOMAIN l2.next = H \union E /\ A \ {e} \subseteq E
      /\ \A g \in H : home2[g] = g
  BY <1>1 DEF Cut
<1> QED
  BY <1>1, <1>6, <1>7, <1>8 DEF Linked

\* The fields after TAILQ_INSERT_TAIL.
Appended(l, h, E, last, e, l2) ==
    /\ DOMAIN l2.next = {h} \union E
    /\ \A c \in {h} \union E : l2.next[c] = IF c = last THEN e ELSE
                                            IF c = e THEN NULL ELSE l.next[c]
    /\ \A i \in E : l2.prev[i] = IF i = e THEN last ELSE l.prev[i]

\* An element that was in no list becomes the last of the only list.
LEMMA LinkedAppend ==
    ASSUME NEW l, NEW h, NEW E, NEW A, NEW home, NEW p, NEW hi,
           Linked(l, {h}, E, A, home, p, hi),
           NEW last \in {h} \union A, l.next[last] = NULL,
           NEW e \in E \ A, NEW l2, Appended(l, h, E, last, e, l2),
           NEW home2, Joins({h}, A, home, e, h, home2)
    PROVE  \E p2, hi2 : Linked(l2, {h}, E, A \union {e}, home2, p2, hi2)
<1>1. /\ h \notin E /\ A \subseteq E /\ NULL \notin {h} \union E /\ hi \in Int
      /\ home \in [{h} \union A -> {h}] /\ p \in [{h} \union E -> Int]
      /\ \A i \in E \ A : l.next[i] = NULL
  BY DEF Linked
<1>2. PICK p2 : p2 = [c \in {h} \union E |-> IF c = e THEN hi + 1 ELSE p[c]]
  OBVIOUS
<1>3. p2 \in [{h} \union E -> Int] /\ hi + 1 \in Int
  BY <1>1, <1>2
<1>4. Chain(l.next, l.prev, h, A, p, hi)
  <2>1. A = {i \in A : home[i] = h}
    BY <1>1
  <2>2. Chain(l.next, l.prev, h, {i \in A : home[i] = h}, p, hi)
    BY DEF Linked
  <2> QED
    BY <2>1, <2>2
<1>5. Chain(l2.next, l2.prev, h, A \union {e}, p2, hi + 1)
  <2>1. last # e /\ e \notin A \union {h, NULL} /\ NULL \notin A
    BY <1>1
  <2>2. /\ l2.next[e] = NULL /\ l2.prev[e] = last
        /\ \A c \in {h} \union A : l2.next[c] = IF c = last THEN e ELSE l.next[c]
        /\ \A i \in A : l2.prev[i] = l.prev[i]
    BY <2>1, <1>1 DEF Appended
  <2>3. p2[e] = hi + 1 /\ \A c \in {h} \union A : p2[c] = p[c]
    BY <2>1, <1>1, <1>2
  <2> QED
    <3>1. PICK nx, pv, nx2, pv2 : /\ nx = l.next /\ pv = l.prev
                                  /\ nx2 = l2.next /\ pv2 = l2.prev
      OBVIOUS
    <3>2. Chain(nx, pv, h, A, p, hi) /\ hi \in Int /\ nx[last] = NULL
      BY <3>1, <1>1, <1>4
    <3>3. /\ nx2[e] = NULL /\ pv2[e] = last
          /\ \A c \in {h} \union A : nx2[c] = IF c = last THEN e ELSE nx[c]
          /\ \A i \in A : pv2[i] = pv[i]
      BY <2>2, <3>1
    <3>4. Chain(nx2, pv2, h, A \union {e}, p2, hi + 1)
      BY <2>1, <2>3, <3>2, <3>3, ChainAppend
    <3> QED
      BY <3>1, <3>4
<1>6. A \union {e} = {i \in A \union {e} : home2[i] = h}
  BY DEF Joins
<1>7. Chain(l2.next, l2.prev, h, {i \in A \union {e} : home2[i] = h}, p2, hi + 1)
  BY <1>5, <1>6
<1>8. \A i \in E \ (A \union {e}) : l2.next[i] = NULL
  BY <1>1 DEF Appended
<1>9. /\ DOMAIN l2.next = {h} \union E /\ A \union {e} \subseteq E
      /\ home2 \in [{h} \union (A \union {e}) -> {h}] /\ \A g \in {h} : home2[g] = g
  BY <1>1 DEF Appended, Joins
<1>10. Linked(l2, {h}, E, A \union {e}, home2, p2, hi + 1)
  BY <1>1, <1>3, <1>7, <1>8, <1>9 DEF Linked
<1> QED
  BY <1>10

-----------------------------------------------------------------------------
(* The fields after each macro *)

\* The types of a list and of a tail queue.
ListType(H, E) == [next : [H \union E -> E \union {NULL}],
                   prev : [E -> H \union E \union {NULL}]]
TailqType(h, E) == [next : [{h} \union E -> E \union {NULL}],
                    prev : [E -> {h} \union E \union {NULL}],
                    last : {h} \union E]

\* What LIST_INSERT_HEAD writes.
LEMMA PushFields ==
    ASSUME NEW H, NEW E, H \cap E = {}, NULL \notin H \union E,
           NEW l \in ListType(H, E), NEW h \in H, NEW e \in E
    PROVE  LIST_INSERT_HEAD(l, h, e) \in ListType(H, E)
           /\ Pushed(l, H, E, h, e, LIST_INSERT_HEAD(l, h, e))
<1>1. PICK l1 : l1 = [l EXCEPT !.next[e] = l.next[h], !.next[h] = e]
  OBVIOUS
<1>2. /\ l1 \in ListType(H, E) /\ l1.prev = l.prev
      /\ \A c \in H \union E : l1.next[c] = IF c = h THEN e ELSE
                                            IF c = e THEN l.next[h] ELSE l.next[c]
  BY <1>1 DEF ListType
<1>3. PICK l2 : l2 = SetPrev(l1, l.next[h], e)
  OBVIOUS
<1>4. /\ l2 \in ListType(H, E) /\ l2.next = l1.next
      /\ \A i \in E : l2.prev[i] = IF i = l.next[h] THEN e ELSE l.prev[i]
  BY <1>2, <1>3 DEF ListType, SetPrev
<1>5. PICK l3 : l3 = [l2 EXCEPT !.prev[e] = h]
  OBVIOUS
<1>6. /\ l3 \in ListType(H, E) /\ l3.next = l2.next
      /\ \A i \in E : l3.prev[i] = IF i = e THEN h ELSE l2.prev[i]
  BY <1>4, <1>5 DEF ListType
<1>7. LIST_INSERT_HEAD(l, h, e) = l3
  BY <1>1, <1>3, <1>5 DEF LIST_INSERT_HEAD
<1>8. DOMAIN l3.next = H \union E
  BY <1>6 DEF ListType
<1> QED
  BY <1>2, <1>4, <1>6, <1>7, <1>8 DEF Pushed

\* What LIST_REMOVE writes.
LEMMA RemoveFields ==
    ASSUME NEW H, NEW E, H \cap E = {}, NULL \notin H \union E,
           NEW l \in ListType(H, E), NEW e \in E
    PROVE  Trash(LIST_REMOVE(l, e), e) \in ListType(H, E)
           /\ Cut(l, H, E, e, Trash(LIST_REMOVE(l, e), e))
<1>1. PICK l1 : l1 = SetPrev(l, l.next[e], l.prev[e])
  OBVIOUS
<1>2. /\ l1 \in ListType(H, E) /\ l1.next = l.next
      /\ \A i \in E : l1.prev[i] = IF i = l.next[e] THEN l.prev[e] ELSE l.prev[i]
  BY <1>1 DEF ListType, SetPrev
<1>3. PICK l2 : l2 = [l1 EXCEPT !.next[l.prev[e]] = l.next[e]]
  OBVIOUS
<1>4. /\ l2 \in ListType(H, E) /\ l2.prev = l1.prev
      /\ \A c \in H \union E : l2.next[c] = IF c = l.prev[e] THEN l.next[e] ELSE l.next[c]
  BY <1>2, <1>3 DEF ListType
<1>5. PICK l3 : l3 = [l2 EXCEPT !.next[e] = NULL, !.prev[e] = NULL]
  OBVIOUS
<1>6. /\ l3 \in ListType(H, E)
      /\ \A c \in H \union E : l3.next[c] = IF c = e THEN NULL ELSE l2.next[c]
      /\ \A i \in E \ {e} : l3.prev[i] = l2.prev[i]
  BY <1>4, <1>5 DEF ListType
<1>7. Trash(LIST_REMOVE(l, e), e) = l3
  BY <1>1, <1>3, <1>5 DEF LIST_REMOVE, Trash
<1>8. DOMAIN l3.next = H \union E
  BY <1>6 DEF ListType
<1> QED
  BY <1>2, <1>4, <1>6, <1>7, <1>8 DEF Cut

\* What TAILQ_REMOVE writes, for an element that has a cell before it.
LEMMA TailqRemoveFields ==
    ASSUME NEW h, NEW E, h \notin E, NULL \notin {h} \union E,
           NEW l \in TailqType(h, E), NEW e \in E, l.prev[e] \in {h} \union E
    PROVE  /\ Trash(TAILQ_REMOVE(l, e), e) \in TailqType(h, E)
           /\ Cut(l, {h}, E, e, Trash(TAILQ_REMOVE(l, e), e))
           /\ Trash(TAILQ_REMOVE(l, e), e).last
                = IF l.next[e] = NULL THEN l.prev[e] ELSE l.last
<1>1. PICK l1 : l1 = SetPrev(l, l.next[e], l.prev[e])
  OBVIOUS
<1>2. /\ l1 \in TailqType(h, E) /\ l1.next = l.next /\ l1.last = l.last
      /\ \A i \in E : l1.prev[i] = IF i = l.next[e] THEN l.prev[e] ELSE l.prev[i]
  BY <1>1 DEF TailqType, SetPrev
<1>3. PICK l2 : l2 = [l1 EXCEPT !.next[l.prev[e]] = l.next[e]]
  OBVIOUS
<1>4. /\ l2 \in TailqType(h, E) /\ l2.prev = l1.prev /\ l2.last = l.last
      /\ \A c \in {h} \union E : l2.next[c] = IF c = l.prev[e] THEN l.next[e] ELSE l.next[c]
  BY <1>2, <1>3 DEF TailqType
<1>a. PICK l3 : l3 = [l2 EXCEPT !.last = IF l.next[e] = NULL THEN l.prev[e] ELSE @]
  OBVIOUS
<1>b. /\ l3 \in TailqType(h, E) /\ l3.prev = l2.prev /\ l3.next = l2.next
      /\ l3.last = IF l.next[e] = NULL THEN l.prev[e] ELSE l.last
  BY <1>4, <1>a DEF TailqType
<1>5. PICK l4 : l4 = [l3 EXCEPT !.next[e] = NULL, !.prev[e] = NULL]
  OBVIOUS
<1>6. /\ l4 \in TailqType(h, E) /\ l4.last = l3.last
      /\ \A c \in {h} \union E : l4.next[c] = IF c = e THEN NULL ELSE l3.next[c]
      /\ \A i \in E \ {e} : l4.prev[i] = l3.prev[i]
  BY <1>b, <1>5 DEF TailqType
<1>7. Trash(TAILQ_REMOVE(l, e), e) = l4
  BY <1>1, <1>3, <1>a, <1>5 DEF TAILQ_REMOVE, LIST_REMOVE, Trash
<1>8. DOMAIN l4.next = {h} \union E
  BY <1>6 DEF TailqType
<1> QED
  BY <1>2, <1>4, <1>b, <1>6, <1>7, <1>8 DEF Cut

\* What TAILQ_INSERT_TAIL writes.
LEMMA TailqInsertFields ==
    ASSUME NEW h, NEW E, h \notin E, NULL \notin {h} \union E,
           NEW l \in TailqType(h, E), NEW e \in E, l.last # e
    PROVE  /\ TAILQ_INSERT_TAIL(l, e) \in TailqType(h, E)
           /\ Appended(l, h, E, l.last, e, TAILQ_INSERT_TAIL(l, e))
           /\ TAILQ_INSERT_TAIL(l, e).last = e
<1>1. PICK l2 : l2 = TAILQ_INSERT_TAIL(l, e)
  OBVIOUS
<1>2. /\ l2 \in TailqType(h, E) /\ l2.last = e
      /\ \A c \in {h} \union E : l2.next[c] = IF c = l.last THEN e ELSE
                                              IF c = e THEN NULL ELSE l.next[c]
      /\ \A i \in E : l2.prev[i] = IF i = e THEN l.last ELSE l.prev[i]
  BY <1>1 DEF TailqType, TAILQ_INSERT_TAIL
<1>3. DOMAIN l2.next = {h} \union E
  BY <1>2 DEF TailqType
<1> QED
  BY <1>1, <1>2, <1>3 DEF Appended

-----------------------------------------------------------------------------
(* The invariant of the table *)

\* The facts on the constants that the lists need.
LEMMA CellsDisjoint ==
    /\ Buckets \cap Items = {} /\ NULL \notin Buckets \union Items
    /\ Order \notin Items /\ NULL \notin {Order} \union Items
    /\ h_hash_func \in [Keys -> Buckets]
BY ConstantsAssumption

\* The types, the lists' named.
LEMMA TypeParts ==
    TypeOK <=> /\ pc \in {"none", "live", "freeing"}
               /\ items \in ListType(Buckets, Items)
               /\ ordered \in TailqType(Order, Items)
               /\ key \in [Items -> Keys \union {NULL}]
               /\ order_next \in Items \union {NULL}
               /\ ret \in Items \union {NULL, "0", "-1"}
BY DEF TypeOK, ListType, TailqType

\* The same after a step.
LEMMA TypePartsNext ==
    ASSUME /\ pc' \in {"none", "live", "freeing"}
           /\ items' \in ListType(Buckets, Items)
           /\ ordered' \in TailqType(Order, Items)
           /\ key' \in [Items -> Keys \union {NULL}]
           /\ order_next' \in Items \union {NULL}
           /\ ret' \in Items \union {NULL, "0", "-1"}
    PROVE  TypeOK'
BY DEF TypeOK, ListType, TailqType

\* Empty lists have their types.
LEMMA NoneTyped ==
    /\ NoItems \in ListType(Buckets, Items) /\ NoItems.next = [c \in Buckets \union Items |-> NULL]
    /\ NoOrder \in TailqType(Order, Items) /\ NoOrder.next = [c \in {Order} \union Items |-> NULL]
    /\ NoOrder.last = Order
BY DEF NoItems, NoOrder, LIST_INIT, TAILQ_INIT, ListType, TailqType

\* The homes are functions on the cells in use.
LEMMA HomesTyped ==
    ASSUME TypeOK
    PROVE  /\ Home \in [Buckets \union Allocated -> Buckets]
           /\ \A b \in Buckets : Home[b] = b
           /\ \A i \in Allocated : Home[i] = h_hash_func[key[i]]
           /\ OrderHome \in [{Order} \union Allocated -> {Order}]
           /\ Allocated \subseteq Items
<1>1. key \in [Items -> Keys \union {NULL}]
  BY DEF TypeOK
<1>2. Allocated \subseteq Items /\ \A i \in Allocated : key[i] \in Keys
  BY <1>1 DEF Allocated
<1>3. \A i \in Allocated : i \notin Buckets
  BY <1>2, CellsDisjoint
<1>4. \A i \in Allocated : h_hash_func[key[i]] \in Buckets
  BY <1>2, CellsDisjoint
<1> QED
  BY <1>2, <1>3, <1>4 DEF Home, OrderHome

\* The same after a step.
LEMMA HomesTypedNext ==
    ASSUME TypeOK'
    PROVE  /\ Home' \in [Buckets \union Allocated' -> Buckets]
           /\ \A b \in Buckets : Home'[b] = b
           /\ \A i \in Allocated' : Home'[i] = h_hash_func[key'[i]]
           /\ OrderHome' \in [{Order} \union Allocated' -> {Order}]
<1>1. key' \in [Items -> Keys \union {NULL}]
  BY DEF TypeOK
<1>2. Allocated' \subseteq Items /\ \A i \in Allocated' : key'[i] \in Keys
  BY <1>1 DEF Allocated
<1>3. \A i \in Allocated' : i \notin Buckets
  BY <1>2, CellsDisjoint
<1>4. \A i \in Allocated' : h_hash_func[key'[i]] \in Buckets
  BY <1>2, CellsDisjoint
<1> QED
  BY <1>2, <1>3, <1>4 DEF Home, OrderHome

\* The table is built with empty lists.
LEMMA InitHash == Init => HashInv
<1> SUFFICES ASSUME Init PROVE HashInv
  OBVIOUS
<1>1. Allocated = {} /\ pc = "none"
  BY DEF Init, Allocated
<1>2. TypeOK
  BY NoneTyped, TypeParts DEF Init
<1> QED
  BY <1>1, <1>2 DEF HashInv

\* h_init starts an empty table.
LEMMA StartHash == HashInv /\ h_init => HashInv'
<1> SUFFICES ASSUME HashInv, h_init PROVE HashInv'
  OBVIOUS
<1>1. TypeOK /\ Allocated = {}
  BY DEF HashInv, h_init
<1>2. TypeOK'
  BY <1>1, NoneTyped, TypeParts, TypePartsNext DEF h_init
<1>3. Allocated' = {} /\ pc' = "live"
  BY <1>1 DEF h_init, Allocated
<1>4. PICK home, ohome : home = Home' /\ ohome = OrderHome'
  OBVIOUS
<1>5. /\ home \in [Buckets -> Buckets] /\ \A b \in Buckets : home[b] = b
      /\ ohome \in [{Order} -> {Order}] /\ \A b \in {Order} : ohome[b] = b
  BY <1>3, <1>4 DEF Home, OrderHome
<1>6. PICK l, o : l = items' /\ o = ordered'
  OBVIOUS
<1>7. /\ l.next = [c \in Buckets \union Items |-> NULL]
      /\ o.next = [c \in {Order} \union Items |-> NULL]
      /\ o.last = Order
  BY <1>6, NoneTyped DEF h_init
<1>8. \E p, hi : Linked(l, Buckets, Items, {}, home, p, hi)
  BY <1>5, <1>7, CellsDisjoint, LinkedNone
<1>9. {Order} \cap Items = {} /\ NULL \notin {Order} \union Items
  BY CellsDisjoint
<1>10. \E p, hi : Linked(o, {Order}, Items, {}, ohome, p, hi)
  BY <1>5, <1>7, <1>9, LinkedNone
<1>11. \E p, hi : BucketLists(p, hi)'
  BY <1>3, <1>4, <1>6, <1>8 DEF BucketLists
<1>12. o.last \in {Order} /\ o.next[o.last] = NULL
  BY <1>7
<1>13. \E p, hi : OrderList(p, hi)'
  BY <1>3, <1>4, <1>6, <1>10, <1>12 DEF OrderList
<1>14. KeysUnique'
  BY <1>3 DEF KeysUnique
<1> QED
  BY <1>2, <1>3, <1>11, <1>13, <1>14 DEF HashInv

\* What the ordered list of a table gives: its cells and their neighbours.
LEMMA OrderCells ==
    ASSUME NEW p, NEW hi, OrderList(p, hi)
    PROVE  /\ Chain(ordered.next, ordered.prev, Order, Allocated, p, hi)
           /\ Allocated \subseteq Items
<1>1. Linked(ordered, {Order}, Items, Allocated, OrderHome, p, hi)
  BY DEF OrderList
<1>2. Allocated = {i \in Allocated : OrderHome[i] = Order}
  BY DEF OrderHome
<1>3. Chain(ordered.next, ordered.prev, Order,
            {i \in Allocated : OrderHome[i] = Order}, p, hi)
  BY <1>1 DEF Linked
<1> QED
  BY <1>1, <1>2, <1>3 DEF Linked

\* Taking an item out of the ordered list, with its key.
LEMMA OrderCut ==
    ASSUME NEW p, NEW hi, TypeOK, OrderList(p, hi), NEW e \in Allocated,
           ordered' = Trash(TAILQ_REMOVE(ordered, e), e),
           key' = [key EXCEPT ![e] = NULL]
    PROVE  /\ Allocated' = Allocated \ {e}
           /\ ordered' \in TailqType(Order, Items)
           /\ OrderList(p, hi)'
<1>1. key \in [Items -> Keys \union {NULL}] /\ ordered \in TailqType(Order, Items)
  BY TypeParts
<1>2. Allocated \subseteq Items /\ e \in Items
  BY DEF Allocated
<1>3. Allocated' = Allocated \ {e}
  BY <1>1, <1>2 DEF Allocated
<1>4. /\ Chain(ordered.next, ordered.prev, Order, Allocated, p, hi)
      /\ ordered.last \in {Order} \union Allocated /\ ordered.next[ordered.last] = NULL
  BY OrderCells DEF OrderList
<1>5. /\ ordered.prev[e] \in {Order} \union Allocated
      /\ ordered.next[ordered.prev[e]] = e
      /\ p[ordered.prev[e]] < p[e] /\ p[e] \in Int
  BY <1>4, <1>2, CellsDisjoint DEF Chain
<1>6. PICK o : o = ordered'
  OBVIOUS
<1>7. /\ o \in TailqType(Order, Items)
      /\ Cut(ordered, {Order}, Items, e, o)
      /\ o.last = IF ordered.next[e] = NULL THEN ordered.prev[e] ELSE ordered.last
  <2>1. PICK d : d = ordered
    OBVIOUS
  <2>2. /\ Order \notin Items /\ NULL \notin {Order} \union Items
        /\ d \in TailqType(Order, Items) /\ e \in Items
        /\ d.prev[e] \in {Order} \union Items
    BY <2>1, <1>1, <1>2, <1>5, CellsDisjoint
  <2>3. o = Trash(TAILQ_REMOVE(d, e), e)
    BY <2>1, <1>6
  <2> QED
    BY <2>1, <2>2, <2>3, TailqRemoveFields
<1>8. PICK ohome : ohome = OrderHome'
  OBVIOUS
<1>9. /\ ohome \in [{Order} \union (Allocated \ {e}) -> {Order}]
      /\ \A c \in {Order} \union (Allocated \ {e}) : ohome[c] = OrderHome[c]
  BY <1>3, <1>8 DEF OrderHome
<1>10. Linked(o, {Order}, Items, Allocated \ {e}, ohome, p, hi)
  BY <1>7, <1>9, LinkedCut DEF OrderList
<1>11. Linked(ordered, {Order}, Items, Allocated, OrderHome, p, hi)'
  BY <1>3, <1>6, <1>8, <1>10
<1>12. ordered.prev[e] # e
  BY <1>5
<1>13. o.last \in {Order} \union (Allocated \ {e}) /\ o.next[o.last] = NULL
  <2>1. CASE ordered.next[e] = NULL
    <3>1. o.last = ordered.prev[e]
      BY <2>1, <1>7
    <3> QED
      BY <2>1, <3>1, <1>2, <1>5, <1>7, <1>12 DEF Cut
  <2>2. CASE ordered.next[e] # NULL
    <3>1. o.last = ordered.last /\ ordered.last # e
      BY <2>2, <1>4, <1>7
    <3>2. ordered.last # ordered.prev[e]
      BY <1>2, <1>4, <1>5, CellsDisjoint
    <3> QED
      BY <3>1, <3>2, <1>2, <1>4, <1>7 DEF Cut
  <2> QED
    BY <2>1, <2>2
<1>14. OrderList(p, hi)'
  BY <1>3, <1>6, <1>11, <1>13 DEF OrderList
<1> QED
  BY <1>3, <1>6, <1>7, <1>14

\* h_remove: an absent key changes nothing, a present one takes its item out
\* of both lists, wherever it is in them.
LEMMA RemoveHash ==
    ASSUME HashInv, NEW k \in Keys, h_remove(k)
    PROVE  HashInv'
<1>1. /\ TypeOK /\ KeysUnique /\ pc = "live" /\ pc' = "live"
      /\ UNCHANGED order_next
  BY DEF HashInv, h_remove, Ready
<1>2. PICK p, hi : BucketLists(p, hi)
  BY <1>1 DEF HashInv
<1>3. PICK op, ohi : OrderList(op, ohi)
  BY <1>1 DEF HashInv
<1>4. PICK e : e = Find(k)
  OBVIOUS
<1>5. Found(k, e)
  BY <1>1, <1>2, <1>4, FindIs
<1>6. NULL \notin Items /\ Allocated \subseteq Items
  BY CellsDisjoint DEF Allocated
<1>7. CASE e = NULL
  <2>1. ret' = "-1" /\ UNCHANGED <<items, ordered, key>>
    BY <1>4, <1>7 DEF h_remove
  <2>2. TypeOK'
    BY <2>1, <1>1, TypeParts, TypePartsNext
  <2>3. Allocated' = Allocated /\ Home' = Home /\ OrderHome' = OrderHome
    BY <2>1 DEF Allocated, Home, OrderHome
  <2>4. BucketLists(p, hi)' /\ OrderList(op, ohi)' /\ KeysUnique'
    BY <2>1, <2>3, <1>1, <1>2, <1>3 DEF BucketLists, OrderList, KeysUnique
  <2> QED
    BY <2>2, <2>4, <1>1 DEF HashInv
<1>8. CASE e # NULL
  <2>1. /\ e \in Allocated /\ e \in Items
        /\ items' = Trash(LIST_REMOVE(items, e), e)
        /\ ordered' = Trash(TAILQ_REMOVE(ordered, e), e)
        /\ key' = [key EXCEPT ![e] = NULL]
        /\ ret' = "0"
    BY <1>4, <1>5, <1>6, <1>8 DEF h_remove, Found
  <2>2. /\ Allocated' = Allocated \ {e}
        /\ ordered' \in TailqType(Order, Items)
        /\ OrderList(op, ohi)'
    BY <2>1, <1>1, <1>3, OrderCut
  <2>3. PICK l : l = items'
    OBVIOUS
  <2>4. items \in ListType(Buckets, Items) /\ key \in [Items -> Keys \union {NULL}]
    BY <1>1, TypeParts
  <2>5. l \in ListType(Buckets, Items) /\ Cut(items, Buckets, Items, e, l)
    BY <2>1, <2>3, <2>4, CellsDisjoint, RemoveFields
  <2>6. key' \in [Items -> Keys \union {NULL}]
    BY <2>1, <2>4
  <2>7. TypeOK'
    BY <2>1, <2>2, <2>3, <2>5, <2>6, <1>1, TypeParts, TypePartsNext
  <2>8. PICK home : home = Home'
    OBVIOUS
  <2>9. /\ home \in [Buckets \union (Allocated \ {e}) -> Buckets]
        /\ \A b \in Buckets : home[b] = b
        /\ \A i \in Allocated \ {e} : home[i] = h_hash_func[key'[i]]
    BY <2>2, <2>7, <2>8, HomesTypedNext
  <2>10. \A c \in Buckets \union (Allocated \ {e}) : home[c] = Home[c]
    <3>1. \A i \in Allocated \ {e} : key'[i] = key[i]
      BY <2>1, <2>4, <1>6
    <3> QED
      BY <2>9, <3>1, <1>1, HomesTyped
  <2>11. Linked(l, Buckets, Items, Allocated \ {e}, home, p, hi)
    BY <2>1, <2>5, <2>9, <2>10, <1>2, LinkedCut DEF BucketLists
  <2>12. BucketLists(p, hi)'
    BY <2>2, <2>3, <2>8, <2>11 DEF BucketLists
  <2>13. KeysUnique'
    BY <2>1, <2>2, <2>4, <1>1, <1>6 DEF KeysUnique
  <2> QED
    BY <2>2, <2>7, <2>12, <2>13, <1>1 DEF HashInv
<1> QED
  BY <1>7, <1>8

\* h_insert: a key the table has is refused, any other gets an item that is
\* the first of its bucket and the last of the order.
LEMMA InsertHash ==
    ASSUME HashInv, NEW k \in Keys, NEW e \in Items, h_insert(k, e)
    PROVE  HashInv'
<1>1. /\ TypeOK /\ KeysUnique /\ pc = "live" /\ pc' = "live"
      /\ UNCHANGED order_next /\ e \notin Allocated
  BY DEF HashInv, h_insert, Ready, Allocated
<1>2. PICK p, hi : BucketLists(p, hi)
  BY <1>1 DEF HashInv
<1>3. PICK op, ohi : OrderList(op, ohi)
  BY <1>1 DEF HashInv
<1>4. PICK x : x = Find(k)
  OBVIOUS
<1>5. Found(k, x)
  BY <1>1, <1>2, <1>4, FindIs
<1>6. NULL \notin Items /\ Allocated \subseteq Items /\ NULL \notin Keys
  BY ConstantsAssumption DEF Allocated
<1>7. CASE x # NULL
  <2>1. ret' = "-1" /\ UNCHANGED <<items, ordered, key>>
    BY <1>4, <1>7 DEF h_insert
  <2>2. TypeOK'
    BY <2>1, <1>1, TypeParts, TypePartsNext
  <2>3. Allocated' = Allocated /\ Home' = Home /\ OrderHome' = OrderHome
    BY <2>1 DEF Allocated, Home, OrderHome
  <2>4. BucketLists(p, hi)' /\ OrderList(op, ohi)' /\ KeysUnique'
    BY <2>1, <2>3, <1>1, <1>2, <1>3 DEF BucketLists, OrderList, KeysUnique
  <2> QED
    BY <2>2, <2>4, <1>1 DEF HashInv
<1>8. CASE x = NULL
  <2>0. PICK b \in Buckets : b = h_hash_func[k]
    BY CellsDisjoint
  <2>1. /\ key' = [key EXCEPT ![e] = k]
        /\ items' = LIST_INSERT_HEAD(items, b, e)
        /\ ordered' = TAILQ_INSERT_TAIL(ordered, e)
        /\ ret' = "0"
    BY <2>0, <1>4, <1>8 DEF h_insert
  <2>2. /\ items \in ListType(Buckets, Items) /\ key \in [Items -> Keys \union {NULL}]
        /\ ordered \in TailqType(Order, Items)
    BY <1>1, TypeParts
  <2>3. key' \in [Items -> Keys \union {NULL}] /\ Allocated' = Allocated \union {e}
    BY <2>1, <2>2, <1>6 DEF Allocated
  <2>4. PICK l, o, d : l = items' /\ o = ordered' /\ d = ordered
    OBVIOUS
  <2>5. l \in ListType(Buckets, Items) /\ Pushed(items, Buckets, Items, b, e, l)
    BY <2>1, <2>2, <2>4, CellsDisjoint, PushFields
  <2>6. /\ d.last \in {Order} \union Allocated /\ d.next[d.last] = NULL
        /\ Linked(d, {Order}, Items, Allocated, OrderHome, op, ohi)
    BY <2>4, <1>3 DEF OrderList
  <2>7. /\ o \in TailqType(Order, Items) /\ o.last = e
        /\ Appended(d, Order, Items, d.last, e, o)
    <3>1. d.last # e /\ d \in TailqType(Order, Items) /\ o = TAILQ_INSERT_TAIL(d, e)
      BY <2>1, <2>2, <2>4, <2>6, <1>1, CellsDisjoint
    <3> QED
      BY <3>1, CellsDisjoint, TailqInsertFields
  <2>8. TypeOK'
    BY <2>1, <2>3, <2>4, <2>5, <2>7, <1>1, TypeParts, TypePartsNext
  <2>9. PICK home, ohome : home = Home' /\ ohome = OrderHome'
    OBVIOUS
  <2>10. /\ home \in [Buckets \union (Allocated \union {e}) -> Buckets]
         /\ \A c \in Buckets : home[c] = c
         /\ \A i \in Allocated \union {e} : home[i] = h_hash_func[key'[i]]
         /\ ohome \in [{Order} \union (Allocated \union {e}) -> {Order}]
    BY <2>3, <2>8, <2>9, HomesTypedNext
  <2>11. /\ \A i \in Allocated : key'[i] = key[i]
         /\ key'[e] = k
    BY <2>1, <2>2, <1>1, <1>6
  <2>12. Joins(Buckets, Allocated, Home, e, b, home)
    BY <2>0, <2>10, <2>11, <1>1, HomesTyped DEF Joins
  <2>13. Joins({Order}, Allocated, OrderHome, e, Order, ohome)
    BY <2>10, <1>1, HomesTyped DEF Joins
  <2>14. \E p2 : Linked(l, Buckets, Items, Allocated \union {e}, home, p2, hi)
    BY <2>5, <2>12, <1>1, <1>2, LinkedPush DEF BucketLists
  <2>15. \E p2, hi2 : BucketLists(p2, hi2)'
    BY <2>3, <2>4, <2>9, <2>14 DEF BucketLists
  <2>16. \E p2, hi2 : Linked(o, {Order}, Items, Allocated \union {e}, ohome, p2, hi2)
    <3>1. PICK last \in {Order} \union Allocated : last = d.last
      BY <2>6
    <3>2. d.next[last] = NULL /\ Appended(d, Order, Items, last, e, o)
      BY <2>6, <2>7, <3>1
    <3> QED
      BY <2>6, <2>13, <3>2, <1>1, LinkedAppend
  <2>17. o.last \in {Order} \union (Allocated \union {e}) /\ o.next[o.last] = NULL
    <3>1. d.last # e
      BY <2>6, <1>1, CellsDisjoint
    <3> QED
      BY <2>7, <3>1 DEF Appended
  <2>18. \E p2, hi2 : OrderList(p2, hi2)'
    BY <2>3, <2>4, <2>9, <2>16, <2>17 DEF OrderList
  <2>19. \A i \in Allocated : key[i] # k
    BY <1>5, <1>6, <1>8 DEF Found
  <2>20. KeysUnique'
    BY <2>3, <2>11, <2>19, <1>1 DEF KeysUnique
  <2> QED
    BY <2>8, <2>15, <2>18, <2>20, <1>1 DEF HashInv
<1> QED
  BY <1>7, <1>8

\* What leaves the lists and the keys alone keeps them exact.
LEMMA SameHash ==
    ASSUME HashInv, UNCHANGED <<items, ordered, key>>, TypeOK',
           pc' = pc \/ (pc = "live" /\ pc' = "freeing")
    PROVE  HashInv'
<1>1. Allocated' = Allocated /\ Home' = Home /\ OrderHome' = OrderHome
  BY DEF Allocated, Home, OrderHome
<1>2. pc' = "none" => Allocated' = {}
  BY <1>1 DEF HashInv
<1>3. ASSUME pc' = "live" PROVE (\E p, hi : BucketLists(p, hi)') /\ KeysUnique'
  <2>1. KeysUnique /\ \E p, hi : BucketLists(p, hi)
    BY <1>3 DEF HashInv
  <2>2. PICK p, hi : BucketLists(p, hi)
    BY <2>1
  <2>3. BucketLists(p, hi)'
    BY <2>2, <1>1 DEF BucketLists
  <2>4. KeysUnique'
    BY <2>1, <1>1 DEF KeysUnique
  <2> QED
    BY <2>3, <2>4
<1>4. ASSUME pc' # "none" PROVE \E p, hi : OrderList(p, hi)'
  <2>1. PICK p, hi : OrderList(p, hi)
    BY <1>4 DEF HashInv
  <2>2. OrderList(p, hi)'
    BY <2>1, <1>1 DEF OrderList
  <2> QED
    BY <2>2
<1> QED
  BY <1>2, <1>3, <1>4 DEF HashInv

\* h_get returns an item of the table or NULL.
LEMMA GetHash ==
    ASSUME HashInv, NEW k \in Keys, h_get(k)
    PROVE  HashInv'
<1>1. /\ TypeOK /\ KeysUnique /\ UNCHANGED <<pc, items, ordered, key, order_next>>
      /\ ret' = Find(k) /\ \E p, hi : BucketLists(p, hi)
  BY DEF HashInv, h_get, Ready
<1>2. Found(k, ret')
  BY <1>1, FindIs
<1>3. ret' \in Items \union {NULL}
  BY <1>2 DEF Found, Allocated
<1>4. TypeOK'
  BY <1>1, <1>3, TypeParts, TypePartsNext
<1> QED
  BY <1>1, <1>4, SameHash

\* h_next moves the cursor along the ordered list.
LEMMA NextHash == HashInv /\ h_next => HashInv'
<1> SUFFICES ASSUME HashInv, h_next PROVE HashInv'
  OBVIOUS
<1>1. TypeOK /\ UNCHANGED <<pc, items, ordered, key>>
  BY DEF HashInv, h_next
<1>2. PICK c : c = IF order_next = NULL THEN Order ELSE order_next
  OBVIOUS
<1>3. order_next' = ordered.next[c] /\ ret' = ordered.next[c]
  BY <1>2 DEF h_next
<1>4. ordered.next[c] \in Items \union {NULL}
  BY <1>1, <1>2, TypeParts DEF TailqType
<1>5. TypeOK'
  BY <1>1, <1>3, <1>4, TypeParts, TypePartsNext
<1> QED
  BY <1>1, <1>5, SameHash

\* h_free begins with a whole table.
LEMMA FreeBeginHash == HashInv /\ h_free_begin => HashInv'
<1> SUFFICES ASSUME HashInv, h_free_begin PROVE HashInv'
  OBVIOUS
<1>1. /\ TypeOK /\ pc = "live" /\ pc' = "freeing"
      /\ UNCHANGED <<items, ordered, key, order_next, ret>>
  BY DEF HashInv, h_free_begin, Ready
<1>2. TypeOK'
  BY <1>1, TypeParts, TypePartsNext
<1> QED
  BY <1>1, <1>2, SameHash

\* h_free frees the first item of the order.
LEMMA FreeItemHash == HashInv /\ h_free_item => HashInv'
<1> SUFFICES ASSUME HashInv, h_free_item PROVE HashInv'
  OBVIOUS
<1>1. PICK e : e = ordered.next[Order]
  OBVIOUS
<1>2. /\ TypeOK /\ pc = "freeing" /\ e # NULL
      /\ ordered' = Trash(TAILQ_REMOVE(ordered, e), e)
      /\ key' = [key EXCEPT ![e] = NULL]
      /\ UNCHANGED <<pc, items, order_next, ret>>
  BY <1>1 DEF HashInv, h_free_item
<1>3. PICK p, hi : OrderList(p, hi)
  BY <1>2 DEF HashInv
<1>4. e \in Allocated
  BY <1>1, <1>2, <1>3, OrderCells DEF Chain
<1>5. ordered' \in TailqType(Order, Items) /\ OrderList(p, hi)'
  BY <1>2, <1>3, <1>4, OrderCut
<1>6. key' \in [Items -> Keys \union {NULL}]
  BY <1>2, TypeParts
<1>7. TypeOK'
  BY <1>2, <1>5, <1>6, TypeParts, TypePartsNext
<1> QED
  BY <1>2, <1>5, <1>7 DEF HashInv

\* An ordered list without a first item belongs to an empty table.
LEMMA OrderEmpty ==
    ASSUME NEW p, NEW hi, OrderList(p, hi), ordered.next[Order] = NULL
    PROVE  Allocated = {}
<1>1. Chain(ordered.next, ordered.prev, Order, Allocated, p, hi)
  BY OrderCells
<1>2. \A j \in Allocated : p[j] <= p[Order] /\ p[Order] < p[j]
                           /\ p[j] \in Int /\ p[Order] \in Int
  BY <1>1 DEF Chain
<1> QED
  BY <1>2

\* h_free ends when nothing is left.
LEMMA FreeEndHash == HashInv /\ h_free_end => HashInv'
<1> SUFFICES ASSUME HashInv, h_free_end PROVE HashInv'
  OBVIOUS
<1>1. /\ TypeOK /\ pc = "freeing" /\ pc' = "none" /\ ret' = NULL
      /\ items' = NoItems /\ ordered' = NoOrder
      /\ UNCHANGED <<key, order_next>> /\ ordered.next[Order] = NULL
  BY DEF HashInv, h_free_end
<1>2. Allocated = {}
  BY <1>1, OrderEmpty DEF HashInv
<1>3. Allocated' = {}
  BY <1>1, <1>2 DEF Allocated
<1>4. TypeOK'
  BY <1>1, NoneTyped, TypeParts, TypePartsNext
<1> QED
  BY <1>1, <1>3, <1>4 DEF HashInv

\* Every step of every operation keeps the lists exact.
LEMMA StepHash == HashInv /\ [Next]_vars => HashInv'
<1> SUFFICES ASSUME HashInv, [Next]_vars PROVE HashInv'
  OBVIOUS
<1>1. CASE UNCHANGED vars
  <2>1. UNCHANGED <<items, ordered, key, pc, order_next, ret>>
    BY <1>1 DEF vars
  <2>2. TypeOK
    BY DEF HashInv
  <2>3. TypeOK'
    BY <2>1, <2>2, TypeParts, TypePartsNext
  <2> QED
    BY <2>1, <2>3, SameHash
<1>2. ASSUME NEW k \in Keys, h_remove(k) \/ h_get(k) \/ \E i \in Items : h_insert(k, i)
      PROVE  HashInv'
  BY <1>2, RemoveHash, GetHash, InsertHash
<1> QED
  BY <1>1, <1>2, StartHash, NextHash, FreeBeginHash, FreeItemHash, FreeEndHash DEF Next

-----------------------------------------------------------------------------
(* The theorems *)

\* The inductive invariant: the items of the table, and only they, are
\* linked in the list of their bucket and in the ordered list.
THEOREM HashInvariant == Spec => []HashInv
<1> QED
  BY InitHash, StepHash, PTL DEF Spec

\* The table's state has its types: no operation follows or stores a pointer
\* that is not one.
THEOREM TypeCorrect == Spec => []TypeOK
<1>1. HashInv => TypeOK
  BY DEF HashInv
<1> QED
  BY <1>1, HashInvariant, PTL

\* The list of a bucket, as a FOREACH sees it, and its back pointers.
LEMMA BucketExact ==
    ASSUME NEW p, NEW hi, BucketLists(p, hi), TypeOK
    PROVE  /\ \A b \in Buckets :
                LIST_FOREACH(items, b) = {i \in Allocated : h_hash_func[key[i]] = b}
           /\ \A i \in Allocated : items.next[items.prev[i]] = i
<1>1. Linked(items, Buckets, Items, Allocated, Home, p, hi)
  BY DEF BucketLists
<1>2. /\ Home \in [Buckets \union Allocated -> Buckets]
      /\ \A i \in Allocated : Home[i] = h_hash_func[key[i]]
  BY HomesTyped
<1>3. ASSUME NEW b \in Buckets
      PROVE  LIST_FOREACH(items, b) = {i \in Allocated : h_hash_func[key[i]] = b}
  <2>1. LIST_FOREACH(items, b) = {i \in Allocated : Home[i] = b}
    BY <1>1, LinkedForeach
  <2>2. {i \in Allocated : Home[i] = b} = {i \in Allocated : h_hash_func[key[i]] = b}
    BY <1>2
  <2> QED
    BY <2>1, <2>2
<1>4. ASSUME NEW i \in Allocated PROVE items.next[items.prev[i]] = i
  <2>1. PICK b \in Buckets : b = Home[i]
    BY <1>2
  <2>2. PICK S : S = {j \in Allocated : Home[j] = b}
    OBVIOUS
  <2>3. Chain(items.next, items.prev, b, S, p, hi) /\ i \in S
    BY <2>1, <2>2, <1>1 DEF Linked
  <2> QED
    BY <2>3 DEF Chain
<1> QED
  BY <1>3, <1>4

\* The ordered list, as a FOREACH sees it.
LEMMA OrderExact ==
    ASSUME NEW p, NEW hi, OrderList(p, hi)
    PROVE  /\ LIST_FOREACH(ordered, Order) = Allocated
           /\ \A i \in Allocated : ordered.next[ordered.prev[i]] = i
           /\ ordered.next[ordered.last] = NULL
           /\ ordered.last \in Allocated \union {Order}
<1>1. Linked(ordered, {Order}, Items, Allocated, OrderHome, p, hi)
  BY DEF OrderList
<1>2. LIST_FOREACH(ordered, Order) = {i \in Allocated : OrderHome[i] = Order}
  BY <1>1, LinkedForeach
<1>3. \A i \in Allocated : OrderHome[i] = Order
  BY DEF OrderHome
<1>4. \A i \in Allocated : ordered.next[ordered.prev[i]] = i
  BY OrderCells DEF Chain
<1> QED
  BY <1>2, <1>3, <1>4 DEF OrderList

\* Whatever h_insert, h_remove and h_free do, in any order and with any
\* collisions, the lists of hash.c hold exactly the items of the table.
THEOREM ListsCorrect == Spec => []ListsExact
<1>1. HashInv => ListsExact
  <2> SUFFICES ASSUME HashInv PROVE ListsExact
    OBVIOUS
  <2>1. pc = "none" => Allocated = {}
    BY DEF HashInv
  <2>2. ASSUME pc = "live"
        PROVE  /\ TypeOK
               /\ \E p, hi : BucketLists(p, hi)
               /\ \E p, hi : OrderList(p, hi)
    BY <2>2 DEF HashInv
  <2> QED
    BY <2>1, <2>2, BucketExact, OrderExact DEF ListsExact
<1> QED
  BY <1>1, HashInvariant, PTL

\* A lookup in a live table finds the item of its key if there is one, and
\* NULL if there is none, however many keys share its bucket; and a key has
\* one item only.
LookupExact == pc = "live" => KeysUnique /\ \A k \in Keys : Found(k, Find(k))

\* Find, which h_get, h_insert and h_remove begin with, is exact.
THEOREM LookupCorrect == Spec => []LookupExact
<1>1. HashInv => LookupExact
  <2> SUFFICES ASSUME HashInv, pc = "live", NEW k \in Keys
               PROVE  KeysUnique /\ Found(k, Find(k))
    BY DEF LookupExact, HashInv
  <2>1. KeysUnique /\ \E p, hi : BucketLists(p, hi)
    BY DEF HashInv
  <2> QED
    BY <2>1, FindIs
<1> QED
  BY <1>1, HashInvariant, PTL

-----------------------------------------------------------------------------
(* The ordered list as a sequence *)

\* Cell i of a list with head h and the elements L: the one that points to
\* element i + 1.
Cell(h, L, i) == IF i = 0 THEN h ELSE L[i]

\* The tail queue l is the sequence L.
Row(l, h, E, L) ==
    /\ L \in Seq(E)
    /\ \A i, j \in 1 .. Len(L) : L[i] = L[j] => i = j
    /\ \A i \in 0 .. Len(L) :
        l.next[Cell(h, L, i)] = IF i = Len(L) THEN NULL ELSE L[i + 1]
    /\ \A i \in 1 .. Len(L) : l.prev[L[i]] = Cell(h, L, i - 1)
    /\ l.last = Cell(h, L, Len(L))

\* L without its element i.
Drop(L, i) == [j \in 1 .. Len(L) - 1 |-> IF j < i THEN L[j] ELSE L[j + 1]]

\* TAILQ_INSERT_TAIL appends.
LEMMA RowAppend ==
    ASSUME NEW l, NEW h, NEW E, NEW L, Row(l, h, E, L), h \notin E,
           NEW e \in E, \A i \in 1 .. Len(L) : L[i] # e,
           NEW l2, Appended(l, h, E, l.last, e, l2), l2.last = e
    PROVE  Row(l2, h, E, Append(L, e))
<1>1. PICK M : M = Append(L, e)
  OBVIOUS
<1>2. PICK n : n = Len(L) /\ n \in Nat
  BY DEF Row
<1>3. /\ L \in Seq(E) /\ M \in Seq(E) /\ Len(M) = n + 1 /\ M[n + 1] = e
      /\ \A i \in 1 .. n : M[i] = L[i] /\ L[i] \in E
  BY <1>1, <1>2 DEF Row
<1>4. \A i, j \in 1 .. n + 1 : M[i] = M[j] => i = j
  BY <1>2, <1>3 DEF Row
<1>5. \A i \in 0 .. n : Cell(h, M, i) = Cell(h, L, i) /\ Cell(h, M, i) \in {h} \union E
  BY <1>2, <1>3 DEF Cell
<1>6. Cell(h, M, n + 1) = e /\ e # h
  BY <1>2, <1>3 DEF Cell
<1>7. \A i \in 0 .. n : Cell(h, L, i) # e
  BY <1>2, <1>3, <1>6 DEF Cell
<1>8. \A i \in 0 .. n : Cell(h, L, i) = l.last => i = n
  BY <1>2, <1>3 DEF Cell, Row
<1>9. ASSUME NEW i \in 0 .. n + 1
      PROVE  l2.next[Cell(h, M, i)] = IF i = n + 1 THEN NULL ELSE M[i + 1]
  <2>1. CASE i = n + 1
    <3>1. e # l.last
      BY <1>2, <1>7 DEF Row
    <3> QED
      BY <1>6, <2>1, <3>1 DEF Appended
  <2>2. CASE i = n
    <3>1. Cell(h, M, i) = l.last /\ Cell(h, M, i) \in {h} \union E
      BY <1>2, <1>5, <2>2 DEF Row
    <3> QED
      BY <1>2, <1>3, <2>2, <3>1 DEF Appended
  <2>3. CASE i < n
    <3>1. i \in 0 .. n /\ i # n /\ i + 1 \in 1 .. n
      BY <1>2, <2>3
    <3>2. /\ Cell(h, M, i) = Cell(h, L, i) /\ Cell(h, M, i) # l.last /\ Cell(h, M, i) # e
          /\ Cell(h, M, i) \in {h} \union E
      BY <1>5, <1>7, <1>8, <3>1
    <3>3. l2.next[Cell(h, M, i)] = l.next[Cell(h, L, i)]
      BY <3>2 DEF Appended
    <3>4. l.next[Cell(h, L, i)] = L[i + 1]
      BY <1>2, <3>1 DEF Row
    <3> QED
      BY <1>2, <1>3, <3>1, <3>3, <3>4
  <2> QED
    BY <1>2, <2>1, <2>2, <2>3
<1>10. ASSUME NEW i \in 1 .. n + 1
       PROVE  l2.prev[M[i]] = Cell(h, M, i - 1)
  <2>1. CASE i = n + 1
    BY <1>2, <1>3, <1>5, <2>1 DEF Appended, Row
  <2>2. CASE i # n + 1
    <3>1. i \in 1 .. n /\ i - 1 \in 0 .. n
      BY <1>2, <2>2
    <3>2. M[i] = L[i] /\ L[i] \in E /\ L[i] # e
      BY <1>2, <1>3, <3>1
    <3>3. l2.prev[M[i]] = l.prev[L[i]]
      BY <3>2 DEF Appended
    <3>4. l.prev[L[i]] = Cell(h, L, i - 1)
      BY <1>2, <3>1 DEF Row
    <3> QED
      BY <1>5, <3>1, <3>3, <3>4
  <2> QED
    BY <2>1, <2>2
<1> QED
  BY <1>1, <1>2, <1>3, <1>4, <1>6, <1>9, <1>10 DEF Row

\* TAILQ_REMOVE drops the element, wherever it is.
LEMMA RowCut ==
    ASSUME NEW l, NEW h, NEW E, NEW L, Row(l, h, E, L), h \notin E, NULL \notin {h} \union E,
           NEW x \in 1 .. Len(L), NEW e, e = L[x],
           NEW l2, Cut(l, {h}, E, e, l2),
           l2.last = IF l.next[e] = NULL THEN l.prev[e] ELSE l.last
    PROVE  Row(l2, h, E, Drop(L, x))
<1>1. PICK M : M = Drop(L, x)
  OBVIOUS
<1>2. PICK n : n = Len(L) /\ n \in Nat /\ x \in 1 .. n
  BY DEF Row
<1>3. /\ L \in Seq(E) /\ \A i \in 1 .. n : L[i] \in E
      /\ \A i \in 1 .. n - 1 : M[i] = IF i < x THEN L[i] ELSE L[i + 1]
      /\ M \in Seq(E) /\ Len(M) = n - 1
  BY <1>1, <1>2 DEF Row, Drop
<1>4. \A i, j \in 1 .. n : L[i] = L[j] => i = j
  BY <1>2 DEF Row
<1>5. ASSUME NEW i \in 1 .. n - 1, NEW j \in 1 .. n - 1, M[i] = M[j] PROVE i = j
  <2>1. PICK y : y = (IF i < x THEN i ELSE i + 1) /\ y \in 1 .. n /\ M[i] = L[y]
    BY <1>2, <1>3
  <2>2. PICK z : z = (IF j < x THEN j ELSE j + 1) /\ z \in 1 .. n /\ M[j] = L[z]
    BY <1>2, <1>3
  <2>3. y = z
    BY <1>4, <1>5, <2>1, <2>2
  <2> QED
    BY <1>2, <2>1, <2>2, <2>3
<1>6. /\ \A i \in 0 .. n : Cell(h, L, i) \in {h} \union E
      /\ \A i, j \in 0 .. n : Cell(h, L, i) = Cell(h, L, j) => i = j
      /\ \A i \in 0 .. n - 1 : Cell(h, M, i) = Cell(h, L, IF i < x THEN i ELSE i + 1)
      /\ e = Cell(h, L, x) /\ e \in E
  BY <1>2, <1>3, <1>4 DEF Cell
<1>7. /\ \A i \in 0 .. n : l.next[Cell(h, L, i)] = IF i = n THEN NULL ELSE L[i + 1]
      /\ \A i \in 1 .. n : l.prev[L[i]] = Cell(h, L, i - 1)
      /\ l.last = Cell(h, L, n)
  BY <1>2 DEF Row
<1>8. l.prev[e] = Cell(h, L, x - 1) /\ l.next[e] = IF x = n THEN NULL ELSE L[x + 1]
  <2>1. x \in 0 .. n /\ x \in 1 .. n
    BY <1>2
  <2>2. l.prev[L[x]] = Cell(h, L, x - 1)
    BY <1>7, <2>1
  <2>3. l.next[Cell(h, L, x)] = IF x = n THEN NULL ELSE L[x + 1]
    BY <1>7, <2>1
  <2> QED
    BY <1>6, <2>2, <2>3
<1>9. ASSUME NEW i \in 0 .. n - 1
      PROVE  l2.next[Cell(h, M, i)] = IF i = n - 1 THEN NULL ELSE M[i + 1]
  <2>1. PICK y : y = (IF i < x THEN i ELSE i + 1) /\ y \in 0 .. n /\ y # x
    BY <1>2
  <2>2. PICK c : c = Cell(h, L, y) /\ c = Cell(h, M, i) /\ c \in {h} \union E /\ c # e
    BY <1>2, <1>6, <2>1
  <2>3. l2.next[c] = IF c = l.prev[e] THEN l.next[e] ELSE l.next[c]
    BY <2>2 DEF Cut
  <2>4. CASE i = x - 1
    <3>1. c = l.prev[e]
      BY <1>2, <1>8, <2>1, <2>2, <2>4
    <3>2. l2.next[c] = IF x = n THEN NULL ELSE L[x + 1]
      BY <1>8, <2>3, <3>1
    <3>3. i + 1 = x /\ (x # n => M[x] = L[x + 1])
      BY <1>2, <1>3, <2>4
    <3> QED
      BY <1>2, <2>2, <2>4, <3>2, <3>3
  <2>5. CASE i # x - 1
    <3>1. y # x - 1 /\ x - 1 \in 0 .. n
      BY <1>2, <2>1, <2>5
    <3>2. c # l.prev[e]
      BY <1>6, <1>8, <2>1, <2>2, <3>1
    <3>3. l2.next[c] = IF y = n THEN NULL ELSE L[y + 1]
      BY <1>7, <2>1, <2>2, <2>3, <3>2
    <3>4. (y = n <=> i = n - 1) /\ (y # n => M[i + 1] = L[y + 1])
      BY <1>2, <1>3, <2>1, <2>5
    <3> QED
      BY <2>2, <3>3, <3>4
  <2> QED
    BY <2>4, <2>5
<1>10. ASSUME NEW i \in 1 .. n - 1
       PROVE  l2.prev[M[i]] = Cell(h, M, i - 1)
  <2>1. PICK y : y = (IF i < x THEN i ELSE i + 1) /\ y \in 1 .. n /\ y # x
    BY <1>2
  <2>2. PICK d : d = M[i] /\ d = L[y] /\ d \in E /\ d # e
    BY <1>2, <1>3, <1>4, <2>1
  <2>3. l2.prev[d] = IF d = l.next[e] THEN l.prev[e] ELSE l.prev[d]
    BY <2>2 DEF Cut
  <2>4. CASE i = x
    <3>1. y = x + 1 /\ x # n
      BY <1>2, <2>1, <2>4
    <3>2. l2.prev[d] = Cell(h, L, x - 1)
      BY <1>8, <2>2, <2>3, <3>1
    <3>3. i - 1 \in 0 .. n - 1 /\ i - 1 < x /\ i - 1 = x - 1
      BY <1>2, <2>4
    <3>4. Cell(h, M, i - 1) = Cell(h, L, x - 1)
      BY <1>6, <3>3
    <3> QED
      BY <2>2, <3>2, <3>4
  <2>5. CASE i # x
    <3>1. y # x + 1
      BY <1>2, <2>1, <2>5
    <3>2. d # l.next[e]
      <4>1. CASE x = n
        BY <1>3, <1>8, <2>1, <2>2, <4>1
      <4>2. CASE x # n
        <5>1. l.next[e] = L[x + 1] /\ x + 1 \in 1 .. n
          BY <1>2, <1>8, <4>2
        <5> QED
          BY <1>4, <2>1, <2>2, <3>1, <5>1
      <4> QED
        BY <4>1, <4>2
    <3>3. l2.prev[d] = Cell(h, L, y - 1)
      BY <1>7, <2>1, <2>2, <2>3, <3>2
    <3>4. i - 1 \in 0 .. n - 1 /\ y - 1 = IF i - 1 < x THEN i - 1 ELSE (i - 1) + 1
      BY <1>2, <2>1, <2>5
    <3>5. Cell(h, M, i - 1) = Cell(h, L, y - 1)
      BY <1>6, <3>4
    <3> QED
      BY <2>2, <3>3, <3>5
  <2> QED
    BY <2>4, <2>5
<1>11. l2.last = Cell(h, M, n - 1)
  <2>1. n - 1 \in 0 .. n - 1 /\ x - 1 \in 0 .. n
    BY <1>2
  <2>2. CASE x = n
    BY <1>2, <1>6, <1>8, <2>1, <2>2
  <2>3. CASE x # n
    <3>1. l.next[e] # NULL
      BY <1>2, <1>3, <1>8, <2>3
    <3>2. ~(n - 1 < x) /\ (n - 1) + 1 = n
      BY <1>2, <2>3
    <3>3. Cell(h, M, n - 1) = Cell(h, L, n)
      BY <1>6, <2>1, <3>2
    <3> QED
      BY <1>7, <3>1, <3>3
  <2> QED
    BY <2>2, <2>3
<1> QED
  BY <1>1, <1>2, <1>3, <1>5, <1>9, <1>10, <1>11 DEF Row

\* The pairs of the elements behind cell i.
Rest(ky, L, i) == [j \in 1 .. Len(L) - i |-> <<ky[L[i + j]], L[i + j]>>]

\* The ordered list o is the sequence L of the items that have a key.
Held(o, ky, L) ==
    /\ Row(o, Order, Items, L)
    /\ {L[i] : i \in 1 .. Len(L)} = {i \in Items : ky[i] # NULL}
    /\ \A i \in Items : ky[i] = NULL => o.next[i] = NULL

\* The equation of Pairs.
Listing(o, ky, f) ==
    f = [d \in {Order} \union Items |->
            LET i == o.next[d]
            IN  IF i = NULL THEN <<>> ELSE << <<ky[i], i>> >> \o f[i]]

\* The sequence behind one cell begins with the next element.
LEMMA RestStep ==
    ASSUME NEW ky, NEW E, NEW L \in Seq(E), NEW i \in 0 .. Len(L) - 1
    PROVE  Rest(ky, L, i) = << <<ky[L[i + 1]], L[i + 1]>> >> \o Rest(ky, L, i + 1)
<1>1. PICK n : n = Len(L) /\ n \in Nat /\ i \in 0 .. n - 1
  OBVIOUS
<1> DEFINE P(j) == <<ky[L[j]], L[j]>>
<1>2. PICK S : S = {P(j) : j \in 1 .. n}
  OBVIOUS
<1>3. PICK R, Q : R = Rest(ky, L, i) /\ Q = Rest(ky, L, i + 1)
  OBVIOUS
<1>4. \A m \in 0 .. n : \A j \in 1 .. n - m : m + j \in 1 .. n
  BY <1>1
<1>5. R = [j \in 1 .. n - i |-> P(i + j)] /\ Q = [j \in 1 .. n - (i + 1) |-> P(i + 1 + j)]
  BY <1>1, <1>3 DEF Rest
<1>6. \A j \in 1 .. n : P(j) \in S
  BY <1>2
<1> HIDE DEF P
<1>7. R \in Seq(S) /\ Len(R) = n - i /\ \A j \in 1 .. n - i : R[j] = P(i + j)
  BY <1>1, <1>4, <1>5, <1>6
<1>8. Q \in Seq(S) /\ Len(Q) = n - (i + 1) /\ \A j \in 1 .. n - (i + 1) : Q[j] = P(i + 1 + j)
  BY <1>1, <1>4, <1>5, <1>6
<1>9. PICK a : a = P(i + 1) /\ a \in S
  BY <1>1, <1>6
<1>10. PICK C : C = <<a>> \o Q
  OBVIOUS
<1>a. PICK A : A = [j \in 1 .. 1 |-> a] /\ A = <<a>> /\ A \in Seq(S) /\ Len(A) = 1 /\ A[1] = a
  <2>1. <<a>> \in Seq(S) /\ Len(<<a>>) = 1 /\ <<a>>[1] = a
    BY <1>9, SMT
  <2>2. [j \in 1 .. 1 |-> a] = <<a>>
    BY SMT
  <2> QED
    BY <2>1, <2>2
<1>b. C = A \o Q /\ Q \in Seq(S)
  BY <1>8, <1>10, <1>a
<1>11. C \in Seq(S) /\ Len(C) = 1 + Len(Q) /\ Len(C) = n - i
  <2>1. C \in Seq(S) /\ Len(C) = Len(A) + Len(Q)
    BY <1>a, <1>b, ConcatProperties
  <2> QED
    BY <1>1, <1>8, <1>a, <2>1
<1>12. ASSUME NEW j \in 1 .. n - i PROVE C[j] = R[j]
  <2>1. CASE j = 1
    BY <1>1, <1>7, <1>9, <1>a, <1>b, <2>1
  <2>2. CASE j # 1
    <3>1. j - 1 \in 1 .. n - (i + 1)
      BY <1>1, <2>2
    <3>2. C[j] = Q[j - 1]
      BY <1>1, <1>8, <1>a, <1>b, <2>2
    <3>3. Q[j - 1] = P(i + 1 + (j - 1)) /\ i + 1 + (j - 1) = i + j
      BY <1>1, <1>8, <3>1
    <3> QED
      BY <1>7, <3>2, <3>3
  <2> QED
    BY <2>1, <2>2
<1>13. C = R
  BY <1>1, <1>7, <1>11, <1>12, SeqEqual
<1> QED
  BY <1>3, <1>9, <1>10, <1>13 DEF P

\* Where a cell is in the list; cells that are not in it are put at the end.
Spot(L, d) == IF d = Order THEN 0 ELSE
              IF \E i \in 1 .. Len(L) : L[i] = d THEN CHOOSE i \in 1 .. Len(L) : L[i] = d ELSE Len(L)

\* Every cell has its place, the one behind the next.
LEMMA SpotIs ==
    ASSUME NEW o, NEW ky, NEW L, Held(o, ky, L), NEW d \in {Order} \union Items
    PROVE  /\ Spot(L, d) \in 0 .. Len(L)
           /\ Len(L) \in Nat
           /\ o.next[d] = NULL => Spot(L, d) = Len(L)
           /\ o.next[d] # NULL => /\ Spot(L, d) < Len(L)
                                  /\ o.next[d] = L[Spot(L, d) + 1]
                                  /\ o.next[d] \in Items
                                  /\ Spot(L, o.next[d]) = Spot(L, d) + 1
<1>1. PICK n : n = Len(L) /\ n \in Nat
  BY DEF Held, Row
<1>2. /\ \A i \in 1 .. n : L[i] \in Items
      /\ \A i, j \in 1 .. n : L[i] = L[j] => i = j
      /\ \A i \in 0 .. n : o.next[Cell(Order, L, i)] = IF i = n THEN NULL ELSE L[i + 1]
  BY <1>1 DEF Held, Row
<1>3. Order \notin Items /\ NULL \notin Items
  BY CellsDisjoint
<1>4. \A i \in 1 .. n : Spot(L, L[i]) = i
  <2> SUFFICES ASSUME NEW i \in 1 .. n PROVE Spot(L, L[i]) = i
    OBVIOUS
  <2>1. L[i] # Order /\ \E j \in 1 .. n : L[j] = L[i]
    BY <1>2, <1>3
  <2>2. Spot(L, L[i]) = CHOOSE j \in 1 .. n : L[j] = L[i]
    BY <1>1, <2>1 DEF Spot
  <2>3. Spot(L, L[i]) \in 1 .. n /\ L[Spot(L, L[i])] = L[i]
    BY <2>1, <2>2
  <2> QED
    BY <1>2, <2>3
<1>5. CASE d = Order \/ \E i \in 1 .. n : L[i] = d
  <2>1. PICK i \in 0 .. n : d = Cell(Order, L, i) /\ Spot(L, d) = i
    <3>1. CASE d = Order
      BY <1>1, <3>1 DEF Cell, Spot
    <3>2. CASE d # Order
      <4>1. PICK i \in 1 .. n : L[i] = d
        BY <1>5, <3>2
      <4>2. i \in 0 .. n /\ d = Cell(Order, L, i) /\ Spot(L, d) = i
        BY <1>1, <1>4, <4>1 DEF Cell
      <4> QED
        BY <4>2
    <3> QED
      BY <3>1, <3>2
  <2>2. o.next[d] = IF i = n THEN NULL ELSE L[i + 1]
    BY <1>2, <2>1
  <2>3. CASE i = n
    BY <1>1, <2>1, <2>2, <2>3
  <2>4. CASE i # n
    <3>1. i + 1 \in 1 .. n /\ i < n
      BY <1>1, <2>4
    <3>2. L[i + 1] \in Items /\ Spot(L, L[i + 1]) = i + 1
      BY <1>2, <1>4, <3>1
    <3> QED
      BY <1>1, <1>3, <2>1, <2>2, <2>4, <3>1, <3>2
  <2> QED
    BY <2>3, <2>4
<1>6. CASE ~(d = Order \/ \E i \in 1 .. n : L[i] = d)
  <2>1. Spot(L, d) = n /\ d \in Items
    BY <1>1, <1>6 DEF Spot
  <2>2. d \notin {L[i] : i \in 1 .. n}
    BY <1>6
  <2>3. ky[d] = NULL
    BY <1>1, <2>1, <2>2 DEF Held
  <2>4. o.next[d] = NULL
    BY <2>1, <2>3 DEF Held
  <2> QED
    BY <1>1, <2>1, <2>4
<1> QED
  BY <1>5, <1>6

\* What any solution of the equation of Pairs says.
LEMMA ListsIs ==
    ASSUME NEW o, NEW ky, NEW L, Held(o, ky, L), NEW F, Listing(o, ky, F),
           NEW d \in {Order} \union Items
    PROVE  F[d] = Rest(ky, L, Spot(L, d))
<1> DEFINE D == {Order} \union Items
           Mu == [e \in D |-> Len(L) - Spot(L, e)]
           Bad == {e \in D : F[e] # Rest(ky, L, Spot(L, e))}
<1>1. L \in Seq(Items) /\ Len(L) \in Nat
  BY DEF Held, Row
<1>2. \A e \in D : F[e] = IF o.next[e] = NULL THEN <<>>
                          ELSE << <<ky[o.next[e]], o.next[e]>> >> \o F[o.next[e]]
  BY DEF Listing
<1>3. Mu \in [D -> Nat]
  <2>1. \A e \in D : Spot(L, e) \in 0 .. Len(L)
    BY SpotIs
  <2> QED
    BY <1>1, <2>1
<1>4. ASSUME NEW e \in Bad PROVE \E c \in Bad : Mu[c] < Mu[e]
  <2>1. PICK s, n : s = Spot(L, e) /\ n = o.next[e]
    OBVIOUS
  <2>2. e \in D /\ F[e] # Rest(ky, L, s)
    BY <2>1
  <2>3. /\ s \in 0 .. Len(L)
        /\ n = NULL => s = Len(L)
        /\ n # NULL => s < Len(L) /\ n = L[s + 1] /\ n \in Items /\ Spot(L, n) = s + 1
    BY <2>1, <2>2, SpotIs
  <2>4. CASE n = NULL
    <3>1. F[e] = <<>> /\ s = Len(L)
      BY <1>2, <2>1, <2>2, <2>3, <2>4
    <3>2. Rest(ky, L, s) = <<>>
      BY <1>1, <3>1 DEF Rest
    <3> QED
      BY <2>2, <3>1, <3>2
  <2>5. CASE n # NULL
    <3>1. F[e] = << <<ky[n], n>> >> \o F[n]
      BY <1>2, <2>1, <2>2, <2>5
    <3>2. s \in 0 .. Len(L) - 1 /\ n = L[s + 1] /\ n \in D /\ Spot(L, n) = s + 1
      BY <1>1, <2>3, <2>5
    <3>3. Rest(ky, L, s) = << <<ky[n], n>> >> \o Rest(ky, L, s + 1)
      BY <1>1, <3>2, RestStep
    <3>4. F[n] # Rest(ky, L, Spot(L, n))
      BY <2>2, <3>1, <3>2, <3>3
    <3>5. n \in Bad /\ Mu[n] = Len(L) - (s + 1) /\ Mu[e] = Len(L) - s
      BY <2>1, <2>2, <3>2, <3>4
    <3>6. Len(L) - (s + 1) < Len(L) - s
      BY <1>1, <2>3
    <3> QED
      BY <3>5, <3>6
  <2> QED
    BY <2>4, <2>5
<1> HIDE DEF Mu
<1>5. PICK D1, B : D1 = D /\ B = Bad
  OBVIOUS
<1>6. Mu \in [D1 -> Nat] /\ B \in SUBSET D1 /\ \A e \in B : \E c \in B : Mu[c] < Mu[e]
  BY <1>3, <1>4, <1>5
<1>7. B = {}
  BY <1>6, Descent
<1> QED
  BY <1>5, <1>7

\* The equation of Pairs has a solution.
LEMMA ListsHas ==
    ASSUME NEW o, NEW ky, NEW L, Held(o, ky, L)
    PROVE  \E F : Listing(o, ky, F)
<1> DEFINE W == [d \in {Order} \union Items |-> Rest(ky, L, Spot(L, d))]
<1>1. L \in Seq(Items) /\ Len(L) \in Nat
  BY DEF Held, Row
<1>2. ASSUME NEW d \in {Order} \union Items
      PROVE  W[d] = IF o.next[d] = NULL THEN <<>> ELSE << <<ky[o.next[d]], o.next[d]>> >> \o W[o.next[d]]
  <2>1. PICK s, n : s = Spot(L, d) /\ n = o.next[d]
    OBVIOUS
  <2>2. /\ s \in 0 .. Len(L)
        /\ n = NULL => s = Len(L)
        /\ n # NULL => s < Len(L) /\ n = L[s + 1] /\ n \in Items /\ Spot(L, n) = s + 1
    BY <2>1, SpotIs
  <2>3. W[d] = Rest(ky, L, s)
    BY <2>1
  <2>4. CASE n = NULL
    <3>1. Rest(ky, L, s) = <<>>
      BY <1>1, <2>2, <2>4 DEF Rest
    <3> QED
      BY <2>1, <2>3, <2>4, <3>1
  <2>5. CASE n # NULL
    <3>1. s \in 0 .. Len(L) - 1 /\ n = L[s + 1] /\ W[n] = Rest(ky, L, s + 1)
      BY <1>1, <2>2, <2>5
    <3>2. Rest(ky, L, s) = << <<ky[n], n>> >> \o Rest(ky, L, s + 1)
      BY <1>1, <3>1, RestStep
    <3> QED
      BY <2>1, <2>3, <2>5, <3>1, <3>2
  <2> QED
    BY <2>4, <2>5
<1>3. PICK V : V = W
  OBVIOUS
<1>4. V = [d \in {Order} \union Items |-> V[d]]
  BY <1>3
<1>5. \A d \in {Order} \union Items :
        V[d] = IF o.next[d] = NULL THEN <<>> ELSE << <<ky[o.next[d]], o.next[d]>> >> \o V[o.next[d]]
  BY <1>2, <1>3
<1> HIDE DEF W
<1>6. Listing(o, ky, V)
  BY <1>4, <1>5 DEF Listing
<1> QED
  BY <1>6

\* The pairs behind a cell, in the order of the list.
LEMMA PairsIs ==
    ASSUME NEW L, Held(ordered, key, L), NEW d \in {Order} \union Items
    PROVE  Pairs(d) = Rest(key, L, Spot(L, d))
<1>1. PICK F : Pairs(d) = F[d] /\ F = CHOOSE f : Listing(ordered, key, f)
  BY DEF Pairs, Listing
<1>2. Listing(ordered, key, F)
  BY <1>1, ListsHas
<1> QED
  BY <1>1, <1>2, ListsIs

\* R is the sequence of the pairs of L.
Whole(R, ky, L) ==
    /\ \E S : R \in Seq(S)
    /\ Len(R) = Len(L)
    /\ \A i \in 1 .. Len(L) : R[i] = <<ky[L[i]], L[i]>>

\* The pairs of a whole list, one by one.
LEMMA RestWhole ==
    ASSUME NEW ky, NEW E, NEW L \in Seq(E)
    PROVE  Whole(Rest(ky, L, 0), ky, L)
<1> DEFINE P(j) == <<ky[L[j]], L[j]>>
<1>1. PICK n : n = Len(L) /\ n \in Nat
  OBVIOUS
<1>2. PICK R : R = Rest(ky, L, 0)
  OBVIOUS
<1>3. \A j \in 1 .. n : 0 + j = j /\ j \in 1 .. n - 0
  BY <1>1
<1>4. n - 0 = n
  BY <1>1
<1>5. R = [j \in 1 .. n |-> P(j)]
  BY <1>1, <1>2, <1>3, <1>4 DEF Rest
<1>a. PICK S : S = {P(j) : j \in 1 .. n}
  OBVIOUS
<1>6. \A j \in 1 .. n : P(j) \in S
  BY <1>a
<1> HIDE DEF P
<1>7. R \in Seq(S) /\ Len(R) = n /\ \A i \in 1 .. n : R[i] = P(i)
  BY <1>1, <1>5, <1>6
<1>8. \A i \in 1 .. n : R[i] = <<ky[L[i]], L[i]>>
  BY <1>7 DEF P
<1> QED
  BY <1>1, <1>2, <1>7, <1>8 DEF Whole

\* The pairs of a list with one more element.
LEMMA RestAppend ==
    ASSUME NEW ky, NEW ky2, NEW E, NEW L \in Seq(E), NEW e \in E, NEW k,
           \A i \in 1 .. Len(L) : ky2[L[i]] = ky[L[i]], ky2[e] = k
    PROVE  Rest(ky2, Append(L, e), 0) = Append(Rest(ky, L, 0), <<k, e>>)
<1>1. PICK n : n = Len(L) /\ n \in Nat
  OBVIOUS
<1>a. PICK M : M = Append(L, e)
  OBVIOUS
<1>2. /\ M = Append(L, e) /\ M \in Seq(E) /\ Len(M) = n + 1 /\ M[n + 1] = e
      /\ \A i \in 1 .. n : M[i] = L[i]
  BY <1>1, <1>a
<1>3. PICK R, Q : R = Rest(ky, L, 0) /\ Q = Rest(ky2, M, 0)
  OBVIOUS
<1>4. /\ \E S : R \in Seq(S)
      /\ Len(R) = n /\ \A i \in 1 .. n : R[i] = <<ky[L[i]], L[i]>>
  <2>1. Whole(R, ky, L)
    BY <1>3, RestWhole
  <2> QED
    BY <1>1, <2>1 DEF Whole
<1>5. /\ \E S : Q \in Seq(S)
      /\ Len(Q) = n + 1 /\ \A i \in 1 .. n + 1 : Q[i] = <<ky2[M[i]], M[i]>>
  <2>1. Whole(Q, ky2, M)
    BY <1>2, <1>3, RestWhole
  <2> QED
    BY <1>2, <2>1 DEF Whole
<1>6. PICK S1, S2, a : R \in Seq(S1) /\ Q \in Seq(S2) /\ a = <<k, e>>
  BY <1>4, <1>5
<1>7. PICK S : S = S1 \union S2 \union {a}
  OBVIOUS
<1>8. R \in Seq(S) /\ Q \in Seq(S) /\ a \in S
  BY <1>6, <1>7
<1>b. PICK C : C = Append(R, a)
  OBVIOUS
<1>9. /\ C = Append(R, a) /\ C \in Seq(S) /\ Len(C) = n + 1 /\ C[n + 1] = a
      /\ \A i \in 1 .. n : C[i] = R[i]
  BY <1>1, <1>4, <1>8, <1>b
<1>10. ASSUME NEW i \in 1 .. n + 1 PROVE Q[i] = C[i]
  <2>1. CASE i = n + 1
    BY <1>1, <1>2, <1>5, <1>6, <1>9, <2>1
  <2>2. CASE i # n + 1
    <3>1. i \in 1 .. n
      BY <1>1, <2>2
    <3>2. ky2[M[i]] = ky[L[i]] /\ M[i] = L[i]
      BY <1>1, <1>2, <3>1
    <3> QED
      BY <1>4, <1>5, <1>9, <3>1, <3>2
  <2> QED
    BY <2>1, <2>2
<1>11. Q = C
  BY <1>1, <1>5, <1>8, <1>9, <1>10, SeqEqual
<1> QED
  BY <1>2, <1>3, <1>6, <1>9, <1>11

\* The keys of the elements of L other than element x are the same.
SameKeys(ky, ky2, L, x) == \A i \in 1 .. Len(L) : i # x => ky2[L[i]] = ky[L[i]]

\* Q is R without its element x.
Dropped(Q, R, x) == Q = SubSeq(R, 1, x - 1) \o SubSeq(R, x + 1, Len(R))

\* The pairs of a list with one element less.
LEMMA RestDrop ==
    ASSUME NEW ky, NEW ky2, NEW E, NEW L \in Seq(E), NEW x \in 1 .. Len(L),
           SameKeys(ky, ky2, L, x), NEW R, R = Rest(ky, L, 0)
    PROVE  Dropped(Rest(ky2, Drop(L, x), 0), R, x)
<1>1. PICK n : n = Len(L) /\ n \in Nat /\ x \in 1 .. n
  OBVIOUS
<1>2. PICK M : M = Drop(L, x)
  OBVIOUS
<1>3. /\ M \in Seq(E) /\ Len(M) = n - 1 /\ n - 1 \in Nat
      /\ \A i \in 1 .. n - 1 : M[i] = IF i < x THEN L[i] ELSE L[i + 1]
  BY <1>1, <1>2 DEF Drop
<1>4. PICK Q : Q = Rest(ky2, M, 0)
  OBVIOUS
<1>5. /\ \E S : R \in Seq(S)
      /\ Len(R) = n /\ \A i \in 1 .. n : R[i] = <<ky[L[i]], L[i]>>
  <2>1. Whole(R, ky, L)
    BY RestWhole
  <2> QED
    BY <1>1, <2>1 DEF Whole
<1>6. /\ \E S : Q \in Seq(S)
      /\ Len(Q) = n - 1 /\ \A i \in 1 .. n - 1 : Q[i] = <<ky2[M[i]], M[i]>>
  <2>1. Whole(Q, ky2, M)
    BY <1>3, <1>4, RestWhole
  <2> QED
    BY <1>3, <2>1 DEF Whole
<1>7. PICK S1, S2 : R \in Seq(S1) /\ Q \in Seq(S2)
  BY <1>5, <1>6
<1>a. PICK S : S = S1 \union S2
  OBVIOUS
<1>8. R \in Seq(S) /\ Q \in Seq(S)
  BY <1>7, <1>a
<1>9. PICK A : A = SubSeq(R, 1, x - 1)
  OBVIOUS
<1>10. PICK B : B = SubSeq(R, x + 1, n)
  OBVIOUS
<1>11. A \in Seq(S) /\ Len(A) = x - 1 /\ \A i \in 1 .. x - 1 : A[i] = R[i]
  BY <1>1, <1>5, <1>8, <1>9
<1>12. B \in Seq(S) /\ Len(B) = n - x /\ \A i \in 1 .. n - x : B[i] = R[x + i]
  BY <1>1, <1>5, <1>8, <1>10
<1>13. PICK C : C = A \o B
  OBVIOUS
<1>14. /\ C \in Seq(S) /\ Len(C) = n - 1
       /\ \A i \in 1 .. n - 1 : C[i] = IF i < x THEN A[i] ELSE B[i - (x - 1)]
  <2>1. C \in Seq(S) /\ Len(C) = Len(A) + Len(B)
    BY <1>11, <1>12, <1>13, ConcatProperties
  <2>2. \A i \in 1 .. Len(A) + Len(B) : C[i] = IF i <= Len(A) THEN A[i] ELSE B[i - Len(A)]
    BY <1>11, <1>12, <1>13, ConcatProperties
  <2>3. PICK u : u = x - 1 /\ u \in Nat /\ Len(A) = u /\ Len(A) + Len(B) = n - 1
    BY <1>1, <1>11, <1>12
  <2>4. \A i \in 1 .. n - 1 : C[i] = IF i <= u THEN A[i] ELSE B[i - u]
    BY <2>2, <2>3
  <2>5. \A i \in 1 .. n - 1 : i <= u <=> i < x
    BY <1>1, <2>3
  <2> QED
    BY <2>1, <2>3, <2>4, <2>5
<1>15. ASSUME NEW i \in 1 .. n - 1 PROVE Q[i] = C[i]
  <2>1. PICK y : y = (IF i < x THEN i ELSE i + 1) /\ y \in 1 .. n /\ y # x
    BY <1>1
  <2>2. M[i] = L[y]
    BY <1>3, <2>1
  <2>3. Q[i] = <<ky2[L[y]], L[y]>> /\ ky2[L[y]] = ky[L[y]]
    BY <1>1, <1>6, <2>1, <2>2 DEF SameKeys
  <2>4. R[y] = <<ky[L[y]], L[y]>>
    BY <1>5, <2>1
  <2>5. C[i] = R[y]
    <3>1. CASE i < x
      <4>1. i \in 1 .. x - 1 /\ y = i
        BY <1>1, <2>1, <3>1
      <4> QED
        BY <1>11, <1>14, <3>1, <4>1
    <3>2. CASE ~(i < x)
      <4>1. i - (x - 1) \in 1 .. n - x /\ x + (i - (x - 1)) = y
        BY <1>1, <2>1, <3>2
      <4> QED
        BY <1>12, <1>14, <3>2, <4>1
    <3> QED
      BY <3>1, <3>2
  <2> QED
    BY <2>3, <2>4, <2>5
<1>16. Q = C
  BY <1>3, <1>6, <1>8, <1>14, <1>15, SeqEqual
<1> QED
  BY <1>2, <1>4, <1>5, <1>9, <1>10, <1>13, <1>16 DEF Dropped

-----------------------------------------------------------------------------
(* The table as an ordered map *)

\* The invariant of the refinement: the ordered list is a sequence of the
\* table's items, and the cursor is at one of them.
MapInv ==
    /\ HashInv
    /\ pc # "live" => order_next = NULL
    /\ pc # "none" => \E L : Held(ordered, key, L)
    /\ order_next # NULL => order_next \in Allocated

\* The map that a table stands for.
MapOrder == IF pc = "live" THEN Pairs(Order) ELSE <<>>
MapRet == IF pc = "freeing" THEN NULL ELSE ret

\* Which pairs, and how many of them returned, a list and a cursor stand for.
Shows(ky, L, next, R, s) ==
    /\ R = Rest(ky, L, 0) /\ Whole(R, ky, L)
    /\ s = IF next = NULL THEN 0 ELSE Spot(L, next)

\* The pairs before the cursor are those it has passed.
LEMMA CursorSpot ==
    ASSUME NEW o, NEW ky, NEW L, Held(o, ky, L), NEW d \in Items
    PROVE  /\ Rest(ky, L, Spot(L, Order)) = Rest(ky, L, 0)
           /\ Len(Rest(ky, L, 0)) - Len(Rest(ky, L, Spot(L, d))) = Spot(L, d)
<1>1. PICK n : n = Len(L) /\ n \in Nat
  BY DEF Held, Row
<1>2. Spot(L, Order) = 0
  BY DEF Spot
<1>3. PICK s : s = Spot(L, d) /\ s \in 0 .. n
  BY <1>1, SpotIs
<1>4. ASSUME NEW i \in 0 .. n PROVE Len(Rest(ky, L, i)) = n - i
  BY <1>1 DEF Rest
<1>5. Len(Rest(ky, L, 0)) = n - 0 /\ Len(Rest(ky, L, s)) = n - s
  BY <1>1, <1>3, <1>4
<1> QED
  BY <1>1, <1>2, <1>3, <1>5

\* What a live table shows.
LEMMA MapShows ==
    ASSUME TypeOK, NEW L, Held(ordered, key, L)
    PROVE  Shows(key, L, order_next, Pairs(Order), Returned)
<1>1. L \in Seq(Items) /\ order_next \in Items \union {NULL}
  BY TypeParts DEF Held, Row
<1>2. Pairs(Order) = Rest(key, L, 0)
  <2>1. Pairs(Order) = Rest(key, L, Spot(L, Order))
    BY PairsIs
  <2> QED
    BY <2>1 DEF Spot
<1>3. Whole(Pairs(Order), key, L)
  BY <1>1, <1>2, RestWhole
<1>4. CASE order_next = NULL
  BY <1>2, <1>3, <1>4 DEF Shows, Returned
<1>5. CASE order_next # NULL
  <2>1. PICK d \in Items : d = order_next
    BY <1>1, <1>5
  <2>2. Pairs(d) = Rest(key, L, Spot(L, d))
    BY PairsIs
  <2>3. Len(Pairs(Order)) - Len(Pairs(d)) = Spot(L, d)
    BY <1>2, <2>2, CursorSpot
  <2>4. Returned = Len(Pairs(Order)) - Len(Pairs(d))
    BY <1>5, <2>1 DEF Returned
  <2> QED
    BY <1>2, <1>3, <1>5, <2>1, <2>3, <2>4 DEF Shows
<1> QED
  BY <1>4, <1>5

\* What it shows after a step.
LEMMA MapShowsNext ==
    ASSUME TypeOK', NEW L, Held(ordered, key, L)'
    PROVE  Shows(key', L, order_next', Pairs(Order)', Returned')
<1>0. PICK o, ky, nx : o = ordered' /\ ky = key' /\ nx = order_next'
  OBVIOUS
<1>1. L \in Seq(Items) /\ nx \in Items \union {NULL} /\ Held(o, ky, L)
  <2>1. Held(o, ky, L)
    BY <1>0
  <2>2. nx \in Items \union {NULL}
    BY <1>0 DEF TypeOK
  <2> QED
    BY <2>1, <2>2 DEF Held, Row
<1>a. ASSUME NEW d \in {Order} \union Items
      PROVE  Pairs(d)' = Rest(ky, L, Spot(L, d))
  <2>1. PICK F : Pairs(d)' = F[d] /\ F = CHOOSE f : Listing(o, ky, f)
    BY <1>0 DEF Pairs, Listing
  <2>2. Listing(o, ky, F)
    BY <1>1, <2>1, ListsHas
  <2> QED
    BY <1>1, <2>1, <2>2, ListsIs
<1>2. Pairs(Order)' = Rest(ky, L, 0)
  <2>1. Pairs(Order)' = Rest(ky, L, Spot(L, Order))
    BY <1>a
  <2> QED
    BY <2>1 DEF Spot
<1>3. Whole(Pairs(Order)', ky, L)
  BY <1>1, <1>2, RestWhole
<1>4. CASE nx = NULL
  BY <1>0, <1>2, <1>3, <1>4 DEF Shows, Returned
<1>5. CASE nx # NULL
  <2>1. PICK d \in Items : d = nx
    BY <1>1, <1>5
  <2>2. Pairs(d)' = Rest(ky, L, Spot(L, d))
    BY <1>a
  <2>3. Len(Pairs(Order)') - Len(Pairs(d)') = Spot(L, d)
    BY <1>1, <1>2, <2>2, CursorSpot
  <2>4. Returned' = Len(Pairs(Order)') - Len(Pairs(d)')
    BY <1>0, <1>5, <2>1 DEF Returned
  <2> QED
    BY <1>0, <1>2, <1>3, <1>5, <2>1, <2>3, <2>4 DEF Shows
<1> QED
  BY <1>0, <1>4, <1>5

\* The map's values before and after a step.
LEMMA MapNow ==
    ASSUME MapInv, pc = "live", NEW L, Held(ordered, key, L)
    PROVE  Shows(key, L, order_next, MapOrder, Returned)
BY MapShows DEF MapInv, HashInv, MapOrder

\* The same, after.
LEMMA MapThen ==
    ASSUME HashInv', pc' = "live", NEW L, Held(ordered, key, L)'
    PROVE  Shows(key', L, order_next', MapOrder', Returned')
<1>1. TypeOK'
  BY DEF HashInv
<1>2. Shows(key', L, order_next', Pairs(Order)', Returned')
  BY <1>1, MapShowsNext
<1>3. MapOrder' = Pairs(Order)'
  BY DEF MapOrder
<1> QED
  BY <1>2, <1>3

\* The table shows an item for every key it has.
LEMMA ShowsKey ==
    ASSUME MapInv, NEW L, Held(ordered, key, L), Whole(MapOrder, key, L), NEW k \in Keys
    PROVE  /\ (\A i \in Allocated : key[i] # k) => ~Map!HasKey(k)
           /\ \A e \in Allocated : key[e] = k =>
                \E i \in 1 .. Len(L) : /\ i \in DOMAIN MapOrder /\ L[i] = e
                                       /\ MapOrder[i][1] = k /\ MapOrder[i][2] = e
<1>1. PICK R : R = MapOrder
  OBVIOUS
<1>2. PICK n : n = Len(L) /\ n \in Nat /\ L \in Seq(Items)
  BY DEF Held, Row
<1>3. DOMAIN R = 1 .. n /\ \A i \in 1 .. n : R[i] = <<key[L[i]], L[i]>>
  BY <1>1, <1>2 DEF Whole
<1>4. {L[i] : i \in 1 .. n} = Allocated
  BY <1>2 DEF Held, Allocated
<1>5. ASSUME \A i \in Allocated : key[i] # k PROVE ~Map!HasKey(k)
  <2>1. \A i \in DOMAIN R : R[i][1] # k
    BY <1>3, <1>4, <1>5
  <2> QED
    BY <1>1, <2>1 DEF Map!HasKey, MapOrder
<1>6. ASSUME NEW e \in Allocated, key[e] = k
      PROVE  \E i \in 1 .. n : i \in DOMAIN R /\ L[i] = e /\ R[i][1] = k /\ R[i][2] = e
  <2>1. PICK i \in 1 .. n : L[i] = e
    BY <1>4
  <2> QED
    BY <1>3, <1>6, <2>1
<1> QED
  BY <1>1, <1>2, <1>5, <1>6

\* A new table is an empty map.
LEMMA StartMap ==
    ASSUME MapInv, h_init
    PROVE  MapInv' /\ Map!Create
<1>1. /\ HashInv /\ pc = "none" /\ pc' = "live" /\ order_next = NULL /\ order_next' = NULL
      /\ ordered' = NoOrder /\ ret' = NULL /\ UNCHANGED key /\ Allocated = {}
  BY DEF MapInv, HashInv, h_init
<1>2. HashInv'
  BY <1>1, StartHash
<1>3. PICK L : L = [i \in 1 .. 0 |-> Order] /\ L = <<>>
  BY SMT
<1>4. L \in Seq(Items) /\ Len(L) = 0
  BY <1>3
<1>5. PICK o, ky : o = ordered' /\ ky = key' /\ ky = key
  BY <1>1
<1>6. o.next = [c \in {Order} \union Items |-> NULL] /\ o.last = Order
  BY <1>1, <1>5, NoneTyped
<1>7. Row(o, Order, Items, L)
  BY <1>4, <1>6 DEF Row, Cell
<1>8. \A i \in Items : ky[i] = NULL /\ o.next[i] = NULL
  BY <1>1, <1>5, <1>6 DEF Allocated
<1>9. Held(o, ky, L)
  BY <1>4, <1>7, <1>8 DEF Held
<1>10. Held(ordered, key, L)'
  BY <1>5, <1>9
<1>11. MapInv'
  BY <1>1, <1>2, <1>10 DEF MapInv
<1>12. Shows(key', L, order_next', MapOrder', Returned')
  BY <1>1, <1>2, <1>10, MapThen
<1>13. MapOrder' = <<>>
  <2>1. MapOrder' = Rest(key', L, 0)
    BY <1>12 DEF Shows
  <2> QED
    BY <1>4, <2>1 DEF Rest
<1>14. MapOrder = <<>> /\ Returned' = 0 /\ Returned = 0
  BY <1>1, <1>12 DEF MapOrder, Shows, Returned
<1>15. Map!Create
  BY <1>1, <1>13, <1>14 DEF Map!Create, MapOrder
<1> QED
  BY <1>11, <1>15

\* What leaves the ordered list and the keys alone leaves the map alone.
LEMMA SameMap ==
    ASSUME MapInv, HashInv', UNCHANGED <<pc, ordered, key, order_next>>
    PROVE  MapInv' /\ MapOrder' = MapOrder /\ Returned' = Returned
<1>1. Allocated' = Allocated /\ \A L : Held(ordered, key, L) => Held(ordered, key, L)'
  BY DEF Allocated
<1>2. pc # "none" => \E L : Held(ordered, key, L)
  BY DEF MapInv
<1>3. pc' # "none" => \E L : Held(ordered, key, L)'
  BY <1>1, <1>2
<1>4. MapInv'
  BY <1>1, <1>3 DEF MapInv
<1>5. \A d : Pairs(d)' = Pairs(d)
  BY DEF Pairs
<1>6. MapOrder' = MapOrder /\ Returned' = Returned
  BY <1>5 DEF MapOrder, Returned
<1> QED
  BY <1>4, <1>6

\* A lookup is one in the map.
LEMMA GetMap ==
    ASSUME MapInv, NEW k \in Keys, h_get(k)
    PROVE  MapInv' /\ Map!Get(k)
<1>1. /\ HashInv /\ Ready /\ pc = "live" /\ order_next = NULL
      /\ ret' = Find(k) /\ UNCHANGED <<pc, items, ordered, key, order_next>>
  BY DEF MapInv, h_get, Ready
<1>2. HashInv'
  BY <1>1, GetHash
<1>3. MapInv' /\ MapOrder' = MapOrder /\ Returned' = Returned
  BY <1>1, <1>2, SameMap
<1>4. PICK L : Held(ordered, key, L)
  BY <1>1 DEF MapInv
<1>5. Whole(MapOrder, key, L) /\ Returned = 0
  BY <1>1, <1>4, MapNow DEF Shows
<1>6. KeysUnique /\ \E p, hi : BucketLists(p, hi)
  BY <1>1 DEF HashInv
<1>7. PICK e : e = Find(k) /\ Found(k, e)
  BY <1>6, FindIs
<1>8. ret' = e
  BY <1>1, <1>7
<1>9. (~Map!HasKey(k) /\ ret' = NULL) \/ (\E i \in DOMAIN MapOrder : MapOrder[i][1] = k /\ ret' = MapOrder[i][2])
  BY <1>4, <1>5, <1>7, <1>8, ShowsKey DEF Found
<1>10. Map!Get(k)
  BY <1>1, <1>3, <1>5, <1>9 DEF Map!Get, MapOrder
<1> QED
  BY <1>3, <1>10

\* An insertion is one into the map: refused, or the newest pair.
LEMMA InsertMap ==
    ASSUME MapInv, NEW k \in Keys, NEW e \in Items, h_insert(k, e)
    PROVE  MapInv' /\ Map!Insert(k, e)
<1>1. /\ HashInv /\ TypeOK /\ KeysUnique /\ pc = "live" /\ order_next = NULL /\ key[e] = NULL
      /\ UNCHANGED <<pc, order_next>> /\ \E p, hi : BucketLists(p, hi)
  BY DEF MapInv, HashInv, h_insert, Ready
<1>2. HashInv'
  BY <1>1, InsertHash
<1>3. PICK L : Held(ordered, key, L)
  BY <1>1 DEF MapInv
<1>4. Shows(key, L, order_next, MapOrder, Returned)
  BY <1>1, <1>3, MapNow
<1>5. Whole(MapOrder, key, L) /\ Returned = 0 /\ MapOrder = Rest(key, L, 0)
  BY <1>1, <1>4 DEF Shows
<1>6. PICK x : x = Find(k) /\ Found(k, x)
  BY <1>1, FindIs
<1>7. NULL \notin Items /\ NULL \notin Keys /\ NULL \notin {Order} \union Items /\ Order \notin Items
  BY ConstantsAssumption
<1>8. CASE x # NULL
  <2>1. ret' = "-1" /\ UNCHANGED <<items, ordered, key>>
    BY <1>6, <1>8 DEF h_insert
  <2>2. MapInv' /\ MapOrder' = MapOrder /\ Returned' = Returned
    BY <1>1, <1>2, <2>1, SameMap
  <2>3. \E i \in DOMAIN MapOrder : MapOrder[i][1] = k
    BY <1>3, <1>5, <1>6, <1>8, ShowsKey DEF Found
  <2>4. Map!HasKey(k)
    BY <2>3 DEF Map!HasKey, MapOrder
  <2>5. Map!Insert(k, e)
    BY <1>1, <1>5, <2>1, <2>2, <2>4 DEF Map!Insert, MapOrder
  <2> QED
    BY <2>2, <2>5
<1>9. CASE x = NULL
  <2>1. /\ key' = [key EXCEPT ![e] = k] /\ ret' = "0"
        /\ ordered' = TAILQ_INSERT_TAIL(ordered, e)
    BY <1>6, <1>9 DEF h_insert
  <2>2. \A i \in Allocated : key[i] # k
    BY <1>6, <1>7, <1>9 DEF Found, Allocated
  <2>3. ~Map!HasKey(k)
    BY <1>3, <1>5, <2>2, ShowsKey
  <2>4. PICK o, d, ky : o = ordered' /\ d = ordered /\ ky = key'
    OBVIOUS
  <2>5. PICK n : n = Len(L) /\ n \in Nat /\ L \in Seq(Items)
    BY <1>3 DEF Held, Row
  <2>6. Row(d, Order, Items, L) /\ {L[i] : i \in 1 .. n} = {i \in Items : key[i] # NULL}
    BY <1>3, <2>4, <2>5 DEF Held
  <2>7. key \in [Items -> Keys \union {NULL}] /\ d \in TailqType(Order, Items)
    BY <1>1, <2>4, TypeParts
  <2>8. \A i \in 1 .. n : L[i] # e /\ L[i] \in Items
    BY <1>1, <2>5, <2>6
  <2>9. d.last # e
    BY <1>7, <2>5, <2>6, <2>8 DEF Row, Cell
  <2>10. Appended(d, Order, Items, d.last, e, o) /\ o.last = e
    <3>1. o = TAILQ_INSERT_TAIL(d, e)
      BY <2>1, <2>4
    <3> QED
      BY <1>7, <2>7, <2>9, <3>1, TailqInsertFields
  <2>11. PICK M : M = Append(L, e)
    OBVIOUS
  <2>12. Row(o, Order, Items, M)
    BY <1>7, <2>5, <2>6, <2>8, <2>10, <2>11, RowAppend
  <2>13. /\ ky \in [Items -> Keys \union {NULL}] /\ ky[e] = k /\ k # NULL
         /\ \A i \in Items : i # e => ky[i] = key[i]
    BY <1>7, <2>1, <2>4, <2>7
  <2>14. /\ Len(M) = n + 1 /\ M[n + 1] = e /\ \A i \in 1 .. n : M[i] = L[i]
    BY <2>5, <2>11
  <2>15. {M[i] : i \in 1 .. Len(M)} = {i \in Items : ky[i] # NULL}
    <3>1. ASSUME NEW c \in Items, ky[c] # NULL PROVE \E i \in 1 .. Len(M) : M[i] = c
      <4>1. CASE c = e
        BY <2>5, <2>14, <4>1
      <4>2. CASE c # e
        <5>1. key[c] # NULL
          BY <2>13, <3>1, <4>2
        <5>2. PICK i \in 1 .. n : L[i] = c
          BY <2>6, <5>1
        <5>3. i \in 1 .. Len(M) /\ M[i] = c
          BY <2>5, <2>14, <5>2
        <5> QED
          BY <5>3
      <4> QED
        BY <4>1, <4>2
    <3>2. ASSUME NEW i \in 1 .. Len(M) PROVE M[i] \in Items /\ ky[M[i]] # NULL
      <4>1. CASE i = n + 1
        BY <2>13, <2>14, <4>1
      <4>2. CASE i # n + 1
        <5>1. i \in 1 .. n /\ M[i] = L[i]
          BY <2>5, <2>14, <4>2
        <5>2. L[i] \in Items /\ L[i] # e /\ key[L[i]] # NULL
          BY <2>6, <2>8, <5>1
        <5> QED
          BY <2>13, <5>1, <5>2
      <4> QED
        BY <4>1, <4>2
    <3> QED
      BY <3>1, <3>2
  <2>16. ASSUME NEW i \in Items, ky[i] = NULL PROVE o.next[i] = NULL
    <3>1. i # e /\ key[i] = NULL
      BY <2>13, <2>16
    <3>2. d.next[i] = NULL
      BY <1>3, <2>4, <3>1 DEF Held
    <3>3. d.last = Order \/ \E j \in 1 .. n : d.last = L[j]
      BY <2>5, <2>6 DEF Row, Cell
    <3>4. d.last # i
      BY <1>7, <2>6, <3>1, <3>3
    <3> QED
      BY <2>10, <3>1, <3>2, <3>4 DEF Appended
  <2>17. Held(o, ky, M)
    BY <2>12, <2>15, <2>16 DEF Held
  <2>18. Held(ordered, key, M)'
    BY <2>4, <2>17
  <2>19. MapInv'
    BY <1>1, <1>2, <2>18 DEF MapInv
  <2>20. MapOrder' = Rest(ky, M, 0) /\ Returned' = 0
    <3>1. Shows(key', M, order_next', MapOrder', Returned')
      BY <1>1, <1>2, <2>18, MapThen
    <3> QED
      BY <1>1, <2>4, <3>1 DEF Shows
  <2>21. MapOrder' = Append(MapOrder, <<k, e>>)
    <3>1. \A i \in 1 .. Len(L) : ky[L[i]] = key[L[i]]
      BY <2>5, <2>8, <2>13
    <3>2. Rest(ky, M, 0) = Append(Rest(key, L, 0), <<k, e>>)
      BY <2>5, <2>11, <2>13, <3>1, RestAppend
    <3> QED
      BY <1>5, <2>20, <3>2
  <2>22. Map!Insert(k, e)
    BY <1>1, <1>5, <2>1, <2>3, <2>20, <2>21 DEF Map!Insert, MapOrder
  <2> QED
    BY <2>19, <2>22
<1> QED
  BY <1>8, <1>9

\* The fields after TAILQ_REMOVE, with the last cell.
CutLast(d, f, o) ==
    /\ Cut(d, {Order}, Items, f, o)
    /\ o.last = IF d.next[f] = NULL THEN d.prev[f] ELSE d.last

\* What TAILQ_REMOVE writes into the ordered list.
LEMMA OrderCutFields ==
    ASSUME NEW d \in TailqType(Order, Items), NEW f \in Items,
           d.prev[f] \in {Order} \union Items, NEW o, o = Trash(TAILQ_REMOVE(d, f), f)
    PROVE  CutLast(d, f, o)
<1>1. Order \notin Items /\ NULL \notin {Order} \union Items
  BY CellsDisjoint
<1>2. PICK e : e = d
  OBVIOUS
<1>3. /\ o \in TailqType(Order, Items)
      /\ Cut(d, {Order}, Items, f, o)
      /\ o.last = IF d.next[f] = NULL THEN d.prev[f] ELSE d.last
  <2>1. /\ Order \notin Items /\ NULL \notin {Order} \union Items
        /\ e \in TailqType(Order, Items) /\ f \in Items
        /\ e.prev[f] \in {Order} \union Items
    BY <1>1, <1>2
  <2>2. o = Trash(TAILQ_REMOVE(e, f), f)
    BY <1>2
  <2> QED
    BY <1>2, <2>1, <2>2, TailqRemoveFields
<1> QED
  BY <1>3 DEF CutLast

\* Taking an item out of the ordered list drops it from the sequence.
LEMMA HeldCut ==
    ASSUME TypeOK, NEW L, Held(ordered, key, L), NEW x \in 1 .. Len(L), NEW e, e = L[x],
           ordered' = Trash(TAILQ_REMOVE(ordered, e), e),
           key' = [key EXCEPT ![e] = NULL]
    PROVE  /\ Held(ordered, key, Drop(L, x))'
           /\ \A i \in 1 .. Len(L) : i # x => key'[L[i]] = key[L[i]]
<1>1. NULL \notin {Order} \union Items /\ Order \notin Items
  BY CellsDisjoint
<1>2. PICK o, d, ky : o = ordered' /\ d = ordered /\ ky = key'
  OBVIOUS
<1>3. PICK n : n = Len(L) /\ n \in Nat /\ L \in Seq(Items) /\ x \in 1 .. n
  BY DEF Held, Row
<1>4. Row(d, Order, Items, L) /\ {L[i] : i \in 1 .. n} = {i \in Items : key[i] # NULL}
  BY <1>2, <1>3 DEF Held
<1>5. key \in [Items -> Keys \union {NULL}] /\ d \in TailqType(Order, Items)
  BY <1>2, TypeParts
<1>6. /\ \A i \in 1 .. n : L[i] \in Items
      /\ \A i, j \in 1 .. n : L[i] = L[j] => i = j
      /\ e \in Items
  BY <1>3, <1>4 DEF Row
<1>7. \A i \in 0 .. n : Cell(Order, L, i) \in {Order} \union Items
  BY <1>3, <1>6 DEF Cell
<1>8. d.prev[e] = Cell(Order, L, x - 1) /\ d.prev[e] \in {Order} \union Items
  <2>1. d.prev[L[x]] = Cell(Order, L, x - 1) /\ x - 1 \in 0 .. n
    BY <1>3, <1>4 DEF Row
  <2> QED
    BY <1>7, <2>1
<1>9. /\ Cut(d, {Order}, Items, e, o)
      /\ o.last = IF d.next[e] = NULL THEN d.prev[e] ELSE d.last
  <2>1. PICK f : f = e /\ f \in Items /\ d.prev[f] \in {Order} \union Items
    BY <1>6, <1>8
  <2>2. o = Trash(TAILQ_REMOVE(d, f), f)
    BY <1>2, <2>1
  <2>3. /\ Cut(d, {Order}, Items, f, o)
        /\ o.last = IF d.next[f] = NULL THEN d.prev[f] ELSE d.last
    <3>1. CutLast(d, f, o)
      BY <1>5, <2>1, <2>2, OrderCutFields
    <3> QED
      BY <3>1 DEF CutLast
  <2> QED
    BY <2>1, <2>3
<1>10. PICK M : M = Drop(L, x)
  OBVIOUS
<1>11. Row(o, Order, Items, M)
  <2>1. x \in 1 .. Len(L)
    OBVIOUS
  <2> QED
    BY <1>1, <1>4, <1>9, <1>10, <2>1, RowCut
<1>12. /\ Len(M) = n - 1
       /\ \A i \in 1 .. n - 1 : M[i] = IF i < x THEN L[i] ELSE L[i + 1]
  BY <1>3, <1>6, <1>10 DEF Drop
<1>13. ky[e] = NULL /\ \A i \in Items : i # e => ky[i] = key[i]
  BY <1>2, <1>5, <1>6
<1>14. {M[i] : i \in 1 .. Len(M)} = {i \in Items : ky[i] # NULL}
  <2>1. ASSUME NEW c \in Items, ky[c] # NULL PROVE \E i \in 1 .. Len(M) : M[i] = c
    <3>1. c # e /\ key[c] # NULL
      BY <1>13, <2>1
    <3>2. PICK i \in 1 .. n : L[i] = c
      BY <1>4, <3>1
    <3>3. i # x
      BY <3>1, <3>2
    <3>4. PICK j : j = (IF i < x THEN i ELSE i - 1) /\ j \in 1 .. n - 1
                   /\ i = (IF j < x THEN j ELSE j + 1)
      BY <1>3, <3>3
    <3> QED
      BY <1>12, <3>2, <3>4
  <2>2. ASSUME NEW i \in 1 .. Len(M) PROVE M[i] \in Items /\ ky[M[i]] # NULL
    <3>1. PICK y : y = (IF i < x THEN i ELSE i + 1) /\ y \in 1 .. n /\ y # x /\ M[i] = L[y]
      BY <1>3, <1>12
    <3>2. L[y] \in Items /\ L[y] # e /\ key[L[y]] # NULL
      BY <1>3, <1>4, <1>6, <3>1
    <3> QED
      BY <1>13, <3>1, <3>2
  <2> QED
    BY <2>1, <2>2
<1>15. ASSUME NEW i \in Items, ky[i] = NULL PROVE o.next[i] = NULL
  <2>1. CASE i = e
    BY <1>6, <1>9, <2>1 DEF Cut
  <2>2. CASE i # e
    <3>1. key[i] = NULL
      BY <1>13, <1>15, <2>2
    <3>2. d.next[i] = NULL
      BY <1>2, <3>1 DEF Held
    <3>3. d.prev[e] = Order \/ \E j \in 1 .. n : d.prev[e] = L[j]
      BY <1>3, <1>8 DEF Cell
    <3>4. d.prev[e] # i
      BY <1>1, <1>4, <3>1, <3>3
    <3> QED
      BY <1>9, <2>2, <3>2, <3>4 DEF Cut
  <2> QED
    BY <2>1, <2>2
<1>16. Held(o, ky, M)
  BY <1>11, <1>14, <1>15 DEF Held
<1>17. ASSUME NEW i \in 1 .. n, i # x PROVE key'[L[i]] = key[L[i]]
  BY <1>2, <1>3, <1>6, <1>13, <1>17
<1> QED
  BY <1>2, <1>3, <1>10, <1>16, <1>17

\* A removal is one from the map: refused, or the key's pair.
LEMMA RemoveMap ==
    ASSUME MapInv, NEW k \in Keys, h_remove(k)
    PROVE  MapInv' /\ Map!Remove(k)
<1>1. /\ HashInv /\ TypeOK /\ KeysUnique /\ pc = "live" /\ order_next = NULL
      /\ UNCHANGED <<pc, order_next>> /\ \E p, hi : BucketLists(p, hi)
  BY DEF MapInv, HashInv, h_remove, Ready
<1>2. HashInv'
  BY <1>1, RemoveHash
<1>3. PICK L : Held(ordered, key, L)
  BY <1>1 DEF MapInv
<1>4. Whole(MapOrder, key, L) /\ Returned = 0 /\ MapOrder = Rest(key, L, 0)
  <2>1. Shows(key, L, order_next, MapOrder, Returned)
    BY <1>1, <1>3, MapNow
  <2> QED
    BY <1>1, <2>1 DEF Shows
<1>5. PICK e : e = Find(k) /\ Found(k, e)
  BY <1>1, FindIs
<1>6. CASE e = NULL
  <2>1. ret' = "-1" /\ UNCHANGED <<items, ordered, key>>
    BY <1>5, <1>6 DEF h_remove
  <2>2. MapInv' /\ MapOrder' = MapOrder /\ Returned' = Returned
    BY <1>1, <1>2, <2>1, SameMap
  <2>3. \A i \in Allocated : key[i] # k
    <3>1. NULL \notin Allocated
      BY CellsDisjoint DEF Allocated
    <3> QED
      BY <1>5, <1>6, <3>1 DEF Found
  <2>4. ~Map!HasKey(k)
    BY <1>3, <1>4, <2>3, ShowsKey
  <2>5. Map!Remove(k)
    BY <1>1, <1>4, <2>1, <2>2, <2>4 DEF Map!Remove, MapOrder
  <2> QED
    BY <2>2, <2>5
<1>7. CASE e # NULL
  <2>1. /\ e \in Allocated /\ key[e] = k /\ ret' = "0"
        /\ ordered' = Trash(TAILQ_REMOVE(ordered, e), e)
        /\ key' = [key EXCEPT ![e] = NULL]
    BY <1>5, <1>7 DEF h_remove, Found
  <2>2. PICK x \in 1 .. Len(L) : /\ x \in DOMAIN MapOrder /\ L[x] = e
                                 /\ MapOrder[x][1] = k
    BY <1>3, <1>4, <2>1, ShowsKey
  <2>3. /\ Held(ordered, key, Drop(L, x))'
        /\ \A i \in 1 .. Len(L) : i # x => key'[L[i]] = key[L[i]]
    BY <1>1, <1>3, <2>1, <2>2, HeldCut
  <2>4. MapInv'
    BY <1>1, <1>2, <2>3 DEF MapInv
  <2>5. MapOrder' = Rest(key', Drop(L, x), 0) /\ Returned' = 0
    <3>1. PICK M : M = Drop(L, x)
      OBVIOUS
    <3>2. Held(ordered, key, M)'
      BY <2>3, <3>1
    <3>3. Shows(key', M, order_next', MapOrder', Returned')
      BY <1>1, <1>2, <3>2, MapThen
    <3> QED
      BY <1>1, <3>1, <3>3 DEF Shows
  <2>6. L \in Seq(Items)
    BY <1>3 DEF Held, Row
  <2>7. PICK R, R2 : R = MapOrder /\ R2 = MapOrder'
    OBVIOUS
  <2>8. R2 = SubSeq(R, 1, x - 1) \o SubSeq(R, x + 1, Len(R))
    <3>1. PICK k1, k2 : k1 = key /\ k2 = key'
      OBVIOUS
    <3>2. R = Rest(k1, L, 0) /\ R2 = Rest(k2, Drop(L, x), 0)
      BY <1>4, <2>5, <2>7, <3>1
    <3>3. \A i \in 1 .. Len(L) : i # x => k2[L[i]] = k1[L[i]]
      BY <2>3, <3>1
    <3>4. Rest(k2, Drop(L, x), 0) = SubSeq(R, 1, x - 1) \o SubSeq(R, x + 1, Len(R))
      <4>1. SameKeys(k1, k2, L, x)
        BY <3>3 DEF SameKeys
      <4>2. Dropped(Rest(k2, Drop(L, x), 0), R, x)
        BY <2>6, <3>2, <4>1, RestDrop
      <4> QED
        BY <4>2 DEF Dropped
    <3> QED
      BY <3>2, <3>4
  <2>9. /\ x \in DOMAIN MapOrder /\ MapOrder[x][1] = k
        /\ MapOrder' = SubSeq(MapOrder, 1, x - 1) \o SubSeq(MapOrder, x + 1, Len(MapOrder))
    BY <2>2, <2>7, <2>8
  <2>10. Map!Remove(k)
    BY <1>1, <1>4, <2>1, <2>5, <2>9 DEF Map!Remove, MapOrder
  <2> QED
    BY <2>4, <2>10
<1> QED
  BY <1>6, <1>7

\* h_next is the next pair of the map, or the end of the traversal.
LEMMA NextMap ==
    ASSUME MapInv, h_next
    PROVE  MapInv' /\ Map!GetNext
<1>1. /\ HashInv /\ TypeOK /\ pc = "live" /\ UNCHANGED <<pc, items, ordered, key>>
  BY DEF MapInv, HashInv, h_next
<1>2. HashInv'
  BY <1>1, NextHash
<1>3. PICK L : Held(ordered, key, L)
  BY <1>1 DEF MapInv
<1>4. PICK n : n = Len(L) /\ n \in Nat /\ L \in Seq(Items)
  BY <1>3 DEF Held, Row
<1>5. NULL \notin Items /\ order_next \in Items \union {NULL}
  BY <1>1, CellsDisjoint, TypeParts
<1>6. PICK d \in {Order} \union Items : d = IF order_next = NULL THEN Order ELSE order_next
  BY <1>5
<1>7. PICK i : i = ordered.next[d] /\ order_next' = i /\ ret' = i
  BY <1>6 DEF h_next
<1>8. PICK s : s = Spot(L, d)
  OBVIOUS
<1>9. /\ s \in 0 .. n /\ (i = NULL => s = n)
      /\ i # NULL => s < n /\ i = L[s + 1] /\ i \in Items /\ Spot(L, i) = s + 1
  BY <1>3, <1>4, <1>7, <1>8, SpotIs
<1>10. PICK R : R = MapOrder
  OBVIOUS
<1>11. Whole(R, key, L) /\ Returned = s /\ R = Rest(key, L, 0)
  <2>1. Shows(key, L, order_next, R, Returned)
    BY <1>1, <1>3, <1>10, MapNow
  <2>2. order_next = NULL => s = 0
    BY <1>6, <1>8 DEF Spot
  <2> QED
    BY <1>6, <1>8, <2>1, <2>2 DEF Shows
<1>12. Held(ordered, key, L)'
  BY <1>1, <1>3
<1>13. MapOrder' = R /\ Returned' = IF i = NULL THEN 0 ELSE s + 1
  <2>1. Shows(key', L, order_next', MapOrder', Returned')
    BY <1>1, <1>2, <1>12, MapThen
  <2> QED
    BY <1>1, <1>7, <1>9, <1>11, <2>1 DEF Shows
<1>14. i # NULL => i \in Allocated'
  <2> SUFFICES ASSUME i # NULL PROVE i \in Allocated'
    OBVIOUS
  <2>1. s + 1 \in 1 .. n /\ i = L[s + 1]
    BY <1>4, <1>9
  <2>2. i \in {L[j] : j \in 1 .. Len(L)}
    BY <1>4, <2>1
  <2>3. i \in Items /\ key[i] # NULL
    BY <1>3, <2>2 DEF Held
  <2> QED
    BY <1>1, <2>3 DEF Allocated
<1>15. MapInv'
  BY <1>1, <1>2, <1>7, <1>12, <1>14 DEF MapInv
<1>16. Len(R) = n /\ \A j \in 1 .. n : R[j] = <<key[L[j]], L[j]>>
  BY <1>4, <1>11 DEF Whole
<1>17. i # NULL => s < Len(R) /\ R[s + 1][2] = i
  BY <1>4, <1>9, <1>16
<1>18. i = NULL => ~(s < Len(R))
  BY <1>4, <1>9, <1>16
<1>19. Returned' = (IF s < Len(R) THEN s + 1 ELSE 0) /\ ret' = IF s < Len(R) THEN R[s + 1][2] ELSE NULL
  BY <1>7, <1>13, <1>17, <1>18
<1>20. /\ IF Returned < Len(MapOrder) THEN Returned' = Returned + 1 /\ ret' = MapOrder[Returned + 1][2]
                                      ELSE Returned' = 0 /\ ret' = NULL
       /\ MapOrder' = MapOrder
  BY <1>10, <1>11, <1>13, <1>19
<1>21. Map!GetNext
  BY <1>1, <1>20 DEF Map!GetNext, MapOrder
<1> QED
  BY <1>15, <1>21

\* The map ends when h_free begins.
LEMMA FreeBeginMap ==
    ASSUME MapInv, h_free_begin
    PROVE  MapInv' /\ Map!Free
<1>1. /\ HashInv /\ pc = "live" /\ pc' = "freeing" /\ order_next = NULL
      /\ UNCHANGED <<items, ordered, key, order_next, ret>>
  BY DEF MapInv, h_free_begin, Ready
<1>2. HashInv'
  BY <1>1, FreeBeginHash
<1>3. PICK L : Held(ordered, key, L)
  BY <1>1 DEF MapInv
<1>4. Held(ordered, key, L)'
  BY <1>1, <1>3
<1>5. MapInv'
  BY <1>1, <1>2, <1>4 DEF MapInv
<1>6. Returned = 0 /\ Returned' = 0
  BY <1>1 DEF Returned
<1>7. Map!Free
  BY <1>1, <1>6 DEF Map!Free
<1> QED
  BY <1>5, <1>7

\* The rest of h_free changes nothing of the map.
LEMMA FreeItemMap ==
    ASSUME MapInv, h_free_item
    PROVE  MapInv' /\ UNCHANGED Map!vars
<1>1. PICK e : e = ordered.next[Order]
  OBVIOUS
<1>2. /\ HashInv /\ TypeOK /\ pc = "freeing" /\ e # NULL /\ order_next = NULL
      /\ ordered' = Trash(TAILQ_REMOVE(ordered, e), e)
      /\ key' = [key EXCEPT ![e] = NULL]
      /\ UNCHANGED <<pc, items, order_next, ret>>
  BY <1>1 DEF MapInv, HashInv, h_free_item
<1>3. HashInv'
  BY <1>2, FreeItemHash
<1>4. PICK L : Held(ordered, key, L)
  BY <1>2 DEF MapInv
<1>5. Len(L) \in Nat /\ 1 \in 1 .. Len(L) /\ e = L[1]
  <2>1. Spot(L, Order) = 0 /\ Order \in {Order} \union Items
    BY DEF Spot
  <2>2. Len(L) \in Nat /\ Spot(L, Order) < Len(L) /\ e = L[Spot(L, Order) + 1]
    BY <1>1, <1>2, <1>4, <2>1, SpotIs
  <2> QED
    BY <2>1, <2>2
<1>6. Held(ordered, key, Drop(L, 1))'
  BY <1>2, <1>4, <1>5, HeldCut
<1>7. MapInv'
  BY <1>2, <1>3, <1>6 DEF MapInv
<1>8. Returned = 0 /\ Returned' = 0
  BY <1>2 DEF Returned
<1>9. UNCHANGED Map!vars
  BY <1>2, <1>8 DEF Map!vars
<1> QED
  BY <1>7, <1>9

\* Nor does its end.
LEMMA FreeEndMap ==
    ASSUME MapInv, h_free_end
    PROVE  MapInv' /\ UNCHANGED Map!vars
<1>1. /\ HashInv /\ pc = "freeing" /\ pc' = "none" /\ ret' = NULL
      /\ order_next = NULL /\ order_next' = NULL
  BY DEF MapInv, h_free_end
<1>2. HashInv'
  BY <1>1, FreeEndHash
<1>3. MapInv'
  BY <1>1, <1>2 DEF MapInv
<1>4. Returned = 0 /\ Returned' = 0
  BY <1>1 DEF Returned
<1>5. UNCHANGED Map!vars
  BY <1>1, <1>4 DEF Map!vars
<1> QED
  BY <1>3, <1>5

\* Every step of the table is a step of the map, or none.
LEMMA StepMap ==
    ASSUME MapInv, [Next]_vars
    PROVE  MapInv' /\ [Map!Next]_Map!vars
<1>1. CASE UNCHANGED vars
  <2>1. UNCHANGED <<pc, items, ordered, key, order_next, ret>>
    BY <1>1 DEF vars
  <2>2. HashInv'
    BY <1>1, StepHash DEF MapInv
  <2>3. MapInv' /\ MapOrder' = MapOrder /\ Returned' = Returned
    BY <2>1, <2>2, SameMap
  <2>4. UNCHANGED Map!vars
    BY <2>1, <2>3 DEF Map!vars, MapOrder
  <2> QED
    BY <2>3, <2>4
<1>2. ASSUME NEW k \in Keys, h_remove(k) PROVE MapInv' /\ Map!Next
  <2>1. MapInv' /\ Map!Remove(k)
    BY <1>2, RemoveMap
  <2> QED
    BY <2>1 DEF Map!Next
<1>3. ASSUME NEW k \in Keys, h_get(k) PROVE MapInv' /\ Map!Next
  <2>1. MapInv' /\ Map!Get(k)
    BY <1>3, GetMap
  <2> QED
    BY <2>1 DEF Map!Next
<1>4. ASSUME NEW k \in Keys, NEW i \in Items, h_insert(k, i) PROVE MapInv' /\ Map!Next
  <2>1. MapInv' /\ Map!Insert(k, i)
    BY <1>4, InsertMap
  <2> QED
    BY <2>1 DEF Map!Next
<1>5. ASSUME h_init \/ h_next \/ h_free_begin PROVE MapInv' /\ Map!Next
  BY <1>5, StartMap, NextMap, FreeBeginMap DEF Map!Next
<1>6. ASSUME h_free_item \/ h_free_end PROVE MapInv' /\ UNCHANGED Map!vars
  BY <1>6, FreeItemMap, FreeEndMap
<1> QED
  BY <1>1, <1>2, <1>3, <1>4, <1>5, <1>6 DEF Next

\* The table starts as no map.
LEMMA InitMap == Init => MapInv /\ Map!Init
<1> SUFFICES ASSUME Init PROVE MapInv /\ Map!Init
  OBVIOUS
<1>1. HashInv /\ pc = "none" /\ order_next = NULL /\ ret = NULL
  BY InitHash DEF Init
<1>2. Returned = 0
  BY <1>1 DEF Returned
<1>3. MapInv
  BY <1>1 DEF MapInv
<1>4. Map!Init
  BY <1>1, <1>2 DEF Map!Init
<1> QED
  BY <1>3, <1>4

\* The hash table of hash.c implements the ordered map its users rely on,
\* for every set of keys, every hash function and every number of items:
\* lookups are exact, keys are unique, and a traversal with h_next returns
\* every item once, in the order of insertion, and then NULL.
THEOREM Refinement == Spec => ImplementsOrderedMap
<1>1. Init => MapInv /\ Map!Init
  BY InitMap
<1>2. MapInv /\ [Next]_vars => MapInv' /\ [Map!Next]_Map!vars
  BY StepMap
<1> QED
  BY <1>1, <1>2, PTL DEF Spec, ImplementsOrderedMap, Map!Spec

=============================================================================
