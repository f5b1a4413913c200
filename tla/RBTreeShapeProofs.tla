------------------------- MODULE RBTreeShapeProofs -------------------------
(***************************************************************************)
(* The nodes and links of rbtree.c, for every set of deadlines: what makes *)
(* them a search tree with an exact parent pointer in every node, what     *)
(* colours make it balanced but for one node, and that a rotation, a round *)
(* of rb_insert_color and a round of __rb_erase_color keep that, and what  *)
(* rb_search and the last node of a side are in such a tree. The theorems  *)
(* about the specification that rest on it are in RBTreeProofs.            *)
(***************************************************************************)
EXTENDS RBTree, FiniteSetTheorems, WellFoundedInduction, TLAPS

\* Every non-empty set of natural numbers has a least element.
LEMMA LeastNat ==
    ASSUME NEW S \in SUBSET Nat, S # {}
    PROVE  \E n \in S : \A m \in S : n <= m
<1>1. \A x, y \in Nat : x < y => <<x, y>> \in OpToRel(<, Nat)
  BY DEF OpToRel
<1>2. PICK R : /\ IsWellFoundedOn(R, Nat)
               /\ \A x, y \in Nat : x < y => <<x, y>> \in R
  BY <1>1, NatLessThanWellFounded
<1>3. IsWellFoundedOn(R, Nat) /\ S \subseteq Nat
  BY <1>2
<1>4. \E n \in S : \A y \in S : ~(<<y, n>> \in R)
  BY <1>3, WFMin, Zenon
<1>5. PICK n \in S : \A m \in S : ~(m < n)
  BY <1>2, <1>3, <1>4
<1> QED
  BY <1>3, <1>5

\* Every member of a family of subsets of S contains a smaller one.
Shrinking(S, E, part) ==
    /\ IsFiniteSet(S) /\ \A n \in E : part[n] \subseteq S
    /\ \A n \in E : \E m \in E : part[m] \subseteq part[n] /\ part[m] # part[n]

\* Such a family is empty.
LEMMA Descent ==
    ASSUME NEW S, NEW E, NEW part, Shrinking(S, E, part)
    PROVE  E = {}
<1> DEFINE M == {Cardinality(part[n]) : n \in E}
<1>0. /\ IsFiniteSet(S) /\ \A n \in E : part[n] \subseteq S
      /\ \A n \in E : \E m \in E : part[m] \subseteq part[n] /\ part[m] # part[n]
  BY DEF Shrinking
<1>1. \A n \in E : IsFiniteSet(part[n]) /\ Cardinality(part[n]) \in Nat
  BY <1>0, FS_Subset, FS_CardinalityType
<1>2. M \in SUBSET Nat
  BY <1>1
<1>3. ASSUME M # {} PROVE FALSE
  <2>1. PICK c \in M : \A b \in M : c <= b
    BY <1>2, <1>3, LeastNat
  <2>2. PICK n \in E : Cardinality(part[n]) = c
    BY <2>1
  <2>3. PICK m \in E : part[m] \subseteq part[n] /\ part[m] # part[n]
    BY <1>0
  <2>4. Cardinality(part[m]) < Cardinality(part[n])
    BY <1>1, <2>3, FS_Subset
  <2>5. c <= Cardinality(part[m]) /\ Cardinality(part[m]) \in Nat /\ c \in Nat
    BY <2>1, <1>1, <1>2
  <2> QED
    BY <2>2, <2>4, <2>5
<1> QED
  BY <1>3

-----------------------------------------------------------------------------
(* The order of the deadlines, in both directions *)

\* A search for a goes to side d of b.
On(d, a, b) == a # b /\ Toward(a, b) = d

\* For each side the deadlines are in strict order.
LEMMA OnOrder ==
    ASSUME NEW d \in Dirs
    PROVE  /\ Opp(d) \in Dirs /\ Opp(d) # d /\ Opp(Opp(d)) = d
           /\ \A e \in Dirs : e # d => e = Opp(d)
           /\ \A a \in Keys : ~On(d, a, a)
           /\ \A a, b \in Keys : On(Opp(d), a, b) <=> On(d, b, a)
           /\ \A a, b \in Keys : a = b \/ On(d, a, b) \/ On(d, b, a)
           /\ \A a, b \in Keys : ~(On(d, a, b) /\ On(d, b, a))
           /\ \A a, b, c \in Keys : On(d, a, b) /\ On(d, b, c) => On(d, a, c)
<1>1. \A a \in Keys : a \in Nat
  BY KeysAssumption
<1>2. Opp(d) \in Dirs /\ Opp(d) # d /\ Opp(Opp(d)) = d /\ \A e \in Dirs : e # d => e = Opp(d)
  BY DEF Dirs, Opp
<1>3. \A a \in Keys : ~On(d, a, a)
  BY DEF On
<1>4. CASE d = "left"
  <2>1. \A a, b \in Keys : On(d, a, b) <=> a < b
    BY <1>1, <1>4 DEF On, Toward
  <2>2. \A a, b \in Keys : On(Opp(d), a, b) <=> b < a
    BY <1>1, <1>4 DEF On, Toward, Opp
  <2> QED
    BY <1>1, <1>2, <1>3, <2>1, <2>2
<1>5. CASE d = "right"
  <2>1. \A a, b \in Keys : On(d, a, b) <=> b < a
    BY <1>1, <1>5 DEF On, Toward
  <2>2. \A a, b \in Keys : On(Opp(d), a, b) <=> a < b
    BY <1>1, <1>5 DEF On, Toward, Opp
  <2> QED
    BY <1>1, <1>2, <1>3, <2>1, <2>2
<1> QED
  BY <1>4, <1>5 DEF Dirs

\* What the sides are for numbers.
LEMMA OnLess ==
    /\ \A a, b \in Keys : On("left", a, b) <=> a < b
    /\ \A a, b \in Keys : On("right", a, b) <=> a > b
    /\ \A a, b \in Keys : a \in Nat /\ a # NULL
<1>1. \A a \in Keys : a \in Nat /\ a # NULL
  BY KeysAssumption
<1> QED
  BY <1>1 DEF On, Toward

-----------------------------------------------------------------------------
(* The shape of the tree *)

\* The keys of X on side d of n.
Part(X, n, d) == {k \in X : On(d, k, n)}

\* The nodes below a pointer, when sub are the nodes below a node.
Under(sub, c) == IF c = NULL THEN {} ELSE sub[c]

Typed(t) == t \in [root : Ptr, kid : [Keys -> [Dirs -> Ptr]],
                   parent : [Keys -> Ptr], black : [Keys -> BOOLEAN]]

\* The nodes S form a search tree: sub[n] is n and the nodes below it, and
\* each child of n has those of its side.
Below(t, S, sub) ==
    /\ S \subseteq Keys /\ IsFiniteSet(S)
    /\ DOMAIN sub = S
    /\ \A n \in S : n \in sub[n] /\ sub[n] \subseteq S
    /\ t.root \in S \union {NULL}
    /\ Under(sub, t.root) = S
    /\ \A n \in S, d \in Dirs :
        /\ t.kid[n][d] \in S \union {NULL}
        /\ Under(sub, t.kid[n][d]) = Part(sub[n], n, d)

\* Parent pointers are the inverse of child pointers.
Links(t, S) ==
    /\ \A n \in S, d \in Dirs : t.kid[n][d] # NULL => t.parent[t.kid[n][d]] = n
    /\ \A n \in S : n = t.root => t.parent[n] = NULL
    /\ \A n \in S : n # t.root =>
        t.parent[n] \in S /\ \E d \in Dirs : t.kid[t.parent[n]][d] = n

\* Nodes outside the tree are blank, but for the pointers of the victim v.
Outside(t, S, v) ==
    \A m \in Keys \ S :
        /\ m # v => t.kid[m] = Blank /\ t.parent[m] = NULL /\ t.black[m] = FALSE
        /\ \A d \in Dirs : t.kid[m][d] \in S \union {NULL}

Shaped(t, S, sub) == Typed(t) /\ Below(t, S, sub) /\ Links(t, S)

\* A child and its subtree.
LEMMA KidFacts ==
    ASSUME NEW t, NEW S, NEW sub, Shaped(t, S, sub),
           NEW n \in S, NEW d \in Dirs, NEW c, c = t.kid[n][d], c # NULL
    PROVE  /\ c \in S /\ c # n /\ c \in sub[n] /\ n \notin sub[c] /\ On(d, c, n)
           /\ t.parent[c] = n /\ c # t.root
           /\ sub[c] = Part(sub[n], n, d) /\ sub[c] \subseteq sub[n] /\ c \in sub[c]
           /\ t.kid[n][Opp(d)] # c
           /\ \A e \in Dirs : t.kid[c][e] # n
<1>1. c \in S /\ Under(sub, c) = Part(sub[n], n, d) /\ S \subseteq Keys
  BY DEF Shaped, Below
<1>2. sub[c] = Part(sub[n], n, d) /\ c \in sub[c] /\ sub[n] \subseteq S
  BY <1>1 DEF Under, Shaped, Below
<1>3. c \in sub[n] /\ On(d, c, n) /\ sub[c] \subseteq sub[n]
  BY <1>2 DEF Part
<1>4. n \notin sub[c] /\ c # n
  BY <1>1, <1>2, <1>3, OnOrder DEF Part
<1>5. t.parent[c] = n
  BY DEF Shaped, Links
<1>6. c # t.root
  BY <1>1, <1>5, KeysAssumption DEF Shaped, Links
<1>7. ASSUME t.kid[n][Opp(d)] = c PROVE FALSE
  <2>1. Opp(d) \in Dirs
    BY OnOrder
  <2>2. Under(sub, c) = Part(sub[n], n, Opp(d))
    BY <1>7, <2>1 DEF Shaped, Below
  <2>3. On(Opp(d), c, n)
    BY <1>2, <2>2 DEF Under, Part
  <2> QED
    BY <1>1, <1>3, <2>3, OnOrder
<1>8. ASSUME NEW e \in Dirs, t.kid[c][e] = n PROVE FALSE
  <2>1. Under(sub, n) = Part(sub[c], c, e) /\ n # NULL /\ n \in sub[n]
    BY <1>1, <1>8, KeysAssumption DEF Shaped, Below
  <2>2. n \in sub[c]
    BY <2>1 DEF Under, Part
  <2> QED
    BY <1>4, <2>2
<1> QED
  BY <1>1, <1>2, <1>3, <1>4, <1>5, <1>6, <1>7, <1>8

\* The same as one fact.
KidOf(t, S, sub, n, d, c) ==
    /\ c \in S /\ c # n /\ c \in sub[n] /\ n \notin sub[c] /\ On(d, c, n)
    /\ t.parent[c] = n /\ c # t.root
    /\ sub[c] = Part(sub[n], n, d) /\ sub[c] \subseteq sub[n] /\ c \in sub[c]
    /\ t.kid[n][Opp(d)] # c
    /\ \A e \in Dirs : t.kid[c][e] # n

\* The same as one predicate.
LEMMA KidIs ==
    ASSUME NEW t, NEW S, NEW sub, Shaped(t, S, sub),
           NEW n \in S, NEW d \in Dirs, NEW c, c = t.kid[n][d], c # NULL
    PROVE  KidOf(t, S, sub, n, d, c)
  BY KidFacts DEF KidOf

\* A node that is not the root, and its parent.
LEMMA ParentFacts ==
    ASSUME NEW t, NEW S, NEW sub, Shaped(t, S, sub),
           NEW n \in S, NEW p, p = t.parent[n]
    PROVE  /\ p = NULL <=> n = t.root
           /\ p # NULL => /\ p \in S /\ p # n
                          /\ n = t.kid[p][Side(t, p, n)] /\ Side(t, p, n) \in Dirs
                          /\ t.kid[p][Opp(Side(t, p, n))] # n
<1>1. S \subseteq Keys /\ NULL \notin S
  BY KeysAssumption DEF Shaped, Below
<1>2. n = t.root => p = NULL
  BY DEF Shaped, Links
<1>3. ASSUME n # t.root
      PROVE  /\ p \in S /\ p # NULL /\ p # n /\ Side(t, p, n) \in Dirs
             /\ n = t.kid[p][Side(t, p, n)] /\ t.kid[p][Opp(Side(t, p, n))] # n
  <2>1. p \in S /\ p # NULL /\ \E d \in Dirs : t.kid[p][d] = n
    BY <1>1, <1>3 DEF Shaped, Links
  <2>2. Side(t, p, n) \in Dirs /\ n = t.kid[p][Side(t, p, n)]
    BY <2>1 DEF Side, Dirs
  <2>3. n # NULL
    BY <1>1
  <2>4. p # n /\ t.kid[p][Opp(Side(t, p, n))] # n
    BY <2>1, <2>2, <2>3, KidFacts
  <2> QED
    BY <2>1, <2>2, <2>4
<1> QED
  BY <1>2, <1>3

-----------------------------------------------------------------------------
(* Rotation *)

\* The pointers of t2 are those of t with n gone down on side d: what the
\* assignments of __rb_rotate_left and __rb_rotate_right come to.
Rotated(t, t2, n, d) ==
    LET up  == t.kid[n][Opp(d)]
        mid == t.kid[up][d]
        p   == t.parent[n]
    IN  /\ t2.root = IF n = t.root THEN up ELSE t.root
        /\ \A m \in Keys, e \in Dirs : t2.kid[m][e] =
               IF m = n /\ e = Opp(d) THEN mid
               ELSE IF m = up /\ e = d THEN n
               ELSE IF m = p /\ t.kid[m][e] = n THEN up ELSE t.kid[m][e]
        /\ \A m \in Keys : t2.parent[m] =
               IF m = n THEN up ELSE IF m = up THEN p
               ELSE IF m = mid THEN n ELSE t.parent[m]

\* The nodes below a node after the rotation.
SubRotated(t, sub, n, d) ==
    [m \in DOMAIN sub |->
        IF m = t.kid[n][Opp(d)] THEN sub[n]
        ELSE IF m = n THEN Part(sub[n], t.kid[n][Opp(d)], d) ELSE sub[m]]

\* One field of the tree is replaced.
LEMMA FieldUpdates ==
    ASSUME NEW t, Typed(t)
    PROVE  /\ \A r \in Ptr : \A u : u = [t EXCEPT !.root = r] =>
                Typed(u) /\ u.root = r /\ u.kid = t.kid /\ u.parent = t.parent /\ u.black = t.black
           /\ \A k \in [Keys -> [Dirs -> Ptr]] : \A u : u = [t EXCEPT !.kid = k] =>
                Typed(u) /\ u.root = t.root /\ u.kid = k /\ u.parent = t.parent /\ u.black = t.black
           /\ \A p \in [Keys -> Ptr] : \A u : u = [t EXCEPT !.parent = p] =>
                Typed(u) /\ u.root = t.root /\ u.kid = t.kid /\ u.parent = p /\ u.black = t.black
           /\ \A b \in [Keys -> BOOLEAN] : \A u : u = [t EXCEPT !.black = b] =>
                Typed(u) /\ u.root = t.root /\ u.kid = t.kid /\ u.parent = t.parent /\ u.black = b
  BY DEF Typed

\* u is t with the parent of n, if n is a node, set to p.
ParentSet(t, u, n, p) ==
    /\ Typed(u) /\ u.root = t.root /\ u.kid = t.kid /\ u.black = t.black
    /\ \A m \in Keys : u.parent[m] = IF m = n THEN p ELSE t.parent[m]

\* u is t with the pointer to old, in p or the root, set to new.
Relinked(t, u, p, old, new) ==
    /\ Typed(u) /\ u.parent = t.parent /\ u.black = t.black
    /\ u.root = IF p = NULL THEN new ELSE t.root
    /\ \A m \in Keys, e \in Dirs : u.kid[m][e] =
            IF m = p /\ e = Side(t, p, old) THEN new ELSE t.kid[m][e]

\* SetParent, by fields.
LEMMA SetParentFields ==
    ASSUME NEW t, Typed(t), NEW n \in Ptr, NEW p \in Ptr
    PROVE  ParentSet(t, SetParent(t, n, p), n, p)
<1> DEFINE u == SetParent(t, n, p)
<1>1. CASE n = NULL
  BY <1>1, KeysAssumption DEF SetParent, ParentSet
<1>2. CASE n # NULL
  <2>1. n \in Keys /\ u = [t EXCEPT !.parent[n] = p]
    BY <1>2 DEF SetParent, Ptr
  <2>2. PICK q : q = [t.parent EXCEPT ![n] = p]
    OBVIOUS
  <2>3. q \in [Keys -> Ptr] /\ \A m \in Keys : q[m] = IF m = n THEN p ELSE t.parent[m]
    BY <2>1, <2>2 DEF Typed
  <2>4. u = [t EXCEPT !.parent = q]
    BY <2>1, <2>2
  <2> QED
    BY <2>3, <2>4, FieldUpdates DEF ParentSet
<1> QED
  BY <1>1, <1>2

\* Relink, by fields.
LEMMA RelinkFields ==
    ASSUME NEW t, Typed(t), NEW p \in Ptr, NEW old, NEW new \in Ptr
    PROVE  Relinked(t, Relink(t, p, old, new), p, old, new)
<1> DEFINE u == Relink(t, p, old, new)
<1>1. CASE p = NULL
  <2>1. u = [t EXCEPT !.root = new] /\ \A m \in Keys : m # p
    BY <1>1, KeysAssumption DEF Relink
  <2> QED
    BY <1>1, <2>1, FieldUpdates DEF Relinked
<1>2. CASE p # NULL
  <2>1. PICK s \in Dirs : s = Side(t, p, old)
    BY DEF Side, Dirs
  <2>2. p \in Keys /\ u = [t EXCEPT !.kid[p][s] = new]
    BY <1>2, <2>1 DEF Relink, Ptr
  <2>3. t.kid \in [Keys -> [Dirs -> Ptr]]
    BY DEF Typed
  <2>4. PICK k : k = [t.kid EXCEPT ![p] = [@ EXCEPT ![s] = new]]
    OBVIOUS
  <2>5. k \in [Keys -> [Dirs -> Ptr]]
        /\ \A m \in Keys, e \in Dirs : k[m][e] = IF m = p /\ e = s THEN new ELSE t.kid[m][e]
    BY <2>1, <2>2, <2>3, <2>4
  <2>6. u = [t EXCEPT !.kid = k]
    BY <2>2, <2>4
  <2> QED
    BY <1>2, <2>1, <2>5, <2>6, FieldUpdates DEF Relinked
<1> QED
  BY <1>1, <1>2

\* Rotate does what Rotated says.
LEMMA RotateFields ==
    ASSUME NEW t, NEW S, NEW sub, Shaped(t, S, sub),
           NEW n \in S, NEW d \in Dirs, t.kid[n][Opp(d)] # NULL
    PROVE  /\ Typed(Rotate(t, n, d)) /\ Rotated(t, Rotate(t, n, d), n, d)
           /\ Rotate(t, n, d).black = t.black
<1>0. /\ Typed(t) /\ n \in Keys /\ S \subseteq Keys /\ Opp(d) \in Dirs /\ Opp(d) # d
      /\ \A e \in Dirs : e = d \/ e = Opp(d)
  BY OnOrder DEF Shaped, Below
<1>1. PICK up : up = t.kid[n][Opp(d)]
  OBVIOUS
<1>2. up \in S /\ up # n /\ up \in Keys /\ up # NULL
  BY <1>0, <1>1, KidFacts
<1>3. PICK mid : mid = t.kid[up][d]
  OBVIOUS
<1>4. PICK p : p = t.parent[n]
  OBVIOUS
<1>a. n \in Ptr /\ up \in Ptr /\ mid \in Ptr /\ p \in Ptr /\ Typed(t)
  BY <1>0, <1>2, <1>3, <1>4 DEF Ptr, Typed
<1>5. mid \in Ptr /\ p \in Ptr /\ t.kid[n] \in [Dirs -> Ptr] /\ t.kid[up] \in [Dirs -> Ptr]
  BY <1>0, <1>2, <1>3, <1>4 DEF Typed
<1>6. mid # n /\ mid # up
  <2>1. mid # n
    BY <1>0, <1>1, <1>2, <1>3, KidFacts
  <2>2. mid # NULL => mid # up
    BY <1>2, <1>3, KidFacts
  <2> QED
    BY <1>2, <2>1, <2>2
<1>7. p # up /\ p # n /\ (p = NULL <=> n = t.root)
  <2>1. p = NULL <=> n = t.root
    BY <1>4, ParentFacts
  <2>2. p # NULL => p # n /\ n = t.kid[p][Side(t, p, n)] /\ Side(t, p, n) \in Dirs
    BY <1>4, ParentFacts
  <2>3. \A e \in Dirs : t.kid[up][e] # n
    BY <1>0, <1>1, <1>2, KidFacts
  <2> QED
    BY <1>0, <1>2, <2>1, <2>2, <2>3, KeysAssumption
<1>8. PICK ta : ta = SetParent(t, mid, n)
  OBVIOUS
<1>9. /\ Typed(ta) /\ ta.root = t.root /\ ta.kid = t.kid /\ ta.black = t.black
      /\ \A m \in Keys : ta.parent[m] = IF m = mid THEN n ELSE t.parent[m]
  <2>1. ParentSet(t, ta, mid, n)
    BY <1>a, <1>8, SetParentFields
  <2> QED
    BY <2>1 DEF ParentSet
<1>10. PICK tb : tb = [ta EXCEPT !.kid[n][Opp(d)] = mid, !.kid[up][d] = n]
  OBVIOUS
<1>11. /\ Typed(tb) /\ tb.root = t.root /\ tb.parent = ta.parent /\ tb.black = t.black
       /\ \A m \in Keys, e \in Dirs : tb.kid[m][e] =
               IF m = n /\ e = Opp(d) THEN mid
               ELSE IF m = up /\ e = d THEN n ELSE t.kid[m][e]
  <2>1. PICK k1 : k1 = [t.kid EXCEPT ![n] = [@ EXCEPT ![Opp(d)] = mid]]
    OBVIOUS
  <2>2. /\ k1 \in [Keys -> [Dirs -> Ptr]]
        /\ \A m \in Keys, e \in Dirs : k1[m][e] =
               IF m = n /\ e = Opp(d) THEN mid ELSE t.kid[m][e]
    BY <1>0, <1>5, <2>1 DEF Typed
  <2>3. PICK k2 : k2 = [k1 EXCEPT ![up] = [@ EXCEPT ![d] = n]]
    OBVIOUS
  <2>4. /\ k2 \in [Keys -> [Dirs -> Ptr]]
        /\ \A m \in Keys, e \in Dirs : k2[m][e] =
               IF m = up /\ e = d THEN n ELSE k1[m][e]
    BY <1>0, <1>2, <2>2, <2>3 DEF Ptr
  <2>5. tb = [ta EXCEPT !.kid = k2]
    BY <1>9, <1>10, <2>1, <2>3 DEF Typed
  <2>6. Typed(tb) /\ tb.root = t.root /\ tb.parent = ta.parent /\ tb.black = t.black /\ tb.kid = k2
    BY <1>9, <2>4, <2>5, FieldUpdates
  <2> QED
    BY <1>2, <2>2, <2>4, <2>6
<1>12. PICK tc : tc = Relink(tb, p, n, up)
  OBVIOUS
<1>13. p # NULL => Side(tb, p, n) = Side(t, p, n)
  BY <1>5, <1>7, <1>11 DEF Side, Ptr, Dirs
<1>14. /\ Typed(tc) /\ tc.parent = ta.parent /\ tc.black = t.black
       /\ tc.root = IF p = NULL THEN up ELSE t.root
       /\ \A m \in Keys, e \in Dirs : tc.kid[m][e] =
             IF m = p /\ e = Side(tb, p, n) THEN up ELSE tb.kid[m][e]
  <2>1. Relinked(tb, tc, p, n, up)
    BY <1>a, <1>2, <1>5, <1>11, <1>12, RelinkFields
  <2> QED
    BY <1>11, <2>1 DEF Relinked
<1>15. PICK td : td = SetParent(tc, up, p)
  OBVIOUS
<1>16. /\ Typed(td) /\ td.root = tc.root /\ td.kid = tc.kid /\ td.black = t.black
       /\ \A m \in Keys : td.parent[m] = IF m = up THEN p ELSE tc.parent[m]
  <2>1. ParentSet(tc, td, up, p)
    BY <1>a, <1>14, <1>15, SetParentFields
  <2> QED
    BY <2>1, <1>14 DEF ParentSet
<1>17. PICK te : te = SetParent(td, n, up)
  OBVIOUS
<1>18. /\ Typed(te) /\ te.root = tc.root /\ te.kid = tc.kid /\ te.black = t.black
       /\ \A m \in Keys : te.parent[m] = IF m = n THEN up ELSE td.parent[m]
  <2>1. ParentSet(td, te, n, up)
    BY <1>a, <1>0, <1>2, <1>16, <1>17, SetParentFields
  <2> QED
    BY <2>1, <1>16 DEF ParentSet
<1>19. Rotate(t, n, d) = te
  BY <1>1, <1>3, <1>4, <1>8, <1>10, <1>12, <1>15, <1>17 DEF Rotate
<1>20. te.root = IF n = t.root THEN up ELSE t.root
  BY <1>7, <1>14, <1>18
<1>21. ASSUME NEW m \in Keys, NEW e \in Dirs
       PROVE  te.kid[m][e] = IF m = n /\ e = Opp(d) THEN mid
               ELSE IF m = up /\ e = d THEN n
               ELSE IF m = p /\ t.kid[m][e] = n THEN up ELSE t.kid[m][e]
  <2>1. te.kid[m][e] = IF m = p /\ e = Side(tb, p, n) THEN up ELSE tb.kid[m][e]
    BY <1>14, <1>18
  <2>2. CASE m # p
    BY <1>11, <2>1, <2>2
  <2>3. CASE m = p
    <3>1. p # NULL /\ m # n /\ m # up
      BY <1>7, <2>3, KeysAssumption
    <3>2. n = t.kid[p][Side(t, p, n)] /\ t.kid[p][Opp(Side(t, p, n))] # n /\ Side(t, p, n) \in Dirs
      BY <1>4, <3>1, ParentFacts
    <3>3. t.kid[m][e] = n <=> e = Side(tb, p, n)
      BY <1>13, <2>3, <3>1, <3>2, OnOrder
    <3> QED
      BY <1>11, <2>1, <2>3, <3>1, <3>3
  <2> QED
    BY <2>2, <2>3
<1>22. \A m \in Keys : te.parent[m] = IF m = n THEN up ELSE IF m = up THEN p
               ELSE IF m = mid THEN n ELSE t.parent[m]
  BY <1>9, <1>14, <1>16, <1>18
<1>23. Rotated(t, te, n, d)
  BY <1>1, <1>3, <1>4, <1>18, <1>20, <1>21, <1>22 DEF Rotated
<1> QED
  BY <1>18, <1>19, <1>23

\* What a rotation moves: n, its child up, up's child mid and n's parent p
\* are different nodes.
LEMMA RotatedNodes ==
    ASSUME NEW t, NEW S, NEW sub, Shaped(t, S, sub),
           NEW n \in S, NEW d \in Dirs,
           NEW up, up = t.kid[n][Opp(d)], up # NULL,
           NEW mid, mid = t.kid[up][d], NEW p, p = t.parent[n]
    PROVE  /\ up \in S /\ up # n /\ mid \in S \union {NULL} /\ mid # n /\ mid # up
           /\ p \in S \union {NULL} /\ p # n /\ p # up
           /\ On(d, n, up)
           /\ (p = NULL <=> n = t.root) /\ up # t.root
           /\ \A m \in S, e \in Dirs : t.kid[m][e] = n => m = p
           /\ \A m \in S, e \in Dirs : t.kid[m][e] = up => m = n
           /\ \A m \in S, e \in Dirs : t.kid[m][e] = mid /\ mid # NULL => m = up
<1>0. Opp(d) \in Dirs /\ S \subseteq Keys
  BY OnOrder DEF Shaped, Below
<1>1. up \in S /\ up # n /\ On(Opp(d), up, n) /\ up # t.root /\ t.parent[up] = n
      /\ \A e \in Dirs : t.kid[up][e] # n
  BY <1>0, KidFacts
<1>2. On(d, n, up)
  BY <1>0, <1>1, OnOrder
<1>3. mid \in S \union {NULL} /\ mid # n
  BY <1>1 DEF Shaped, Below
<1>4. mid # NULL => mid # up /\ t.parent[mid] = up
  BY <1>1, KidFacts
<1>5. /\ p = NULL <=> n = t.root
      /\ p # NULL => p \in S /\ p # n /\ n = t.kid[p][Side(t, p, n)] /\ Side(t, p, n) \in Dirs
  BY ParentFacts
<1>6. p # up /\ p # n
  BY <1>0, <1>1, <1>5, KeysAssumption
<1>7. \A m \in S, e \in Dirs : t.kid[m][e] # NULL => t.parent[t.kid[m][e]] = m
  BY DEF Shaped, Links
<1>8. n # NULL
  BY <1>0, KeysAssumption
<1> QED
  BY <1>1, <1>2, <1>3, <1>4, <1>5, <1>6, <1>7, <1>8

\* The equations of SubRotated.
LEMMA RotateBelow ==
    ASSUME NEW t, NEW S, NEW sub, Shaped(t, S, sub),
           NEW n \in S, NEW d \in Dirs,
           NEW up, up = t.kid[n][Opp(d)], up # NULL,
           NEW t2, Typed(t2), Rotated(t, t2, n, d),
           NEW sub2, sub2 = SubRotated(t, sub, n, d)
    PROVE  Below(t2, S, sub2)
<1>1. PICK mid : mid = t.kid[up][d]
  OBVIOUS
<1>2. PICK p : p = t.parent[n]
  OBVIOUS
<1>3. /\ up \in S /\ up # n /\ mid \in S \union {NULL} /\ mid # n /\ mid # up
      /\ p \in S \union {NULL} /\ p # n /\ p # up
      /\ On(d, n, up)
      /\ (p = NULL <=> n = t.root) /\ up # t.root
      /\ \A m \in S, e \in Dirs : t.kid[m][e] = n => m = p
      /\ \A m \in S, e \in Dirs : t.kid[m][e] = up => m = n
  BY <1>1, <1>2, RotatedNodes
<1>4. /\ t2.root = IF n = t.root THEN up ELSE t.root
      /\ \A m \in Keys, e \in Dirs : t2.kid[m][e] =
               IF m = n /\ e = Opp(d) THEN mid
               ELSE IF m = up /\ e = d THEN n
               ELSE IF m = p /\ t.kid[m][e] = n THEN up ELSE t.kid[m][e]
  BY <1>1, <1>2 DEF Rotated
<1>5. /\ S \subseteq Keys /\ IsFiniteSet(S) /\ DOMAIN sub = S /\ NULL \notin S
      /\ \A m \in S : m \in sub[m] /\ sub[m] \subseteq S
      /\ t.root \in S \union {NULL} /\ Under(sub, t.root) = S
  BY KeysAssumption DEF Shaped, Below
<1>6. \A m \in S, e \in Dirs : /\ t.kid[m][e] \in S \union {NULL}
                               /\ Under(sub, t.kid[m][e]) = Part(sub[m], m, e)
  BY DEF Shaped, Below
<1>7. /\ DOMAIN sub2 = S /\ sub2[up] = sub[n] /\ sub2[n] = Part(sub[n], up, d)
      /\ \A m \in S : m # n /\ m # up => sub2[m] = sub[m]
  BY <1>3, <1>5 DEF SubRotated
<1>8. Opp(d) \in Dirs /\ Opp(d) # d /\ \A e \in Dirs : e = d \/ e = Opp(d)
  BY OnOrder
<1>9. sub[up] = Part(sub[n], n, Opp(d)) /\ up \in sub[n] /\ up \in sub[up]
  BY <1>8, KidFacts
<1>10. \A m \in S : m \in sub2[m] /\ sub2[m] \subseteq S
  BY <1>3, <1>5, <1>7, <1>9 DEF Part
<1>11. t2.root \in S \union {NULL} /\ Under(sub2, t2.root) = S
  BY <1>3, <1>4, <1>5, <1>7 DEF Under
<1>12. ASSUME NEW m \in S, NEW e \in Dirs
       PROVE  t2.kid[m][e] \in S \union {NULL} /\ Under(sub2, t2.kid[m][e]) = Part(sub2[m], m, e)
  <2>0. /\ \A k \in S : On(d, k, n) => On(d, k, up)
        /\ \A k \in S : On(Opp(d), k, up) => On(Opp(d), k, n)
        /\ \A k \in S : On(Opp(d), k, up) <=> On(d, up, k)
        /\ \A k \in S : On(Opp(d), k, n) <=> On(d, n, k)
    <3>1. \A a, b, c \in Keys : On(d, a, b) /\ On(d, b, c) => On(d, a, c)
      BY OnOrder
    <3>2. \A a, b \in Keys : On(Opp(d), a, b) <=> On(d, b, a)
      BY OnOrder
    <3> QED
      BY <1>3, <1>5, <3>1, <3>2
  <2>1. CASE m = n /\ e = Opp(d)
    <3>1. t2.kid[m][e] = mid /\ Under(sub2, mid) = Under(sub, mid)
      BY <1>3, <1>4, <1>5, <1>7, <2>1 DEF Under
    <3>2. Under(sub, mid) = Part(sub[up], up, d)
      BY <1>1, <1>3, <1>6
    <3>3. Part(sub[up], up, d) = Part(sub2[n], n, Opp(d))
      BY <1>7, <1>9 DEF Part
    <3> QED
      BY <1>3, <2>1, <3>1, <3>2, <3>3
  <2>2. CASE m = n /\ e = d
    <3>1. t2.kid[m][e] = t.kid[m][e] /\ t.kid[m][e] # n /\ t.kid[m][e] # up
      <4>1. t.kid[m][e] # n
        BY <1>3, <2>2
      <4>2. t.kid[m][Opp(Opp(d))] # up
        BY <1>8, <2>2, KidFacts
      <4> QED
        BY <1>3, <1>4, <1>5, <1>8, <2>2, <4>1, <4>2, OnOrder
    <3>2. Under(sub2, t.kid[m][e]) = Part(sub[m], m, e)
      BY <1>6, <1>7, <3>1 DEF Under
    <3>3. Part(sub[n], n, d) = Part(sub2[n], n, d)
      BY <1>5, <1>7, <2>0 DEF Part
    <3> QED
      BY <1>6, <2>2, <3>1, <3>2, <3>3
  <2>3. CASE m = up /\ e = d
    <3>1. t2.kid[m][e] = n
      BY <1>3, <1>4, <1>5, <2>3
    <3>2. Under(sub2, n) = Part(sub[n], up, d)
      BY <1>5, <1>7 DEF Under
    <3> QED
      BY <1>7, <2>3, <3>1, <3>2
  <2>4. CASE m = up /\ e = Opp(d)
    <3>1. t2.kid[m][e] = t.kid[m][e] /\ t.kid[m][e] # n /\ t.kid[m][e] # up
      BY <1>3, <1>4, <1>5, <1>8, <2>4
    <3>2. Under(sub2, t.kid[m][e]) = Part(sub[m], m, e)
      BY <1>6, <1>7, <3>1 DEF Under
    <3>3. Part(sub[up], up, Opp(d)) = Part(sub[n], up, Opp(d))
      BY <1>5, <1>9, <2>0 DEF Part
    <3> QED
      BY <1>6, <1>7, <2>4, <3>1, <3>2, <3>3
  <2>5. CASE m # n /\ m # up /\ t.kid[m][e] = n
    <3>1. t2.kid[m][e] = up /\ Under(sub2, up) = sub[n]
      BY <1>3, <1>4, <1>5, <1>7, <2>5 DEF Under
    <3>2. Under(sub, n) = Part(sub[m], m, e)
      BY <1>6, <2>5
    <3> QED
      BY <1>3, <1>5, <1>7, <2>5, <3>1, <3>2 DEF Under
  <2>6. CASE m # n /\ m # up /\ t.kid[m][e] # n
    <3>1. t2.kid[m][e] = t.kid[m][e] /\ t.kid[m][e] # up
      BY <1>3, <1>4, <1>5, <2>6
    <3>2. Under(sub2, t.kid[m][e]) = Part(sub[m], m, e)
      BY <1>6, <1>7, <2>6, <3>1 DEF Under
    <3> QED
      BY <1>6, <1>7, <2>6, <3>1, <3>2
  <2> QED
    BY <1>8, <2>1, <2>2, <2>3, <2>4, <2>5, <2>6
<1> QED
  BY <1>5, <1>7, <1>10, <1>11, <1>12 DEF Below

\* The parent pointers after the rotation.
LEMMA RotateLinks ==
    ASSUME NEW t, NEW S, NEW sub, Shaped(t, S, sub),
           NEW n \in S, NEW d \in Dirs,
           NEW up, up = t.kid[n][Opp(d)], up # NULL,
           NEW t2, Typed(t2), Rotated(t, t2, n, d)
    PROVE  Links(t2, S)
<1>1. PICK mid : mid = t.kid[up][d]
  OBVIOUS
<1>2. PICK p : p = t.parent[n]
  OBVIOUS
<1>3. /\ up \in S /\ up # n /\ mid \in S \union {NULL} /\ mid # n /\ mid # up
      /\ p \in S \union {NULL} /\ p # n /\ p # up
      /\ (p = NULL <=> n = t.root) /\ up # t.root
      /\ \A m \in S, e \in Dirs : t.kid[m][e] = n => m = p
      /\ \A m \in S, e \in Dirs : t.kid[m][e] = up => m = n
      /\ \A m \in S, e \in Dirs : t.kid[m][e] = mid /\ mid # NULL => m = up
  BY <1>1, <1>2, RotatedNodes
<1>4. /\ t2.root = IF n = t.root THEN up ELSE t.root
      /\ \A m \in Keys, e \in Dirs : t2.kid[m][e] =
               IF m = n /\ e = Opp(d) THEN mid
               ELSE IF m = up /\ e = d THEN n
               ELSE IF m = p /\ t.kid[m][e] = n THEN up ELSE t.kid[m][e]
      /\ \A m \in Keys : t2.parent[m] =
               IF m = n THEN up ELSE IF m = up THEN p
               ELSE IF m = mid THEN n ELSE t.parent[m]
  BY <1>1, <1>2 DEF Rotated
<1>5. /\ \A m \in S, e \in Dirs : t.kid[m][e] \in S \union {NULL}
      /\ S \subseteq Keys /\ NULL \notin S
  BY KeysAssumption DEF Shaped, Below
<1>6. /\ \A m \in S, e \in Dirs : t.kid[m][e] # NULL => t.parent[t.kid[m][e]] = m
      /\ \A m \in S : m = t.root => t.parent[m] = NULL
      /\ \A m \in S : m # t.root =>
            t.parent[m] \in S /\ \E e \in Dirs : t.kid[t.parent[m]][e] = m
  BY DEF Shaped, Links
<1>7. Opp(d) \in Dirs /\ Opp(d) # d /\ \A e \in Dirs : e = d \/ e = Opp(d)
  BY OnOrder
<1>8. ASSUME NEW m \in S, NEW e \in Dirs, t2.kid[m][e] # NULL
      PROVE  t2.parent[t2.kid[m][e]] = m
  <2>1. CASE m = n /\ e = Opp(d)
    BY <1>3, <1>4, <1>5, <1>8, <2>1
  <2>2. CASE m = up /\ e = d
    BY <1>3, <1>4, <1>5, <1>8, <2>2
  <2>3. CASE ~(m = n /\ e = Opp(d)) /\ ~(m = up /\ e = d) /\ m = p /\ t.kid[m][e] = n
    BY <1>3, <1>4, <1>5, <1>8, <2>3
  <2>4. CASE ~(m = n /\ e = Opp(d)) /\ ~(m = up /\ e = d) /\ t.kid[m][e] # n
    <3>1. t2.kid[m][e] = t.kid[m][e] /\ t.kid[m][e] \in S
      BY <1>4, <1>5, <1>8, <2>4
    <3>2. t.kid[m][e] # up
      <4>1. t.kid[n][Opp(Opp(d))] # up
        BY <1>7, KidFacts
      <4> QED
        BY <1>3, <1>7, <2>4, <4>1, OnOrder
    <3>3. t.kid[m][e] # mid
      <4>1. mid # NULL => t.kid[up][Opp(d)] # mid
        BY <1>1, <1>3, KidFacts
      <4> QED
        BY <1>3, <1>5, <1>7, <2>4, <3>1, <4>1
    <3>4. t.parent[t.kid[m][e]] = m
      BY <1>5, <1>6, <3>1
    <3> QED
      BY <1>4, <1>5, <2>4, <3>1, <3>2, <3>3, <3>4
  <2> QED
    BY <1>3, <2>1, <2>2, <2>3, <2>4
<1>9. ASSUME NEW m \in S, m = t2.root PROVE t2.parent[m] = NULL
  <2>1. CASE n = t.root
    BY <1>3, <1>4, <1>5, <1>9, <2>1
  <2>2. CASE n # t.root
    <3>1. m = t.root /\ m # n /\ m # up /\ t.parent[m] = NULL
      BY <1>3, <1>4, <1>6, <1>9, <2>2
    <3>2. m # mid
      <4>1. mid # NULL => t.parent[mid] = up
        BY <1>1, <1>3, <1>6
      <4> QED
        BY <1>3, <1>5, <3>1, <4>1
    <3> QED
      BY <1>4, <1>5, <3>1, <3>2
  <2> QED
    BY <2>1, <2>2
<1>10. ASSUME NEW m \in S, m # t2.root
       PROVE  t2.parent[m] \in S /\ \E e \in Dirs : t2.kid[t2.parent[m]][e] = m
  <2>1. CASE m = n
    <3>1. t2.parent[m] = up /\ t2.kid[up][d] = m
      BY <1>3, <1>4, <1>5, <2>1
    <3> QED
      BY <1>3, <3>1
  <2>2. CASE m = up
    <3>1. t2.parent[m] = p /\ n # t.root /\ p \in S
      BY <1>3, <1>4, <1>5, <1>10, <2>2
    <3>2. PICK e \in Dirs : t.kid[p][e] = n
      BY <1>2, <1>6, <3>1
    <3>3. t2.kid[p][e] = up
      BY <1>3, <1>4, <1>5, <3>1, <3>2
    <3> QED
      BY <2>2, <3>1, <3>3
  <2>3. CASE m = mid /\ m # n /\ m # up
    <3>1. t2.parent[m] = n /\ t2.kid[n][Opp(d)] = m
      BY <1>3, <1>4, <1>5, <1>7, <2>3
    <3> QED
      BY <1>7, <3>1
  <2>4. CASE m # n /\ m # up /\ m # mid
    <3>1. PICK q : q = t.parent[m]
      OBVIOUS
    <3>2. t2.parent[m] = q /\ m # t.root
      BY <1>3, <1>4, <1>5, <1>10, <2>4, <3>1
    <3>3. q \in S /\ \E e \in Dirs : t.kid[q][e] = m
      BY <1>6, <3>1, <3>2
    <3>4. PICK e \in Dirs : t.kid[q][e] = m
      BY <3>3
    <3>5. ~(q = n /\ e = Opp(d)) /\ ~(q = up /\ e = d)
      BY <1>1, <2>4, <3>4
    <3>6. t2.kid[q][e] = m
      BY <1>4, <1>5, <2>4, <3>3, <3>4, <3>5
    <3> QED
      BY <3>2, <3>3, <3>6
  <2> QED
    BY <2>1, <2>2, <2>3, <2>4
<1> QED
  BY <1>8, <1>9, <1>10 DEF Links

\* A rotation leaves a search tree of the same nodes.
LEMMA RotateShape ==
    ASSUME NEW t, NEW S, NEW sub, Shaped(t, S, sub),
           NEW n \in S, NEW d \in Dirs, t.kid[n][Opp(d)] # NULL,
           NEW t2, Typed(t2), Rotated(t, t2, n, d)
    PROVE  Shaped(t2, S, SubRotated(t, sub, n, d))
<1>1. Below(t2, S, SubRotated(t, sub, n, d))
  BY RotateBelow
<1>2. Links(t2, S)
  BY RotateLinks
<1> QED
  BY <1>1, <1>2 DEF Shaped

-----------------------------------------------------------------------------
(* Colours *)

\* The pointers are the same.
SamePointers(t, u) == u.root = t.root /\ u.kid = t.kid /\ u.parent = t.parent

\* u is t with the nodes of X in the colour b.
Coloured(t, u, X, b) ==
    /\ Typed(u) /\ SamePointers(t, u)
    /\ \A m \in Keys : u.black[m] = IF m \in X THEN b ELSE t.black[m]

\* SetColour, by fields.
LEMMA ColourFields ==
    ASSUME NEW t, Typed(t), NEW X, NEW b \in BOOLEAN
    PROVE  Coloured(t, SetColour(t, X, b), X, b)
<1>1. PICK f : f = [n \in Keys |-> IF n \in X THEN b ELSE t.black[n]]
  OBVIOUS
<1>2. f \in [Keys -> BOOLEAN] /\ \A m \in Keys : f[m] = IF m \in X THEN b ELSE t.black[m]
  BY <1>1 DEF Typed
<1>3. PICK u : u = SetColour(t, X, b)
  OBVIOUS
<1>4. u = [t EXCEPT !.black = f]
  BY <1>1, <1>3 DEF SetColour
<1>5. Typed(u) /\ u.root = t.root /\ u.kid = t.kid /\ u.parent = t.parent /\ u.black = f
  BY <1>2, <1>4, FieldUpdates
<1>6. Coloured(t, u, X, b)
  BY <1>2, <1>5 DEF Coloured, SamePointers
<1> QED
  BY <1>3, <1>6

\* Two colourings, one after the other.
Painted(t, u, X, b, Y, c) ==
    /\ Typed(u) /\ SamePointers(t, u)
    /\ \A m \in Keys : u.black[m] = IF m \in Y THEN c ELSE IF m \in X THEN b ELSE t.black[m]

\* The fields after two assignments of colours.
LEMMA ColourTwice ==
    ASSUME NEW t, Typed(t), NEW X, NEW b \in BOOLEAN, NEW Y, NEW c \in BOOLEAN
    PROVE  Painted(t, SetColour(SetColour(t, X, b), Y, c), X, b, Y, c)
<1> DEFINE u == SetColour(SetColour(t, X, b), Y, c)
<1>1. PICK s : s = SetColour(t, X, b)
  OBVIOUS
<1>2. Coloured(t, s, X, b)
  BY <1>1, ColourFields
<1>3. Typed(s)
  BY <1>2 DEF Coloured
<1>4. Coloured(s, u, Y, c)
  BY <1>1, <1>3, ColourFields
<1> QED
  BY <1>2, <1>4 DEF Coloured, SamePointers, Painted

\* The colours of t2 are those of t with the nodes of B made black and then
\* those of R red.
Tones(t, t2, B, R) ==
    \A m \in Keys : t2.black[m] <=> m \notin R /\ (m \in B \/ t.black[m])

Recoloured(t, t2, B, R) == Typed(t2) /\ SamePointers(t, t2) /\ Tones(t, t2, B, R)

\* The fields when B turns black and then R red.
LEMMA BlackThenRed ==
    ASSUME NEW t, Typed(t), NEW B, NEW R
    PROVE  Recoloured(t, SetColour(SetColour(t, B, TRUE), R, FALSE), B, R)
<1>1. PICK u : u = SetColour(SetColour(t, B, TRUE), R, FALSE)
  OBVIOUS
<1>2. Painted(t, u, B, TRUE, R, FALSE)
  BY <1>1, ColourTwice
<1>3. Typed(u) /\ SamePointers(t, u)
  BY <1>2 DEF Painted
<1>4. \A m \in Keys : u.black[m] <=> m \notin R /\ (m \in B \/ t.black[m])
  BY <1>2, Zenon DEF Painted
<1>5. Recoloured(t, u, B, R)
  BY <1>3, <1>4 DEF Recoloured, Tones
<1> QED
  BY <1>1, <1>5

\* The shape is one of pointers.
LEMMA SameShape ==
    ASSUME NEW t, NEW S, NEW sub, Shaped(t, S, sub), NEW u, Typed(u), SamePointers(t, u)
    PROVE  Shaped(u, S, sub)
<1>1. Below(u, S, sub)
  BY DEF Shaped, Below, SamePointers
<1>2. Links(u, S)
  BY DEF Shaped, Links, SamePointers
<1> QED
  BY <1>1, <1>2 DEF Shaped

\* A tree that is coloured and then rotated.
LEMMA TurnFacts ==
    ASSUME NEW t, NEW S, NEW sub, Shaped(t, S, sub), NEW u, Typed(u), SamePointers(t, u),
           NEW n \in S, NEW d \in Dirs, t.kid[n][Opp(d)] # NULL,
           NEW t2, t2 = Rotate(u, n, d)
    PROVE  /\ Typed(t2) /\ Rotated(t, t2, n, d) /\ t2.black = u.black
           /\ Shaped(t2, S, SubRotated(t, sub, n, d))
<1>1. Shaped(u, S, sub)
  BY SameShape
<1>2. u.kid[n][Opp(d)] # NULL
  BY DEF SamePointers
<1>3. Typed(t2) /\ Rotated(u, t2, n, d) /\ t2.black = u.black
  BY <1>1, <1>2, RotateFields
<1>4. Rotated(t, t2, n, d)
  BY <1>3 DEF Rotated, SamePointers
<1>5. Shaped(t2, S, SubRotated(t, sub, n, d))
  BY <1>3, <1>4, RotateShape
<1> QED
  BY <1>3, <1>4, <1>5

\* 1 for a black node.
Weight(t, n) == IF t.black[n] THEN 1 ELSE 0

\* 1 for the one place where a black node is missing.
Lack(n, d, q, e) == IF n = q /\ d = e THEN 1 ELSE 0

\* Below n there are bh[n] black nodes on every path, if one more is counted
\* for the child of q on side e (nowhere if q is NULL).
Heights(t, S, bh, q, e) ==
    /\ bh \in [S \union {NULL} -> Nat] /\ bh[NULL] = 0
    /\ \A n \in S, d \in Dirs :
        bh[n] = bh[t.kid[n][d]] + Weight(t, n) + Lack(n, d, q, e)

\* No red node is under a red one, save x under its parent and what is
\* under y.
Reds(t, S, x, y) ==
    \A n \in S, d \in Dirs :
        IsRed(t, t.kid[n][d]) /\ t.kid[n][d] # x /\ n # y => t.black[n]

\* The root is black, unless it is x.
RootBlack(t, x) == IsRed(t, t.root) => t.root = x

\* The nodes at a rotation of n to side d.
TurnNodes(t, n, d, up, mid, low, out) ==
    /\ up = t.kid[n][Opp(d)] /\ up # NULL
    /\ mid = t.kid[up][d] /\ low = t.kid[n][d] /\ out = t.kid[up][Opp(d)]

\* Heights bh2 after it: the equations of n and up hold, up is as high as n
\* was, out may have changed its colour.
HeightsAbove(t, t2, S, n, up, out, bh, bh2) ==
    /\ bh2 \in [S \union {NULL} -> Nat] /\ bh2[NULL] = 0 /\ bh2[up] = bh[n]
    /\ \A m \in S : m # n /\ m # up /\ m # out =>
            bh2[m] = bh[m] /\ t2.black[m] = t.black[m]
    /\ out # NULL => bh2[out] + Weight(t, out) = bh[out] + Weight(t2, out)
HeightsAt(t2, n, d, up, mid, low, out, bh2, q2, e2) ==
    /\ bh2[n] = bh2[mid] + Weight(t2, n) + Lack(n, Opp(d), q2, e2)
    /\ bh2[n] = bh2[low] + Weight(t2, n) + Lack(n, d, q2, e2)
    /\ bh2[up] = bh2[n] + Weight(t2, up) + Lack(up, d, q2, e2)
    /\ bh2[up] = bh2[out] + Weight(t2, up) + Lack(up, Opp(d), q2, e2)

\* What is missing elsewhere stays missing.
LackAbove(S, n, up, q, e, q2, e2) ==
    \A m \in S, f \in Dirs : m # n /\ m # up => Lack(m, f, q2, e2) = Lack(m, f, q, e)

\* The equations of the heights after a rotation: those of the nodes that
\* it moves are to be given.
LEMMA TurnHeights ==
    ASSUME NEW t, NEW S, NEW sub, Shaped(t, S, sub), NEW n \in S, NEW d \in Dirs,
           NEW up, NEW mid, NEW low, NEW out, TurnNodes(t, n, d, up, mid, low, out),
           NEW t2, Typed(t2), Rotated(t, t2, n, d),
           NEW bh, NEW q, NEW e, Heights(t, S, bh, q, e),
           NEW bh2, NEW q2, NEW e2, HeightsAbove(t, t2, S, n, up, out, bh, bh2),
           LackAbove(S, n, up, q, e, q2, e2),
           HeightsAt(t2, n, d, up, mid, low, out, bh2, q2, e2)
    PROVE  Heights(t2, S, bh2, q2, e2)
<1>a. /\ up = t.kid[n][Opp(d)] /\ up # NULL
      /\ mid = t.kid[up][d] /\ low = t.kid[n][d] /\ out = t.kid[up][Opp(d)]
  BY DEF TurnNodes
<1>b. /\ bh2 \in [S \union {NULL} -> Nat] /\ bh2[NULL] = 0 /\ bh2[up] = bh[n]
      /\ \A m \in S : m # n /\ m # up /\ m # out =>
            bh2[m] = bh[m] /\ t2.black[m] = t.black[m]
      /\ out # NULL => bh2[out] + Weight(t, out) = bh[out] + Weight(t2, out)
  BY DEF HeightsAbove
<1>c. \A m \in S, f \in Dirs : m # n /\ m # up => Lack(m, f, q2, e2) = Lack(m, f, q, e)
  BY DEF LackAbove
<1>d. /\ bh2[n] = bh2[mid] + Weight(t2, n) + Lack(n, Opp(d), q2, e2)
      /\ bh2[n] = bh2[low] + Weight(t2, n) + Lack(n, d, q2, e2)
      /\ bh2[up] = bh2[n] + Weight(t2, up) + Lack(up, d, q2, e2)
      /\ bh2[up] = bh2[out] + Weight(t2, up) + Lack(up, Opp(d), q2, e2)
  BY DEF HeightsAt
<1>2. PICK p : p = t.parent[n]
  OBVIOUS
<1>3. /\ up \in S /\ up # n /\ mid \in S \union {NULL} /\ mid # n /\ mid # up
      /\ p \in S \union {NULL} /\ p # n /\ p # up
      /\ \A m \in S, f \in Dirs : t.kid[m][f] = n => m = p
      /\ \A m \in S, f \in Dirs : t.kid[m][f] = up => m = n
  BY <1>2, <1>a, RotatedNodes
<1>4. \A m \in Keys, f \in Dirs : t2.kid[m][f] =
               IF m = n /\ f = Opp(d) THEN mid
               ELSE IF m = up /\ f = d THEN n
               ELSE IF m = p /\ t.kid[m][f] = n THEN up ELSE t.kid[m][f]
  BY <1>2, <1>a DEF Rotated
<1>5. /\ \A m \in S, f \in Dirs : t.kid[m][f] \in S \union {NULL}
      /\ S \subseteq Keys /\ NULL \notin S
  BY KeysAssumption DEF Shaped, Below
<1>7. Opp(d) \in Dirs /\ Opp(d) # d /\ \A f \in Dirs : f = d \/ f = Opp(d)
  BY OnOrder
<1>8. /\ bh \in [S \union {NULL} -> Nat] /\ bh[NULL] = 0
      /\ \A m \in S, f \in Dirs : bh[m] = bh[t.kid[m][f]] + Weight(t, m) + Lack(m, f, q, e)
  BY DEF Heights
<1>9. out \in S \union {NULL} /\ out # n /\ out # up /\ \A m \in S, f \in Dirs : out # NULL /\ t.kid[m][f] = out => m = up
  <2>1. out \in S \union {NULL}
    BY <1>3, <1>5, <1>7, <1>a
  <2>a. out # NULL => KidOf(t, S, sub, up, Opp(d), out)
    BY <1>3, <1>7, <1>a, KidIs
  <2>2. out # NULL => out # up /\ t.parent[out] = up
    BY <2>a DEF KidOf
  <2>3. \A m \in S, f \in Dirs : t.kid[m][f] # NULL => t.parent[t.kid[m][f]] = m
    BY DEF Shaped, Links
  <2>4. out # n
    BY <1>3, <1>7, <1>a
  <2>5. out # up
    BY <2>2, <1>a
  <2>6. \A m \in S, f \in Dirs : out # NULL /\ t.kid[m][f] = out => m = up
    BY <2>2, <2>3
  <2> QED
    BY <2>1, <2>4, <2>5, <2>6
<1>10. ASSUME NEW m \in S, NEW f \in Dirs
       PROVE  bh2[m] = bh2[t2.kid[m][f]] + Weight(t2, m) + Lack(m, f, q2, e2)
  <2>1. CASE m = n /\ f = Opp(d)
    <3>1. t2.kid[m][f] = mid
      BY <1>4, <1>5, <2>1
    <3> QED
      BY <1>d, <2>1, <3>1
  <2>2. CASE m = n /\ f = d
    <3>1. t2.kid[m][f] = low
      BY <1>a, <1>3, <1>4, <1>5, <1>7, <2>2
    <3> QED
      BY <1>d, <2>2, <3>1
  <2>3. CASE m = up /\ f = d
    <3>1. t2.kid[m][f] = n
      BY <1>3, <1>4, <1>5, <2>3
    <3> QED
      BY <1>d, <2>3, <3>1
  <2>4. CASE m = up /\ f = Opp(d)
    <3>1. t2.kid[m][f] = out
      BY <1>a, <1>3, <1>4, <1>5, <1>7, <2>4
    <3> QED
      BY <1>d, <2>4, <3>1
  <2>5. CASE m # n /\ m # up
    <3>1. PICK c : c = t.kid[m][f]
      OBVIOUS
    <3>2. bh2[t2.kid[m][f]] = bh[c]
      <4>1. CASE c = n
        <5>1. m = p /\ m \in Keys
          BY <1>3, <1>5, <3>1, <4>1
        <5>2. t2.kid[m][f] = up
          <6>1. t2.kid[m][f] = IF m = n /\ f = Opp(d) THEN mid ELSE IF m = up /\ f = d THEN n
                   ELSE IF m = p /\ t.kid[m][f] = n THEN up ELSE t.kid[m][f]
            BY <1>4, <5>1
          <6> QED
            BY <6>1, <2>5, <3>1, <4>1, <5>1
        <5> QED
          BY <1>b, <4>1, <5>2
      <4>2. CASE c # n
        <5>1. t2.kid[m][f] = c /\ c # up /\ (c # NULL => c # out /\ c \in S)
          BY <1>3, <1>4, <1>5, <1>9, <2>5, <3>1, <4>2
        <5> QED
          BY <1>b, <1>8, <4>2, <5>1
      <4> QED
        BY <4>1, <4>2
    <3>3. bh[m] = bh[c] + Weight(t, m) + Lack(m, f, q, e) /\ c \in S \union {NULL}
      BY <1>5, <1>8, <3>1
    <3>4. Lack(m, f, q2, e2) = Lack(m, f, q, e)
      BY <1>c, <2>5
    <3>5. CASE m # out
      <4>1. bh2[m] = bh[m] /\ Weight(t2, m) = Weight(t, m)
        BY <1>b, <2>5, <3>5 DEF Weight
      <4> QED
        BY <3>2, <3>3, <3>4, <4>1
    <3>6. CASE m = out
      <4>1. bh2[m] + Weight(t, m) = bh[m] + Weight(t2, m)
        BY <1>b, <1>5, <3>6
      <4>2. /\ Weight(t, m) \in Nat /\ Weight(t2, m) \in Nat /\ Lack(m, f, q, e) \in Nat
            /\ bh2[m] \in Nat /\ bh[m] \in Nat /\ bh[c] \in Nat
        BY <1>b, <1>8, <3>3 DEF Weight, Lack
      <4> QED
        BY <3>2, <3>3, <3>4, <4>1, <4>2
    <3> QED
      BY <3>5, <3>6
  <2> QED
    BY <1>7, <2>1, <2>2, <2>3, <2>4, <2>5
<1> QED
  BY <1>b, <1>10 DEF Heights

\* No red node under a red one after a rotation, when that holds of the nodes
\* that it moves and others are only made black.
RedsAbove(t, t2, S, n, up, x, y, x2) ==
    /\ \A m \in S : m # n /\ m # up => (t.black[m] => t2.black[m])
    /\ \A m \in S : m # n /\ m # up => m # y /\ (m = x => m = x2 \/ t2.black[m])
    /\ t2.black[up] \/ up = x2 \/ ~(t.black[n] \/ n = x)
RedsAt(t2, n, up, mid, low, out, x2, y2) ==
    /\ IsRed(t2, mid) => t2.black[n] \/ mid = x2 \/ n = y2
    /\ IsRed(t2, low) => t2.black[n] \/ low = x2 \/ n = y2
    /\ t2.black[n] \/ t2.black[up] \/ n = x2 \/ up = y2
    /\ IsRed(t2, out) => t2.black[up] \/ out = x2 \/ up = y2

\* A rotation makes no red child of a red node but where x2 and y2 allow it.
LEMMA TurnReds ==
    ASSUME NEW t, NEW S, NEW sub, Shaped(t, S, sub), NEW n \in S, NEW d \in Dirs,
           NEW up, NEW mid, NEW low, NEW out, TurnNodes(t, n, d, up, mid, low, out),
           NEW t2, Typed(t2), Rotated(t, t2, n, d),
           NEW x, NEW y, Reds(t, S, x, y), NEW x2, NEW y2,
           RedsAbove(t, t2, S, n, up, x, y, x2), RedsAt(t2, n, up, mid, low, out, x2, y2)
    PROVE  Reds(t2, S, x2, y2)
<1>a. /\ up = t.kid[n][Opp(d)] /\ up # NULL
      /\ mid = t.kid[up][d] /\ low = t.kid[n][d] /\ out = t.kid[up][Opp(d)]
  BY DEF TurnNodes
<1>b. /\ \A m \in S : m # n /\ m # up => (t.black[m] => t2.black[m])
      /\ \A m \in S : m # n /\ m # up => m # y /\ (m = x => m = x2 \/ t2.black[m])
      /\ t2.black[up] \/ up = x2 \/ ~(t.black[n] \/ n = x)
  BY DEF RedsAbove
<1>c. /\ IsRed(t2, mid) => t2.black[n] \/ mid = x2 \/ n = y2
      /\ IsRed(t2, low) => t2.black[n] \/ low = x2 \/ n = y2
      /\ t2.black[n] \/ t2.black[up] \/ n = x2 \/ up = y2
      /\ IsRed(t2, out) => t2.black[up] \/ out = x2 \/ up = y2
  BY DEF RedsAt
<1>2. PICK p : p = t.parent[n]
  OBVIOUS
<1>3. /\ up \in S /\ up # n /\ mid \in S \union {NULL} /\ mid # n /\ mid # up
      /\ p \in S \union {NULL} /\ p # n /\ p # up
      /\ \A m \in S, f \in Dirs : t.kid[m][f] = n => m = p
      /\ \A m \in S, f \in Dirs : t.kid[m][f] = up => m = n
  BY <1>2, <1>a, RotatedNodes
<1>4. \A m \in Keys, f \in Dirs : t2.kid[m][f] =
               IF m = n /\ f = Opp(d) THEN mid
               ELSE IF m = up /\ f = d THEN n
               ELSE IF m = p /\ t.kid[m][f] = n THEN up ELSE t.kid[m][f]
  BY <1>2, <1>a DEF Rotated
<1>5. /\ \A m \in S, f \in Dirs : t.kid[m][f] \in S \union {NULL}
      /\ S \subseteq Keys /\ NULL \notin S
  BY KeysAssumption DEF Shaped, Below
<1>7. Opp(d) \in Dirs /\ Opp(d) # d /\ \A f \in Dirs : f = d \/ f = Opp(d)
  BY OnOrder
<1>10. ASSUME NEW m \in S, NEW f \in Dirs, IsRed(t2, t2.kid[m][f]),
              t2.kid[m][f] # x2, m # y2
       PROVE  t2.black[m]
  <2>1. CASE m = n /\ f = Opp(d)
    <3>1. t2.kid[m][f] = mid
      BY <1>4, <1>5, <2>1
    <3> QED
      BY <1>c, <2>1, <3>1, <1>10
  <2>2. CASE m = n /\ f = d
    <3>1. t2.kid[m][f] = low
      BY <1>a, <1>3, <1>4, <1>5, <1>7, <2>2
    <3> QED
      BY <1>c, <2>2, <3>1, <1>10
  <2>3. CASE m = up /\ f = d
    <3>1. t2.kid[m][f] = n
      BY <1>3, <1>4, <1>5, <2>3
    <3> QED
      BY <1>c, <2>3, <3>1, <1>10 DEF IsRed
  <2>4. CASE m = up /\ f = Opp(d)
    <3>1. t2.kid[m][f] = out
      BY <1>a, <1>3, <1>4, <1>5, <1>7, <2>4
    <3> QED
      BY <1>c, <2>4, <3>1, <1>10
  <2>5. CASE m # n /\ m # up
    <3>1. PICK c : c = t.kid[m][f]
      OBVIOUS
    <3>2. IsRed(t, c) /\ c # x
      <4>1. CASE c = n
        <5>a. m = p /\ m \in Keys
          BY <1>3, <1>5, <3>1, <4>1
        <5>1. t2.kid[m][f] = up
          <6>1. t2.kid[m][f] = IF m = n /\ f = Opp(d) THEN mid ELSE IF m = up /\ f = d THEN n
                   ELSE IF m = p /\ t.kid[m][f] = n THEN up ELSE t.kid[m][f]
            BY <1>4, <5>a
          <6> QED
            BY <6>1, <2>5, <3>1, <4>1, <5>a
        <5> QED
          BY <1>b, <1>5, <1>10, <4>1, <5>1 DEF IsRed
      <4>2. CASE c # n
        <5>1. t2.kid[m][f] = c /\ c # up /\ c \in S \union {NULL}
          BY <1>3, <1>4, <1>5, <2>5, <3>1, <4>2
        <5> QED
          BY <1>b, <1>10, <4>2, <5>1 DEF IsRed
      <4> QED
        BY <4>1, <4>2
    <3>3. t.black[m]
      BY <1>b, <2>5, <3>1, <3>2 DEF Reds
    <3> QED
      BY <1>b, <2>5, <3>3
  <2> QED
    BY <1>7, <2>1, <2>2, <2>3, <2>4, <2>5
<1> QED
  BY <1>10 DEF Reds

-----------------------------------------------------------------------------
(* The rounds of rb_insert_color *)

\* Between two rounds only the red node x may have a red parent.
Inserting(t, S, bh, x) ==
    /\ x \in S /\ ~t.black[x]
    /\ Heights(t, S, bh, NULL, "left") /\ Reds(t, S, x, NULL) /\ RootBlack(t, x)

\* What a round finds above x: its red parent f, the black grandparent g
\* that has f on side s, and the uncle u.
Family(t, S, x, f, g, s, u) ==
    /\ f \in S /\ g \in S /\ s \in Dirs /\ u \in S \union {NULL}
    /\ f = t.parent[x] /\ g = t.parent[f] /\ s = Side(t, g, f)
    /\ t.kid[g][s] = f /\ t.kid[g][Opp(s)] = u
    /\ f # x /\ g # x /\ g # f /\ u # f /\ u # g /\ u # x
    /\ f # t.root /\ x # t.root
    /\ ~t.black[f] /\ t.black[g] = TRUE
    /\ x \in {t.kid[f][s], t.kid[f][Opp(s)]}

\* The relatives of the red node x that a round of rb_insert_color looks at.
LEMMA InsertFacts ==
    ASSUME NEW t, NEW S, NEW sub, Shaped(t, S, sub), NEW bh, NEW x, Inserting(t, S, bh, x),
           NEW f, f = t.parent[x], IsRed(t, f), NEW g, g = t.parent[f],
           NEW s, s = Side(t, g, f), NEW u, u = t.kid[g][Opp(s)]
    PROVE  Family(t, S, x, f, g, s, u)
<1>0. x \in S /\ S \subseteq Keys /\ NULL \notin S /\ Typed(t)
  BY KeysAssumption DEF Inserting, Shaped, Below
<1>1. f \in S /\ f # x /\ x # t.root /\ x = t.kid[f][Side(t, f, x)] /\ Side(t, f, x) \in Dirs
  BY <1>0, ParentFacts DEF IsRed
<1>2. f # t.root
  BY <1>1 DEF Inserting, RootBlack
<1>3. g \in S /\ g # NULL /\ g # f /\ s \in Dirs /\ f = t.kid[g][s]
  BY <1>1, <1>2, ParentFacts
<1>4. t.black[g]
  BY <1>0, <1>1, <1>3 DEF Inserting, Reds
<1>a. f # NULL /\ g \in S /\ s \in Dirs /\ f = t.kid[g][s]
  BY <1>0, <1>1, <1>3
<1>e. KidOf(t, S, sub, g, s, f)
  BY <1>a, KidIs
<1>b. t.kid[g][Opp(s)] # f /\ \A e \in Dirs : t.kid[f][e] # g
  BY <1>e DEF KidOf
<1>c. PICK s2 \in Dirs : s2 = Opp(s)
  BY <1>a, OnOrder
<1>5. Opp(s) \in Dirs /\ u # f /\ u \in S \union {NULL}
  BY <1>a, <1>b, <1>c DEF Shaped, Below
<1>d. u = t.kid[g][s2]
  BY <1>c
<1>f. u # NULL => KidOf(t, S, sub, g, s2, u)
  BY <1>a, <1>d, KidIs
<1>6. u # NULL => u # g /\ t.parent[u] = g
  BY <1>f DEF KidOf
<1>7. g # x
  BY <1>1, <1>b
<1>8. u # x /\ u # g
  BY <1>0, <1>3, <1>6
<1>9. x \in {t.kid[f][s], t.kid[f][Opp(s)]}
  BY <1>1, <1>3, OnOrder
<1>10. t.black[g] = TRUE
  BY <1>0, <1>3, <1>4 DEF Typed
<1> QED
  BY <1>1, <1>2, <1>3, <1>5, <1>7, <1>8, <1>9, <1>10 DEF Family, IsRed

\* A red uncle: the colours go up.
Lifted(t, t2, u, f, g) == Recoloured(t, t2, {u, f}, {g})

\* A round with a red uncle: the excess of red moves up to the grandparent.
LEMMA InsertRecolourStep ==
    ASSUME NEW t, NEW S, NEW sub, Shaped(t, S, sub), NEW bh, NEW x, Inserting(t, S, bh, x),
           NEW f, NEW g, NEW s, NEW u, Family(t, S, x, f, g, s, u), IsRed(t, u),
           NEW t2, Lifted(t, t2, u, f, g)
    PROVE  /\ \A m \in Keys \ S : t2.black[m] = t.black[m]
           /\ \E bh2 : Inserting(t2, S, bh2, g)
<1>0. Typed(t) /\ S \subseteq Keys /\ NULL \notin S
      /\ \A m \in S, d \in Dirs : t.kid[m][d] \in S \union {NULL}
  BY KeysAssumption DEF Shaped, Below
<1>1. /\ Typed(t2) /\ SamePointers(t, t2)
      /\ \A m \in Keys : t2.black[m] <=> m \notin {g} /\ (m \in {u, f} \/ t.black[m])
      /\ \A m \in Keys : t2.black[m] \in BOOLEAN /\ t.black[m] \in BOOLEAN
  BY <1>0 DEF Lifted, Recoloured, Typed, Tones
<1>2. t2.kid = t.kid /\ t2.root = t.root
  BY <1>1 DEF SamePointers
<1>a. u # NULL /\ ~t.black[u]
  BY DEF IsRed
<1>b. /\ f \in S /\ g \in S /\ s \in Dirs /\ u \in S \union {NULL}
      /\ t.kid[g][s] = f /\ t.kid[g][Opp(s)] = u
      /\ g # f /\ u # f /\ u # g /\ g # x /\ f # x /\ u # x
      /\ ~t.black[f] /\ t.black[g] = TRUE /\ f # t.root
  BY DEF Family
<1>3. /\ f \in S /\ g \in S /\ s \in Dirs /\ u \in S /\ u # NULL
      /\ t.kid[g][s] = f /\ t.kid[g][Opp(s)] = u
      /\ g # f /\ u # f /\ u # g /\ g # x /\ f # x /\ u # x
      /\ ~t.black[f] /\ t.black[g] = TRUE /\ f # t.root /\ ~t.black[u]
  BY <1>a, <1>b
<1>4. /\ bh \in [S \union {NULL} -> Nat] /\ bh[NULL] = 0
      /\ \A m \in S, d \in Dirs : bh[m] = bh[t.kid[m][d]] + Weight(t, m)
  <2>1. /\ bh \in [S \union {NULL} -> Nat] /\ bh[NULL] = 0
        /\ \A m \in S, d \in Dirs : bh[m] = bh[t.kid[m][d]] + Weight(t, m) + Lack(m, d, NULL, "left")
    BY DEF Inserting, Heights
  <2>2. \A m \in S, d \in Dirs : Lack(m, d, NULL, "left") = 0 /\ Weight(t, m) \in Nat /\ bh[t.kid[m][d]] \in Nat
    BY <1>0, <2>1 DEF Lack, Weight
  <2> QED
    BY <2>1, <2>2
<1>c. PICK bh2 : bh2 = [m \in S \union {NULL} |-> IF m \in {f, u} THEN bh[m] + 1 ELSE bh[m]]
  OBVIOUS
<1>d. \A m \in S \union {NULL} : bh2[m] = IF m \in {f, u} THEN bh[m] + 1 ELSE bh[m]
  BY <1>c
<1>5. bh2 \in [S \union {NULL} -> Nat] /\ bh2[NULL] = 0
  BY <1>0, <1>3, <1>4, <1>c
<1>6. \A m \in S, d \in Dirs : t.kid[m][d] \in {f, u} => m = g
  <2>1. \A m \in S, d \in Dirs : t.kid[m][d] # NULL => t.parent[t.kid[m][d]] = m
    BY DEF Shaped, Links
  <2>2. Opp(s) \in Dirs
    BY <1>3, OnOrder
  <2>3. t.parent[f] = g /\ t.parent[u] = g
    BY <1>0, <1>3, <2>1, <2>2
  <2> QED
    BY <1>0, <1>3, <2>1, <2>3
<1>7. ASSUME NEW m \in S, NEW d \in Dirs
      PROVE  bh2[m] = bh2[t2.kid[m][d]] + Weight(t2, m) + Lack(m, d, NULL, "left")
  <2>1. Lack(m, d, NULL, "left") = 0
    BY <1>0 DEF Lack
  <2>2. PICK c : c = t.kid[m][d]
    OBVIOUS
  <2>3. c \in S \union {NULL} /\ t2.kid[m][d] = c /\ bh[c] \in Nat /\ bh[m] \in Nat
        /\ bh[m] = bh[c] + Weight(t, m) /\ m \in Keys
    BY <1>0, <1>2, <1>4, <2>2
  <2>a. PICK w : w = Weight(t2, m)
    OBVIOUS
  <2>b. SUFFICES bh2[m] = bh2[c] + w + 0
    BY <2>1, <2>3, <2>a, Zenon
  <2>c. bh[c] \in Nat /\ bh[m] \in Nat /\ bh[m] = bh[c] + Weight(t, m)
    BY <2>3
  <2>4. CASE m = g
    <3>1. c \in {f, u}
      BY <1>3, <2>2, <2>4, OnOrder
    <3>2. Weight(t, m) = 1 /\ Weight(t2, m) = 0
      BY <1>1, <1>3, <2>3, <2>4 DEF Weight
    <3>3. bh2[c] = bh[c] + 1 /\ bh2[m] = bh[m]
      BY <1>d, <1>3, <2>3, <2>4, <3>1
    <3> QED
      BY <2>c, <2>a, <3>2, <3>3
  <2>5. CASE m \in {f, u}
    <3>1. c \notin {f, u}
      BY <1>3, <1>6, <2>2, <2>5
    <3>2. Weight(t, m) = 0 /\ Weight(t2, m) = 1
      BY <1>1, <1>3, <2>3, <2>5 DEF Weight
    <3>3. bh2[c] = bh[c] /\ bh2[m] = bh[m] + 1
      BY <1>d, <2>3, <2>5, <3>1
    <3> QED
      BY <2>c, <2>a, <3>2, <3>3
  <2>6. CASE m # g /\ m \notin {f, u}
    <3>1. c \notin {f, u}
      BY <1>3, <1>6, <2>2, <2>6
    <3>2. Weight(t, m) = Weight(t2, m) /\ Weight(t, m) \in Nat
      BY <1>1, <1>3, <2>3, <2>6 DEF Weight
    <3>3. bh2[c] = bh[c] /\ bh2[m] = bh[m]
      BY <1>d, <2>3, <2>6, <3>1
    <3> QED
      BY <2>c, <2>a, <3>2, <3>3
  <2> QED
    BY <2>4, <2>5, <2>6
<1>8. Heights(t2, S, bh2, NULL, "left")
  BY <1>5, <1>7 DEF Heights
<1>9. ASSUME NEW m \in S, NEW d \in Dirs, IsRed(t2, t2.kid[m][d]), t2.kid[m][d] # g
      PROVE  t2.black[m]
  <2>1. PICK c : c = t.kid[m][d]
    OBVIOUS
  <2>2. c \in S /\ t2.kid[m][d] = c /\ ~t2.black[c] /\ c # g /\ m \in Keys /\ c \in Keys
    BY <1>0, <1>2, <1>9, <2>1 DEF IsRed
  <2>3. c \notin {u, f} /\ ~t.black[c]
    BY <1>1, <2>2
  <2>4. m # g
    BY <1>3, <2>1, <2>3, OnOrder
  <2>5. CASE m \in {u, f}
    BY <1>1, <2>2, <2>4, <2>5
  <2>6. CASE m \notin {u, f}
    <3>1. c # x \/ m = f
      <4>1. c # NULL /\ t.parent[c] = m
        BY <1>0, <2>1, <2>2 DEF Shaped, Links
      <4>2. f = t.parent[x]
        BY DEF Family
      <4> QED
        BY <4>1, <4>2
    <3>2. t.black[m]
      BY <1>0, <2>1, <2>2, <2>3, <2>6, <3>1 DEF Inserting, Reds, IsRed
    <3> QED
      BY <1>1, <2>2, <2>4, <2>6, <3>2
  <2> QED
    BY <2>5, <2>6
<1>10. Reds(t2, S, g, NULL)
  BY <1>9 DEF Reds
<1>11. RootBlack(t2, g)
  <2>1. ASSUME IsRed(t2, t2.root), t2.root # g PROVE FALSE
    <3>1. t.root \in S /\ t.root \in Keys
      BY <1>0, <1>2, <2>1 DEF IsRed, Shaped, Below
    <3>2. t.root # x
      BY DEF Family
    <3>3. t.black[t.root]
      BY <1>0, <3>1, <3>2 DEF Inserting, RootBlack, IsRed
    <3> QED
      BY <1>1, <1>2, <2>1, <3>1, <3>3 DEF IsRed
  <2> QED
    BY <2>1 DEF RootBlack
<1>12. ~t2.black[g] /\ \A m \in Keys \ S : t2.black[m] = t.black[m]
  BY <1>0, <1>1, <1>3
<1>13. Inserting(t2, S, bh2, g)
  BY <1>3, <1>8, <1>10, <1>11, <1>12 DEF Inserting
<1> QED
  BY <1>1, <1>12, <1>13

\* The heights of a tree in which nothing is missing.
Level(t, S, bh) ==
    /\ bh \in [S \union {NULL} -> Nat] /\ bh[NULL] = 0
    /\ \A m \in S, d \in Dirs : bh[m] = bh[t.kid[m][d]] + Weight(t, m)

\* Heights with no lack anywhere.
LEMMA PlainHeights ==
    ASSUME NEW t, NEW S, NEW bh, NULL \notin S, NEW e,
           \A m \in S, d \in Dirs : t.kid[m][d] \in S \union {NULL}
    PROVE  Heights(t, S, bh, NULL, e) <=> Level(t, S, bh)
<1>1. \A m \in S, d \in Dirs : Lack(m, d, NULL, e) = 0 /\ Weight(t, m) \in Nat
  BY DEF Lack, Weight
<1>2. \A m \in S, d \in Dirs : bh \in [S \union {NULL} -> Nat] => bh[t.kid[m][d]] \in Nat
  OBVIOUS
<1> QED
  BY <1>1, <1>2 DEF Heights, Level

\* A black uncle and x on the outer side: f comes up, g goes down.
LEMMA InsertOuterStep ==
    ASSUME NEW t, NEW S, NEW sub, Shaped(t, S, sub), NEW bh, NEW x, Inserting(t, S, bh, x),
           NEW f, NEW g, NEW s, NEW u, Family(t, S, x, f, g, s, u), ~IsRed(t, u),
           x = t.kid[f][s],
           NEW t2, Typed(t2), Rotated(t, t2, g, Opp(s)), Tones(t, t2, {f}, {g})
    PROVE  \E bh2 : Inserting(t2, S, bh2, x)
<1>0. Typed(t) /\ S \subseteq Keys /\ NULL \notin S
      /\ \A m \in S, d \in Dirs : t.kid[m][d] \in S \union {NULL}
  BY KeysAssumption DEF Shaped, Below
<1>1. /\ f \in S /\ g \in S /\ s \in Dirs /\ u \in S \union {NULL}
      /\ t.kid[g][s] = f /\ t.kid[g][Opp(s)] = u
      /\ g # f /\ u # f /\ u # g /\ g # x /\ f # x /\ u # x
      /\ ~t.black[f] /\ t.black[g] /\ f # t.root /\ x # t.root
  BY DEF Family
<1>2. PICK d \in Dirs : d = Opp(s) /\ s = Opp(d) /\ s # d
  BY <1>1, OnOrder
<1>3. PICK mid : mid = t.kid[f][d]
  OBVIOUS
<1>4. /\ f = t.kid[g][Opp(d)] /\ f # NULL /\ u = t.kid[g][d] /\ x = t.kid[f][Opp(d)]
      /\ Rotated(t, t2, g, d)
  BY <1>0, <1>1, <1>2
<1>a. TurnNodes(t, g, d, f, mid, u, x)
  BY <1>3, <1>4 DEF TurnNodes
<1>5. x \in S /\ ~t.black[x] /\ Heights(t, S, bh, NULL, "left") /\ Reds(t, S, x, NULL) /\ RootBlack(t, x)
  BY DEF Inserting
<1>6. /\ bh \in [S \union {NULL} -> Nat] /\ bh[NULL] = 0
      /\ \A m \in S, e \in Dirs : bh[m] = bh[t.kid[m][e]] + Weight(t, m)
  <2>1. Level(t, S, bh)
    BY <1>0, <1>5, PlainHeights
  <2> QED
    BY <2>1 DEF Level
<1>7. \A m \in Keys : t2.black[m] <=> m \notin {g} /\ (m \in {f} \/ t.black[m])
  BY DEF Tones
<1>8. /\ t2.black[f] /\ ~t2.black[g] /\ \A m \in S : m # f /\ m # g => (t2.black[m] <=> t.black[m])
      /\ \A m \in Keys : t2.black[m] \in BOOLEAN /\ t.black[m] \in BOOLEAN
  BY <1>0, <1>1, <1>7 DEF Typed
<1>9. mid \in S \union {NULL} /\ mid # x /\ mid # g /\ mid # f
  <2>1. x # NULL
    BY <1>0, <1>5
  <2>2. KidOf(t, S, sub, f, s, x)
    BY <1>1, <2>1, KidIs
  <2>3. KidOf(t, S, sub, g, s, f)
    BY <1>1, <1>4, KidIs
  <2>4. mid # x /\ mid # g
    BY <1>2, <1>3, <2>2, <2>3 DEF KidOf
  <2>5. mid # NULL => KidOf(t, S, sub, f, d, mid)
    BY <1>1, <1>3, KidIs
  <2> QED
    BY <1>0, <1>1, <1>3, <1>4, <2>4, <2>5 DEF KidOf
<1>10. ~IsRed(t, mid)
  BY <1>1, <1>3, <1>5, <1>9, <1>0 DEF Reds
<1>11. Weight(t, f) = 0 /\ Weight(t2, f) = 1 /\ Weight(t, g) = 1 /\ Weight(t2, g) = 0 /\ Weight(t2, x) = Weight(t, x)
       /\ Weight(t, x) \in Nat
  BY <1>0, <1>1, <1>5, <1>8 DEF Weight
<1>12. PICK bh2 : bh2 = [m \in S \union {NULL} |->
                    IF m = f THEN bh[g] ELSE IF m = g THEN bh[f] ELSE bh[m]]
  OBVIOUS
<1>13. /\ bh2 \in [S \union {NULL} -> Nat] /\ bh2[NULL] = 0
       /\ bh2[f] = bh[g] /\ bh2[g] = bh[f] /\ bh2[mid] = bh[mid] /\ bh2[u] = bh[u] /\ bh2[x] = bh[x]
       /\ \A m \in S : m # f /\ m # g => bh2[m] = bh[m]
  BY <1>0, <1>1, <1>4, <1>5, <1>6, <1>9, <1>12
<1>14. /\ bh[f] \in Nat /\ bh[g] = bh[f] + 1 /\ bh[mid] = bh[f] /\ bh[u] = bh[f] /\ bh[x] = bh[f]
  <2>1. bh[f] \in Nat /\ bh[mid] \in Nat /\ bh[u] \in Nat /\ bh[x] \in Nat /\ bh[g] \in Nat
    BY <1>1, <1>5, <1>6, <1>9
  <2>2. bh[g] = bh[f] + Weight(t, g) /\ bh[g] = bh[u] + Weight(t, g)
    BY <1>1, <1>2, <1>4, <1>6
  <2>3. bh[f] = bh[mid] + Weight(t, f) /\ bh[f] = bh[x] + Weight(t, f)
    BY <1>1, <1>2, <1>3, <1>4, <1>6
  <2> QED
    BY <1>11, <2>1, <2>2, <2>3
<1>15. \A m \in S, e \in Dirs : Lack(m, e, NULL, "left") = 0
  BY <1>0 DEF Lack
<1>16. Heights(t2, S, bh2, NULL, "left")
  <2>1. \A m \in S : m # g /\ m # f /\ m # x => bh2[m] = bh[m] /\ t2.black[m] = t.black[m]
    BY <1>0, <1>8, <1>13
  <2>2. x # NULL => bh2[x] + Weight(t, x) = bh[x] + Weight(t2, x)
    BY <1>11, <1>13
  <2>4. /\ bh2[g] = bh2[mid] + Weight(t2, g) + Lack(g, Opp(d), NULL, "left")
        /\ bh2[g] = bh2[u] + Weight(t2, g) + Lack(g, d, NULL, "left")
        /\ bh2[f] = bh2[g] + Weight(t2, f) + Lack(f, d, NULL, "left")
        /\ bh2[f] = bh2[x] + Weight(t2, f) + Lack(f, Opp(d), NULL, "left")
    <3>1. /\ Lack(g, Opp(d), NULL, "left") = 0 /\ Lack(g, d, NULL, "left") = 0
          /\ Lack(f, d, NULL, "left") = 0 /\ Lack(f, Opp(d), NULL, "left") = 0
      BY <1>1, <1>2, <1>15
    <3> QED
      BY <1>11, <1>13, <1>14, <3>1
  <2>5. HeightsAbove(t, t2, S, g, f, x, bh, bh2)
    BY <1>13, <2>1, <2>2 DEF HeightsAbove
  <2>6. LackAbove(S, g, f, NULL, "left", NULL, "left")
    BY DEF LackAbove
  <2>7. HeightsAt(t2, g, d, f, mid, u, x, bh2, NULL, "left")
    BY <2>4 DEF HeightsAt
  <2> QED
    BY <1>1, <1>4, <1>5, <1>a, <2>5, <2>6, <2>7, TurnHeights
<1>17. Reds(t2, S, x, NULL)
  <2>1. \A m \in S : m # g /\ m # f => (t.black[m] => t2.black[m])
    BY <1>8
  <2>2. \A m \in S : m # g /\ m # f => m # NULL /\ (m = x => m = x \/ t2.black[m])
    BY <1>0
  <2>3. t2.black[f] \/ f = x \/ ~(t.black[g] \/ g = x)
    BY <1>8
  <2>4. ~IsRed(t2, mid) /\ ~IsRed(t2, u)
    BY <1>0, <1>1, <1>8, <1>9, <1>10 DEF IsRed
  <2>5. /\ IsRed(t2, mid) => t2.black[g] \/ mid = x \/ g = NULL
        /\ IsRed(t2, u) => t2.black[g] \/ u = x \/ g = NULL
        /\ t2.black[g] \/ t2.black[f] \/ g = x \/ f = NULL
        /\ IsRed(t2, x) => t2.black[f] \/ x = x \/ f = NULL
    BY <1>8, <2>4
  <2>6. RedsAbove(t, t2, S, g, f, x, NULL, x)
    BY <2>1, <2>2, <2>3 DEF RedsAbove
  <2>7. RedsAt(t2, g, f, mid, u, x, x, NULL)
    BY <2>5 DEF RedsAt
  <2> QED
    BY <1>1, <1>4, <1>5, <1>a, <2>6, <2>7, TurnReds
<1>18. RootBlack(t2, x)
  <2>1. t2.root = IF g = t.root THEN f ELSE t.root
    BY <1>4 DEF Rotated
  <2>2. t.root \in S \union {NULL} /\ ~IsRed(t, t.root)
    BY <1>1, <1>5 DEF Shaped, Below, RootBlack
  <2> QED
    BY <1>1, <1>8, <2>1, <2>2 DEF RootBlack, IsRed
<1>19. ~t2.black[x]
  BY <1>1, <1>5, <1>8
<1> QED
  BY <1>5, <1>16, <1>17, <1>18, <1>19 DEF Inserting

\* x on the inner side: x comes up and f is the node to go on with.
LEMMA InsertInnerStep ==
    ASSUME NEW t, NEW S, NEW sub, Shaped(t, S, sub), NEW bh, NEW x, Inserting(t, S, bh, x),
           NEW f, NEW g, NEW s, NEW u, Family(t, S, x, f, g, s, u), ~IsRed(t, u),
           x = t.kid[f][Opp(s)],
           NEW t2, Typed(t2), Rotated(t, t2, f, s), t2.black = t.black
    PROVE  /\ Inserting(t2, S, bh, f) /\ Family(t2, S, f, x, g, s, u)
           /\ ~IsRed(t2, u) /\ t2.kid[x][s] = f
<1>0. Typed(t) /\ S \subseteq Keys /\ NULL \notin S
      /\ \A m \in S, d \in Dirs : t.kid[m][d] \in S \union {NULL}
  BY KeysAssumption DEF Shaped, Below
<1>1. /\ f \in S /\ g \in S /\ s \in Dirs /\ u \in S \union {NULL}
      /\ g = t.parent[f] /\ s = Side(t, g, f)
      /\ t.kid[g][s] = f /\ t.kid[g][Opp(s)] = u
      /\ g # f /\ u # f /\ u # g /\ g # x /\ f # x /\ u # x
      /\ ~t.black[f] /\ t.black[g] = TRUE /\ f # t.root /\ x # t.root
  BY DEF Family
<1>2. x \in S /\ ~t.black[x] /\ Heights(t, S, bh, NULL, "left") /\ Reds(t, S, x, NULL) /\ RootBlack(t, x)
  BY DEF Inserting
<1>3. PICK mid : mid = t.kid[x][s]
  OBVIOUS
<1>4. PICK low : low = t.kid[f][s]
  OBVIOUS
<1>5. PICK out : out = t.kid[x][Opp(s)]
  OBVIOUS
<1>6. Opp(s) \in Dirs /\ Opp(s) # s /\ x # NULL
  BY <1>0, <1>1, <1>2, OnOrder
<1>7. TurnNodes(t, f, s, x, mid, low, out)
  BY <1>3, <1>4, <1>5, <1>6 DEF TurnNodes
<1>8. /\ t2.root = t.root
      /\ \A m \in Keys, e \in Dirs : t2.kid[m][e] =
               IF m = f /\ e = Opp(s) THEN mid
               ELSE IF m = x /\ e = s THEN f
               ELSE IF m = g /\ t.kid[m][e] = f THEN x ELSE t.kid[m][e]
      /\ \A m \in Keys : t2.parent[m] =
               IF m = f THEN x ELSE IF m = x THEN g
               ELSE IF m = mid THEN f ELSE t.parent[m]
  <2>1. t2.root = IF f = t.root THEN x ELSE t.root
    BY DEF Rotated
  <2>2. \A m \in Keys, e \in Dirs : t2.kid[m][e] =
               IF m = f /\ e = Opp(s) THEN mid
               ELSE IF m = x /\ e = s THEN f
               ELSE IF m = g /\ t.kid[m][e] = f THEN x ELSE t.kid[m][e]
    <3>1. g = t.parent[f]
      BY <1>1
    <3> QED
      BY <1>3, <3>1 DEF Rotated
  <2>3. \A m \in Keys : t2.parent[m] =
               IF m = f THEN x ELSE IF m = x THEN g
               ELSE IF m = mid THEN f ELSE t.parent[m]
    BY <1>1, <1>3, Zenon DEF Rotated
  <2> QED
    BY <1>1, <2>1, <2>2, <2>3
<1>a. KidOf(t, S, sub, f, Opp(s), x)
  BY <1>1, <1>6, KidIs
<1>b. mid # NULL => KidOf(t, S, sub, x, s, mid)
  BY <1>1, <1>2, <1>3, KidIs
<1>c. low # NULL => KidOf(t, S, sub, f, s, low)
  BY <1>1, <1>4, KidIs
<1>d. out # NULL => KidOf(t, S, sub, x, Opp(s), out)
  BY <1>2, <1>5, <1>6, KidIs
<1>9. KidOf(t, S, sub, f, Opp(s), x) /\ (mid # NULL => KidOf(t, S, sub, x, s, mid))
      /\ (low # NULL => KidOf(t, S, sub, f, s, low)) /\ (out # NULL => KidOf(t, S, sub, x, Opp(s), out))
  BY <1>a, <1>b, <1>c, <1>d
<1>10. /\ mid # x /\ low # x /\ out # x /\ low # f /\ mid # f /\ out # f
       /\ mid \in S \union {NULL} /\ low \in S \union {NULL} /\ out \in S \union {NULL}
  <2>1. \A e \in Dirs : t.kid[x][e] # f
    BY <1>9 DEF KidOf
  <2>2. mid # f /\ out # f
    BY <1>1, <1>3, <1>5, <1>6, <2>1
  <2>3. mid # x /\ out # x /\ low # f
    <3>1. mid # x
      BY <1>6, <1>b DEF KidOf
    <3>2. out # x
      BY <1>6, <1>d DEF KidOf
    <3>3. low # f
      BY <1>0, <1>1, <1>c DEF KidOf
    <3> QED
      BY <3>1, <3>2, <3>3
  <2>4. t.kid[f][Opp(Opp(s))] # x /\ Opp(Opp(s)) = s
    BY <1>1, <1>9, OnOrder DEF KidOf
  <2>5. mid \in S \union {NULL}
    BY <1>0, <1>1, <1>2, <1>3
  <2>6. low \in S \union {NULL}
    BY <1>0, <1>1, <1>4
  <2>7. out \in S \union {NULL}
    BY <1>0, <1>2, <1>5, <1>6
  <2>8. low # x
    BY <1>4, <2>4
  <2> QED
    BY <2>2, <2>3, <2>5, <2>6, <2>7, <2>8
<1>11. ~IsRed(t, mid) /\ ~IsRed(t, low) /\ ~IsRed(t, out)
  <2>0. \A m \in S, e \in Dirs : IsRed(t, t.kid[m][e]) /\ t.kid[m][e] # x => t.black[m]
    BY <1>0, <1>2 DEF Reds
  <2>1. ~IsRed(t, mid)
    BY <1>1, <1>2, <1>3, <1>10, <2>0
  <2>2. ~IsRed(t, low)
    BY <1>1, <1>4, <1>10, <2>0
  <2>3. ~IsRed(t, out)
    BY <1>2, <1>5, <1>6, <1>10, <2>0
  <2> QED
    BY <2>1, <2>2, <2>3
<1>12. /\ bh \in [S \union {NULL} -> Nat] /\ bh[NULL] = 0
       /\ \A m \in S, e \in Dirs : bh[m] = bh[t.kid[m][e]] + Weight(t, m)
  <2>1. Level(t, S, bh)
    BY <1>0, <1>2, PlainHeights
  <2> QED
    BY <2>1 DEF Level
<1>13. bh[x] \in Nat /\ bh[f] = bh[x] /\ bh[mid] = bh[x] /\ bh[low] = bh[x] /\ bh[out] = bh[x]
  <2>1. Weight(t, f) = 0 /\ Weight(t, x) = 0
    BY <1>1, <1>2 DEF Weight
  <2>2. bh[f] \in Nat /\ bh[mid] \in Nat /\ bh[low] \in Nat /\ bh[x] \in Nat /\ bh[out] \in Nat
    BY <1>1, <1>2, <1>10, <1>12
  <2>3. bh[f] = bh[x] + Weight(t, f)
    BY <1>1, <1>6, <1>12
  <2>4. bh[f] = bh[low] + Weight(t, f)
    BY <1>1, <1>4, <1>12
  <2>5. bh[x] = bh[mid] + Weight(t, x)
    BY <1>1, <1>2, <1>3, <1>12
  <2>6. bh[x] = bh[out] + Weight(t, x)
    BY <1>2, <1>5, <1>6, <1>12
  <2> QED
    BY <2>1, <2>2, <2>3, <2>4, <2>5, <2>6
<1>14. Heights(t2, S, bh, NULL, "left")
  <2>1. Weight(t2, f) = 0 /\ Weight(t2, x) = 0 /\ (out # NULL => Weight(t2, out) = Weight(t, out))
    BY <1>1, <1>2 DEF Weight
  <2>2. HeightsAbove(t, t2, S, f, x, out, bh, bh)
    BY <1>12, <1>13, <2>1 DEF HeightsAbove
  <2>3. LackAbove(S, f, x, NULL, "left", NULL, "left")
    BY DEF LackAbove
  <2>4. \A m \in S, e \in Dirs : Lack(m, e, NULL, "left") = 0
    BY <1>0 DEF Lack
  <2>5. /\ Lack(f, Opp(s), NULL, "left") = 0 /\ Lack(f, s, NULL, "left") = 0
        /\ Lack(x, s, NULL, "left") = 0 /\ Lack(x, Opp(s), NULL, "left") = 0
    BY <1>1, <1>2, <1>6, <2>4
  <2>6. HeightsAt(t2, f, s, x, mid, low, out, bh, NULL, "left")
    BY <1>13, <2>1, <2>5 DEF HeightsAt
  <2> QED
    BY <1>1, <1>2, <1>7, <2>2, <2>3, <2>6, TurnHeights
<1>15. Reds(t2, S, f, NULL)
  <2>1. RedsAbove(t, t2, S, f, x, x, NULL, f)
    BY <1>0, <1>1 DEF RedsAbove
  <2>2. ~IsRed(t2, mid) /\ ~IsRed(t2, low) /\ ~IsRed(t2, out)
    BY <1>11 DEF IsRed
  <2>3. RedsAt(t2, f, x, mid, low, out, f, NULL)
    BY <2>2 DEF RedsAt
  <2> QED
    BY <1>1, <1>2, <1>7, <2>1, <2>3, TurnReds
<1>16. RootBlack(t2, f)
  <2>1. ~IsRed(t, t.root)
    BY <1>1, <1>2 DEF RootBlack
  <2> QED
    BY <1>8, <2>1 DEF RootBlack, IsRed
<1>17. Inserting(t2, S, bh, f)
  BY <1>1, <1>14, <1>15, <1>16 DEF Inserting
<1>18. /\ t2.parent[f] = x /\ t2.parent[x] = g /\ t2.kid[x][s] = f
       /\ t2.kid[g][s] = x /\ t2.kid[g][Opp(s)] = u
  BY <1>0, <1>1, <1>2, <1>6, <1>8
<1>19. Side(t2, g, x) = s
  BY <1>1, <1>18 DEF Side, Dirs, Opp
<1>20. Family(t2, S, f, x, g, s, u)
  BY <1>1, <1>2, <1>8, <1>18, <1>19 DEF Family
<1>21. ~IsRed(t2, u)
  BY DEF IsRed
<1> QED
  BY <1>17, <1>18, <1>20, <1>21

\* A red-black tree.
Balanced(t, S, bh) ==
    Heights(t, S, bh, NULL, "left") /\ Reds(t, S, NULL, NULL) /\ RootBlack(t, NULL)

\* The root is made black, as the last thing that rb_insert_color does and as
\* __rb_erase_color does when it has come to the root.
LEMMA BlackRootStep ==
    ASSUME NEW t, NEW S, NEW sub, Shaped(t, S, sub), NEW bh, Heights(t, S, bh, NULL, "left"),
           NEW x, NEW y, Reds(t, S, x, y), y \in {NULL, t.root},
           \A n \in S, d \in Dirs : t.kid[n][d] = x /\ x # NULL => t.black[n],
           NEW t2, Typed(t2), SamePointers(t, t2), Tones(t, t2, {t.root}, {})
    PROVE  \E bh2 : Balanced(t2, S, bh2)
<1>0. Typed(t) /\ S \subseteq Keys /\ NULL \notin S /\ t.root \in S \union {NULL}
      /\ \A m \in S, d \in Dirs : t.kid[m][d] \in S \union {NULL}
  BY KeysAssumption DEF Shaped, Below
<1>1. t2.kid = t.kid /\ t2.root = t.root
  BY DEF SamePointers
<1>2. \A m \in Keys : t2.black[m] <=> (m = t.root \/ t.black[m])
  BY DEF Tones
<1>3. \A m \in Keys : t2.black[m] \in BOOLEAN /\ t.black[m] \in BOOLEAN
  BY <1>0 DEF Typed
<1>4. /\ bh \in [S \union {NULL} -> Nat] /\ bh[NULL] = 0
      /\ \A m \in S, e \in Dirs : bh[m] = bh[t.kid[m][e]] + Weight(t, m)
  <2>1. Level(t, S, bh)
    BY <1>0, PlainHeights
  <2> QED
    BY <2>1 DEF Level
<1>5. PICK bh2 : bh2 = [m \in S \union {NULL} |->
                    IF m = t.root /\ m # NULL /\ ~t.black[m] THEN bh[m] + 1 ELSE bh[m]]
  OBVIOUS
<1>6. /\ bh2 \in [S \union {NULL} -> Nat] /\ bh2[NULL] = 0
      /\ \A m \in S \union {NULL} : m # t.root => bh2[m] = bh[m]
      /\ \A m \in S : m = t.root => bh2[m] = IF t.black[m] THEN bh[m] ELSE bh[m] + 1
  BY <1>0, <1>4, <1>5
<1>7. \A m \in S, d \in Dirs : bh2[t.kid[m][d]] = bh[t.kid[m][d]] /\ bh[t.kid[m][d]] \in Nat
  <2>1. ASSUME NEW m \in S, NEW d \in Dirs, t.kid[m][d] # NULL PROVE t.kid[m][d] # t.root
    <3>1. PICK c : c = t.kid[m][d]
      OBVIOUS
    <3>2. KidOf(t, S, sub, m, d, c)
      BY <2>1, <3>1, KidIs
    <3> QED
      BY <3>1, <3>2 DEF KidOf
  <2> QED
    BY <1>0, <1>4, <1>6, <2>1
<1>8. ASSUME NEW m \in S, NEW d \in Dirs
      PROVE  bh2[m] = bh2[t2.kid[m][d]] + Weight(t2, m)
  <2>1. PICK c : c = t.kid[m][d]
    OBVIOUS
  <2>2. bh[c] \in Nat /\ bh[m] \in Nat /\ bh[m] = bh[c] + Weight(t, m) /\ bh2[c] = bh[c]
    BY <1>4, <1>7, <2>1
  <2>3. t2.kid[m][d] = c
    BY <1>1, <2>1
  <2>4. m \in Keys
    BY <1>0
  <2>5. CASE m = t.root /\ ~t.black[m]
    <3>1. Weight(t, m) = 0 /\ Weight(t2, m) = 1 /\ bh2[m] = bh[m] + 1
      BY <1>2, <1>6, <2>4, <2>5 DEF Weight
    <3> QED
      BY <2>2, <2>3, <3>1
  <2>6. CASE ~(m = t.root /\ ~t.black[m])
    <3>1. (t2.black[m] <=> t.black[m]) /\ bh2[m] = bh[m]
      BY <1>2, <1>6, <2>4, <2>6
    <3>2. Weight(t, m) = Weight(t2, m) /\ Weight(t, m) \in Nat
      BY <3>1 DEF Weight
    <3> QED
      BY <2>2, <2>3, <3>1, <3>2
  <2> QED
    BY <2>5, <2>6
<1>9. Heights(t2, S, bh2, NULL, "left")
  <2>1. Level(t2, S, bh2)
    BY <1>6, <1>8 DEF Level
  <2>2. \A m \in S, d \in Dirs : t2.kid[m][d] \in S \union {NULL}
    BY <1>0, <1>1
  <2> QED
    BY <1>0, <2>1, <2>2, PlainHeights
<1>10. ASSUME NEW m \in S, NEW d \in Dirs, IsRed(t2, t2.kid[m][d]) PROVE t2.black[m]
  <2>1. PICK c : c = t.kid[m][d]
    OBVIOUS
  <2>2. c \in S /\ ~t2.black[c] /\ c \in Keys /\ m \in Keys /\ c # NULL
    BY <1>0, <1>1, <1>10, <2>1 DEF IsRed
  <2>3. IsRed(t, c)
    BY <1>2, <2>2 DEF IsRed
  <2>4. t.black[m] \/ m = t.root
    <3>1. m # NULL
      BY <1>0
    <3> QED
      BY <2>1, <2>2, <2>3, <3>1 DEF Reds
  <2> QED
    BY <1>2, <2>2, <2>4
<1>11. Reds(t2, S, NULL, NULL)
  BY <1>10 DEF Reds
<1>12. RootBlack(t2, NULL)
  BY <1>0, <1>1, <1>2 DEF RootBlack, IsRed
<1> QED
  BY <1>9, <1>11, <1>12 DEF Balanced

-----------------------------------------------------------------------------
(* The rounds of __rb_erase_color *)

\* Between two rounds a black node is missing above x, the child of q on side
\* e, or nowhere when x is the root; x may be red next to red nodes.
Erasing(t, S, bh, x, q) ==
    /\ \/ x = t.root /\ Heights(t, S, bh, NULL, "left")
       \/ q \in S /\ \E e \in Dirs : t.kid[q][e] = x /\ Heights(t, S, bh, q, e)
    /\ Reds(t, S, x, x) /\ RootBlack(t, x)

\* What a round finds: x, black or NULL, on side s of q, and its sibling o.
Siblings(t, S, bh, x, q, s, o) ==
    /\ q \in S /\ o \in S /\ x \in S \union {NULL} /\ s \in Dirs
    /\ s = Side(t, q, x) /\ x = t.kid[q][s] /\ o = t.kid[q][Opp(s)]
    /\ o # q /\ x # q /\ x # o
    /\ Heights(t, S, bh, q, s) /\ Reds(t, S, NULL, NULL) /\ RootBlack(t, NULL)
    /\ ~IsRed(t, x)

\* The heights when a black node is missing on side e of q.
Short(t, S, bh, q, e) ==
    /\ bh \in [S \union {NULL} -> Nat] /\ bh[NULL] = 0
    /\ bh[q] = bh[t.kid[q][e]] + Weight(t, q) + 1
    /\ bh[q] = bh[t.kid[q][Opp(e)]] + Weight(t, q)
    /\ bh[t.kid[q][Opp(e)]] = bh[t.kid[q][e]] + 1
    /\ \A m \in S, d \in Dirs : m # q => bh[m] = bh[t.kid[m][d]] + Weight(t, m)
    /\ \A m \in S : Weight(t, m) \in Nat

\* Heights with the lack on side e of q.
LEMMA LackHeights ==
    ASSUME NEW t, NEW S, NEW sub, Shaped(t, S, sub), NEW bh, NEW q \in S, NEW e \in Dirs,
           Heights(t, S, bh, q, e)
    PROVE  Short(t, S, bh, q, e)
<1>0. \A m \in S, d \in Dirs : t.kid[m][d] \in S \union {NULL}
  BY DEF Shaped, Below
<1>1. /\ bh \in [S \union {NULL} -> Nat] /\ bh[NULL] = 0
      /\ \A m \in S, d \in Dirs : bh[m] = bh[t.kid[m][d]] + Weight(t, m) + Lack(m, d, q, e)
  BY DEF Heights
<1>2. \A m \in S, d \in Dirs : bh[t.kid[m][d]] \in Nat /\ Weight(t, m) \in Nat
  BY <1>0, <1>1 DEF Weight
<1>3. Opp(e) \in Dirs /\ Opp(e) # e
  BY OnOrder
<1>4. Lack(q, e, q, e) = 1 /\ Lack(q, Opp(e), q, e) = 0
      /\ \A m \in S, d \in Dirs : m # q => Lack(m, d, q, e) = 0
  BY <1>3 DEF Lack
<1>5. bh[q] = bh[t.kid[q][e]] + Weight(t, q) + 1
  BY <1>1, <1>4
<1>6. bh[q] = bh[t.kid[q][Opp(e)]] + Weight(t, q)
  BY <1>1, <1>2, <1>3, <1>4
<1>7. bh[t.kid[q][Opp(e)]] = bh[t.kid[q][e]] + 1
  BY <1>2, <1>3, <1>5, <1>6
<1>8. \A m \in S, d \in Dirs : m # q => bh[m] = bh[t.kid[m][d]] + Weight(t, m)
  BY <1>1, <1>2, <1>4
<1> QED
  BY <1>1, <1>2, <1>5, <1>6, <1>7, <1>8, OnOrder DEF Short

\* The nodes that a round of __rb_erase_color looks at: x lacks a black node, so
\* its sibling o is there.
LEMMA EraseFacts ==
    ASSUME NEW t, NEW S, NEW sub, Shaped(t, S, sub), NEW bh, NEW x, NEW q, Erasing(t, S, bh, x, q),
           ~IsRed(t, x), x # t.root, NEW s, s = Side(t, q, x), NEW o, o = t.kid[q][Opp(s)]
    PROVE  Siblings(t, S, bh, x, q, s, o)
<1>0. S \subseteq Keys /\ NULL \notin S
      /\ \A m \in S, d \in Dirs : t.kid[m][d] \in S \union {NULL}
  BY KeysAssumption DEF Shaped, Below
<1>1. q \in S /\ Reds(t, S, x, x) /\ RootBlack(t, x)
  BY DEF Erasing
<1>2. PICK e \in Dirs : t.kid[q][e] = x /\ Heights(t, S, bh, q, e)
  BY DEF Erasing
<1>3. PICK b : b = t.kid[q][Opp(e)]
  OBVIOUS
<1>4. bh[b] = bh[x] + 1 /\ bh \in [S \union {NULL} -> Nat] /\ bh[NULL] = 0
  <2>1. Short(t, S, bh, q, e)
    BY <1>1, <1>2, LackHeights
  <2> QED
    BY <1>2, <1>3, <2>1 DEF Short
<1>5. x \in S \union {NULL} /\ b \in S \union {NULL}
  BY <1>0, <1>1, <1>2, <1>3, OnOrder
<1>6. bh[x] \in Nat
  BY <1>4, <1>5
<1>7. b # x /\ b # NULL
  BY <1>4, <1>6
<1>8. s = e
  BY <1>2, <1>3, <1>7 DEF Side, Dirs, Opp
<1>9. b = o /\ b \in S /\ b = t.kid[q][Opp(s)] /\ Opp(s) \in Dirs
  BY <1>2, <1>3, <1>5, <1>7, <1>8, OnOrder
<1>10. KidOf(t, S, sub, q, Opp(s), b)
  BY <1>1, <1>7, <1>9, KidIs
<1>11. b # q
  BY <1>10 DEF KidOf
<1>12. x # NULL => KidOf(t, S, sub, q, e, x)
  BY <1>1, <1>2, KidIs
<1>13. x # q
  BY <1>0, <1>1, <1>12 DEF KidOf
<1>14. Reds(t, S, NULL, NULL)
  <2>1. ASSUME NEW n \in S, NEW d \in Dirs, IsRed(t, t.kid[n][d]) PROVE t.black[n]
    <3>1. t.kid[n][d] # x
      BY <2>1
    <3>2. CASE n = x
      BY <1>0, <3>2 DEF IsRed
    <3>3. CASE n # x
      BY <1>1, <2>1, <3>1, <3>3 DEF Reds
    <3> QED
      BY <3>2, <3>3
  <2> QED
    BY <2>1 DEF Reds
<1>15. RootBlack(t, NULL)
  BY <1>1 DEF RootBlack
<1> QED
  BY <1>1, <1>2, <1>5, <1>7, <1>8, <1>9, <1>11, <1>13, <1>14, <1>15 DEF Siblings

\* The family of the sibling: its children on the near and the far side.
Nephews(t, S, bh, x, q, s, o, near, far, h) ==
    /\ q \in S /\ o \in S /\ x \in S \union {NULL} /\ s \in Dirs /\ Opp(s) \in Dirs /\ Opp(s) # s
    /\ x = t.kid[q][s] /\ o = t.kid[q][Opp(s)] /\ near = t.kid[o][s] /\ far = t.kid[o][Opp(s)]
    /\ near \in S \union {NULL} /\ far \in S \union {NULL} /\ o # NULL
    /\ o # q /\ x # q /\ x # o /\ near # q /\ far # q /\ near # o /\ far # o
    /\ near # NULL => near # x /\ near # far
    /\ far # NULL => far # x
    /\ o # t.root
    /\ h = bh[x] /\ h \in Nat /\ bh[o] = h + 1 /\ bh[q] = h + 1 + Weight(t, q)
    /\ bh[o] = bh[near] + Weight(t, o) /\ bh[o] = bh[far] + Weight(t, o)
    /\ bh[near] \in Nat /\ bh[far] \in Nat
    /\ bh \in [S \union {NULL} -> Nat] /\ bh[NULL] = 0
    /\ Weight(t, q) \in Nat /\ Weight(t, o) \in Nat

\* The children of the sibling.
LEMMA NephewFacts ==
    ASSUME NEW t, NEW S, NEW sub, Shaped(t, S, sub), NEW bh, NEW x, NEW q, NEW s, NEW o,
           Siblings(t, S, bh, x, q, s, o), NEW near, near = t.kid[o][s],
           NEW far, far = t.kid[o][Opp(s)], NEW h, h = bh[x]
    PROVE  Nephews(t, S, bh, x, q, s, o, near, far, h)
<1>0. S \subseteq Keys /\ NULL \notin S
      /\ \A m \in S, d \in Dirs : t.kid[m][d] \in S \union {NULL}
  BY KeysAssumption DEF Shaped, Below
<1>1. /\ q \in S /\ o \in S /\ x \in S \union {NULL} /\ s \in Dirs
      /\ x = t.kid[q][s] /\ o = t.kid[q][Opp(s)] /\ o # q /\ x # q /\ x # o
      /\ Heights(t, S, bh, q, s)
  BY DEF Siblings
<1>2. Opp(s) \in Dirs /\ Opp(s) # s /\ o # NULL
  BY <1>0, <1>1, OnOrder
<1>3. Short(t, S, bh, q, s)
  BY <1>1, LackHeights
<1>4. KidOf(t, S, sub, q, Opp(s), o)
  BY <1>1, <1>2, KidIs
<1>5. x # NULL => KidOf(t, S, sub, q, s, x)
  BY <1>1, KidIs
<1>6. near # NULL => KidOf(t, S, sub, o, s, near)
  BY <1>1, KidIs
<1>7. far # NULL => KidOf(t, S, sub, o, Opp(s), far)
  BY <1>1, <1>2, KidIs
<1>8. near # q /\ far # q
  <2>1. \A e \in Dirs : t.kid[o][e] # q
    BY <1>4 DEF KidOf
  <2> QED
    BY <1>1, <1>2, <2>1
<1>9. near # o /\ far # o
  BY <1>2, <1>6, <1>7 DEF KidOf
<1>10. near # NULL => near # x /\ near # far
  <2>1. near # NULL => t.parent[near] = o /\ t.kid[o][Opp(s)] # near
    BY <1>6 DEF KidOf
  <2>2. x # NULL => t.parent[x] = q
    BY <1>5 DEF KidOf
  <2> QED
    BY <1>1, <2>1, <2>2
<1>11. far # NULL => far # x
  <2>1. far # NULL => t.parent[far] = o
    BY <1>7 DEF KidOf
  <2>2. x # NULL => t.parent[x] = q
    BY <1>5 DEF KidOf
  <2> QED
    BY <1>1, <2>1, <2>2
<1>12. o # t.root
  BY <1>4 DEF KidOf
<1>13. /\ bh \in [S \union {NULL} -> Nat] /\ bh[NULL] = 0 /\ bh[q] = bh[x] + Weight(t, q) + 1
       /\ bh[o] = bh[x] + 1 /\ Weight(t, q) \in Nat /\ Weight(t, o) \in Nat
  BY <1>1, <1>3 DEF Short
<1>14. bh[o] = bh[near] + Weight(t, o)
  BY <1>1, <1>3 DEF Short
<1>15. bh[o] = bh[far] + Weight(t, o)
  BY <1>1, <1>2, <1>3 DEF Short
<1>16. near \in S \union {NULL}
  BY <1>0, <1>1
<1>17. far \in S \union {NULL}
  BY <1>0, <1>1, <1>2
<1>18. h \in Nat /\ bh[near] \in Nat /\ bh[far] \in Nat
  BY <1>1, <1>13, <1>16, <1>17
<1>19. bh[q] = h + 1 + Weight(t, q)
  BY <1>13, <1>18
<1> QED
  BY <1>1, <1>2, <1>8, <1>9, <1>10, <1>11, <1>12, <1>13, <1>14, <1>15, <1>16, <1>17,
     <1>18, <1>19 DEF Nephews

\* A red sibling: it comes up, and the new sibling is black.
LEMMA EraseRedOtherStep ==
    ASSUME NEW t, NEW S, NEW sub, Shaped(t, S, sub), NEW bh, NEW x, NEW q, NEW s, NEW o,
           Siblings(t, S, bh, x, q, s, o), IsRed(t, o),
           NEW t2, Typed(t2), Rotated(t, t2, q, s), Tones(t, t2, {o}, {q})
    PROVE  /\ \E bh2 : Erasing(t2, S, bh2, x, q)
           /\ IsRed(t2, q)
<1>0. Typed(t) /\ S \subseteq Keys /\ NULL \notin S /\ t.root \in S \union {NULL}
      /\ \A m \in S, d \in Dirs : t.kid[m][d] \in S \union {NULL}
  BY KeysAssumption DEF Shaped, Below
<1>1. PICK near : near = t.kid[o][s]
  OBVIOUS
<1>2. PICK far : far = t.kid[o][Opp(s)]
  OBVIOUS
<1>3. PICK h : h = bh[x]
  OBVIOUS
<1>4. Nephews(t, S, bh, x, q, s, o, near, far, h)
  BY <1>1, <1>2, <1>3, NephewFacts
<1>5. /\ q \in S /\ o \in S /\ x \in S \union {NULL} /\ s \in Dirs /\ Opp(s) \in Dirs /\ Opp(s) # s
      /\ x = t.kid[q][s] /\ o = t.kid[q][Opp(s)] /\ o # NULL
      /\ near \in S \union {NULL} /\ far \in S \union {NULL}
      /\ o # q /\ x # q /\ x # o /\ near # q /\ far # q /\ near # o /\ far # o
      /\ o # t.root
  BY <1>4 DEF Nephews
<1>6. Heights(t, S, bh, q, s) /\ Reds(t, S, NULL, NULL) /\ RootBlack(t, NULL)
  BY DEF Siblings
<1>7. ~t.black[o] /\ t.black[q]
  <2>1. IsRed(t, t.kid[q][Opp(s)]) /\ o # NULL /\ q # NULL
    BY <1>0, <1>5
  <2> QED
    BY <1>5, <1>6, <2>1 DEF Reds, IsRed
<1>8. ~IsRed(t, near)
  BY <1>0, <1>1, <1>5, <1>6, <1>7 DEF Reds, IsRed
<1>9. \A m \in Keys : t2.black[m] <=> m \notin {q} /\ (m \in {o} \/ t.black[m])
  BY DEF Tones
<1>10. /\ t2.black[o] /\ ~t2.black[q] /\ \A m \in S : m # o /\ m # q => (t2.black[m] <=> t.black[m])
       /\ \A m \in Keys : t2.black[m] \in BOOLEAN /\ t.black[m] \in BOOLEAN
  BY <1>0, <1>5, <1>9 DEF Typed
<1>11. /\ Weight(t, o) = 0 /\ Weight(t2, o) = 1 /\ Weight(t, q) = 1 /\ Weight(t2, q) = 0
       /\ (far # NULL => Weight(t2, far) = Weight(t, far) /\ Weight(t, far) \in Nat)
  BY <1>5, <1>7, <1>10 DEF Weight
<1>12. h \in Nat /\ bh[x] = h /\ bh[o] = h + 1 /\ bh[q] = h + 2 /\ bh[near] = h + 1 /\ bh[far] = h + 1
       /\ bh \in [S \union {NULL} -> Nat] /\ bh[NULL] = 0
  BY <1>4, <1>11 DEF Nephews
<1>13. PICK bh2 : bh2 = [m \in S \union {NULL} |->
                    IF m = o THEN h + 2 ELSE IF m = q THEN h + 1 ELSE bh[m]]
  OBVIOUS
<1>14. /\ bh2 \in [S \union {NULL} -> Nat] /\ bh2[NULL] = 0
       /\ bh2[o] = h + 2 /\ bh2[q] = h + 1 /\ bh2[near] = h + 1 /\ bh2[far] = h + 1 /\ bh2[x] = h
       /\ \A m \in S : m # o /\ m # q => bh2[m] = bh[m]
  BY <1>0, <1>5, <1>12, <1>13
<1>15. TurnNodes(t, q, s, o, near, x, far)
  BY <1>1, <1>2, <1>5 DEF TurnNodes
<1>16. Heights(t2, S, bh2, q, s)
  <2>1. \A m \in S : m # q /\ m # o /\ m # far => bh2[m] = bh[m] /\ t2.black[m] = t.black[m]
    BY <1>0, <1>10, <1>14
  <2>2. far # NULL => bh2[far] + Weight(t, far) = bh[far] + Weight(t2, far)
    BY <1>11, <1>12, <1>14
  <2>3. bh2[o] = bh[q]
    BY <1>12, <1>14
  <2>4. HeightsAbove(t, t2, S, q, o, far, bh, bh2)
    BY <1>14, <2>1, <2>2, <2>3 DEF HeightsAbove
  <2>5. LackAbove(S, q, o, q, s, q, s)
    BY DEF LackAbove
  <2>6. Lack(q, Opp(s), q, s) = 0 /\ Lack(q, s, q, s) = 1 /\ Lack(o, s, q, s) = 0 /\ Lack(o, Opp(s), q, s) = 0
    BY <1>5 DEF Lack
  <2>7. HeightsAt(t2, q, s, o, near, x, far, bh2, q, s)
    BY <1>11, <1>12, <1>14, <2>6 DEF HeightsAt
  <2> QED
    BY <1>5, <1>6, <1>15, <2>4, <2>5, <2>7, TurnHeights
<1>17. Reds(t2, S, x, x)
  <2>1. RedsAbove(t, t2, S, q, o, NULL, NULL, x)
    BY <1>0, <1>10 DEF RedsAbove
  <2>2. ~IsRed(t2, near)
    BY <1>5, <1>8, <1>10 DEF IsRed
  <2>3. RedsAt(t2, q, o, near, x, far, x, x)
    BY <1>10, <2>2 DEF RedsAt
  <2> QED
    BY <1>5, <1>6, <1>15, <2>1, <2>3, TurnReds
<1>18. RootBlack(t2, x)
  <2>1. t2.root = IF q = t.root THEN o ELSE t.root
    BY <1>5 DEF Rotated
  <2>2. ~IsRed(t, t.root)
    BY <1>0, <1>6 DEF RootBlack, IsRed
  <2> QED
    BY <1>0, <1>5, <1>10, <2>1, <2>2 DEF RootBlack, IsRed
<1>19. t2.kid[q][s] = x
  <2>1. PICK p : p = t.parent[q]
    OBVIOUS
  <2>2. p # q
    BY <1>0, <1>5, <2>1, ParentFacts
  <2>3. q \in Keys
    BY <1>0, <1>5
  <2> QED
    BY <1>1, <1>5, <2>1, <2>2, <2>3 DEF Rotated
<1>20. Erasing(t2, S, bh2, x, q)
  BY <1>5, <1>16, <1>17, <1>18, <1>19 DEF Erasing
<1>21. IsRed(t2, q)
  BY <1>0, <1>5, <1>10 DEF IsRed
<1> QED
  BY <1>20, <1>21

\* A black sibling without red children: it becomes red, and the black node
\* is missing one level up.
LEMMA EraseRecolourStep ==
    ASSUME NEW t, NEW S, NEW sub, Shaped(t, S, sub), NEW bh, NEW x, NEW q, NEW s, NEW o,
           Siblings(t, S, bh, x, q, s, o), ~IsRed(t, o),
           ~IsRed(t, t.kid[o][s]), ~IsRed(t, t.kid[o][Opp(s)]),
           NEW t2, Typed(t2), SamePointers(t, t2), Tones(t, t2, {}, {o})
    PROVE  \E bh2 : Erasing(t2, S, bh2, q, t.parent[q])
<1>0. Typed(t) /\ S \subseteq Keys /\ NULL \notin S /\ t.root \in S \union {NULL}
      /\ \A m \in S, d \in Dirs : t.kid[m][d] \in S \union {NULL}
  BY KeysAssumption DEF Shaped, Below
<1>1. PICK near : near = t.kid[o][s]
  OBVIOUS
<1>2. PICK far : far = t.kid[o][Opp(s)]
  OBVIOUS
<1>3. PICK h : h = bh[x]
  OBVIOUS
<1>4. Nephews(t, S, bh, x, q, s, o, near, far, h)
  BY <1>1, <1>2, <1>3, NephewFacts
<1>5. /\ q \in S /\ o \in S /\ x \in S \union {NULL} /\ s \in Dirs /\ Opp(s) \in Dirs /\ Opp(s) # s
      /\ x = t.kid[q][s] /\ o = t.kid[q][Opp(s)] /\ o # NULL
      /\ near \in S \union {NULL} /\ far \in S \union {NULL}
      /\ o # q /\ x # q /\ x # o /\ near # q /\ far # q /\ near # o /\ far # o
      /\ o # t.root
  BY <1>4 DEF Nephews
<1>6. Heights(t, S, bh, q, s) /\ Reds(t, S, NULL, NULL) /\ RootBlack(t, NULL)
  BY DEF Siblings
<1>7. t.black[o]
  BY <1>5 DEF IsRed
<1>8. t2.kid = t.kid /\ t2.root = t.root /\ t2.parent = t.parent
  BY DEF SamePointers
<1>9. /\ ~t2.black[o] /\ \A m \in Keys : m # o => (t2.black[m] <=> t.black[m])
      /\ \A m \in Keys : t2.black[m] \in BOOLEAN /\ t.black[m] \in BOOLEAN
  BY <1>0, <1>5 DEF Tones, Typed
<1>10. Weight(t, o) = 1 /\ Weight(t2, o) = 0 /\ \A m \in S : m # o => Weight(t2, m) = Weight(t, m)
  BY <1>0, <1>7, <1>9 DEF Weight
<1>11. /\ h \in Nat /\ bh[x] = h /\ bh[o] = h + 1 /\ bh[q] = h + 1 + Weight(t, q) /\ Weight(t, q) \in Nat
       /\ bh \in [S \union {NULL} -> Nat] /\ bh[NULL] = 0
  BY <1>4 DEF Nephews
<1>12. PICK bh2 : bh2 = [m \in S \union {NULL} |->
                    IF m = o THEN h ELSE IF m = q THEN h + Weight(t, q) ELSE bh[m]]
  OBVIOUS
<1>13. /\ bh2 \in [S \union {NULL} -> Nat] /\ bh2[NULL] = 0
       /\ bh2[o] = h /\ bh2[q] = h + Weight(t, q) /\ bh2[x] = h
       /\ \A m \in S \union {NULL} : m # o /\ m # q => bh2[m] = bh[m]
  BY <1>0, <1>5, <1>11, <1>12
<1>14. \A m \in S, d \in Dirs : m # q => bh[m] = bh[t.kid[m][d]] + Weight(t, m)
  <2>1. Short(t, S, bh, q, s)
    BY <1>5, <1>6, LackHeights
  <2> QED
    BY <2>1 DEF Short
<1>15. \A m \in S, d \in Dirs : t.kid[m][d] # NULL => t.parent[t.kid[m][d]] = m
  BY DEF Shaped, Links
<1>16. t.parent[o] = q
  BY <1>5, <1>15
<1>17. PICK p : p = t.parent[q]
  OBVIOUS
<1>18. /\ p = NULL <=> q = t.root
       /\ p # NULL => /\ p \in S /\ p # q /\ q = t.kid[p][Side(t, p, q)] /\ Side(t, p, q) \in Dirs
                      /\ t.kid[p][Opp(Side(t, p, q))] # q
  BY <1>5, <1>17, ParentFacts
<1>19. PICK e \in Dirs : e = Side(t, p, q)
  BY DEF Side, Dirs
<1>20. ASSUME NEW m \in S, NEW d \in Dirs
       PROVE  bh2[m] = bh2[t2.kid[m][d]] + Weight(t2, m) + Lack(m, d, p, e)
  <2>1. PICK c : c = t.kid[m][d]
    OBVIOUS
  <2>2. t2.kid[m][d] = c /\ c \in S \union {NULL} /\ bh[c] \in Nat /\ Weight(t, m) \in Nat
    BY <1>0, <1>8, <1>11, <2>1 DEF Weight
  <2>3. CASE m = q
    <3>1. c \in {x, o} /\ bh2[c] = h
      BY <1>5, <1>13, <2>1, <2>3, OnOrder
    <3>2. Weight(t2, m) = Weight(t, q)
      BY <1>5, <1>10, <2>3
    <3>3. Lack(m, d, p, e) = 0
      BY <1>0, <1>5, <1>18, <2>3 DEF Lack
    <3> QED
      BY <1>11, <1>13, <2>2, <2>3, <3>1, <3>2, <3>3
  <2>4. CASE m # q
    <3>1. bh[m] = bh[c] + Weight(t, m)
      BY <1>14, <2>1, <2>4
    <3>2. c # o
      BY <1>5, <1>15, <1>16, <2>1, <2>4
    <3>3. CASE c = q
      <4>1. m = p /\ d = e /\ c # NULL
        <5>0. q = t.kid[m][d] /\ q # NULL
          BY <1>0, <1>5, <2>1, <3>3
        <5>1. m = p
          BY <1>15, <1>17, <5>0
        <5>2. p # NULL
          BY <1>0, <5>1
        <5>3. t.kid[p][Opp(e)] # q
          BY <1>18, <1>19, <5>2
        <5> QED
          BY <1>0, <1>5, <1>19, <2>1, <3>3, <5>1, <5>3, OnOrder
      <4>2. Lack(m, d, p, e) = 1
        BY <4>1 DEF Lack
      <4>3. m # o
        BY <1>1, <1>2, <1>5, <2>1, <3>3, OnOrder
      <4>4. bh2[m] = bh[m] /\ Weight(t2, m) = Weight(t, m)
        BY <1>10, <1>13, <2>4, <4>3
      <4> QED
        BY <1>11, <1>13, <2>2, <3>1, <3>3, <4>2, <4>4
    <3>4. CASE c # q
      <4>1. bh2[c] = bh[c]
        BY <1>13, <2>2, <3>2, <3>4
      <4>2. Lack(m, d, p, e) = 0
        <5>1. ASSUME m = p, d = e PROVE FALSE
          BY <1>0, <1>18, <1>19, <2>1, <3>4, <5>1
        <5> QED
          BY <5>1 DEF Lack
      <4>3. CASE m = o
        BY <1>10, <1>11, <1>13, <2>2, <3>1, <4>1, <4>2, <4>3
      <4>4. CASE m # o
        <5>1. bh2[m] = bh[m] /\ Weight(t2, m) = Weight(t, m)
          BY <1>10, <1>13, <2>4, <4>4
        <5> QED
          BY <2>2, <3>1, <4>1, <4>2, <5>1
      <4> QED
        BY <4>3, <4>4
    <3> QED
      BY <3>3, <3>4
  <2> QED
    BY <2>3, <2>4
<1>21. Heights(t2, S, bh2, p, e)
  BY <1>13, <1>20 DEF Heights
<1>22. \/ q = t2.root /\ Heights(t2, S, bh2, NULL, "left")
       \/ p \in S /\ \E d \in Dirs : t2.kid[p][d] = q /\ Heights(t2, S, bh2, p, d)
  <2>1. CASE p = NULL
    <3>1. \A m \in S, d \in Dirs : Lack(m, d, p, e) = Lack(m, d, NULL, "left")
      BY <1>0, <2>1 DEF Lack
    <3>2. Heights(t2, S, bh2, NULL, "left")
      BY <1>13, <1>20, <3>1 DEF Heights
    <3> QED
      BY <1>8, <1>18, <2>1, <3>2
  <2>2. CASE p # NULL
    BY <1>8, <1>18, <1>19, <1>21, <2>2
  <2> QED
    BY <2>1, <2>2
<1>23. Reds(t2, S, q, q)
  <2>1. ASSUME NEW m \in S, NEW d \in Dirs, IsRed(t2, t2.kid[m][d]), t2.kid[m][d] # q, m # q
        PROVE  t2.black[m]
    <3>1. PICK c : c = t.kid[m][d]
      OBVIOUS
    <3>2. c = t2.kid[m][d] /\ c \in S /\ c # NULL /\ c \in Keys
      BY <1>0, <1>8, <2>1, <3>1 DEF IsRed
    <3>3. c # o
      BY <1>5, <1>15, <1>16, <2>1, <3>1, <3>2
    <3>4. IsRed(t, c)
      BY <1>9, <2>1, <3>2, <3>3 DEF IsRed
    <3>5. m # o
      BY <1>5, <3>1, <3>4, OnOrder
    <3>6. t.black[m]
      BY <1>0, <1>6, <3>1, <3>2, <3>4 DEF Reds
    <3> QED
      BY <1>0, <1>9, <3>5, <3>6
  <2> QED
    BY <2>1 DEF Reds
<1>24. RootBlack(t2, q)
  BY <1>0, <1>5, <1>6, <1>8, <1>9 DEF RootBlack, IsRed
<1> QED
  BY <1>17, <1>22, <1>23, <1>24 DEF Erasing

\* The colours of the last rotation: o takes the colour of q, q and the far
\* nephew are black.
Passed(t, t2, q, o, far) ==
    \A m \in Keys : t2.black[m] <=>
        IF m = o THEN t.black[q] ELSE m \in {q, far} \/ t.black[m]

\* A red far nephew: the sibling comes up and nothing is missing.
LEMMA EraseOuterStep ==
    ASSUME NEW t, NEW S, NEW sub, Shaped(t, S, sub), NEW bh, NEW x, NEW q, NEW s, NEW o,
           Siblings(t, S, bh, x, q, s, o), ~IsRed(t, o),
           NEW far, far = t.kid[o][Opp(s)], IsRed(t, far),
           NEW t2, Typed(t2), Rotated(t, t2, q, s), Passed(t, t2, q, o, far)
    PROVE  \E bh2 : Balanced(t2, S, bh2)
<1>0. Typed(t) /\ S \subseteq Keys /\ NULL \notin S /\ t.root \in S \union {NULL}
      /\ \A m \in S, d \in Dirs : t.kid[m][d] \in S \union {NULL}
  BY KeysAssumption DEF Shaped, Below
<1>1. PICK near : near = t.kid[o][s]
  OBVIOUS
<1>3. PICK h : h = bh[x]
  OBVIOUS
<1>4. Nephews(t, S, bh, x, q, s, o, near, far, h)
  BY <1>1, <1>3, NephewFacts
<1>2. far # NULL /\ ~t.black[far]
  BY DEF IsRed
<1>5. /\ q \in S /\ o \in S /\ x \in S \union {NULL} /\ s \in Dirs /\ Opp(s) \in Dirs /\ Opp(s) # s
      /\ x = t.kid[q][s] /\ o = t.kid[q][Opp(s)] /\ o # NULL
      /\ near \in S \union {NULL} /\ far \in S
      /\ o # q /\ x # q /\ x # o /\ near # q /\ far # q /\ near # o /\ far # o
      /\ o # t.root /\ far # x /\ far # near
  BY <1>2, <1>4 DEF Nephews
<1>6. Heights(t, S, bh, q, s) /\ Reds(t, S, NULL, NULL) /\ RootBlack(t, NULL)
  BY DEF Siblings
<1>7. t.black[o]
  BY <1>5 DEF IsRed
<1>8. ~IsRed(t, x)
  BY DEF Siblings
<1>9. /\ t2.black[o] <=> t.black[q]
      /\ t2.black[q] /\ t2.black[far]
      /\ \A m \in S : m # o /\ m # q /\ m # far => (t2.black[m] <=> t.black[m])
      /\ \A m \in Keys : t2.black[m] \in BOOLEAN /\ t.black[m] \in BOOLEAN
  BY <1>0, <1>5 DEF Typed, Passed
<1>10. /\ Weight(t, o) = 1 /\ Weight(t2, o) = Weight(t, q) /\ Weight(t2, q) = 1
       /\ Weight(t, far) = 0 /\ Weight(t2, far) = 1
  BY <1>2, <1>7, <1>9 DEF Weight
<1>11. /\ h \in Nat /\ bh[x] = h /\ bh[o] = h + 1 /\ bh[q] = h + 1 + Weight(t, q) /\ Weight(t, q) \in Nat
       /\ bh[near] = h /\ bh[far] = h
       /\ bh \in [S \union {NULL} -> Nat] /\ bh[NULL] = 0
  <2>1. /\ h \in Nat /\ bh[x] = h /\ bh[o] = h + 1 /\ bh[q] = h + 1 + Weight(t, q) /\ Weight(t, q) \in Nat
        /\ bh[o] = bh[near] + Weight(t, o) /\ bh[o] = bh[far] + Weight(t, o)
        /\ bh[near] \in Nat /\ bh[far] \in Nat
        /\ bh \in [S \union {NULL} -> Nat] /\ bh[NULL] = 0
    BY <1>4 DEF Nephews
  <2>2. bh[near] = h /\ bh[far] = h
    BY <1>10, <2>1
  <2> QED
    BY <2>1, <2>2
<1>12. PICK bh2 : bh2 = [m \in S \union {NULL} |->
                    IF m = o THEN bh[q] ELSE IF m \in {q, far} THEN h + 1 ELSE bh[m]]
  OBVIOUS
<1>13. /\ bh2 \in [S \union {NULL} -> Nat] /\ bh2[NULL] = 0
       /\ bh2[o] = bh[q] /\ bh2[q] = h + 1 /\ bh2[far] = h + 1 /\ bh2[near] = h /\ bh2[x] = h
       /\ \A m \in S : m # o /\ m # q /\ m # far => bh2[m] = bh[m]
  BY <1>0, <1>5, <1>11, <1>12
<1>15. TurnNodes(t, q, s, o, near, x, far)
  BY <1>1, <1>5 DEF TurnNodes
<1>16. Heights(t2, S, bh2, NULL, "left")
  <2>1. \A m \in S : m # q /\ m # o /\ m # far => bh2[m] = bh[m] /\ t2.black[m] = t.black[m]
    BY <1>0, <1>9, <1>13
  <2>2. far # NULL => bh2[far] + Weight(t, far) = bh[far] + Weight(t2, far)
    BY <1>10, <1>11, <1>13
  <2>4. HeightsAbove(t, t2, S, q, o, far, bh, bh2)
    BY <1>13, <2>1, <2>2 DEF HeightsAbove
  <2>5. LackAbove(S, q, o, q, s, NULL, "left")
    BY <1>0 DEF LackAbove, Lack
  <2>6. /\ Lack(q, Opp(s), NULL, "left") = 0 /\ Lack(q, s, NULL, "left") = 0
        /\ Lack(o, s, NULL, "left") = 0 /\ Lack(o, Opp(s), NULL, "left") = 0
    BY <1>0, <1>5 DEF Lack
  <2>7. HeightsAt(t2, q, s, o, near, x, far, bh2, NULL, "left")
    BY <1>10, <1>11, <1>13, <2>6 DEF HeightsAt
  <2> QED
    BY <1>5, <1>6, <1>15, <2>4, <2>5, <2>7, TurnHeights
<1>17. Reds(t2, S, NULL, NULL)
  <2>0. \A m \in S : m # q /\ m # o => (t.black[m] => t2.black[m])
    BY <1>9
  <2>a. t2.black[o] \/ ~(t.black[q] \/ q = NULL)
    BY <1>0, <1>5, <1>9
  <2>1. RedsAbove(t, t2, S, q, o, NULL, NULL, NULL)
    BY <1>0, <2>0, <2>a DEF RedsAbove
  <2>2. ~IsRed(t2, far)
    BY <1>9 DEF IsRed
  <2>3. RedsAt(t2, q, o, near, x, far, NULL, NULL)
    BY <1>9, <2>2 DEF RedsAt
  <2> QED
    BY <1>5, <1>6, <1>15, <2>1, <2>3, TurnReds
<1>18. RootBlack(t2, NULL)
  <2>1. t2.root = IF q = t.root THEN o ELSE t.root
    BY <1>5 DEF Rotated
  <2>2. ~IsRed(t, t.root)
    BY <1>0, <1>6 DEF RootBlack, IsRed
  <2>3. ASSUME t2.root # NULL PROVE t2.black[t2.root]
    <3>1. CASE q = t.root
      BY <1>0, <1>5, <1>9, <2>1, <2>2, <3>1 DEF IsRed
    <3>2. CASE q # t.root
      <4>1. t2.root = t.root /\ t.root \in S /\ t.black[t.root] /\ t.root # o
        BY <1>0, <1>5, <2>1, <2>2, <2>3, <3>2 DEF IsRed
      <4> QED
        BY <1>9, <3>2, <4>1
    <3> QED
      BY <3>1, <3>2
  <2> QED
    BY <2>3 DEF RootBlack, IsRed
<1> QED
  BY <1>16, <1>17, <1>18 DEF Balanced

\* A red near nephew only: it comes up and is the sibling, with a red far
\* child.
LEMMA EraseInnerStep ==
    ASSUME NEW t, NEW S, NEW sub, Shaped(t, S, sub), NEW bh, NEW x, NEW q, NEW s, NEW o,
           Siblings(t, S, bh, x, q, s, o), ~IsRed(t, o),
           NEW near, near = t.kid[o][s], IsRed(t, near),
           NEW far, far = t.kid[o][Opp(s)], ~IsRed(t, far),
           NEW t2, Typed(t2), Rotated(t, t2, o, Opp(s)), Tones(t, t2, {near}, {o})
    PROVE  /\ \E bh2 : Siblings(t2, S, bh2, x, q, s, near)
           /\ ~IsRed(t2, near) /\ t2.kid[near][Opp(s)] = o /\ IsRed(t2, o)
<1>0. Typed(t) /\ S \subseteq Keys /\ NULL \notin S /\ t.root \in S \union {NULL}
      /\ \A m \in S, d \in Dirs : t.kid[m][d] \in S \union {NULL}
  BY KeysAssumption DEF Shaped, Below
<1>3. PICK h : h = bh[x]
  OBVIOUS
<1>4. Nephews(t, S, bh, x, q, s, o, near, far, h)
  BY <1>3, NephewFacts
<1>2. near # NULL /\ ~t.black[near]
  BY DEF IsRed
<1>5. /\ q \in S /\ o \in S /\ x \in S \union {NULL} /\ s \in Dirs /\ Opp(s) \in Dirs /\ Opp(s) # s
      /\ x = t.kid[q][s] /\ o = t.kid[q][Opp(s)] /\ o # NULL
      /\ near \in S /\ far \in S \union {NULL}
      /\ o # q /\ x # q /\ x # o /\ near # q /\ far # q /\ near # o /\ far # o
      /\ o # t.root /\ near # x /\ near # far
  BY <1>2, <1>4 DEF Nephews
<1>6. Heights(t, S, bh, q, s) /\ Reds(t, S, NULL, NULL) /\ RootBlack(t, NULL)
  BY DEF Siblings
<1>7. t.black[o] /\ ~IsRed(t, x) /\ s = Side(t, q, x)
  BY <1>5 DEF IsRed, Siblings
<1>8. PICK d \in Dirs : d = Opp(s) /\ s = Opp(d) /\ s # d
  BY <1>5, OnOrder
<1>9. PICK mid : mid = t.kid[near][d]
  OBVIOUS
<1>10. PICK out : out = t.kid[near][s]
  OBVIOUS
<1>11. TurnNodes(t, o, d, near, mid, far, out)
  BY <1>2, <1>8, <1>9, <1>10 DEF TurnNodes
<1>12. mid \in S \union {NULL} /\ out \in S \union {NULL} /\ mid # o /\ out # o /\ mid # near /\ out # near
  <2>1. KidOf(t, S, sub, o, s, near)
    BY <1>2, <1>5, KidIs
  <2>2. mid # NULL => KidOf(t, S, sub, near, d, mid)
    BY <1>5, <1>9, KidIs
  <2>3. out # NULL => KidOf(t, S, sub, near, s, out)
    BY <1>5, <1>10, KidIs
  <2>4. mid # o /\ out # o
    BY <1>5, <1>8, <1>9, <1>10, <2>1 DEF KidOf
  <2>5. mid # near /\ out # near
    BY <1>2, <2>2, <2>3 DEF KidOf
  <2>6. mid \in S \union {NULL} /\ out \in S \union {NULL}
    BY <1>0, <1>5, <1>8, <1>9, <1>10
  <2> QED
    BY <2>4, <2>5, <2>6
<1>13. ~IsRed(t, mid) /\ ~IsRed(t, out)
  <2>0. \A m \in S, e \in Dirs : IsRed(t, t.kid[m][e]) => t.black[m]
    BY <1>0, <1>6 DEF Reds, IsRed
  <2> QED
    BY <1>2, <1>5, <1>8, <1>9, <1>10, <2>0
<1>14. \A m \in Keys : t2.black[m] <=> m \notin {o} /\ (m \in {near} \/ t.black[m])
  BY DEF Tones
<1>15. /\ t2.black[near] /\ ~t2.black[o] /\ \A m \in S : m # o /\ m # near => (t2.black[m] <=> t.black[m])
       /\ \A m \in Keys : t2.black[m] \in BOOLEAN /\ t.black[m] \in BOOLEAN
  BY <1>0, <1>5, <1>14 DEF Typed
<1>16. /\ Weight(t, o) = 1 /\ Weight(t2, o) = 0 /\ Weight(t, near) = 0 /\ Weight(t2, near) = 1
       /\ (out # NULL => Weight(t2, out) = Weight(t, out) /\ Weight(t, out) \in Nat)
  BY <1>2, <1>7, <1>12, <1>15 DEF Weight
<1>17. /\ h \in Nat /\ bh[x] = h /\ bh[o] = h + 1
       /\ bh[near] = h /\ bh[far] = h
       /\ bh \in [S \union {NULL} -> Nat] /\ bh[NULL] = 0
  <2>1. /\ h \in Nat /\ bh[x] = h /\ bh[o] = h + 1
        /\ bh[o] = bh[near] + Weight(t, o) /\ bh[o] = bh[far] + Weight(t, o)
        /\ bh[near] \in Nat /\ bh[far] \in Nat
        /\ bh \in [S \union {NULL} -> Nat] /\ bh[NULL] = 0
    BY <1>4 DEF Nephews
  <2>2. bh[near] = h /\ bh[far] = h
    BY <1>16, <2>1
  <2> QED
    BY <2>1, <2>2
<1>18. bh[mid] = h /\ bh[out] = h
  <2>1. Short(t, S, bh, q, s)
    BY <1>5, <1>6, LackHeights
  <2>2. bh[near] = bh[mid] + Weight(t, near)
    BY <1>5, <1>9, <2>1 DEF Short
  <2>3. bh[near] = bh[out] + Weight(t, near)
    BY <1>5, <1>10, <2>1 DEF Short
  <2>4. bh[mid] \in Nat /\ bh[out] \in Nat
    BY <1>12, <1>17
  <2> QED
    BY <1>16, <1>17, <2>2, <2>3, <2>4
<1>19. PICK bh2 : bh2 = [m \in S \union {NULL} |->
                    IF m = near THEN h + 1 ELSE IF m = o THEN h ELSE bh[m]]
  OBVIOUS
<1>20. /\ bh2 \in [S \union {NULL} -> Nat] /\ bh2[NULL] = 0
       /\ bh2[near] = h + 1 /\ bh2[o] = h /\ bh2[mid] = h /\ bh2[far] = h /\ bh2[out] = h
       /\ \A m \in S : m # o /\ m # near => bh2[m] = bh[m]
  BY <1>0, <1>2, <1>5, <1>12, <1>17, <1>18, <1>19
<1>21. Heights(t2, S, bh2, q, s)
  <2>1. \A m \in S : m # o /\ m # near /\ m # out => bh2[m] = bh[m] /\ t2.black[m] = t.black[m]
    BY <1>0, <1>15, <1>20
  <2>2. out # NULL => bh2[out] + Weight(t, out) = bh[out] + Weight(t2, out)
    BY <1>16, <1>18, <1>20
  <2>3. bh2[near] = bh[o]
    BY <1>17, <1>20
  <2>4. HeightsAbove(t, t2, S, o, near, out, bh, bh2)
    BY <1>20, <2>1, <2>2, <2>3 DEF HeightsAbove
  <2>5. LackAbove(S, o, near, q, s, q, s)
    BY DEF LackAbove
  <2>6. Lack(o, Opp(d), q, s) = 0 /\ Lack(o, d, q, s) = 0 /\ Lack(near, d, q, s) = 0 /\ Lack(near, Opp(d), q, s) = 0
    BY <1>5 DEF Lack
  <2>7. HeightsAt(t2, o, d, near, mid, far, out, bh2, q, s)
    BY <1>16, <1>17, <1>20, <2>6 DEF HeightsAt
  <2>8. Rotated(t, t2, o, d)
    BY <1>8
  <2> QED
    BY <1>5, <1>6, <1>11, <2>4, <2>5, <2>7, <2>8, TurnHeights
<1>22. Reds(t2, S, NULL, NULL)
  <2>1. RedsAbove(t, t2, S, o, near, NULL, NULL, NULL)
    BY <1>0, <1>15 DEF RedsAbove
  <2>2. ~IsRed(t2, mid) /\ ~IsRed(t2, far)
    BY <1>5, <1>12, <1>13, <1>15 DEF IsRed
  <2>3. RedsAt(t2, o, near, mid, far, out, NULL, NULL)
    BY <1>15, <2>2 DEF RedsAt
  <2>8. Rotated(t, t2, o, d)
    BY <1>8
  <2> QED
    BY <1>5, <1>6, <1>11, <2>1, <2>3, <2>8, TurnReds
<1>23. /\ t2.root = t.root
       /\ \A m \in Keys, e \in Dirs : t2.kid[m][e] =
               IF m = o /\ e = s THEN mid
               ELSE IF m = near /\ e = d THEN o
               ELSE IF m = q /\ t.kid[m][e] = o THEN near ELSE t.kid[m][e]
  <2>1. q = t.parent[o]
    BY <1>0, <1>5 DEF Shaped, Links
  <2>2. t2.root = t.root
    BY <1>5 DEF Rotated
  <2>3. Rotated(t, t2, o, d) /\ near = t.kid[o][Opp(d)]
    BY <1>8
  <2>4. Opp(d) = s
    BY <1>8
  <2>5. \A m \in Keys, e \in Dirs : t2.kid[m][e] =
               IF m = o /\ e = Opp(d) THEN mid
               ELSE IF m = near /\ e = d THEN o
               ELSE IF m = q /\ t.kid[m][e] = o THEN near ELSE t.kid[m][e]
    BY <1>9, <2>1, <2>3 DEF Rotated
  <2> QED
    BY <2>2, <2>4, <2>5
<1>24. RootBlack(t2, NULL)
  BY <1>0, <1>5, <1>6, <1>15, <1>23 DEF RootBlack, IsRed
<1>25. t2.kid[q][s] = x /\ t2.kid[q][Opp(s)] = near /\ t2.kid[near][Opp(s)] = o
  BY <1>0, <1>5, <1>8, <1>23
<1>26. Side(t2, q, x) = s
  BY <1>5, <1>25 DEF Side, Dirs, Opp
<1>27. ~IsRed(t2, x)
  BY <1>5, <1>7, <1>15 DEF IsRed
<1>28. Siblings(t2, S, bh2, x, q, s, near)
  BY <1>5, <1>21, <1>22, <1>24, <1>25, <1>26, <1>27 DEF Siblings
<1>29. ~IsRed(t2, near) /\ IsRed(t2, o)
  BY <1>5, <1>15 DEF IsRed
<1> QED
  BY <1>25, <1>28, <1>29

-----------------------------------------------------------------------------
(* Searching and walking in the tree *)

\* A node that is below a and is not a is below the child of a on its side.
LEMMA StepDown ==
    ASSUME NEW t, NEW S, NEW sub, Shaped(t, S, sub), NEW a \in S, NEW b \in sub[a], b # a,
           NEW d, d = Toward(b, a), NEW c, c = t.kid[a][d]
    PROVE  d \in Dirs /\ c \in S /\ b \in sub[c] /\ KidOf(t, S, sub, a, d, c)
<1>1. d \in Dirs
  BY DEF Toward, Dirs
<1>2. On(d, b, a)
  BY DEF On
<1>3. c \in S \union {NULL} /\ Under(sub, c) = Part(sub[a], a, d)
  BY <1>1 DEF Shaped, Below
<1>4. b \in Under(sub, c)
  BY <1>2, <1>3 DEF Part
<1>5. c # NULL
  BY <1>4 DEF Under
<1>6. KidOf(t, S, sub, a, d, c)
  BY <1>1, <1>5, KidIs
<1> QED
  BY <1>1, <1>3, <1>4, <1>5, <1>6 DEF Under

\* The nodes below a node below a are below a.
LEMMA Nested ==
    ASSUME NEW t, NEW S, NEW sub, Shaped(t, S, sub), NEW b \in S
    PROVE  \A a \in S : b \in sub[a] => sub[b] \subseteq sub[a]
<1> DEFINE E == {a \in S : b \in sub[a] /\ ~(sub[b] \subseteq sub[a])}
<1>1. ASSUME NEW a \in E PROVE \E c \in E : sub[c] \subseteq sub[a] /\ sub[c] # sub[a]
  <2>1. a \in S /\ b \in sub[a] /\ ~(sub[b] \subseteq sub[a]) /\ b # a
    BY <1>1
  <2>2. PICK d : d = Toward(b, a)
    OBVIOUS
  <2>3. PICK c : c = t.kid[a][d]
    OBVIOUS
  <2>4. c \in S /\ b \in sub[c] /\ KidOf(t, S, sub, a, d, c)
    BY <2>1, <2>2, <2>3, StepDown
  <2>5. sub[c] \subseteq sub[a] /\ a \notin sub[c] /\ a \in sub[a]
    BY <2>1, <2>4 DEF KidOf, Shaped, Below
  <2> QED
    BY <2>1, <2>4, <2>5
<1>2. IsFiniteSet(S) /\ \A n \in E : sub[n] \subseteq S
  BY DEF Shaped, Below
<1>3. E = {}
  <2> HIDE DEF E
  <2>1. Shrinking(S, E, sub)
    BY <1>1, <1>2 DEF Shrinking
  <2> QED
    BY <2>1, Descent
<1> QED
  BY <1>3

\* The nodes below n lie together: a key outside is on the same side of all.
LEMMA Convex ==
    ASSUME NEW t, NEW S, NEW sub, Shaped(t, S, sub), NEW n \in S, NEW j \in sub[n],
           NEW k \in S, k \notin sub[n], NEW d \in Dirs
    PROVE  On(d, k, j) <=> On(d, k, n)
<1>0. S \subseteq Keys /\ IsFiniteSet(S) /\ j \in S /\ \A m \in S : m \in sub[m] /\ sub[m] \subseteq S
  BY DEF Shaped, Below
<1> DEFINE E == {a \in S : n \in sub[a] /\ k \in sub[a]}
<1>1. SUFFICES ASSUME ~(On(d, k, j) <=> On(d, k, n)) PROVE FALSE
  OBVIOUS
<1>2. ASSUME NEW a \in E PROVE \E c \in E : sub[c] \subseteq sub[a] /\ sub[c] # sub[a]
  <2>1. a \in S /\ n \in sub[a] /\ k \in sub[a] /\ n # a /\ a \in Keys
    BY <1>0, <1>2
  <2>2. PICK f : f = Toward(n, a)
    OBVIOUS
  <2>3. PICK c : c = t.kid[a][f]
    OBVIOUS
  <2>4. f \in Dirs /\ c \in S /\ n \in sub[c] /\ KidOf(t, S, sub, a, f, c)
    BY <2>1, <2>2, <2>3, StepDown
  <2>5. sub[c] = Part(sub[a], a, f) /\ sub[c] \subseteq sub[a] /\ a \notin sub[c] /\ a \in sub[a]
    BY <1>0, <2>1, <2>4 DEF KidOf
  <2>6. j \in sub[c]
    BY <2>4, Nested
  <2>7. On(f, j, a) /\ On(f, n, a)
    BY <2>4, <2>5, <2>6 DEF Part
  <2>8. k \in sub[c]
    <3>1. SUFFICES ASSUME k \notin sub[c] PROVE FALSE
      OBVIOUS
    <3>2. ~On(f, k, a)
      BY <2>1, <2>5, <3>1 DEF Part
    <3>3. /\ \A u, v \in Keys : u = v \/ On(f, u, v) \/ On(f, v, u)
          /\ \A u, v \in Keys : ~(On(f, u, v) /\ On(f, v, u))
          /\ \A u, v, w \in Keys : On(f, u, v) /\ On(f, v, w) => On(f, u, w)
          /\ \A u, v \in Keys : On(Opp(f), u, v) <=> On(f, v, u)
          /\ \A e \in Dirs : e # f => e = Opp(f)
      BY <2>4, OnOrder
    <3>4. k \in Keys /\ j \in Keys /\ n \in Keys
      BY <1>0
    <3>5. On(f, j, k) /\ On(f, n, k)
      BY <2>1, <2>7, <3>2, <3>3, <3>4
    <3>6. ~On(f, k, j) /\ ~On(f, k, n) /\ On(Opp(f), k, j) /\ On(Opp(f), k, n)
      BY <3>3, <3>4, <3>5
    <3>7. d = f \/ d = Opp(f)
      BY <3>3
    <3> QED
      BY <1>1, <3>6, <3>7
  <2> QED
    BY <2>1, <2>4, <2>5, <2>8
<1>3. \A a \in E : sub[a] \subseteq S
  BY <1>0
<1>4. E = {}
  <2> HIDE DEF E
  <2>1. Shrinking(S, E, sub)
    BY <1>0, <1>2, <1>3 DEF Shrinking
  <2> QED
    BY <2>1, Descent
<1>5. t.root \in E
  <2>1. t.root \in S \union {NULL} /\ Under(sub, t.root) = S
    BY DEF Shaped, Below
  <2>2. t.root # NULL /\ sub[t.root] = S
    BY <2>1 DEF Under
  <2> QED
    BY <2>1, <2>2
<1> QED
  BY <1>4, <1>5

\* x is the last of the keys X towards side d.
LastOf(X, d, x) == x \in X /\ \A k \in X : k = x \/ On(Opp(d), k, x)

\* A finite set of deadlines that is not empty has a last one.
LEMMA LastExists ==
    ASSUME NEW X, X \subseteq Keys, X # {}, NEW d \in Dirs
    PROVE  \E x \in X : LastOf(X, d, x)
<1>0. IsFiniteSet(X)
  BY KeysAssumption, FS_Subset
<1>1. SUFFICES ASSUME \A x \in X : ~LastOf(X, d, x) PROVE FALSE
  OBVIOUS
<1>2. PICK part : part = [x \in X |-> Part(X, x, d)]
  OBVIOUS
<1>3. \A x \in X : part[x] = Part(X, x, d)
  BY <1>2
<1>4. \A x \in X : part[x] \subseteq X
  BY <1>3 DEF Part
<1>5. ASSUME NEW x \in X PROVE \E y \in X : part[y] \subseteq part[x] /\ part[y] # part[x]
  <2>1. PICK y \in X : y # x /\ ~On(Opp(d), y, x)
    BY <1>1 DEF LastOf
  <2>2. On(d, y, x)
    BY <2>1, OnOrder
  <2>3. \A k \in X : On(d, k, y) => On(d, k, x)
    BY <2>1, <2>2, OnOrder
  <2>4. ~On(d, y, y)
    BY OnOrder
  <2>5. part[y] \subseteq part[x] /\ y \in part[x] /\ y \notin part[y]
    BY <1>3, <2>2, <2>3, <2>4 DEF Part
  <2> QED
    BY <2>5
<1>6. X = {}
  <2>1. Shrinking(X, X, part)
    BY <1>0, <1>4, <1>5 DEF Shrinking
  <2> QED
    BY <2>1, Descent
<1> QED
  BY <1>6

\* There is only one.
LEMMA LastUnique ==
    ASSUME NEW X, X \subseteq Keys, NEW d \in Dirs, NEW x, NEW y, LastOf(X, d, x), LastOf(X, d, y)
    PROVE  x = y
<1>1. x \in Keys /\ y \in Keys /\ (y = x \/ On(Opp(d), y, x)) /\ (x = y \/ On(Opp(d), x, y))
  BY DEF LastOf
<1> QED
  BY <1>1, OnOrder

\* Two functions that differ at a node only if they differ at a child of it
\* do not differ.
LEMMA Agree ==
    ASSUME NEW t, NEW S, NEW sub, Shaped(t, S, sub), NEW F, NEW W,
           \A n \in S : F[n] # W[n] => \E d \in Dirs : t.kid[n][d] # NULL /\ F[t.kid[n][d]] # W[t.kid[n][d]]
    PROVE  \A n \in S : F[n] = W[n]
<1> DEFINE E == {n \in S : F[n] # W[n]}
<1>1. ASSUME NEW a \in E PROVE \E c \in E : sub[c] \subseteq sub[a] /\ sub[c] # sub[a]
  <2>1. a \in S /\ F[a] # W[a]
    BY <1>1
  <2>2. PICK d \in Dirs : t.kid[a][d] # NULL /\ F[t.kid[a][d]] # W[t.kid[a][d]]
    BY <2>1
  <2>3. PICK c : c = t.kid[a][d]
    OBVIOUS
  <2>4. KidOf(t, S, sub, a, d, c)
    BY <2>1, <2>2, <2>3, KidIs
  <2>5. c \in S /\ sub[c] \subseteq sub[a] /\ a \notin sub[c] /\ a \in sub[a]
    BY <2>1, <2>4 DEF KidOf, Shaped, Below
  <2> QED
    BY <2>2, <2>3, <2>5
<1>2. IsFiniteSet(S) /\ \A n \in E : sub[n] \subseteq S
  BY DEF Shaped, Below
<1>3. E = {}
  <2> HIDE DEF E
  <2>1. Shrinking(S, E, sub)
    BY <1>1, <1>2 DEF Shrinking
  <2> QED
    BY <2>1, Descent
<1> QED
  BY <1>3

\* The last node towards d is found by following the children on that side.
LEMMA OutermostIs ==
    ASSUME NEW t, NEW S, NEW sub, Shaped(t, S, sub), Outside(t, S, NULL), NEW n \in S, NEW d \in Dirs
    PROVE  LastOf(sub[n], d, Outermost(t, n, d))
<1>0. /\ S \subseteq Keys /\ NULL \notin S /\ n # NULL /\ NULL \notin Keys
      /\ \A m \in S : m \in sub[m] /\ sub[m] \subseteq S
      /\ \A m \in S : t.kid[m][d] \in S \union {NULL}
      /\ \A m \in S : Under(sub, t.kid[m][d]) = Part(sub[m], m, d)
  BY KeysAssumption DEF Shaped, Below
<1>1. \A m \in Keys : m \notin S => t.kid[m][d] = NULL
  BY <1>0 DEF Outside, Blank
<1> DEFINE Eq(f) == f = [i \in Keys |-> IF t.kid[i][d] = NULL THEN i ELSE f[t.kid[i][d]]]
<1>2. PICK F : Outermost(t, n, d) = F[n] /\ F = CHOOSE f : Eq(f)
  BY <1>0 DEF Outermost
<1>3. PICK L : L = [i \in S |-> CHOOSE x : LastOf(sub[i], d, x)]
  OBVIOUS
<1>4. \A i \in S : LastOf(sub[i], d, L[i])
  <2>1. ASSUME NEW i \in S PROVE \E x : LastOf(sub[i], d, x)
    <3>1. PICK X : X = sub[i]
      OBVIOUS
    <3>2. X \subseteq Keys /\ X # {}
      BY <1>0, <3>1
    <3> QED
      BY <3>1, <3>2, LastExists
  <2> QED
    BY <1>3, <2>1
<1>5. \A i \in S : \A x : LastOf(sub[i], d, x) => x = L[i]
  <2>1. ASSUME NEW i \in S, NEW x, LastOf(sub[i], d, x) PROVE x = L[i]
    <3>1. PICK X : X = sub[i]
      OBVIOUS
    <3>2. X \subseteq Keys /\ LastOf(X, d, x) /\ LastOf(X, d, L[i])
      BY <1>0, <1>4, <2>1, <3>1
    <3> QED
      BY <3>2, LastUnique
  <2> QED
    BY <2>1
<1>6. PICK W : W = [i \in Keys |-> IF i \in S THEN L[i] ELSE i]
  OBVIOUS
<1>7. ASSUME NEW i \in Keys
      PROVE  W[i] = IF t.kid[i][d] = NULL THEN i ELSE W[t.kid[i][d]]
  <2>1. CASE i \notin S
    BY <1>1, <1>6, <2>1
  <2>2. CASE i \in S /\ t.kid[i][d] = NULL
    <3>1. Part(sub[i], i, d) = {}
      BY <1>0, <2>2 DEF Under
    <3>2. \A k \in sub[i] : k = i \/ On(Opp(d), k, i)
      BY <1>0, <2>2, <3>1, OnOrder DEF Part
    <3>3. LastOf(sub[i], d, i)
      BY <1>0, <2>2, <3>2 DEF LastOf
    <3> QED
      BY <1>5, <1>6, <2>2, <3>3
  <2>3. CASE i \in S /\ t.kid[i][d] # NULL
    <3>1. PICK c : c = t.kid[i][d]
      OBVIOUS
    <3>2. KidOf(t, S, sub, i, d, c)
      BY <2>3, <3>1, KidIs
    <3>3. c \in S /\ sub[c] = Part(sub[i], i, d) /\ sub[c] \subseteq sub[i]
      BY <3>2 DEF KidOf
    <3>4. PICK x : x = L[c]
      OBVIOUS
    <3>5. x \in sub[c] /\ \A k \in sub[c] : k = x \/ On(Opp(d), k, x)
      BY <1>4, <3>3, <3>4 DEF LastOf
    <3>6. On(d, x, i) /\ x \in Keys /\ i \in Keys /\ sub[i] \subseteq Keys
      BY <1>0, <2>3, <3>3, <3>5 DEF Part
    <3>7. ASSUME NEW k \in sub[i] PROVE k = x \/ On(Opp(d), k, x)
      <4>1. CASE k \in sub[c]
        BY <3>5, <4>1
      <4>2. CASE k \notin sub[c]
        <5>1. ~On(d, k, i)
          BY <3>3, <4>2 DEF Part
        <5>2. k = i \/ On(d, i, k)
          BY <3>6, <3>7, <5>1, OnOrder
        <5>3. On(d, x, k)
          BY <3>6, <3>7, <5>2, OnOrder
        <5> QED
          BY <3>6, <3>7, <5>3, OnOrder
      <4> QED
        BY <4>1, <4>2
    <3>8. LastOf(sub[i], d, x)
      BY <3>3, <3>5, <3>7 DEF LastOf
    <3>9. L[i] = x
      BY <1>5, <2>3, <3>8
    <3> QED
      BY <1>0, <1>6, <2>3, <3>1, <3>3, <3>4, <3>9
  <2> QED
    BY <2>1, <2>2, <2>3
<1>8. Eq(W)
  BY <1>6, <1>7
<1>9. Eq(F)
  BY <1>2, <1>8
<1>10. \A i \in S : F[i] # W[i] => \E e \in Dirs : t.kid[i][e] # NULL /\ F[t.kid[i][e]] # W[t.kid[i][e]]
  BY <1>0, <1>7, <1>9
<1>11. \A i \in S : F[i] = W[i]
  BY <1>10, Agree
<1>12. n \in Keys /\ W[n] = L[n] /\ F[n] = W[n]
  BY <1>0, <1>6, <1>11
<1>13. Outermost(t, n, d) = L[n]
  BY <1>2, <1>12
<1> QED
  BY <1>4, <1>13

\* rb_search finds exactly the nodes of the tree.
LEMMA SearchIs ==
    ASSUME NEW t, NEW S, NEW sub, Shaped(t, S, sub), NEW v, Outside(t, S, v), NEW k \in Keys
    PROVE  rb_search(t, k) = IF k \in S THEN k ELSE NULL
<1>0. /\ S \subseteq Keys /\ NULL \notin S /\ k # NULL /\ NULL \notin Keys
      /\ \A m \in S : m \in sub[m] /\ sub[m] \subseteq S
      /\ \A m \in S, d \in Dirs : /\ t.kid[m][d] \in S \union {NULL}
                                  /\ Under(sub, t.kid[m][d]) = Part(sub[m], m, d)
      /\ t.root \in S \union {NULL} /\ Under(sub, t.root) = S
  BY KeysAssumption DEF Shaped, Below
<1>1. \A m \in Keys, d \in Dirs : m \notin S => t.kid[m][d] \in S \union {NULL}
  BY DEF Outside
<1>2. \A m \in Keys : Toward(k, m) \in Dirs
  BY DEF Toward, Dirs
<1> DEFINE Eq(f) == f = [n \in Ptr |-> IF n \in {k, NULL} THEN n ELSE f[t.kid[n][Toward(k, n)]]]
<1>3. PICK F : rb_search(t, k) = F[t.root] /\ F = CHOOSE f : Eq(f)
  BY DEF rb_search
<1>4. PICK G : G = [c \in S \union {NULL} |-> IF k \in Under(sub, c) THEN k ELSE NULL]
  OBVIOUS
<1>5. \A c \in S \union {NULL} : G[c] = IF k \in Under(sub, c) THEN k ELSE NULL
  BY <1>4
<1>6. PICK W : W = [n \in Ptr |-> IF n \in S \union {NULL} THEN G[n]
                                ELSE IF n = k THEN k ELSE G[t.kid[n][Toward(k, n)]]]
  OBVIOUS
<1>7. \A n \in Ptr : W[n] = IF n \in S \union {NULL} THEN G[n]
                          ELSE IF n = k THEN k ELSE G[t.kid[n][Toward(k, n)]]
  BY <1>6
<1>8. S \union {NULL} \subseteq Ptr
  BY <1>0 DEF Ptr
<1>9. ASSUME NEW n \in Ptr
      PROVE  W[n] = IF n \in {k, NULL} THEN n ELSE W[t.kid[n][Toward(k, n)]]
  <2>1. CASE n = NULL
    BY <1>5, <1>7, <2>1 DEF Under
  <2>2. CASE n \notin S \union {NULL}
    <3>1. n \in Keys /\ n # NULL
      BY <1>9, <2>2 DEF Ptr
    <3>2. PICK c : c = t.kid[n][Toward(k, n)]
      OBVIOUS
    <3>3. c \in S \union {NULL}
      BY <1>1, <1>2, <2>2, <3>1, <3>2
    <3>4. W[c] = G[c]
      BY <1>7, <1>8, <3>3
    <3> QED
      BY <1>7, <2>2, <3>1, <3>2, <3>4
  <2>3. CASE n \in S /\ n = k
    <3>1. k \in Under(sub, n)
      BY <1>0, <2>3 DEF Under
    <3> QED
      BY <1>5, <1>7, <2>3, <3>1
  <2>4. CASE n \in S /\ n # k
    <3>1. PICK d \in Dirs : d = Toward(k, n)
      BY <1>0, <1>2, <2>4
    <3>2. PICK c : c = t.kid[n][d]
      OBVIOUS
    <3>3. c \in S \union {NULL} /\ Under(sub, c) = Part(sub[n], n, d) /\ n # NULL
      BY <1>0, <2>4, <3>1, <3>2
    <3>4. k \in Under(sub, n) <=> k \in Under(sub, c)
      <4>1. On(d, k, n)
        BY <2>4, <3>1 DEF On
      <4> QED
        BY <3>3, <4>1 DEF Under, Part
    <3>5. W[n] = G[n] /\ W[c] = G[c] /\ G[n] = G[c]
      BY <1>5, <1>7, <1>8, <2>4, <3>3, <3>4
    <3> QED
      BY <2>4, <3>1, <3>2, <3>3, <3>5
  <2> QED
    BY <2>1, <2>2, <2>3, <2>4
<1>10. Eq(W)
  BY <1>6, <1>9
<1>11. Eq(F)
  BY <1>3, <1>10
<1>12. \A n \in Ptr : F[n] = IF n \in {k, NULL} THEN n ELSE F[t.kid[n][Toward(k, n)]]
  BY <1>11
<1>13. ASSUME NEW i \in S, F[i] # W[i]
       PROVE  \E e \in Dirs : t.kid[i][e] # NULL /\ F[t.kid[i][e]] # W[t.kid[i][e]]
  <2>1. PICK d \in Dirs : d = Toward(k, i)
    BY <1>0, <1>2
  <2>2. PICK c : c = t.kid[i][d]
    OBVIOUS
  <2>3. i \in Ptr /\ NULL \in Ptr
    BY <1>8
  <2>4. i \notin {k, NULL}
    BY <1>9, <1>12, <1>13, <2>3
  <2>5. F[i] = F[c] /\ W[i] = W[c]
    BY <1>9, <1>12, <2>1, <2>2, <2>3, <2>4
  <2>6. F[NULL] = NULL /\ W[NULL] = NULL
    BY <1>9, <1>12, <2>3
  <2> QED
    BY <1>13, <2>2, <2>5, <2>6
<1>14. \A i \in S : F[i] = W[i]
  BY <1>13, Agree
<1>15. F[NULL] = NULL /\ W[NULL] = NULL
  BY <1>8, <1>9, <1>12
<1>16. F[t.root] = G[t.root]
  BY <1>0, <1>7, <1>8, <1>14, <1>15
<1> QED
  BY <1>0, <1>3, <1>5, <1>16

\* j lies between p and k.
Between(j, p, k) == On(Toward(k, p), j, p) /\ On(Toward(k, p), k, j)

\* The nodes below n that have no child towards k and none between them and k.
Ends(t, sub, k, n) ==
    {p \in sub[n] : t.kid[p][Toward(k, p)] = NULL /\ \A j \in sub[n] : ~Between(j, p, k)}

\* One step of the descent of rb_insert: it ends at n, or at the same node as
\* from the child c.
EndsVia(t, S, sub, k, n, c) ==
    /\ c = NULL => Ends(t, sub, k, n) = {n}
    /\ c # NULL => c \in S /\ Ends(t, sub, k, n) = Ends(t, sub, k, c)

\* A search for k that reaches n ends where it ends below the child on its side.
LEMMA EndsStep ==
    ASSUME NEW t, NEW S, NEW sub, Shaped(t, S, sub), NEW k \in Keys \ S, NEW n \in S,
           NEW c, c = t.kid[n][Toward(k, n)]
    PROVE  EndsVia(t, S, sub, k, n, c)
<1>0. S \subseteq Keys /\ n \in sub[n] /\ sub[n] \subseteq S
  BY DEF Shaped, Below
<1>1. PICK d \in Dirs : d = Toward(k, n)
  BY DEF Toward, Dirs
<1>2. On(d, k, n) /\ n \in Keys /\ k \in Keys
  BY <1>0, <1>1 DEF On
<1>3. Under(sub, c) = Part(sub[n], n, d) /\ c \in S \union {NULL}
  BY <1>1 DEF Shaped, Below
<1>o. /\ \A a, b \in Keys : On(Opp(d), a, b) <=> On(d, b, a)
      /\ \A a, b \in Keys : a = b \/ On(d, a, b) \/ On(d, b, a)
      /\ \A a, b \in Keys : ~(On(d, a, b) /\ On(d, b, a))
      /\ \A a, b, z \in Keys : On(d, a, b) /\ On(d, b, z) => On(d, a, z)
      /\ \A e \in Dirs : e # d => e = Opp(d)
      /\ \A a, b \in Keys : Toward(a, b) \in Dirs
  BY OnOrder DEF Toward, Dirs
<1>4. ASSUME NEW p \in sub[n], p # n, ~On(d, p, n) PROVE Between(n, p, k)
  <2>1. p \in Keys /\ On(d, n, p)
    BY <1>0, <1>2, <1>4, <1>o
  <2>2. On(d, k, p)
    BY <1>2, <1>o, <2>1
  <2>3. Toward(k, p) = d
    BY <2>2 DEF On
  <2> QED
    BY <1>2, <2>1, <2>3 DEF Between
<1>5. ASSUME c = NULL PROVE Ends(t, sub, k, n) = {n}
  <2>1. Part(sub[n], n, d) = {}
    BY <1>3, <1>5 DEF Under
  <2>2. \A j \in sub[n] : ~On(d, j, n)
    BY <2>1 DEF Part
  <2>3. \A j \in sub[n] : ~Between(j, n, k)
    BY <1>1, <2>2 DEF Between
  <2>4. n \in Ends(t, sub, k, n)
    BY <1>0, <1>5, <2>3 DEF Ends
  <2>5. ASSUME NEW p \in Ends(t, sub, k, n) PROVE p = n
    <3>1. p \in sub[n] /\ ~Between(n, p, k)
      BY <1>0, <2>5 DEF Ends
    <3> QED
      BY <1>4, <2>2, <3>1
  <2> QED
    BY <2>4, <2>5
<1>6. ASSUME c # NULL PROVE c \in S /\ Ends(t, sub, k, n) = Ends(t, sub, k, c)
  <2>1. c \in S /\ sub[c] = Part(sub[n], n, d) /\ sub[c] \subseteq sub[n]
    BY <1>3, <1>6 DEF Under, Part
  <2>2. ASSUME NEW p \in Ends(t, sub, k, n) PROVE p \in Ends(t, sub, k, c)
    <3>1. p \in sub[n] /\ t.kid[p][Toward(k, p)] = NULL /\ \A j \in sub[n] : ~Between(j, p, k)
      BY <2>2 DEF Ends
    <3>2. p # n
      BY <1>6, <3>1
    <3>3. On(d, p, n)
      BY <1>0, <1>4, <3>1, <3>2
    <3>4. p \in sub[c]
      BY <2>1, <3>1, <3>3 DEF Part
    <3> QED
      BY <2>1, <3>1, <3>4 DEF Ends
  <2>3. ASSUME NEW p \in Ends(t, sub, k, c) PROVE p \in Ends(t, sub, k, n)
    <3>1. p \in sub[c] /\ t.kid[p][Toward(k, p)] = NULL /\ \A j \in sub[c] : ~Between(j, p, k)
      BY <2>3 DEF Ends
    <3>2. p \in sub[n] /\ On(d, p, n) /\ p \in Keys
      BY <1>0, <2>1, <3>1 DEF Part
    <3>3. ASSUME NEW j \in sub[n], Between(j, p, k) PROVE FALSE
      <4>0. j \in Keys
        BY <1>0
      <4>1. On(Toward(k, p), j, p) /\ On(Toward(k, p), k, j) /\ Toward(k, p) \in Dirs
        BY <1>2, <1>o, <3>2, <3>3 DEF Between
      <4>2. j \notin sub[c]
        BY <3>1, <3>3
      <4>3. ~On(d, j, n)
        BY <2>1, <4>2 DEF Part
      <4>4. j = n \/ On(d, n, j)
        BY <1>2, <1>o, <4>0, <4>3
      <4>5. On(d, p, j) /\ On(d, k, j)
        BY <1>2, <1>o, <3>2, <4>0, <4>4
      <4>6. CASE Toward(k, p) = d
        BY <1>o, <3>2, <4>0, <4>1, <4>5, <4>6
      <4>7. CASE Toward(k, p) = Opp(d)
        BY <1>2, <1>o, <4>0, <4>1, <4>5, <4>7
      <4> QED
        BY <1>o, <4>1, <4>6, <4>7
    <3> QED
      BY <3>1, <3>2, <3>3 DEF Ends
  <2> QED
    BY <2>1, <2>2, <2>3
<1> QED
  BY <1>5, <1>6 DEF EndsVia

\* The one element of a set.
Pick(X) == CHOOSE x : x \in X

\* The node that rb_insert hangs k below has no child there, and no key of
\* the tree is between it and k.
LEMMA AboveIs ==
    ASSUME NEW t, NEW S, NEW sub, Shaped(t, S, sub), Outside(t, S, NULL), NEW k \in Keys \ S
    PROVE  /\ S = {} => Above(t, k) = NULL
           /\ S # {} => /\ Above(t, k) \in S /\ t.kid[Above(t, k)][Toward(k, Above(t, k))] = NULL
                        /\ \A j \in S : ~Between(j, Above(t, k), k)
<1>0. /\ S \subseteq Keys /\ NULL \notin S /\ IsFiniteSet(S)
      /\ \A m \in S : m \in sub[m] /\ sub[m] \subseteq S
      /\ t.root \in S \union {NULL} /\ Under(sub, t.root) = S
  BY KeysAssumption DEF Shaped, Below
<1>1. \A m \in Keys, d \in Dirs : m \notin S => t.kid[m][d] = NULL
  BY <1>0, KeysAssumption DEF Outside, Blank
<1>2. \A m \in Keys : Toward(k, m) \in Dirs
  BY DEF Toward, Dirs
<1>3. ASSUME S = {} PROVE Above(t, k) = NULL
  BY <1>0, <1>3 DEF Above
<1> DEFINE Eq(f) == f = [n \in Keys |-> LET c == t.kid[n][Toward(k, n)] IN IF c = NULL THEN n ELSE f[c]]
<1>4. ASSUME S # {}
      PROVE  /\ Above(t, k) \in S /\ t.kid[Above(t, k)][Toward(k, Above(t, k))] = NULL
             /\ \A j \in S : ~Between(j, Above(t, k), k)
  <2>1. t.root \in S /\ sub[t.root] = S /\ t.root # NULL
    BY <1>0, <1>4 DEF Under
  <2>2. PICK F : Above(t, k) = F[t.root] /\ F = CHOOSE f : Eq(f)
    BY <2>1 DEF Above
  <2>3. PICK W : W = [n \in Keys |-> IF n \in S THEN Pick(Ends(t, sub, k, n)) ELSE n]
    OBVIOUS
  <2>4. ASSUME NEW n \in Keys
        PROVE  W[n] = IF t.kid[n][Toward(k, n)] = NULL THEN n ELSE W[t.kid[n][Toward(k, n)]]
    <3>1. PICK c : c = t.kid[n][Toward(k, n)]
      OBVIOUS
    <3>5. n \in S => EndsVia(t, S, sub, k, n, c)
      BY <3>1, EndsStep
    <3>2. CASE n \notin S
      BY <1>1, <1>2, <2>3, <3>2
    <3>3. CASE n \in S /\ c = NULL
      <4>0. n \in S
        BY <3>3
      <4>3. c = NULL => Ends(t, sub, k, n) = {n}
        BY <3>5, <4>0 DEF EndsVia
      <4>1. Ends(t, sub, k, n) = {n}
        BY <3>3, <4>3
      <4>2. Pick(Ends(t, sub, k, n)) = n
        BY <4>1 DEF Pick
      <4> QED
        BY <2>3, <3>1, <3>3, <4>2
    <3>4. CASE n \in S /\ c # NULL
      <4>1. c \in S /\ Ends(t, sub, k, n) = Ends(t, sub, k, c)
        BY <3>4, <3>5 DEF EndsVia
      <4>2. W[n] = Pick(Ends(t, sub, k, n)) /\ W[c] = Pick(Ends(t, sub, k, c))
        BY <1>0, <2>3, <3>4, <4>1
      <4> QED
        BY <3>1, <3>4, <4>1, <4>2
    <3> QED
      BY <3>2, <3>3, <3>4
  <2>5. Eq(W)
    BY <2>3, <2>4
  <2>6. Eq(F)
    BY <2>2, <2>5
  <2>7. \A n \in Keys : F[n] = IF t.kid[n][Toward(k, n)] = NULL THEN n ELSE F[t.kid[n][Toward(k, n)]]
    BY <2>6
  <2> DEFINE E == {n \in S : F[n] \notin Ends(t, sub, k, n)}
  <2>8. ASSUME NEW a \in E PROVE \E c \in E : sub[c] \subseteq sub[a] /\ sub[c] # sub[a]
    <3>1. a \in S /\ a \in Keys /\ F[a] \notin Ends(t, sub, k, a)
      BY <1>0, <2>8
    <3>2. PICK d \in Dirs : d = Toward(k, a)
      BY <1>2, <3>1
    <3>3. PICK c : c = t.kid[a][d]
      OBVIOUS
    <3>0. EndsVia(t, S, sub, k, a, c)
      BY <3>1, <3>2, <3>3, EndsStep
    <3>4. c # NULL
      <4>1. SUFFICES ASSUME c = NULL PROVE FALSE
        OBVIOUS
      <4>4. c = NULL => Ends(t, sub, k, a) = {a}
        BY <3>0 DEF EndsVia
      <4>2. Ends(t, sub, k, a) = {a}
        BY <4>1, <4>4
      <4>3. F[a] = a
        BY <2>7, <3>1, <3>2, <3>3, <4>1
      <4> QED
        BY <3>1, <4>2, <4>3
    <3>5. c \in S /\ Ends(t, sub, k, a) = Ends(t, sub, k, c)
      BY <3>0, <3>4 DEF EndsVia
    <3>6. F[a] = F[c]
      BY <2>7, <3>1, <3>2, <3>3, <3>4
    <3>7. KidOf(t, S, sub, a, d, c)
      BY <3>1, <3>3, <3>4, KidIs
    <3>8. sub[c] \subseteq sub[a] /\ a \notin sub[c] /\ a \in sub[a]
      BY <1>0, <3>1, <3>7 DEF KidOf
    <3> QED
      BY <3>1, <3>5, <3>6, <3>8
  <2>9. \A n \in E : sub[n] \subseteq S
    BY <1>0
  <2>10. E = {}
    <3> HIDE DEF E
    <3>1. Shrinking(S, E, sub)
      BY <1>0, <2>8, <2>9 DEF Shrinking
    <3> QED
      BY <3>1, Descent
  <2>11. Above(t, k) \in Ends(t, sub, k, t.root)
    BY <2>1, <2>2, <2>10
  <2> QED
    BY <2>1, <2>11 DEF Ends
<1> QED
  BY <1>3, <1>4

=============================================================================
