---------------------------- MODULE RBTreeProofs ----------------------------
(***************************************************************************)
(* The red-black tree of rbtree.c, for every set of deadlines: whatever is *)
(* inserted and erased, and between any two rounds of the rebalancing      *)
(* loops, a search finds exactly the nodes of the tree; when the loops are *)
(* over the tree is balanced; the cleaner's walk does not lose the         *)
(* earliest deadline; and the tree implements the set of deadlines that    *)
(* memqueue_expiry.c takes it for.                                         *)
(***************************************************************************)
EXTENDS RBTreeShapeProofs

-----------------------------------------------------------------------------
(* rb_insert hangs a node *)

\* u is t with the node k hung below p, or in the root if p is NULL.
Hung(t, u, k, p) ==
    /\ Typed(u) /\ u.black = t.black
    /\ u.root = IF p = NULL THEN k ELSE t.root
    /\ \A m \in Keys, e \in Dirs : u.kid[m][e] =
            IF m = p /\ e = Toward(k, p) THEN k ELSE t.kid[m][e]
    /\ \A m \in Keys : u.parent[m] = IF m = k THEN p ELSE t.parent[m]

Hang(t, k, p) ==
    LET t1 == [t EXCEPT !.parent[k] = p]
    IN  IF p = NULL THEN [t1 EXCEPT !.root = k] ELSE [t1 EXCEPT !.kid[p][Toward(k, p)] = k]

\* The fields after rb_link_node.
LEMMA HangFields ==
    ASSUME NEW t, Typed(t), NEW k \in Keys, NEW p \in Ptr
    PROVE  Hung(t, Hang(t, k, p), k, p)
<1>0. k \in Ptr /\ NULL \notin Keys
  BY KeysAssumption DEF Ptr
<1>a. PICK t1 : t1 = SetParent(t, k, p)
  OBVIOUS
<1>b. PICK u : u = Hang(t, k, p)
  OBVIOUS
<1>c. u = IF p = NULL THEN [t1 EXCEPT !.root = k] ELSE [t1 EXCEPT !.kid[p][Toward(k, p)] = k]
  BY <1>0, <1>a, <1>b DEF SetParent, Hang
<1>1. /\ Typed(t1) /\ t1.root = t.root /\ t1.kid = t.kid /\ t1.black = t.black
      /\ \A m \in Keys : t1.parent[m] = IF m = k THEN p ELSE t.parent[m]
  <2>1. ParentSet(t, t1, k, p)
    BY <1>0, <1>a, SetParentFields
  <2> QED
    BY <2>1 DEF ParentSet
<1>2. CASE p = NULL
  <2>1. u = [t1 EXCEPT !.root = k] /\ \A m \in Keys : m # p
    BY <1>0, <1>2, <1>c
  <2>2. Typed(u) /\ u.root = k /\ u.kid = t1.kid /\ u.parent = t1.parent /\ u.black = t1.black
    BY <1>0, <1>1, <2>1, FieldUpdates
  <2>3. Hung(t, u, k, p)
    BY <1>1, <1>2, <2>1, <2>2 DEF Hung
  <2> QED
    BY <1>b, <2>3
<1>3. CASE p # NULL
  <2>1. PICK s \in Dirs : s = Toward(k, p)
    BY DEF Toward, Dirs
  <2>2. p \in Keys /\ u = [t1 EXCEPT !.kid[p][s] = k]
    BY <1>3, <1>c, <2>1 DEF Ptr
  <2>3. t1.kid \in [Keys -> [Dirs -> Ptr]]
    BY <1>1 DEF Typed
  <2>4. PICK f : f = [t1.kid EXCEPT ![p] = [@ EXCEPT ![s] = k]]
    OBVIOUS
  <2>5. f \in [Keys -> [Dirs -> Ptr]]
        /\ \A m \in Keys, e \in Dirs : f[m][e] = IF m = p /\ e = s THEN k ELSE t1.kid[m][e]
    BY <1>0, <2>1, <2>2, <2>3, <2>4
  <2>6. u = [t1 EXCEPT !.kid = f]
    BY <2>2, <2>4
  <2>7. Typed(u) /\ u.root = t1.root /\ u.kid = f /\ u.parent = t1.parent /\ u.black = t1.black
    BY <1>1, <2>5, <2>6, FieldUpdates
  <2>8. Hung(t, u, k, p)
    BY <1>1, <1>3, <2>1, <2>5, <2>7 DEF Hung
  <2> QED
    BY <1>b, <2>8
<1> QED
  BY <1>2, <1>3

\* Where k may be hung: below p, with no key between, or in an empty tree.
Place(t, S, k, p) ==
    \/ S = {} /\ p = NULL
    \/ /\ p \in S /\ t.kid[p][Toward(k, p)] = NULL
       /\ \A j \in S : ~Between(j, p, k)

SubHung(S, sub, k, p) ==
    [m \in S \union {k} |-> IF m = k THEN {k} ELSE IF p \in sub[m] THEN sub[m] \union {k} ELSE sub[m]]

\* The nodes that have p below them have it on the side of k.
LEMMA PlaceSide ==
    ASSUME NEW S, S \subseteq Keys, NEW k \in Keys \ S, NEW p \in S, NEW m \in S, m # p,
           ~Between(m, p, k), NEW d \in Dirs
    PROVE  On(d, k, m) <=> On(d, p, m)
<1>1. /\ \A a, b \in Keys : On(Opp(d), a, b) <=> On(d, b, a)
      /\ \A a, b \in Keys : a = b \/ On(d, a, b) \/ On(d, b, a)
      /\ \A a, b \in Keys : ~(On(d, a, b) /\ On(d, b, a))
      /\ \A a, b, c \in Keys : On(d, a, b) /\ On(d, b, c) => On(d, a, c)
  BY OnOrder
<1>2. k \in Keys /\ p \in Keys /\ m \in Keys /\ k # m /\ k # p
  OBVIOUS
<1>3. ASSUME On(d, k, m), ~On(d, p, m) PROVE FALSE
  <2>1. On(d, m, p)
    BY <1>1, <1>2, <1>3
  <2>2. On(d, k, p)
    BY <1>1, <1>2, <1>3, <2>1
  <2>3. Toward(k, p) = d
    BY <2>2 DEF On
  <2> QED
    BY <1>3, <2>1, <2>3 DEF Between
<1>4. ASSUME On(d, p, m), ~On(d, k, m) PROVE FALSE
  <2>1. On(d, m, k)
    BY <1>1, <1>2, <1>4
  <2>2. On(d, p, k)
    BY <1>1, <1>2, <1>4, <2>1
  <2>3. On(Opp(d), m, p) /\ On(Opp(d), k, m) /\ On(Opp(d), k, p)
    BY <1>1, <1>2, <1>4, <2>1, <2>2
  <2>4. Toward(k, p) = Opp(d)
    BY <2>3 DEF On
  <2> QED
    BY <2>3, <2>4 DEF Between
<1> QED
  BY <1>3, <1>4

\* rb_link_node at the place where the search ended keeps the search tree.
LEMMA HangShape ==
    ASSUME NEW t, NEW S, NEW sub, Shaped(t, S, sub), Outside(t, S, NULL), NEW k \in Keys \ S,
           NEW p, Place(t, S, k, p), NEW u, Hung(t, u, k, p)
    PROVE  Shaped(u, S \union {k}, SubHung(S, sub, k, p)) /\ Outside(u, S \union {k}, NULL)
<1>0. /\ S \subseteq Keys /\ NULL \notin S /\ k # NULL /\ NULL \notin Keys /\ IsFiniteSet(S)
      /\ \A m \in S : m \in sub[m] /\ sub[m] \subseteq S
      /\ \A m \in S, d \in Dirs : t.kid[m][d] \in S \union {NULL}
      /\ \A m \in S, d \in Dirs : Under(sub, t.kid[m][d]) = Part(sub[m], m, d)
      /\ t.root \in S \union {NULL} /\ Under(sub, t.root) = S
  BY KeysAssumption DEF Shaped, Below
<1>1. /\ Typed(u) /\ u.black = t.black
      /\ u.root = IF p = NULL THEN k ELSE t.root
      /\ \A m \in Keys, e \in Dirs : u.kid[m][e] =
            IF m = p /\ e = Toward(k, p) THEN k ELSE t.kid[m][e]
      /\ \A m \in Keys : u.parent[m] = IF m = k THEN p ELSE t.parent[m]
  BY DEF Hung
<1>2. PICK S2 : S2 = S \union {k}
  OBVIOUS
<1>3. PICK sub2 : sub2 = SubHung(S, sub, k, p)
  OBVIOUS
<1>4. /\ DOMAIN sub2 = S2 /\ sub2[k] = {k}
      /\ \A m \in S : sub2[m] = IF p \in sub[m] THEN sub[m] \union {k} ELSE sub[m]
  BY <1>2, <1>3 DEF SubHung
<1>a. S2 \subseteq Keys
  BY <1>0, <1>2
<1>5. S2 \subseteq Keys /\ IsFiniteSet(S2)
  BY <1>a, KeysAssumption, FS_Subset
<1>6. \A m \in S2 : m \in sub2[m] /\ sub2[m] \subseteq S2
  BY <1>0, <1>2, <1>4
<1>7. (p = NULL /\ S = {}) \/ (p # NULL /\ p \in S)
  BY <1>0 DEF Place
<1>8. \A m \in Keys, e \in Dirs : m \notin S => t.kid[m][e] = NULL
  BY <1>0 DEF Outside, Blank
<1>9. ASSUME NEW c \in S \union {NULL}
      PROVE  Under(sub2, c) = Under(sub, c) \union (IF p \in Under(sub, c) THEN {k} ELSE {})
  BY <1>4 DEF Under
<1>10. u.root \in S2 \union {NULL} /\ Under(sub2, u.root) = S2
  <2>1. CASE p = NULL /\ S = {}
    BY <1>0, <1>1, <1>2, <1>4, <2>1 DEF Under
  <2>2. CASE p # NULL /\ p \in S
    BY <1>0, <1>1, <1>2, <1>9, <2>2
  <2> QED
    BY <1>7, <2>1, <2>2
<1>11. ASSUME NEW m \in S, m # p, NEW d \in Dirs
       PROVE  u.kid[m][d] \in S2 \union {NULL} /\ Under(sub2, u.kid[m][d]) = Part(sub2[m], m, d)
  <2>1. PICK c : c = t.kid[m][d]
    OBVIOUS
  <2>2. c \in S \union {NULL} /\ u.kid[m][d] = c /\ Under(sub, c) = Part(sub[m], m, d)
    BY <1>0, <1>1, <1>11, <2>1
  <2>3. Under(sub2, c) = Under(sub, c) \union (IF p \in Under(sub, c) THEN {k} ELSE {})
    BY <1>9, <2>2
  <2>4. CASE p \notin sub[m]
    <3>1. p \notin Under(sub, c)
      BY <2>2, <2>4 DEF Part
    <3>2. sub2[m] = sub[m]
      BY <1>4, <2>4
    <3> QED
      BY <1>2, <2>2, <2>3, <3>1, <3>2
  <2>5. CASE p \in sub[m]
    <3>0. p \in S /\ ~Between(m, p, k)
      BY <1>0, <2>5 DEF Place
    <3>1. On(d, k, m) <=> On(d, p, m)
      BY <1>0, <1>11, <3>0, PlaceSide
    <3>2. p \in Under(sub, c) <=> On(d, k, m)
      BY <2>2, <2>5, <3>1 DEF Part
    <3>3. sub2[m] = sub[m] \union {k}
      BY <1>4, <2>5
    <3>4. Part(sub2[m], m, d) = Part(sub[m], m, d) \union (IF On(d, k, m) THEN {k} ELSE {})
      BY <3>3 DEF Part
    <3> QED
      BY <1>2, <2>2, <2>3, <3>2, <3>4
  <2> QED
    BY <2>4, <2>5
<1>12. ASSUME p \in S, NEW d \in Dirs
       PROVE  u.kid[p][d] \in S2 \union {NULL} /\ Under(sub2, u.kid[p][d]) = Part(sub2[p], p, d)
  <2>0. p \in Keys /\ p \in sub[p] /\ k # p /\ t.kid[p][Toward(k, p)] = NULL
    BY <1>0, <1>12 DEF Place
  <2>1. PICK c : c = t.kid[p][d]
    OBVIOUS
  <2>2. c \in S \union {NULL} /\ Under(sub, c) = Part(sub[p], p, d)
    BY <1>0, <1>12, <2>1
  <2>3. sub2[p] = sub[p] \union {k}
    BY <1>4, <1>12, <2>0
  <2>4. On(d, k, p) <=> d = Toward(k, p)
    BY <2>0 DEF On
  <2>5. Part(sub2[p], p, d) = Part(sub[p], p, d) \union (IF d = Toward(k, p) THEN {k} ELSE {})
    BY <2>3, <2>4 DEF Part
  <2>6. CASE d = Toward(k, p)
    <3>1. u.kid[p][d] = k /\ c = NULL
      BY <1>1, <2>0, <2>1, <2>6
    <3>2. Part(sub[p], p, d) = {}
      BY <2>2, <3>1 DEF Under
    <3>3. Under(sub2, k) = {k}
      BY <1>0, <1>4 DEF Under
    <3> QED
      BY <1>2, <2>5, <2>6, <3>1, <3>2, <3>3
  <2>7. CASE d # Toward(k, p)
    <3>1. u.kid[p][d] = c
      BY <1>1, <2>0, <2>1, <2>7
    <3>2. p \notin Under(sub, c)
      BY <2>2 DEF Part, On
    <3>3. Under(sub2, c) = Under(sub, c)
      BY <1>9, <2>2, <3>2
    <3> QED
      BY <1>2, <2>2, <2>5, <2>7, <3>1, <3>3
  <2> QED
    BY <2>6, <2>7
<1>13. ASSUME NEW d \in Dirs
       PROVE  u.kid[k][d] \in S2 \union {NULL} /\ Under(sub2, u.kid[k][d]) = Part(sub2[k], k, d)
  <2>1. u.kid[k][d] = NULL
    BY <1>1, <1>7, <1>8
  <2>2. Part(sub2[k], k, d) = {}
    BY <1>4 DEF Part, On
  <2> QED
    BY <2>1, <2>2 DEF Under
<1>14. Below(u, S2, sub2)
  <2>1. ASSUME NEW m \in S2, NEW d \in Dirs
        PROVE  u.kid[m][d] \in S2 \union {NULL} /\ Under(sub2, u.kid[m][d]) = Part(sub2[m], m, d)
    BY <1>2, <1>11, <1>12, <1>13
  <2> QED
    BY <1>4, <1>5, <1>6, <1>10, <2>1 DEF Below
<1>15. Links(t, S)
  BY DEF Shaped
<1>16. ASSUME NEW m \in S2, NEW d \in Dirs, u.kid[m][d] # NULL PROVE u.parent[u.kid[m][d]] = m
  <2>1. CASE m = k
    BY <1>1, <1>7, <1>8, <1>16, <2>1
  <2>2. CASE m = p /\ d = Toward(k, p)
    <3>1. u.kid[m][d] = k
      BY <1>1, <1>5, <2>2
    <3> QED
      BY <1>1, <2>2, <3>1
  <2>3. CASE m # k /\ ~(m = p /\ d = Toward(k, p))
    <3>1. m \in S /\ u.kid[m][d] = t.kid[m][d]
      BY <1>1, <1>2, <1>5, <2>3
    <3>2. PICK c : c = t.kid[m][d]
      OBVIOUS
    <3>3. c \in S /\ t.parent[c] = m
      BY <1>0, <1>15, <1>16, <3>1, <3>2 DEF Links
    <3>4. u.parent[c] = t.parent[c]
      BY <1>0, <1>1, <3>3
    <3> QED
      BY <3>1, <3>2, <3>3, <3>4
  <2> QED
    BY <2>1, <2>2, <2>3
<1>17. ASSUME NEW m \in S2, m = u.root PROVE u.parent[m] = NULL
  <2>1. CASE p = NULL
    BY <1>1, <1>17, <2>1
  <2>2. CASE p # NULL
    <3>1. m = t.root /\ m # k
      BY <1>0, <1>1, <1>17, <2>2
    <3>2. m \in S /\ m \in Keys
      BY <1>0, <1>2, <3>1
    <3> QED
      BY <1>1, <1>15, <3>1, <3>2 DEF Links
  <2> QED
    BY <2>1, <2>2
<1>18. ASSUME NEW m \in S2, m # u.root
       PROVE  u.parent[m] \in S2 /\ \E d \in Dirs : u.kid[u.parent[m]][d] = m
  <2>1. p \in S /\ p # NULL
    BY <1>1, <1>2, <1>7, <1>18
  <2>2. CASE m = k
    <3>1. u.parent[m] = p /\ p \in S2 /\ p \in Keys
      BY <1>0, <1>1, <1>2, <2>1, <2>2
    <3>2. u.kid[p][Toward(k, p)] = k /\ Toward(k, p) \in Dirs
      BY <1>1, <3>1 DEF Toward, Dirs
    <3> QED
      BY <2>2, <3>1, <3>2
  <2>3. CASE m # k
    <3>1. m \in S /\ m # t.root /\ u.parent[m] = t.parent[m]
      BY <1>0, <1>1, <1>2, <1>18, <2>1, <2>3
    <3>2. PICK a : a = t.parent[m]
      OBVIOUS
    <3>3. a \in S /\ \E d \in Dirs : t.kid[a][d] = m
      BY <1>15, <3>1, <3>2 DEF Links
    <3>4. PICK d \in Dirs : t.kid[a][d] = m
      BY <3>3
    <3>5. m # NULL /\ a \in Keys
      BY <1>0, <3>1, <3>3
    <3>6. ~(a = p /\ d = Toward(k, p))
      BY <2>1, <3>4, <3>5 DEF Place
    <3>7. u.kid[a][d] = m
      BY <1>1, <3>4, <3>5, <3>6
    <3> QED
      BY <1>2, <3>1, <3>2, <3>3, <3>7
  <2> QED
    BY <2>2, <2>3
<1>19. Links(u, S2)
  BY <1>16, <1>17, <1>18 DEF Links
<1>20. Outside(u, S2, NULL)
  <2>1. ASSUME NEW m \in Keys \ S2
        PROVE  u.kid[m] = Blank /\ u.parent[m] = NULL /\ u.black[m] = FALSE
    <3>1. m \in Keys /\ m \notin S /\ m # k /\ m # p
      BY <1>2, <1>7, <1>0
    <3>2. t.kid[m] = Blank /\ t.parent[m] = NULL /\ t.black[m] = FALSE
      BY <1>0, <3>1 DEF Outside
    <3>3. \A e \in Dirs : u.kid[m][e] = NULL
      BY <1>1, <1>8, <3>1
    <3>4. u.kid[m] = Blank
      <4>1. u.kid[m] \in [Dirs -> Ptr]
        BY <1>1, <3>1 DEF Typed
      <4> QED
        BY <3>3, <4>1 DEF Blank
    <3> QED
      BY <1>1, <3>1, <3>2, <3>4
  <2>2. \A m \in Keys \ S2, d \in Dirs : u.kid[m][d] = NULL
    BY <2>1 DEF Blank
  <2> QED
    BY <2>1, <2>2 DEF Outside
<1>21. Shaped(u, S2, sub2)
  BY <1>1, <1>14, <1>19 DEF Shaped
<1> QED
  BY <1>2, <1>3, <1>20, <1>21

\* A red leaf disturbs no height, and only its parent can be red above it.
LEMMA HangBalance ==
    ASSUME NEW t, NEW S, NEW sub, Shaped(t, S, sub), Outside(t, S, NULL), NEW k \in Keys \ S,
           NEW p, Place(t, S, k, p), NEW u, Hung(t, u, k, p), NEW bh, Balanced(t, S, bh)
    PROVE  \E bh2 : Inserting(u, S \union {k}, bh2, k)
<1>0. /\ S \subseteq Keys /\ NULL \notin S /\ k # NULL /\ NULL \notin Keys
      /\ \A m \in S, d \in Dirs : t.kid[m][d] \in S \union {NULL}
      /\ t.root \in S \union {NULL}
  BY KeysAssumption DEF Shaped, Below
<1>1. /\ Typed(u) /\ u.black = t.black
      /\ u.root = IF p = NULL THEN k ELSE t.root
      /\ \A m \in Keys, e \in Dirs : u.kid[m][e] =
            IF m = p /\ e = Toward(k, p) THEN k ELSE t.kid[m][e]
  BY DEF Hung
<1>2. PICK S2 : S2 = S \union {k}
  OBVIOUS
<1>3. (p = NULL /\ S = {}) \/ (p # NULL /\ p \in S /\ t.kid[p][Toward(k, p)] = NULL)
  BY <1>0 DEF Place
<1>4. \A e \in Dirs : u.kid[k][e] = NULL
  <2>1. \A e \in Dirs : t.kid[k][e] = NULL
    BY <1>0 DEF Outside, Blank
  <2> QED
    BY <1>1, <1>3, <2>1
<1>5. ~u.black[k]
  BY <1>0, <1>1 DEF Outside
<1>6. /\ bh \in [S \union {NULL} -> Nat] /\ bh[NULL] = 0
      /\ \A m \in S, d \in Dirs : bh[m] = bh[t.kid[m][d]] + Weight(t, m)
  <2>1. Level(t, S, bh)
    BY <1>0, PlainHeights DEF Balanced
  <2> QED
    BY <2>1 DEF Level
<1>7. PICK bh2 : bh2 = [m \in S2 \union {NULL} |-> IF m = k THEN 0 ELSE bh[m]]
  OBVIOUS
<1>8. /\ bh2 \in [S2 \union {NULL} -> Nat] /\ bh2[NULL] = 0 /\ bh2[k] = 0
      /\ \A m \in S \union {NULL} : bh2[m] = bh[m]
  BY <1>0, <1>2, <1>6, <1>7
<1>9. ASSUME NEW m \in S2, NEW d \in Dirs
      PROVE  bh2[m] = bh2[u.kid[m][d]] + Weight(u, m)
  <2>1. CASE m = k
    <3>1. Weight(u, m) = 0
      BY <1>5, <2>1 DEF Weight
    <3> QED
      BY <1>4, <1>8, <2>1, <3>1
  <2>2. CASE m # k
    <3>1. m \in S /\ m \in Keys /\ Weight(u, m) = Weight(t, m)
      BY <1>0, <1>1, <1>2, <2>2 DEF Weight
    <3>2. PICK c : c = t.kid[m][d]
      OBVIOUS
    <3>3. c \in S \union {NULL} /\ bh[m] = bh[c] + Weight(t, m)
      BY <1>0, <1>6, <3>1, <3>2
    <3>4. bh2[u.kid[m][d]] = bh[c]
      <4>1. CASE m = p /\ d = Toward(k, p)
        <5>1. u.kid[m][d] = k /\ c = NULL
          BY <1>1, <1>3, <3>1, <3>2, <4>1, <1>0
        <5> QED
          BY <1>6, <1>8, <5>1
      <4>2. CASE ~(m = p /\ d = Toward(k, p))
        <5>1. u.kid[m][d] = c
          BY <1>1, <3>1, <3>2, <4>2
        <5> QED
          BY <1>8, <3>3, <5>1
      <4> QED
        BY <4>1, <4>2
    <3> QED
      BY <1>8, <3>1, <3>3, <3>4
  <2> QED
    BY <2>1, <2>2
<1>10. \A m \in S2, d \in Dirs : u.kid[m][d] \in S2 \union {NULL}
  BY <1>0, <1>1, <1>2, <1>4
<1>11. Heights(u, S2, bh2, NULL, "left")
  <2>1. Level(u, S2, bh2)
    BY <1>8, <1>9 DEF Level
  <2>2. NULL \notin S2
    BY <1>0, <1>2
  <2> QED
    BY <1>10, <2>1, <2>2, PlainHeights
<1>12. Reds(u, S2, k, NULL)
  <2>1. ASSUME NEW m \in S2, NEW d \in Dirs, IsRed(u, u.kid[m][d]), u.kid[m][d] # k PROVE u.black[m]
    <3>1. m # k
      BY <1>4, <2>1 DEF IsRed
    <3>2. m \in S /\ m \in Keys /\ m # NULL
      BY <1>0, <1>2, <3>1
    <3>3. u.kid[m][d] = t.kid[m][d]
      BY <1>1, <2>1, <3>2
    <3>4. IsRed(t, t.kid[m][d]) /\ t.kid[m][d] # NULL
      BY <1>1, <2>1, <3>3 DEF IsRed
    <3>5. t.black[m]
      BY <3>2, <3>4 DEF Balanced, Reds
    <3> QED
      BY <1>1, <3>5
  <2> QED
    BY <2>1 DEF Reds
<1>13. RootBlack(u, k)
  <2>1. CASE p = NULL
    BY <1>1, <2>1 DEF RootBlack
  <2>2. CASE p # NULL
    <3>1. ~IsRed(t, t.root)
      BY DEF Balanced, RootBlack, IsRed
    <3> QED
      BY <1>1, <2>2, <3>1 DEF RootBlack, IsRed
  <2> QED
    BY <2>1, <2>2
<1> QED
  BY <1>2, <1>5, <1>11, <1>12, <1>13 DEF Inserting

-----------------------------------------------------------------------------
(* The end of rb_erase *)

\* The last node is made black: it was red, or it is the root.
LEMMA EraseDoneStep ==
    ASSUME NEW t, NEW S, NEW sub, Shaped(t, S, sub), NEW bh, NEW x, NEW q, Erasing(t, S, bh, x, q),
           IsRed(t, x) \/ x = t.root,
           NEW t2, Typed(t2), SamePointers(t, t2), Tones(t, t2, {x}, {})
    PROVE  \E bh2 : Balanced(t2, S, bh2)
<1>0. Typed(t) /\ S \subseteq Keys /\ NULL \notin S /\ t.root \in S \union {NULL}
      /\ Under(sub, t.root) = S
      /\ \A m \in S, d \in Dirs : t.kid[m][d] \in S \union {NULL}
  BY KeysAssumption DEF Shaped, Below
<1>1. Reds(t, S, x, x) /\ RootBlack(t, x)
  BY DEF Erasing
<1>2. \A m \in S, d \in Dirs : t.kid[m][d] # NULL => t.kid[m][d] # t.root /\ t.kid[m][d] # m
                                                     /\ t.parent[t.kid[m][d]] = m
                                                     /\ t.kid[m][d] # t.kid[m][Opp(d)]
  <2>1. ASSUME NEW m \in S, NEW d \in Dirs, NEW c, c = t.kid[m][d], c # NULL
        PROVE  c # t.root /\ c # m /\ t.parent[c] = m /\ c # t.kid[m][Opp(d)]
    <3>1. KidOf(t, S, sub, m, d, c)
      BY <2>1, KidIs
    <3> QED
      BY <3>1 DEF KidOf
  <2> QED
    BY <2>1
<1>3. CASE x = t.root
  <2>1. Heights(t, S, bh, NULL, "left")
    <3>1. SUFFICES ASSUME q \in S, NEW e \in Dirs, t.kid[q][e] = x PROVE FALSE
      BY DEF Erasing
    <3>2. x = NULL
      BY <1>2, <1>3, <3>1
    <3> QED
      BY <1>0, <1>3, <3>1, <3>2 DEF Under
  <2>2. \A n \in S, d \in Dirs : t.kid[n][d] = x /\ x # NULL => t.black[n]
    BY <1>2, <1>3
  <2>3. Tones(t, t2, {t.root}, {})
    BY <1>3
  <2> QED
    BY <1>1, <1>3, <2>1, <2>2, <2>3, BlackRootStep
<1>4. CASE x # t.root
  <2>1. IsRed(t, x) /\ x # NULL
    BY <1>4 DEF IsRed
  <2>2. q \in S /\ \E e \in Dirs : t.kid[q][e] = x /\ Heights(t, S, bh, q, e)
    BY <1>4 DEF Erasing
  <2>3. PICK e \in Dirs : t.kid[q][e] = x /\ Heights(t, S, bh, q, e)
    BY <2>2
  <2>4. /\ bh \in [S \union {NULL} -> Nat] /\ bh[NULL] = 0
        /\ bh[q] = bh[x] + Weight(t, q) + 1
        /\ bh[q] = bh[t.kid[q][Opp(e)]] + Weight(t, q)
        /\ \A m \in S, d \in Dirs : m # q => bh[m] = bh[t.kid[m][d]] + Weight(t, m)
        /\ \A m \in S : Weight(t, m) \in Nat
    <3>1. Short(t, S, bh, q, e)
      BY <2>2, <2>3, LackHeights
    <3> QED
      BY <2>3, <3>1 DEF Short
  <2>5. x \in S /\ x \in Keys /\ x # q
    BY <1>0, <1>2, <2>1, <2>2, <2>3
  <2>6. PICK bh2 : bh2 = [m \in S \union {NULL} |-> IF m = x THEN bh[m] + 1 ELSE bh[m]]
    OBVIOUS
  <2>7. /\ bh2 \in [S \union {NULL} -> Nat] /\ bh2[NULL] = 0 /\ bh2[x] = bh[x] + 1 /\ bh[x] \in Nat
        /\ \A m \in S \union {NULL} : m # x => bh2[m] = bh[m]
    BY <1>0, <2>1, <2>4, <2>5, <2>6
  <2>8. t2.kid = t.kid /\ t2.root = t.root
    BY DEF SamePointers
  <2>9. \A m \in Keys : t2.black[m] <=> (m = x \/ t.black[m])
    BY DEF Tones
  <2>10. /\ Weight(t, x) = 0 /\ Weight(t2, x) = 1
         /\ \A m \in S : m # x => Weight(t2, m) = Weight(t, m)
    BY <1>0, <2>1, <2>5, <2>9 DEF Weight, IsRed
  <2>11. ASSUME NEW m \in S, NEW d \in Dirs
         PROVE  bh2[m] = bh2[t2.kid[m][d]] + Weight(t2, m)
    <3>1. PICK c : c = t.kid[m][d]
      OBVIOUS
    <3>2. c \in S \union {NULL} /\ t2.kid[m][d] = c /\ bh[c] \in Nat /\ Weight(t, m) \in Nat
      BY <1>0, <2>4, <2>8, <3>1
    <3>3. CASE m = q /\ d = e
      <4>1. c = x /\ bh2[c] = bh[x] + 1 /\ bh2[m] = bh[q] /\ Weight(t2, m) = Weight(t, q)
        BY <2>3, <2>5, <2>7, <2>10, <3>1, <3>3
      <4> QED
        BY <2>4, <2>7, <3>2, <3>3, <4>1
    <3>4. CASE m = q /\ d # e
      <4>1. d = Opp(e)
        BY <3>4, OnOrder
      <4>2. c # x
        BY <1>2, <2>1, <2>2, <2>3, <3>1, <3>4, <4>1
      <4>3. bh2[c] = bh[c] /\ bh2[m] = bh[m] /\ Weight(t2, m) = Weight(t, m)
        BY <2>5, <2>7, <2>10, <3>2, <3>4, <4>2
      <4> QED
        BY <2>4, <3>1, <3>2, <3>4, <4>1, <4>3
    <3>5. CASE m # q
      <4>1. c # x
        BY <1>2, <2>1, <2>2, <2>3, <3>1, <3>5
      <4>2. bh[m] = bh[c] + Weight(t, m) /\ bh2[c] = bh[c]
        BY <2>4, <2>7, <3>1, <3>2, <3>5, <4>1
      <4>3. CASE m = x
        BY <2>7, <2>10, <3>2, <4>2, <4>3
      <4>4. CASE m # x
        BY <2>7, <2>10, <3>2, <4>2, <4>4
      <4> QED
        BY <4>3, <4>4
    <3> QED
      BY <3>3, <3>4, <3>5
  <2>12. Heights(t2, S, bh2, NULL, "left")
    <3>1. Level(t2, S, bh2)
      BY <2>7, <2>11 DEF Level
    <3>2. \A m \in S, d \in Dirs : t2.kid[m][d] \in S \union {NULL}
      BY <1>0, <2>8
    <3> QED
      BY <1>0, <3>1, <3>2, PlainHeights
  <2>13. Reds(t2, S, NULL, NULL)
    <3>1. ASSUME NEW m \in S, NEW d \in Dirs, IsRed(t2, t2.kid[m][d]) PROVE t2.black[m]
      <4>1. PICK c : c = t.kid[m][d]
        OBVIOUS
      <4>2. c \in S /\ c \in Keys /\ m \in Keys /\ c # NULL /\ ~t2.black[c]
        BY <1>0, <2>8, <3>1, <4>1 DEF IsRed
      <4>3. c # x /\ IsRed(t, c)
        BY <2>9, <4>2 DEF IsRed
      <4>4. m = x \/ t.black[m]
        BY <1>1, <4>1, <4>3 DEF Reds
      <4> QED
        BY <2>9, <4>2, <4>4
    <3> QED
      BY <3>1 DEF Reds
  <2>14. RootBlack(t2, NULL)
    <3>1. ~IsRed(t, t.root)
      BY <1>1, <1>4 DEF RootBlack
    <3> QED
      BY <1>0, <2>8, <2>9, <3>1 DEF RootBlack, IsRed
  <2> QED
    BY <2>12, <2>13, <2>14 DEF Balanced
<1> QED
  BY <1>3, <1>4

\* u has the same root and the same nodes S as t.
SameOn(t, u, S) ==
    /\ Typed(u) /\ u.root = t.root
    /\ \A m \in S : u.kid[m] = t.kid[m] /\ u.parent[m] = t.parent[m] /\ u.black[m] = t.black[m]

\* A tree with the same nodes has the same shape and colours.
LEMMA SameNodes ==
    ASSUME NEW t, NEW S, NEW sub, Shaped(t, S, sub), NEW u, SameOn(t, u, S),
           NEW bh, Balanced(t, S, bh)
    PROVE  Shaped(u, S, sub) /\ Balanced(u, S, bh)
<1>0. NULL \notin S /\ t.root \in S \union {NULL}
      /\ \A m \in S, d \in Dirs : t.kid[m][d] \in S \union {NULL}
  BY KeysAssumption DEF Shaped, Below
<1>1. /\ Typed(u) /\ u.root = t.root
      /\ \A m \in S : u.kid[m] = t.kid[m] /\ u.parent[m] = t.parent[m] /\ u.black[m] = t.black[m]
  BY DEF SameOn
<1>2. Below(u, S, sub)
  BY <1>1 DEF Shaped, Below
<1>3. Links(t, S)
  BY DEF Shaped
<1>4. \A m \in S, d \in Dirs : u.kid[m][d] # NULL => u.parent[u.kid[m][d]] = m
  BY <1>0, <1>1, <1>3 DEF Links
<1>5. \A m \in S : m = u.root => u.parent[m] = NULL
  BY <1>1, <1>3 DEF Links
<1>6. ASSUME NEW m \in S, m # u.root
      PROVE  u.parent[m] \in S /\ \E d \in Dirs : u.kid[u.parent[m]][d] = m
  <2>1. PICK a : a = t.parent[m]
    OBVIOUS
  <2>2. a \in S /\ \E d \in Dirs : t.kid[a][d] = m
    BY <1>1, <1>3, <1>6, <2>1 DEF Links
  <2> QED
    BY <1>1, <2>1, <2>2
<1>7. Links(u, S)
  BY <1>4, <1>5, <1>6 DEF Links
<1>8. \A m \in S : Weight(u, m) = Weight(t, m)
  BY <1>1 DEF Weight
<1>9. Heights(u, S, bh, NULL, "left")
  <2>1. Level(t, S, bh)
    BY <1>0, PlainHeights DEF Balanced
  <2>2. Level(u, S, bh)
    BY <1>1, <1>8, <2>1 DEF Level
  <2>3. \A m \in S, d \in Dirs : u.kid[m][d] \in S \union {NULL}
    BY <1>0, <1>1
  <2> QED
    BY <1>0, <2>2, <2>3, PlainHeights
<1>10. \A c \in S \union {NULL} : IsRed(u, c) <=> IsRed(t, c)
  BY <1>1 DEF IsRed
<1>11. Reds(u, S, NULL, NULL)
  <2>1. Reds(t, S, NULL, NULL)
    BY DEF Balanced
  <2> QED
    BY <1>0, <1>1, <1>10, <2>1 DEF Reds
<1>12. RootBlack(u, NULL)
  <2>1. RootBlack(t, NULL)
    BY DEF Balanced
  <2> QED
    BY <1>0, <1>1, <1>10, <2>1 DEF RootBlack
<1> QED
  BY <1>1, <1>2, <1>7, <1>9, <1>11, <1>12 DEF Shaped, Balanced

\* The node v is freed, and blank when it is allocated again.
Reset(t, v) == [t EXCEPT !.kid[v] = Blank, !.parent[v] = NULL, !.black[v] = FALSE]

Freed(t, u, v) ==
    /\ Typed(u) /\ u.root = t.root
    /\ u.kid[v] = Blank /\ u.parent[v] = NULL /\ u.black[v] = FALSE
    /\ \A m \in Keys : m # v =>
        u.kid[m] = t.kid[m] /\ u.parent[m] = t.parent[m] /\ u.black[m] = t.black[m]

\* The fields after the victim is freed.
LEMMA ResetFields ==
    ASSUME NEW t, Typed(t), NEW v \in Keys, NEW u, u = Reset(t, v)
    PROVE  Freed(t, u, v)
<1>0. Blank \in [Dirs -> Ptr] /\ NULL \in Ptr
  BY DEF Blank, Ptr
<1>1. PICK f : f = [t.kid EXCEPT ![v] = Blank]
  OBVIOUS
<1>2. f \in [Keys -> [Dirs -> Ptr]] /\ f[v] = Blank /\ \A m \in Keys : m # v => f[m] = t.kid[m]
  BY <1>0, <1>1 DEF Typed
<1>3. PICK p : p = [t.parent EXCEPT ![v] = NULL]
  OBVIOUS
<1>4. p \in [Keys -> Ptr] /\ p[v] = NULL /\ \A m \in Keys : m # v => p[m] = t.parent[m]
  BY <1>0, <1>3 DEF Typed
<1>5. PICK b : b = [t.black EXCEPT ![v] = FALSE]
  OBVIOUS
<1>6. b \in [Keys -> BOOLEAN] /\ b[v] = FALSE /\ \A m \in Keys : m # v => b[m] = t.black[m]
  BY <1>5 DEF Typed
<1>7. PICK t1 : t1 = [t EXCEPT !.kid = f]
  OBVIOUS
<1>8. Typed(t1) /\ t1.root = t.root /\ t1.kid = f /\ t1.parent = t.parent /\ t1.black = t.black
  BY <1>2, <1>7, FieldUpdates
<1>9. PICK t2 : t2 = [t1 EXCEPT !.parent = p]
  OBVIOUS
<1>10. Typed(t2) /\ t2.root = t1.root /\ t2.kid = t1.kid /\ t2.parent = p /\ t2.black = t1.black
  BY <1>4, <1>8, <1>9, FieldUpdates
<1>11. PICK t3 : t3 = [t2 EXCEPT !.black = b]
  OBVIOUS
<1>12. Typed(t3) /\ t3.root = t2.root /\ t3.kid = t2.kid /\ t3.parent = t2.parent /\ t3.black = b
  BY <1>6, <1>10, <1>11, FieldUpdates
<1>a. u = [[[t EXCEPT !.kid[v] = Blank] EXCEPT !.parent[v] = NULL] EXCEPT !.black[v] = FALSE]
  BY DEF Reset
<1>b. [t EXCEPT !.kid[v] = Blank] = t1
  BY <1>1, <1>7 DEF Typed
<1>c. [t1 EXCEPT !.parent[v] = NULL] = t2
  BY <1>3, <1>8, <1>9 DEF Typed
<1>d. [t2 EXCEPT !.black[v] = FALSE] = t3
  BY <1>5, <1>8, <1>10, <1>11 DEF Typed
<1>13. u = t3
  BY <1>a, <1>b, <1>c, <1>d
<1> QED
  BY <1>2, <1>4, <1>6, <1>8, <1>10, <1>12, <1>13 DEF Freed

\* Freeing a node that is not linked changes nothing in the tree.
LEMMA ResetStep ==
    ASSUME NEW t, NEW S, NEW sub, Shaped(t, S, sub), NEW bh, Balanced(t, S, bh),
           NEW v \in Keys \ S, Outside(t, S, v), NEW u, u = Reset(t, v)
    PROVE  Shaped(u, S, sub) /\ Balanced(u, S, bh) /\ Outside(u, S, NULL)
<1>0. Typed(t) /\ S \subseteq Keys
  BY DEF Shaped, Below
<1>1. /\ Typed(u) /\ u.root = t.root
      /\ u.kid[v] = Blank /\ u.parent[v] = NULL /\ u.black[v] = FALSE
      /\ \A m \in Keys : m # v =>
            u.kid[m] = t.kid[m] /\ u.parent[m] = t.parent[m] /\ u.black[m] = t.black[m]
  <2>1. v \in Keys
    OBVIOUS
  <2>2. Freed(t, u, v)
    BY <1>0, <2>1, ResetFields
  <2> QED
    BY <2>2 DEF Freed
<1>2. SameOn(t, u, S)
  BY <1>0, <1>1 DEF SameOn
<1>3. \A m \in Keys \ S : u.kid[m] = Blank /\ u.parent[m] = NULL /\ u.black[m] = FALSE
  BY <1>1 DEF Outside
<1>4. \A d \in Dirs : Blank[d] = NULL
  BY DEF Blank
<1>5. Outside(u, S, NULL)
  BY <1>3, <1>4 DEF Outside
<1> QED
  BY <1>2, <1>5, SameNodes

-----------------------------------------------------------------------------
(* rb_erase takes out a node with at most one child *)

\* c is the only child of n, or NULL.
OneKid(t, n, c) == \E f \in Dirs : t.kid[n][f] = c /\ t.kid[n][Opp(f)] = NULL

\* u is t with n replaced by its only child c.
Spliced(t, u, n, c) ==
    LET p == t.parent[n]
    IN  /\ Typed(u) /\ u.black = t.black
        /\ u.root = IF n = t.root THEN c ELSE t.root
        /\ \A m \in Keys, e \in Dirs : u.kid[m][e] =
                IF m = p /\ t.kid[m][e] = n THEN c ELSE t.kid[m][e]
        /\ \A m \in Keys : u.parent[m] = IF m = c THEN p ELSE t.parent[m]

\* The fields after the only child of n is put in its place.
LEMMA SpliceFields ==
    ASSUME NEW t, NEW S, NEW sub, Shaped(t, S, sub), NEW n \in S, NEW c \in Ptr,
           NEW p, p = t.parent[n]
    PROVE  Spliced(t, Relink(SetParent(t, c, p), p, n, c), n, c)
<1>0. Typed(t) /\ n \in Keys /\ p \in Ptr /\ NULL \notin Keys
  BY KeysAssumption DEF Shaped, Below, Typed
<1>1. /\ p = NULL <=> n = t.root
      /\ p # NULL => /\ n = t.kid[p][Side(t, p, n)] /\ Side(t, p, n) \in Dirs
                     /\ t.kid[p][Opp(Side(t, p, n))] # n
  BY ParentFacts
<1>2. PICK a : a = SetParent(t, c, p)
  OBVIOUS
<1>3. /\ Typed(a) /\ a.root = t.root /\ a.kid = t.kid /\ a.black = t.black
      /\ \A m \in Keys : a.parent[m] = IF m = c THEN p ELSE t.parent[m]
  <2>1. ParentSet(t, a, c, p)
    BY <1>0, <1>2, SetParentFields
  <2> QED
    BY <2>1 DEF ParentSet
<1>4. PICK u : u = Relink(a, p, n, c)
  OBVIOUS
<1>5. /\ Typed(u) /\ u.parent = a.parent /\ u.black = t.black
      /\ u.root = IF p = NULL THEN c ELSE t.root
      /\ \A m \in Keys, e \in Dirs : u.kid[m][e] =
             IF m = p /\ e = Side(a, p, n) THEN c ELSE t.kid[m][e]
  <2>1. Relinked(a, u, p, n, c)
    BY <1>0, <1>3, <1>4, RelinkFields
  <2> QED
    BY <1>3, <2>1 DEF Relinked
<1>6. Side(a, p, n) = Side(t, p, n)
  BY <1>3 DEF Side
<1>7. ASSUME NEW m \in Keys, NEW e \in Dirs
      PROVE  u.kid[m][e] = IF m = p /\ t.kid[m][e] = n THEN c ELSE t.kid[m][e]
  <2>1. CASE m # p
    BY <1>5, <2>1
  <2>2. CASE m = p
    <3>1. t.kid[m][e] = n <=> e = Side(a, p, n)
      BY <1>0, <1>1, <1>6, <2>2, OnOrder
    <3> QED
      BY <1>5, <2>2, <3>1
  <2> QED
    BY <2>1, <2>2
<1>8. Spliced(t, u, n, c)
  BY <1>1, <1>3, <1>5, <1>7 DEF Spliced
<1> QED
  BY <1>2, <1>4, <1>8

\* The pieces at a node that is taken out.
AtSplice(t, S, sub, n, c, p) ==
    /\ c \in (S \ {n}) \union {NULL} /\ p \in (S \ {n}) \union {NULL} /\ n # NULL
    /\ (p = NULL <=> n = t.root) /\ (c # NULL => c # t.root /\ t.parent[c] = n)
    /\ sub[n] = Under(sub, c) \union {n} /\ n \notin Under(sub, c)
    /\ \A m \in S, e \in Dirs : t.kid[m][e] = n => m = p
    /\ \A m \in S, e \in Dirs : t.kid[m][e] = c /\ c # NULL => m = n
    /\ \A e \in Dirs : t.kid[n][e] \in {c, NULL}

\* Where the nodes around n are.
LEMMA SpliceFacts ==
    ASSUME NEW t, NEW S, NEW sub, Shaped(t, S, sub), NEW n \in S, NEW c, OneKid(t, n, c),
           NEW p, p = t.parent[n]
    PROVE  AtSplice(t, S, sub, n, c, p)
<1>0. /\ S \subseteq Keys /\ NULL \notin S /\ n \in Keys
      /\ \A m \in S : m \in sub[m] /\ sub[m] \subseteq S
      /\ \A m \in S, d \in Dirs : t.kid[m][d] \in S \union {NULL}
      /\ \A m \in S, d \in Dirs : Under(sub, t.kid[m][d]) = Part(sub[m], m, d)
  BY KeysAssumption DEF Shaped, Below
<1>1. PICK f \in Dirs : t.kid[n][f] = c /\ t.kid[n][Opp(f)] = NULL
  BY DEF OneKid
<1>2. Opp(f) \in Dirs /\ \A e \in Dirs : e = f \/ e = Opp(f)
  BY OnOrder
<1>3. Under(sub, c) = Part(sub[n], n, f) /\ Part(sub[n], n, Opp(f)) = {}
  BY <1>0, <1>1, <1>2 DEF Under
<1>4. \A k \in sub[n] : k = n \/ On(f, k, n) \/ On(Opp(f), k, n)
  BY <1>0, OnOrder
<1>5. sub[n] = Under(sub, c) \union {n} /\ n \notin Under(sub, c)
  BY <1>0, <1>3, <1>4 DEF Part, On
<1>6. c # NULL => KidOf(t, S, sub, n, f, c)
  BY <1>1, KidIs
<1>7. c # NULL => c \in S /\ c # n /\ c # t.root /\ t.parent[c] = n
  BY <1>6 DEF KidOf
<1>8. /\ p = NULL <=> n = t.root
      /\ p # NULL => p \in S /\ p # n
  BY ParentFacts
<1>9. \A m \in S, e \in Dirs : t.kid[m][e] # NULL => t.parent[t.kid[m][e]] = m
  BY DEF Shaped, Links
<1>10. \A m \in S, e \in Dirs : t.kid[m][e] = n => m = p
  BY <1>0, <1>9
<1>11. \A m \in S, e \in Dirs : t.kid[m][e] = c /\ c # NULL => m = n
  BY <1>7, <1>9
<1>12. \A e \in Dirs : t.kid[n][e] \in {c, NULL}
  BY <1>1, <1>2
<1>13. n # NULL /\ c \in (S \ {n}) \union {NULL} /\ p \in (S \ {n}) \union {NULL}
  BY <1>0, <1>7, <1>8
<1> QED
  BY <1>5, <1>7, <1>8, <1>10, <1>11, <1>12, <1>13 DEF AtSplice

SubSpliced(S, sub, n) == [m \in S \ {n} |-> sub[m] \ {n}]

\* The tree without n is a search tree.
LEMMA SpliceShape ==
    ASSUME NEW t, NEW S, NEW sub, Shaped(t, S, sub), NEW n \in S, NEW c, OneKid(t, n, c),
           NEW u, Spliced(t, u, n, c)
    PROVE  Shaped(u, S \ {n}, SubSpliced(S, sub, n))
<1>0. /\ S \subseteq Keys /\ NULL \notin S /\ n \in Keys /\ IsFiniteSet(S)
      /\ \A m \in S : m \in sub[m] /\ sub[m] \subseteq S
      /\ \A m \in S, d \in Dirs : t.kid[m][d] \in S \union {NULL}
      /\ \A m \in S, d \in Dirs : Under(sub, t.kid[m][d]) = Part(sub[m], m, d)
      /\ t.root \in S \union {NULL} /\ Under(sub, t.root) = S
  BY KeysAssumption DEF Shaped, Below
<1>1. PICK p : p = t.parent[n]
  OBVIOUS
<1>a. AtSplice(t, S, sub, n, c, p)
  BY <1>1, SpliceFacts
<1>2. /\ c \in (S \ {n}) \union {NULL} /\ p \in (S \ {n}) \union {NULL} /\ n # NULL
      /\ (p = NULL <=> n = t.root) /\ (c # NULL => c # t.root)
      /\ sub[n] = Under(sub, c) \union {n} /\ n \notin Under(sub, c)
      /\ \A m \in S, e \in Dirs : t.kid[m][e] = n => m = p
      /\ \A m \in S, e \in Dirs : t.kid[m][e] = c /\ c # NULL => m = n
      /\ \A e \in Dirs : t.kid[n][e] \in {c, NULL}
  BY <1>a DEF AtSplice
<1>3. /\ Typed(u) /\ u.root = IF n = t.root THEN c ELSE t.root
      /\ \A m \in Keys, e \in Dirs : u.kid[m][e] =
                IF m = p /\ t.kid[m][e] = n THEN c ELSE t.kid[m][e]
      /\ \A m \in Keys : u.parent[m] = IF m = c THEN p ELSE t.parent[m]
  BY <1>1 DEF Spliced
<1>b. \A m \in S, e \in Dirs : t.kid[m][e] = n => m = p
  BY <1>2
<1>c. \A m \in Keys, e \in Dirs : u.kid[m][e] = IF m = p /\ t.kid[m][e] = n THEN c ELSE t.kid[m][e]
  BY <1>3
<1>4. PICK S2 : S2 = S \ {n}
  OBVIOUS
<1>5. PICK sub2 : sub2 = SubSpliced(S, sub, n)
  OBVIOUS
<1>6. DOMAIN sub2 = S2 /\ \A m \in S2 : sub2[m] = sub[m] \ {n}
  BY <1>4, <1>5 DEF SubSpliced
<1>7. S2 \subseteq Keys /\ IsFiniteSet(S2)
  <2>1. S2 \subseteq S
    BY <1>4
  <2> QED
    BY <1>0, <2>1, FS_Subset
<1>8. \A m \in S2 : m \in sub2[m] /\ sub2[m] \subseteq S2
  BY <1>0, <1>4, <1>6
<1>9. ASSUME NEW k \in S2 \union {NULL} PROVE Under(sub2, k) = Under(sub, k) \ {n}
  BY <1>6 DEF Under
<1>10. Under(sub2, c) = sub[n] \ {n}
  <2>1. Under(sub2, c) = Under(sub, c) \ {n}
    BY <1>2, <1>4, <1>9
  <2> QED
    BY <1>2, <2>1
<1>11. u.root \in S2 \union {NULL} /\ Under(sub2, u.root) = S2
  <2>1. CASE n = t.root
    <3>1. sub[n] = S
      BY <1>0, <1>2, <2>1 DEF Under
    <3> QED
      BY <1>2, <1>3, <1>4, <1>10, <2>1, <3>1
  <2>2. CASE n # t.root
    <3>1. u.root = t.root /\ t.root \in S2 \union {NULL}
      BY <1>0, <1>3, <1>4, <2>2
    <3>2. Under(sub2, t.root) = Under(sub, t.root) \ {n}
      BY <1>9, <3>1
    <3> QED
      BY <1>0, <1>4, <3>1, <3>2
  <2> QED
    BY <2>1, <2>2
<1>12. ASSUME NEW m \in S2, NEW d \in Dirs
       PROVE  u.kid[m][d] \in S2 \union {NULL} /\ Under(sub2, u.kid[m][d]) = Part(sub2[m], m, d)
  <2>1. m \in S /\ m # n /\ m \in Keys
    BY <1>0, <1>4
  <2>2. PICK k : k = t.kid[m][d]
    OBVIOUS
  <2>3. k \in S \union {NULL} /\ Under(sub, k) = Part(sub[m], m, d)
    BY <1>0, <2>1, <2>2
  <2>4. Part(sub2[m], m, d) = Part(sub[m], m, d) \ {n}
    BY <1>6 DEF Part
  <2>5. CASE k = n
    <3>0. t.kid[m][d] = n /\ m = p
      BY <1>b, <2>1, <2>2, <2>5
    <3>1. u.kid[m][d] = c
      BY <1>c, <2>1, <3>0
    <3>2. Under(sub, k) = sub[n]
      BY <1>2, <2>5 DEF Under
    <3> QED
      BY <1>2, <1>4, <1>10, <2>3, <2>4, <3>1, <3>2
  <2>6. CASE k # n
    <3>1. u.kid[m][d] = k /\ k \in S2 \union {NULL}
      BY <1>3, <1>4, <2>1, <2>2, <2>3, <2>6
    <3>2. Under(sub2, k) = Under(sub, k) \ {n}
      BY <1>9, <3>1
    <3> QED
      BY <2>3, <2>4, <3>1, <3>2
  <2> QED
    BY <2>5, <2>6
<1>13. Below(u, S2, sub2)
  BY <1>6, <1>7, <1>8, <1>11, <1>12 DEF Below
<1>14. Links(t, S)
  BY DEF Shaped
<1>15. ASSUME NEW m \in S2, NEW d \in Dirs, u.kid[m][d] # NULL PROVE u.parent[u.kid[m][d]] = m
  <2>1. m \in S /\ m # n /\ m \in Keys
    BY <1>0, <1>4
  <2>2. PICK k : k = t.kid[m][d]
    OBVIOUS
  <2>3. CASE k = n
    <3>0. t.kid[m][d] = n /\ m = p
      BY <1>b, <2>1, <2>2, <2>3
    <3>1. u.kid[m][d] = c /\ m = p
      BY <1>c, <2>1, <3>0
    <3>2. c \in Keys
      BY <1>0, <1>2, <1>15, <3>1
    <3> QED
      BY <1>3, <3>1, <3>2
  <2>4. CASE k # n
    <3>1. u.kid[m][d] = k
      BY <1>3, <2>1, <2>2, <2>4
    <3>2. k \in S /\ k \in Keys /\ k # c /\ t.parent[k] = m
      BY <1>0, <1>2, <1>14, <1>15, <2>1, <2>2, <3>1 DEF Links
    <3> QED
      BY <1>3, <3>1, <3>2
  <2> QED
    BY <2>3, <2>4
<1>16. ASSUME NEW m \in S2, m = u.root PROVE u.parent[m] = NULL
  <2>0. m \in S /\ m # n /\ m \in Keys
    BY <1>0, <1>4
  <2>1. CASE n = t.root
    BY <1>2, <1>3, <1>16, <2>0, <2>1
  <2>2. CASE n # t.root
    <3>1. m = t.root /\ m # c
      BY <1>0, <1>2, <1>3, <1>16, <2>0, <2>2
    <3>2. t.parent[m] = NULL
      BY <1>14, <2>0, <3>1 DEF Links
    <3> QED
      BY <1>3, <2>0, <3>1, <3>2
  <2> QED
    BY <2>1, <2>2
<1>17. ASSUME NEW m \in S2, m # u.root
       PROVE  u.parent[m] \in S2 /\ \E d \in Dirs : u.kid[u.parent[m]][d] = m
  <2>0. m \in S /\ m # n /\ m \in Keys /\ m # NULL
    BY <1>0, <1>4
  <2>1. CASE m = c
    <3>1. n # t.root /\ p # NULL /\ u.parent[m] = p
      BY <1>2, <1>3, <1>17, <2>0, <2>1
    <3>2. \E d \in Dirs : t.kid[p][d] = n
      BY <1>1, <1>14, <3>1 DEF Links
    <3>3. p \in S2 /\ p \in Keys
      BY <1>0, <1>2, <1>4, <3>1
    <3> QED
      BY <1>3, <2>1, <3>1, <3>2, <3>3
  <2>2. CASE m # c
    <3>1. m # t.root /\ u.parent[m] = t.parent[m]
      BY <1>3, <1>17, <2>0, <2>2
    <3>2. PICK a : a = t.parent[m]
      OBVIOUS
    <3>3. a \in S /\ \E d \in Dirs : t.kid[a][d] = m
      BY <1>14, <2>0, <3>1, <3>2 DEF Links
    <3>4. PICK d \in Dirs : t.kid[a][d] = m
      BY <3>3
    <3>5. a # n
      BY <1>2, <2>0, <2>2, <3>4
    <3>6. u.kid[a][d] = m
      BY <1>0, <1>3, <2>0, <3>3, <3>4
    <3> QED
      BY <1>4, <3>1, <3>2, <3>3, <3>5, <3>6
  <2> QED
    BY <2>1, <2>2
<1>18. Links(u, S2)
  BY <1>15, <1>16, <1>17 DEF Links
<1>19. Shaped(u, S2, sub2)
  BY <1>3, <1>13, <1>18 DEF Shaped
<1> QED
  BY <1>4, <1>5, <1>19

\* What taking out a node leaves: a red-black tree if it was red, and one
\* that lacks a black node above c if it was black.
LEMMA SpliceBalance ==
    ASSUME NEW t, NEW S, NEW sub, Shaped(t, S, sub), NEW bh, Balanced(t, S, bh),
           NEW n \in S, NEW c, OneKid(t, n, c), NEW u, Spliced(t, u, n, c),
           NEW p, p = t.parent[n]
    PROVE  /\ t.black[n] => \E bh2 : Erasing(u, S \ {n}, bh2, c, p)
           /\ ~t.black[n] => \E bh2 : Balanced(u, S \ {n}, bh2)
<1>0. /\ S \subseteq Keys /\ NULL \notin S /\ n \in Keys
      /\ \A m \in S, d \in Dirs : t.kid[m][d] \in S \union {NULL}
      /\ t.root \in S \union {NULL}
  BY KeysAssumption DEF Shaped, Below
<1>a. AtSplice(t, S, sub, n, c, p)
  BY SpliceFacts
<1>2. /\ c \in (S \ {n}) \union {NULL} /\ p \in (S \ {n}) \union {NULL} /\ n # NULL
      /\ (p = NULL <=> n = t.root)
      /\ \A m \in S, e \in Dirs : t.kid[m][e] = n => m = p
      /\ \A m \in S, e \in Dirs : t.kid[m][e] = c /\ c # NULL => m = n
  BY <1>a DEF AtSplice
<1>3. /\ u.black = t.black /\ u.root = IF n = t.root THEN c ELSE t.root
      /\ \A m \in Keys, e \in Dirs : u.kid[m][e] =
                IF m = p /\ t.kid[m][e] = n THEN c ELSE t.kid[m][e]
  BY DEF Spliced
<1>4. PICK S2 : S2 = S \ {n}
  OBVIOUS
<1>5. /\ bh \in [S \union {NULL} -> Nat] /\ bh[NULL] = 0
      /\ \A m \in S, d \in Dirs : bh[m] = bh[t.kid[m][d]] + Weight(t, m)
  <2>1. Level(t, S, bh)
    BY <1>0, PlainHeights DEF Balanced
  <2> QED
    BY <2>1 DEF Level
<1>6. Reds(t, S, NULL, NULL) /\ RootBlack(t, NULL)
  BY DEF Balanced
<1>7. PICK f \in Dirs : t.kid[n][f] = c
  BY DEF OneKid
<1>8. bh[n] = bh[c] + Weight(t, n) /\ bh[c] \in Nat
  BY <1>2, <1>5, <1>7
<1>9. PICK bh2 : bh2 = [m \in S2 \union {NULL} |-> bh[m]]
  OBVIOUS
<1>10. /\ bh2 \in [S2 \union {NULL} -> Nat] /\ bh2[NULL] = 0
       /\ \A m \in S2 \union {NULL} : bh2[m] = bh[m]
  BY <1>4, <1>5, <1>9
<1>11. \A m \in S : Weight(u, m) = Weight(t, m) /\ Weight(t, m) \in Nat
  BY <1>3 DEF Weight
<1>12. ASSUME NEW m \in S2, NEW d \in Dirs, t.kid[m][d] # n
       PROVE  /\ u.kid[m][d] = t.kid[m][d] /\ t.kid[m][d] \in S2 \union {NULL}
              /\ bh2[m] = bh2[u.kid[m][d]] + Weight(u, m)
  <2>1. m \in S /\ m \in Keys
    BY <1>0, <1>4
  <2>2. u.kid[m][d] = t.kid[m][d] /\ t.kid[m][d] \in S2 \union {NULL}
    BY <1>0, <1>3, <1>4, <1>12, <2>1
  <2>3. bh[m] = bh[t.kid[m][d]] + Weight(t, m)
    BY <1>5, <2>1
  <2>4. bh2[m] = bh[m] /\ bh2[u.kid[m][d]] = bh[t.kid[m][d]]
    BY <1>10, <2>2
  <2> QED
    BY <1>11, <2>1, <2>2, <2>3, <2>4
<1>13. ASSUME NEW m \in S2, NEW d \in Dirs, t.kid[m][d] = n
       PROVE  /\ u.kid[m][d] = c /\ m = p /\ bh2[m] = bh2[c] + Weight(t, n) + Weight(u, m)
              /\ bh2[c] \in Nat /\ Weight(u, m) \in Nat
  <2>1. m \in S /\ m \in Keys
    BY <1>0, <1>4
  <2>2. m = p /\ u.kid[m][d] = c
    BY <1>2, <1>3, <1>13, <2>1
  <2>3. bh[m] = bh[n] + Weight(t, m)
    BY <1>5, <1>13, <2>1
  <2>4. bh2[m] = bh[m] /\ bh2[c] = bh[c]
    BY <1>2, <1>4, <1>10
  <2>5. Weight(u, m) = Weight(t, m) /\ Weight(t, m) \in Nat /\ Weight(t, n) \in Nat
    BY <1>11, <2>1
  <2> QED
    BY <1>8, <2>2, <2>3, <2>4, <2>5
<1>14. ASSUME NEW m \in S2, NEW d \in Dirs, IsRed(u, u.kid[m][d]), u.kid[m][d] # c PROVE u.black[m]
  <2>1. m \in S /\ t.kid[m][d] # n
    BY <1>4, <1>13, <1>14
  <2>2. u.kid[m][d] = t.kid[m][d]
    BY <1>12, <2>1
  <2>3. IsRed(t, t.kid[m][d]) /\ t.kid[m][d] # NULL /\ m # NULL
    BY <1>0, <1>3, <1>14, <2>1, <2>2 DEF IsRed
  <2>4. t.black[m]
    BY <1>6, <2>1, <2>3 DEF Reds
  <2> QED
    BY <1>3, <2>4
<1>15. ASSUME t.black[n] PROVE \E bh3 : Erasing(u, S2, bh3, c, p)
  <2>0. Weight(t, n) = 1
    BY <1>15 DEF Weight
  <2>1. Reds(u, S2, c, c)
    BY <1>14 DEF Reds
  <2>2. RootBlack(u, c)
    BY <1>3, <1>6 DEF RootBlack, IsRed
  <2>3. CASE n = t.root
    <3>1. c = u.root /\ p = NULL
      BY <1>2, <1>3, <2>3
    <3>2. \A m \in S2, d \in Dirs : t.kid[m][d] # n
      BY <1>0, <1>4, <1>13, <3>1
    <3>3. Level(u, S2, bh2)
      BY <1>10, <1>12, <3>2 DEF Level
    <3>4. NULL \notin S2 /\ \A m \in S2, d \in Dirs : u.kid[m][d] \in S2 \union {NULL}
      BY <1>0, <1>4, <1>12, <3>2
    <3>5. Heights(u, S2, bh2, NULL, "left")
      BY <3>3, <3>4, PlainHeights
    <3> QED
      BY <2>1, <2>2, <3>1, <3>5 DEF Erasing
  <2>4. CASE n # t.root
    <3>1. p \in S /\ p \in S2 /\ p \in Keys
      BY <1>0, <1>2, <1>4, <2>4
    <3>2. PICK e \in Dirs : t.kid[p][e] = n /\ t.kid[p][Opp(e)] # n
      <4>1. n = t.kid[p][Side(t, p, n)] /\ Side(t, p, n) \in Dirs
            /\ t.kid[p][Opp(Side(t, p, n))] # n
        BY <1>2, <2>4, ParentFacts
      <4> QED
        BY <4>1
    <3>3. ASSUME NEW m \in S2, NEW d \in Dirs
          PROVE  bh2[m] = bh2[u.kid[m][d]] + Weight(u, m) + Lack(m, d, p, e)
      <4>1. CASE t.kid[m][d] = n
        <5>1. m = p /\ u.kid[m][d] = c
          BY <1>13, <4>1
        <5>2. d = e
          BY <3>2, <4>1, <5>1, OnOrder
        <5>3. Lack(m, d, p, e) = 1
          BY <5>1, <5>2 DEF Lack
        <5>4. bh2[m] = bh2[c] + Weight(t, n) + Weight(u, m) /\ bh2[c] \in Nat /\ Weight(u, m) \in Nat
          BY <1>13, <4>1
        <5> QED
          BY <2>0, <5>1, <5>3, <5>4
      <4>2. CASE t.kid[m][d] # n
        <5>1. Lack(m, d, p, e) = 0
          BY <3>2, <4>2 DEF Lack
        <5>2. u.kid[m][d] \in S2 \union {NULL} /\ bh2[m] = bh2[u.kid[m][d]] + Weight(u, m)
          BY <1>12, <4>2
        <5>3. bh2[u.kid[m][d]] \in Nat /\ Weight(u, m) \in Nat
          BY <1>4, <1>10, <1>11, <5>2
        <5> QED
          BY <5>1, <5>2, <5>3
      <4> QED
        BY <4>1, <4>2
    <3>4. Heights(u, S2, bh2, p, e)
      BY <1>10, <3>3 DEF Heights
    <3>5. u.kid[p][e] = c
      BY <1>13, <3>1, <3>2
    <3> QED
      BY <2>1, <2>2, <3>1, <3>4, <3>5 DEF Erasing
  <2> QED
    BY <2>3, <2>4
<1>16. ASSUME ~t.black[n] PROVE \E bh3 : Balanced(u, S2, bh3)
  <2>0. Weight(t, n) = 0
    BY <1>16 DEF Weight
  <2>1. n # t.root
    BY <1>2, <1>6, <1>16 DEF RootBlack, IsRed
  <2>2. ~IsRed(t, c) /\ ~IsRed(u, c)
    BY <1>2, <1>3, <1>6, <1>7, <1>16 DEF Reds, IsRed
  <2>3. Reds(u, S2, NULL, NULL)
    BY <1>14, <2>2 DEF Reds
  <2>4. RootBlack(u, NULL)
    BY <1>3, <1>6, <2>1 DEF RootBlack, IsRed
  <2>5. ASSUME NEW m \in S2, NEW d \in Dirs
        PROVE  bh2[m] = bh2[u.kid[m][d]] + Weight(u, m) /\ u.kid[m][d] \in S2 \union {NULL}
    <3>1. CASE t.kid[m][d] = n
      <4>1. /\ u.kid[m][d] = c /\ bh2[m] = bh2[c] + Weight(t, n) + Weight(u, m)
            /\ bh2[c] \in Nat /\ Weight(u, m) \in Nat
        BY <1>13, <3>1
      <4> QED
        BY <1>2, <1>4, <2>0, <4>1
    <3>2. CASE t.kid[m][d] # n
      BY <1>12, <3>2
    <3> QED
      BY <3>1, <3>2
  <2>6. Level(u, S2, bh2)
    BY <1>10, <2>5 DEF Level
  <2>7. NULL \notin S2
    BY <1>0, <1>4
  <2>8. Heights(u, S2, bh2, NULL, "left")
    BY <2>5, <2>6, <2>7, PlainHeights
  <2> QED
    BY <2>3, <2>4, <2>8 DEF Balanced
<1> QED
  BY <1>4, <1>15, <1>16

-----------------------------------------------------------------------------
(* rb_erase puts the next node in the place of one with two children *)

\* s in the place of n.
Swap(m, n, s) == IF m = n THEN s ELSE m
SwapSet(X, n, s) == IF n \in X THEN (X \ {n}) \union {s} ELSE X

\* The nodes S of t are those of u, with s in the place of n.
Renamed(t, u, S, n, s) ==
    /\ Typed(u) /\ u.root = Swap(t.root, n, s)
    /\ \A m \in S, d \in Dirs : u.kid[Swap(m, n, s)][d] = Swap(t.kid[m][d], n, s)
    /\ \A m \in S : u.parent[Swap(m, n, s)] = Swap(t.parent[m], n, s)
    /\ \A m \in S : u.black[Swap(m, n, s)] = t.black[m]

\* No other node of S is between n and s.
Beside(S, n, s) == \A k \in S \ {n}, d \in Dirs : On(d, k, n) <=> On(d, k, s)

\* Renaming is one to one and keeps the order.
SwapFacts(S, n, s) ==
    /\ SwapSet(S, n, s) \subseteq Keys /\ IsFiniteSet(SwapSet(S, n, s))
    /\ Swap(NULL, n, s) = NULL
    /\ \A m \in S : Swap(m, n, s) \in SwapSet(S, n, s) /\ Swap(m, n, s) # NULL
    /\ \A a, b \in S \union {NULL} : Swap(a, n, s) = Swap(b, n, s) => a = b
    /\ \A k \in SwapSet(S, n, s) : \E m \in S : k = Swap(m, n, s)
    /\ \A a, b \in S, d \in Dirs : On(d, Swap(a, n, s), Swap(b, n, s)) <=> On(d, a, b)
    /\ \A X \in SUBSET S, m \in S : m \in X => Swap(m, n, s) \in SwapSet(X, n, s)
    /\ \A X \in SUBSET S : SwapSet(X, n, s) \subseteq SwapSet(S, n, s)

\* Putting s in the place of n keeps the order.
LEMMA SwapIs ==
    ASSUME NEW S, S \subseteq Keys, NEW n \in S, NEW s \in Keys \ S, Beside(S, n, s)
    PROVE  SwapFacts(S, n, s)
<1>0. n # NULL /\ s # NULL /\ s # n /\ NULL \notin S /\ n \in Keys /\ s \in Keys
  BY KeysAssumption
<1>1. PICK S2 : S2 = (S \ {n}) \union {s}
  OBVIOUS
<1>2. SwapSet(S, n, s) = S2
  BY <1>1 DEF SwapSet
<1>3. S2 \subseteq Keys
  BY <1>1
<1>4. IsFiniteSet(S2)
  BY <1>3, KeysAssumption, FS_Subset
<1>5. Swap(NULL, n, s) = NULL /\ \A m \in S : Swap(m, n, s) \in S2 /\ Swap(m, n, s) # NULL
  BY <1>0, <1>1 DEF Swap
<1>6. \A a, b \in S \union {NULL} : Swap(a, n, s) = Swap(b, n, s) => a = b
  BY <1>0 DEF Swap
<1>7. \A k \in S2 : \E m \in S : k = Swap(m, n, s)
  BY <1>1 DEF Swap
<1>8. ASSUME NEW a \in S, NEW b \in S, NEW d \in Dirs
      PROVE  On(d, Swap(a, n, s), Swap(b, n, s)) <=> On(d, a, b)
  <2>1. CASE a = n /\ b = n
    BY <2>1 DEF Swap, On
  <2>2. CASE a = n /\ b # n
    <3>1. Swap(a, n, s) = s /\ Swap(b, n, s) = b
      BY <2>2 DEF Swap
    <3>2. Opp(d) \in Dirs /\ \A x, y \in Keys : On(Opp(d), x, y) <=> On(d, y, x)
      BY OnOrder
    <3>3. On(Opp(d), b, n) <=> On(Opp(d), b, s)
      BY <2>2, <3>2 DEF Beside
    <3>4. b \in Keys
      OBVIOUS
    <3> QED
      BY <1>0, <2>2, <3>1, <3>2, <3>3, <3>4
  <2>3. CASE a # n /\ b = n
    BY <2>3 DEF Swap, Beside
  <2>4. CASE a # n /\ b # n
    BY <2>4 DEF Swap
  <2> QED
    BY <2>1, <2>2, <2>3, <2>4
<1>9. \A X \in SUBSET S, m \in S : m \in X => Swap(m, n, s) \in SwapSet(X, n, s)
  BY DEF Swap, SwapSet
<1>10. \A X \in SUBSET S : SwapSet(X, n, s) \subseteq S2
  BY <1>1 DEF SwapSet
<1> QED
  BY <1>2, <1>3, <1>4, <1>5, <1>6, <1>7, <1>8, <1>9, <1>10 DEF SwapFacts

\* The original of a renamed node.
SubRenamed(S, sub, n, s) ==
    [m \in SwapSet(S, n, s) |-> SwapSet(sub[IF m = s THEN n ELSE m], n, s)]

\* The tree with s in the place of n is a search tree.
LEMMA RenameShape ==
    ASSUME NEW t, NEW S, NEW sub, Shaped(t, S, sub), NEW n \in S, NEW s \in Keys \ S,
           Beside(S, n, s), NEW u, Renamed(t, u, S, n, s)
    PROVE  Shaped(u, SwapSet(S, n, s), SubRenamed(S, sub, n, s))
<1>0. /\ S \subseteq Keys /\ NULL \notin S /\ n \in Keys /\ s \notin S
      /\ \A m \in S : m \in sub[m] /\ sub[m] \subseteq S
      /\ \A m \in S, d \in Dirs : t.kid[m][d] \in S \union {NULL}
      /\ \A m \in S, d \in Dirs : Under(sub, t.kid[m][d]) = Part(sub[m], m, d)
      /\ t.root \in S \union {NULL} /\ Under(sub, t.root) = S
  BY KeysAssumption DEF Shaped, Below
<1>1. PICK S2 : S2 = SwapSet(S, n, s)
  OBVIOUS
<1>2. /\ S2 \subseteq Keys /\ IsFiniteSet(S2)
      /\ Swap(NULL, n, s) = NULL
      /\ \A m \in S : Swap(m, n, s) \in S2 /\ Swap(m, n, s) # NULL
      /\ \A a, b \in S \union {NULL} : Swap(a, n, s) = Swap(b, n, s) => a = b
      /\ \A k \in S2 : \E m \in S : k = Swap(m, n, s)
  <2>1. SwapFacts(S, n, s)
    BY <1>0, SwapIs
  <2> QED
    BY <1>1, <2>1 DEF SwapFacts
<1>3. /\ \A a, b \in S, d \in Dirs : On(d, Swap(a, n, s), Swap(b, n, s)) <=> On(d, a, b)
      /\ \A X \in SUBSET S, m \in S : m \in X => Swap(m, n, s) \in SwapSet(X, n, s)
      /\ \A X \in SUBSET S : SwapSet(X, n, s) \subseteq S2
  <2>1. SwapFacts(S, n, s)
    BY <1>0, SwapIs
  <2> QED
    BY <1>1, <2>1 DEF SwapFacts
<1>4. /\ Typed(u) /\ u.root = Swap(t.root, n, s)
      /\ \A m \in S, d \in Dirs : u.kid[Swap(m, n, s)][d] = Swap(t.kid[m][d], n, s)
      /\ \A m \in S : u.parent[Swap(m, n, s)] = Swap(t.parent[m], n, s)
  BY DEF Renamed
<1>5. PICK sub2 : sub2 = SubRenamed(S, sub, n, s)
  OBVIOUS
<1>6. DOMAIN sub2 = S2 /\ \A m \in S : sub2[Swap(m, n, s)] = SwapSet(sub[m], n, s)
  <2>1. DOMAIN sub2 = S2
    BY <1>1, <1>5 DEF SubRenamed
  <2>2. \A k \in S2 : sub2[k] = SwapSet(sub[IF k = s THEN n ELSE k], n, s)
    BY <1>1, <1>5 DEF SubRenamed
  <2>3. ASSUME NEW m \in S PROVE sub2[Swap(m, n, s)] = SwapSet(sub[m], n, s)
    <3>1. m = IF Swap(m, n, s) = s THEN n ELSE Swap(m, n, s)
      BY <1>0 DEF Swap
    <3>2. Swap(m, n, s) \in S2
      BY <1>2
    <3> QED
      BY <2>2, <3>1, <3>2
  <2> QED
    BY <2>1, <2>3
<1>7. \A c \in S \union {NULL} : Under(sub2, Swap(c, n, s)) = SwapSet(Under(sub, c), n, s)
  <2>1. Under(sub2, Swap(NULL, n, s)) = SwapSet(Under(sub, NULL), n, s)
    BY <1>2 DEF Under, SwapSet
  <2>2. ASSUME NEW c \in S PROVE Under(sub2, Swap(c, n, s)) = SwapSet(Under(sub, c), n, s)
    <3>1. Under(sub2, Swap(c, n, s)) = sub2[Swap(c, n, s)]
      BY <1>2 DEF Under
    <3>2. Under(sub, c) = sub[c]
      BY <1>0 DEF Under
    <3> QED
      BY <1>6, <3>1, <3>2
  <2> QED
    BY <2>1, <2>2
<1>8. ASSUME NEW m \in S, NEW d \in Dirs
      PROVE  Part(SwapSet(sub[m], n, s), Swap(m, n, s), d) = SwapSet(Part(sub[m], m, d), n, s)
  <2>1. PICK X : X = sub[m]
    OBVIOUS
  <2>2. X \subseteq S
    BY <1>0, <2>1
  <2>3. ASSUME NEW k \in X PROVE On(d, Swap(k, n, s), Swap(m, n, s)) <=> On(d, k, m)
    BY <1>3, <2>2
  <2>4. \A k \in SwapSet(X, n, s) : \E j \in X : k = Swap(j, n, s)
    BY DEF Swap, SwapSet
  <2>5. \A j \in X : Swap(j, n, s) \in SwapSet(X, n, s)
    BY DEF Swap, SwapSet
  <2>6. PICK Y : Y = Part(X, m, d)
    OBVIOUS
  <2>7. Y \subseteq X /\ \A k \in X : k \in Y <=> On(d, k, m)
    BY <2>6 DEF Part
  <2>8. \A k \in SwapSet(Y, n, s) : \E j \in Y : k = Swap(j, n, s)
    BY DEF Swap, SwapSet
  <2>9. \A j \in Y : Swap(j, n, s) \in SwapSet(Y, n, s)
    BY DEF Swap, SwapSet
  <2>10. Part(SwapSet(X, n, s), Swap(m, n, s), d) \subseteq SwapSet(Y, n, s)
    BY <2>3, <2>4, <2>7, <2>9 DEF Part
  <2>11. SwapSet(Y, n, s) \subseteq Part(SwapSet(X, n, s), Swap(m, n, s), d)
    BY <2>3, <2>5, <2>7, <2>8 DEF Part
  <2> QED
    BY <2>1, <2>6, <2>10, <2>11
<1>9. \A k \in S2 : k \in sub2[k] /\ sub2[k] \subseteq S2
  <2>1. ASSUME NEW k \in S2 PROVE k \in sub2[k] /\ sub2[k] \subseteq S2
    <3>1. PICK m \in S : k = Swap(m, n, s)
      BY <1>2
    <3>2. sub2[k] = SwapSet(sub[m], n, s) /\ m \in sub[m] /\ sub[m] \in SUBSET S
      BY <1>0, <1>6, <3>1
    <3> QED
      BY <1>3, <3>1, <3>2
  <2> QED
    BY <2>1
<1>10. u.root \in S2 \union {NULL} /\ Under(sub2, u.root) = S2
  <2>1. Under(sub2, u.root) = SwapSet(S, n, s)
    BY <1>0, <1>4, <1>7
  <2>2. u.root \in S2 \union {NULL}
    BY <1>0, <1>2, <1>4
  <2> QED
    BY <1>1, <2>1, <2>2
<1>11. ASSUME NEW k \in S2, NEW d \in Dirs
       PROVE  u.kid[k][d] \in S2 \union {NULL} /\ Under(sub2, u.kid[k][d]) = Part(sub2[k], k, d)
  <2>1. PICK m \in S : k = Swap(m, n, s)
    BY <1>2
  <2>2. PICK c : c = t.kid[m][d]
    OBVIOUS
  <2>3. c \in S \union {NULL} /\ Under(sub, c) = Part(sub[m], m, d) /\ u.kid[k][d] = Swap(c, n, s)
    BY <1>0, <1>4, <2>1, <2>2
  <2>4. Under(sub2, u.kid[k][d]) = SwapSet(Part(sub[m], m, d), n, s)
    BY <1>7, <2>3
  <2>5. sub2[k] = SwapSet(sub[m], n, s)
    BY <1>6, <2>1
  <2>6. Swap(c, n, s) \in S2 \union {NULL}
    BY <1>2, <2>3
  <2> QED
    BY <1>8, <2>1, <2>3, <2>4, <2>5, <2>6
<1>12. Below(u, S2, sub2)
  BY <1>2, <1>6, <1>9, <1>10, <1>11 DEF Below
<1>13. Links(t, S)
  BY DEF Shaped
<1>14. ASSUME NEW k \in S2, NEW d \in Dirs, u.kid[k][d] # NULL PROVE u.parent[u.kid[k][d]] = k
  <2>1. PICK m \in S : k = Swap(m, n, s)
    BY <1>2
  <2>2. PICK c : c = t.kid[m][d]
    OBVIOUS
  <2>3. u.kid[k][d] = Swap(c, n, s) /\ c \in S \union {NULL}
    BY <1>0, <1>4, <2>1, <2>2
  <2>4. c # NULL
    BY <1>2, <1>14, <2>3
  <2>5. c \in S /\ t.parent[c] = m
    BY <1>13, <2>2, <2>3, <2>4 DEF Links
  <2> QED
    BY <1>4, <2>1, <2>3, <2>5
<1>15. ASSUME NEW k \in S2, k = u.root PROVE u.parent[k] = NULL
  <2>1. PICK m \in S : k = Swap(m, n, s)
    BY <1>2
  <2>a. PICK r \in S \union {NULL} : r = t.root
    BY <1>0
  <2>b. Swap(m, n, s) = Swap(r, n, s)
    BY <1>4, <1>15, <2>1, <2>a
  <2>c. m = r
    BY <1>2, <2>b
  <2>2. m = t.root
    BY <2>a, <2>c
  <2>3. t.parent[m] = NULL
    BY <1>13, <2>2 DEF Links
  <2> QED
    BY <1>2, <1>4, <2>1, <2>3
<1>16. ASSUME NEW k \in S2, k # u.root
       PROVE  u.parent[k] \in S2 /\ \E d \in Dirs : u.kid[u.parent[k]][d] = k
  <2>1. PICK m \in S : k = Swap(m, n, s)
    BY <1>2
  <2>2. m # t.root
    BY <1>4, <1>16, <2>1
  <2>3. PICK a : a = t.parent[m]
    OBVIOUS
  <2>4. a \in S /\ \E d \in Dirs : t.kid[a][d] = m
    BY <1>13, <2>2, <2>3 DEF Links
  <2>5. u.parent[k] = Swap(a, n, s)
    BY <1>4, <2>1, <2>3
  <2> QED
    BY <1>2, <1>4, <2>1, <2>4, <2>5
<1>17. Links(u, S2)
  BY <1>14, <1>15, <1>16 DEF Links
<1>18. Shaped(u, S2, sub2)
  BY <1>4, <1>12, <1>17 DEF Shaped
<1> QED
  BY <1>1, <1>5, <1>18

\* Colours and heights are renamed with the nodes.
LEMMA RenameBalance ==
    ASSUME NEW t, NEW S, NEW sub, Shaped(t, S, sub), NEW n \in S, NEW s \in Keys \ S,
           Beside(S, n, s), NEW u, Renamed(t, u, S, n, s), NEW bh, NEW x \in S \union {NULL},
           NEW q \in S \union {NULL}
    PROVE  /\ Balanced(t, S, bh) => \E bh2 : Balanced(u, SwapSet(S, n, s), bh2)
           /\ Erasing(t, S, bh, x, q) =>
                \E bh2 : Erasing(u, SwapSet(S, n, s), bh2, Swap(x, n, s), Swap(q, n, s))
<1>0. /\ S \subseteq Keys /\ NULL \notin S
      /\ \A m \in S, d \in Dirs : t.kid[m][d] \in S \union {NULL}
      /\ t.root \in S \union {NULL}
  BY KeysAssumption DEF Shaped, Below
<1>1. PICK S2 : S2 = SwapSet(S, n, s)
  OBVIOUS
<1>2. /\ Swap(NULL, n, s) = NULL
      /\ \A m \in S : Swap(m, n, s) \in S2 /\ Swap(m, n, s) # NULL
      /\ \A a, b \in S \union {NULL} : Swap(a, n, s) = Swap(b, n, s) => a = b
      /\ \A k \in S2 : \E m \in S : k = Swap(m, n, s)
  <2>1. SwapFacts(S, n, s)
    BY <1>0, SwapIs
  <2> QED
    BY <1>1, <2>1 DEF SwapFacts
<1>3. /\ u.root = Swap(t.root, n, s)
      /\ \A m \in S, d \in Dirs : u.kid[Swap(m, n, s)][d] = Swap(t.kid[m][d], n, s)
      /\ \A m \in S : u.black[Swap(m, n, s)] = t.black[m]
  BY DEF Renamed
<1>4. PICK bh2 : bh2 = [k \in S2 \union {NULL} |-> bh[IF k = s THEN n ELSE k]]
  OBVIOUS
<1>5. \A m \in S \union {NULL} : bh2[Swap(m, n, s)] = bh[m]
  <2>1. ASSUME NEW m \in S \union {NULL} PROVE bh2[Swap(m, n, s)] = bh[m]
    <3>1. m = IF Swap(m, n, s) = s THEN n ELSE Swap(m, n, s)
      BY <1>0, KeysAssumption DEF Swap
    <3>2. Swap(m, n, s) \in S2 \union {NULL}
      BY <1>2
    <3> QED
      BY <1>4, <3>1, <3>2
  <2> QED
    BY <2>1
<1>6. bh \in [S \union {NULL} -> Nat] => bh2 \in [S2 \union {NULL} -> Nat]
  <2>1. ASSUME NEW k \in S2 \union {NULL} PROVE \E m \in S \union {NULL} : k = Swap(m, n, s)
    BY <1>2
  <2>2. ASSUME bh \in [S \union {NULL} -> Nat] PROVE \A k \in S2 \union {NULL} : bh2[k] \in Nat
    BY <1>5, <2>1, <2>2
  <2> QED
    BY <1>4, <2>2
<1>7. \A m \in S : Weight(u, Swap(m, n, s)) = Weight(t, m)
  BY <1>3 DEF Weight
<1>8. \A m \in S \union {NULL} : IsRed(u, Swap(m, n, s)) <=> IsRed(t, m)
  <2>1. IsRed(u, Swap(NULL, n, s)) <=> IsRed(t, NULL)
    BY <1>2 DEF IsRed
  <2>2. \A m \in S : IsRed(u, Swap(m, n, s)) <=> IsRed(t, m)
    BY <1>0, <1>2, <1>3 DEF IsRed
  <2> QED
    BY <2>1, <2>2
<1>9. ASSUME NEW q1 \in S \union {NULL}, NEW e, Heights(t, S, bh, q1, e)
      PROVE  Heights(u, S2, bh2, Swap(q1, n, s), e)
  <2>1. /\ bh \in [S \union {NULL} -> Nat] /\ bh[NULL] = 0
        /\ \A m \in S, d \in Dirs : bh[m] = bh[t.kid[m][d]] + Weight(t, m) + Lack(m, d, q1, e)
    BY <1>9 DEF Heights
  <2>2. \A m \in S, d \in Dirs : Lack(Swap(m, n, s), d, Swap(q1, n, s), e) = Lack(m, d, q1, e)
    BY <1>2 DEF Lack
  <2>3. ASSUME NEW k \in S2, NEW d \in Dirs
        PROVE  bh2[k] = bh2[u.kid[k][d]] + Weight(u, k) + Lack(k, d, Swap(q1, n, s), e)
    <3>1. PICK m \in S : k = Swap(m, n, s)
      BY <1>2
    <3>2. PICK c : c = t.kid[m][d]
      OBVIOUS
    <3>3. c \in S \union {NULL} /\ u.kid[k][d] = Swap(c, n, s)
      BY <1>0, <1>3, <3>1, <3>2
    <3>4. bh2[u.kid[k][d]] = bh[c] /\ bh2[k] = bh[m]
      BY <1>5, <3>1, <3>3
    <3>5. bh[m] = bh[c] + Weight(t, m) + Lack(m, d, q1, e)
      BY <2>1, <3>2
    <3> QED
      BY <1>7, <2>2, <3>1, <3>4, <3>5
  <2>4. bh2[NULL] = 0
    BY <1>2, <1>5, <2>1
  <2> QED
    BY <1>6, <2>1, <2>3, <2>4 DEF Heights
<1>10. ASSUME NEW x1 \in S \union {NULL}, NEW y1 \in S \union {NULL}, Reds(t, S, x1, y1)
       PROVE  Reds(u, S2, Swap(x1, n, s), Swap(y1, n, s))
  <2>1. ASSUME NEW k \in S2, NEW d \in Dirs, IsRed(u, u.kid[k][d]),
               u.kid[k][d] # Swap(x1, n, s), k # Swap(y1, n, s)
        PROVE  u.black[k]
    <3>1. PICK m \in S : k = Swap(m, n, s)
      BY <1>2
    <3>2. PICK c : c = t.kid[m][d]
      OBVIOUS
    <3>3. c \in S \union {NULL} /\ u.kid[k][d] = Swap(c, n, s)
      BY <1>0, <1>3, <3>1, <3>2
    <3>4. IsRed(t, c) /\ c # x1 /\ m # y1
      BY <1>8, <2>1, <3>1, <3>3
    <3>5. t.black[m]
      BY <1>10, <3>2, <3>4 DEF Reds
    <3> QED
      BY <1>3, <3>1, <3>5
  <2> QED
    BY <2>1 DEF Reds
<1>11. ASSUME NEW x1 \in S \union {NULL}, RootBlack(t, x1) PROVE RootBlack(u, Swap(x1, n, s))
  BY <1>0, <1>3, <1>8, <1>11 DEF RootBlack
<1>12. ASSUME Balanced(t, S, bh) PROVE Balanced(u, S2, bh2)
  <2>1. Heights(t, S, bh, NULL, "left") /\ Reds(t, S, NULL, NULL) /\ RootBlack(t, NULL)
    BY <1>12 DEF Balanced
  <2>2. Heights(u, S2, bh2, NULL, "left")
    BY <1>2, <1>9, <2>1
  <2>3. Reds(u, S2, NULL, NULL)
    BY <1>2, <1>10, <2>1
  <2>4. RootBlack(u, NULL)
    BY <1>2, <1>11, <2>1
  <2> QED
    BY <2>2, <2>3, <2>4 DEF Balanced
<1>13. ASSUME Erasing(t, S, bh, x, q) PROVE Erasing(u, S2, bh2, Swap(x, n, s), Swap(q, n, s))
  <2>1. Reds(t, S, x, x) /\ RootBlack(t, x)
    BY <1>13 DEF Erasing
  <2>2. Reds(u, S2, Swap(x, n, s), Swap(x, n, s)) /\ RootBlack(u, Swap(x, n, s))
    BY <1>10, <1>11, <2>1
  <2>3. CASE x = t.root /\ Heights(t, S, bh, NULL, "left")
    <3>1. Heights(u, S2, bh2, NULL, "left")
      BY <1>2, <1>9, <2>3
    <3>2. Swap(x, n, s) = u.root
      BY <1>3, <2>3
    <3> QED
      BY <2>2, <3>1, <3>2 DEF Erasing
  <2>4. CASE q \in S /\ \E e \in Dirs : t.kid[q][e] = x /\ Heights(t, S, bh, q, e)
    <3>1. PICK e \in Dirs : t.kid[q][e] = x /\ Heights(t, S, bh, q, e)
      BY <2>4
    <3>2. Heights(u, S2, bh2, Swap(q, n, s), e)
      BY <1>9, <3>1
    <3>3. u.kid[Swap(q, n, s)][e] = Swap(x, n, s) /\ Swap(q, n, s) \in S2
      BY <1>2, <1>3, <2>4, <3>1
    <3> QED
      BY <2>2, <3>2, <3>3 DEF Erasing
  <2> QED
    BY <1>13, <2>3, <2>4 DEF Erasing
<1> QED
  BY <1>1, <1>12, <1>13

\* u is t with the child of a on side f set to c.
KidSet(t, u, a, f, c) ==
    /\ Typed(u) /\ u.root = t.root /\ u.parent = t.parent /\ u.black = t.black
    /\ \A m \in Keys, e \in Dirs : u.kid[m][e] = IF m = a /\ e = f THEN c ELSE t.kid[m][e]

SetKid(t, a, f, c) == [t EXCEPT !.kid[a][f] = c]

\* The fields after an assignment to a child pointer.
LEMMA KidSetFields ==
    ASSUME NEW t, Typed(t), NEW a \in Keys, NEW f \in Dirs, NEW c \in Ptr
    PROVE  KidSet(t, SetKid(t, a, f, c), a, f, c)
<1>1. PICK u : u = SetKid(t, a, f, c)
  OBVIOUS
<1>2. u = [t EXCEPT !.kid[a][f] = c]
  BY <1>1 DEF SetKid
<1>3. t.kid \in [Keys -> [Dirs -> Ptr]]
  BY DEF Typed
<1>4. PICK k : k = [t.kid EXCEPT ![a] = [@ EXCEPT ![f] = c]]
  OBVIOUS
<1>5. k \in [Keys -> [Dirs -> Ptr]]
      /\ \A m \in Keys, e \in Dirs : k[m][e] = IF m = a /\ e = f THEN c ELSE t.kid[m][e]
  BY <1>3, <1>4
<1>6. u = [t EXCEPT !.kid = k]
  BY <1>2, <1>4
<1>7. KidSet(t, u, a, f, c)
  BY <1>5, <1>6, FieldUpdates DEF KidSet
<1> QED
  BY <1>1, <1>7

\* u is t with the colour b for s.
ToneSet(t, u, s, b) ==
    /\ Typed(u) /\ u.root = t.root /\ u.parent = t.parent /\ u.kid = t.kid
    /\ \A m \in Keys : u.black[m] = IF m = s THEN b ELSE t.black[m]

SetTone(t, s, b) == [t EXCEPT !.black[s] = b]

\* The fields after an assignment to a colour.
LEMMA ToneSetFields ==
    ASSUME NEW t, Typed(t), NEW s \in Keys, NEW b \in BOOLEAN
    PROVE  ToneSet(t, SetTone(t, s, b), s, b)
<1>1. PICK u : u = SetTone(t, s, b)
  OBVIOUS
<1>2. u = [t EXCEPT !.black[s] = b]
  BY <1>1 DEF SetTone
<1>3. PICK f : f = [t.black EXCEPT ![s] = b]
  OBVIOUS
<1>4. f \in [Keys -> BOOLEAN] /\ \A m \in Keys : f[m] = IF m = s THEN b ELSE t.black[m]
  BY <1>3 DEF Typed
<1>5. u = [t EXCEPT !.black = f]
  BY <1>2, <1>3
<1>6. ToneSet(t, u, s, b)
  BY <1>4, <1>5, FieldUpdates DEF ToneSet
<1> QED
  BY <1>1, <1>6

\* The assignments of rb_erase to a node n with children L and R and the next
\* node s, which has the parent sp and the right child c.
Replace(t, n, p, L, R, s, c, sp) ==
    LET a1 == Relink(t, p, n, s)
        a2 == IF sp = n THEN a1
              ELSE SetKid(SetKid(SetParent(SetParent(a1, c, sp), R, s), sp, "left", c), s, "right", R)
    IN  SetParent(SetKid(SetTone(SetParent(a2, s, p), s, t.black[n]), s, "left", L), L, s)

\* What they come to.
Replaced(t, u, n, p, L, R, s, c, sp) ==
    /\ Typed(u) /\ u.root = IF p = NULL THEN s ELSE t.root
    /\ \A m \in Keys, e \in Dirs : u.kid[m][e] =
            IF m = s /\ e = "left" THEN L
            ELSE IF sp # n /\ m = s /\ e = "right" THEN R
            ELSE IF sp # n /\ m = sp /\ e = "left" THEN c
            ELSE IF m = p /\ e = Side(t, p, n) THEN s ELSE t.kid[m][e]
    /\ \A m \in Keys : u.parent[m] =
            IF m = L THEN s ELSE IF m = s THEN p
            ELSE IF sp # n /\ m = R THEN s
            ELSE IF sp # n /\ m = c THEN sp ELSE t.parent[m]
    /\ \A m \in Keys : u.black[m] = IF m = s THEN t.black[n] ELSE t.black[m]

\* The fields after rb_erase has put s in the place of n.
LEMMA ReplaceFields ==
    ASSUME NEW t, Typed(t), NEW n \in Keys, NEW p \in Ptr, NEW L \in Ptr, NEW R \in Ptr,
           NEW s \in Keys, NEW c \in Ptr, NEW sp \in Keys
    PROVE  Replaced(t, Replace(t, n, p, L, R, s, c, sp), n, p, L, R, s, c, sp)
<1>0. s \in Ptr /\ sp \in Ptr /\ t.black[n] \in BOOLEAN /\ "left" \in Dirs /\ "right" \in Dirs
      /\ "left" # "right"
  BY DEF Ptr, Typed, Dirs
<1>1. PICK a1 : a1 = Relink(t, p, n, s)
  OBVIOUS
<1>2. /\ Typed(a1) /\ a1.parent = t.parent /\ a1.black = t.black
      /\ a1.root = IF p = NULL THEN s ELSE t.root
      /\ \A m \in Keys, e \in Dirs : a1.kid[m][e] =
            IF m = p /\ e = Side(t, p, n) THEN s ELSE t.kid[m][e]
  <2>1. Relinked(t, a1, p, n, s)
    BY <1>0, <1>1, RelinkFields
  <2> QED
    BY <2>1 DEF Relinked
<1>3. PICK a2 : a2 = SetParent(a1, c, sp)
  OBVIOUS
<1>4. ParentSet(a1, a2, c, sp)
  BY <1>0, <1>2, <1>3, SetParentFields
<1>5. /\ Typed(a2) /\ a2.root = a1.root /\ a2.kid = a1.kid /\ a2.black = t.black
      /\ \A m \in Keys : a2.parent[m] = IF m = c THEN sp ELSE t.parent[m]
  BY <1>2, <1>4 DEF ParentSet
<1>6. PICK a3 : a3 = SetParent(a2, R, s)
  OBVIOUS
<1>7. ParentSet(a2, a3, R, s)
  BY <1>0, <1>5, <1>6, SetParentFields
<1>8. /\ Typed(a3) /\ a3.root = a1.root /\ a3.kid = a1.kid /\ a3.black = t.black
      /\ \A m \in Keys : a3.parent[m] = IF m = R THEN s ELSE IF m = c THEN sp ELSE t.parent[m]
  BY <1>5, <1>7 DEF ParentSet
<1>9. PICK a4 : a4 = SetKid(a3, sp, "left", c)
  OBVIOUS
<1>10. KidSet(a3, a4, sp, "left", c)
  BY <1>0, <1>8, <1>9, KidSetFields
<1>11. /\ Typed(a4) /\ a4.root = a1.root /\ a4.parent = a3.parent /\ a4.black = t.black
       /\ \A m \in Keys, e \in Dirs : a4.kid[m][e] = IF m = sp /\ e = "left" THEN c ELSE a1.kid[m][e]
  BY <1>8, <1>10 DEF KidSet
<1>12. PICK a5 : a5 = SetKid(a4, s, "right", R)
  OBVIOUS
<1>13. KidSet(a4, a5, s, "right", R)
  BY <1>0, <1>11, <1>12, KidSetFields
<1>14. /\ Typed(a5) /\ a5.root = a1.root /\ a5.parent = a3.parent /\ a5.black = t.black
       /\ \A m \in Keys, e \in Dirs : a5.kid[m][e] =
            IF m = s /\ e = "right" THEN R ELSE IF m = sp /\ e = "left" THEN c ELSE a1.kid[m][e]
  BY <1>11, <1>13 DEF KidSet
<1>15. PICK a6 : a6 = IF sp = n THEN a1 ELSE a5
  OBVIOUS
<1>16. Typed(a6) /\ a6.root = a1.root /\ a6.black = t.black
  BY <1>2, <1>14, <1>15
<1>17. \A m \in Keys, e \in Dirs : a6.kid[m][e] =
            IF sp # n /\ m = s /\ e = "right" THEN R
            ELSE IF sp # n /\ m = sp /\ e = "left" THEN c ELSE a1.kid[m][e]
  BY <1>14, <1>15
<1>18. \A m \in Keys : a6.parent[m] =
            IF sp # n /\ m = R THEN s ELSE IF sp # n /\ m = c THEN sp ELSE t.parent[m]
  BY <1>2, <1>8, <1>14, <1>15
<1>19. PICK b1 : b1 = SetParent(a6, s, p)
  OBVIOUS
<1>20. ParentSet(a6, b1, s, p)
  BY <1>0, <1>16, <1>19, SetParentFields
<1>21. /\ Typed(b1) /\ b1.root = a1.root /\ b1.kid = a6.kid /\ b1.black = t.black
       /\ \A m \in Keys : b1.parent[m] = IF m = s THEN p ELSE a6.parent[m]
  BY <1>16, <1>20 DEF ParentSet
<1>22. PICK b2 : b2 = SetTone(b1, s, t.black[n])
  OBVIOUS
<1>23. ToneSet(b1, b2, s, t.black[n])
  BY <1>0, <1>21, <1>22, ToneSetFields
<1>24. /\ Typed(b2) /\ b2.root = a1.root /\ b2.kid = a6.kid /\ b2.parent = b1.parent
       /\ \A m \in Keys : b2.black[m] = IF m = s THEN t.black[n] ELSE t.black[m]
  BY <1>21, <1>23 DEF ToneSet
<1>25. PICK b3 : b3 = SetKid(b2, s, "left", L)
  OBVIOUS
<1>26. KidSet(b2, b3, s, "left", L)
  BY <1>0, <1>24, <1>25, KidSetFields
<1>27. /\ Typed(b3) /\ b3.root = a1.root /\ b3.parent = b1.parent /\ b3.black = b2.black
       /\ \A m \in Keys, e \in Dirs : b3.kid[m][e] = IF m = s /\ e = "left" THEN L ELSE a6.kid[m][e]
  BY <1>24, <1>26 DEF KidSet
<1>28. PICK b4 : b4 = SetParent(b3, L, s)
  OBVIOUS
<1>29. ParentSet(b3, b4, L, s)
  BY <1>0, <1>27, <1>28, SetParentFields
<1>30. /\ Typed(b4) /\ b4.root = a1.root /\ b4.kid = b3.kid /\ b4.black = b2.black
       /\ \A m \in Keys : b4.parent[m] = IF m = L THEN s ELSE b1.parent[m]
  BY <1>27, <1>29 DEF ParentSet
<1>31. Replace(t, n, p, L, R, s, c, sp) = b4
  BY <1>1, <1>3, <1>6, <1>9, <1>12, <1>15, <1>19, <1>22, <1>25, <1>28 DEF Replace
<1>32. \A m \in Keys, e \in Dirs : b4.kid[m][e] =
            IF m = s /\ e = "left" THEN L
            ELSE IF sp # n /\ m = s /\ e = "right" THEN R
            ELSE IF sp # n /\ m = sp /\ e = "left" THEN c
            ELSE IF m = p /\ e = Side(t, p, n) THEN s ELSE t.kid[m][e]
  BY <1>2, <1>17, <1>27, <1>30
<1>33. \A m \in Keys : b4.parent[m] =
            IF m = L THEN s ELSE IF m = s THEN p
            ELSE IF sp # n /\ m = R THEN s
            ELSE IF sp # n /\ m = c THEN sp ELSE t.parent[m]
  BY <1>18, <1>21, <1>30
<1>34. Replaced(t, b4, n, p, L, R, s, c, sp)
  BY <1>2, <1>24, <1>30, <1>32, <1>33 DEF Replaced
<1> QED
  BY <1>31, <1>34

\* The two cases of Unlink.
LEMMA UnlinkOne ==
    ASSUME NEW t, NEW n, NEW L, L = t.kid[n]["left"], NEW R, R = t.kid[n]["right"],
           NEW p, p = t.parent[n], NULL \in {L, R}, NEW c, c = IF L = NULL THEN R ELSE L
    PROVE  Unlink(t, n) = [tree |-> Relink(SetParent(t, c, p), p, n, c),
                           child |-> c, parent |-> p, black |-> t.black[n]]
  BY DEF Unlink

\* The assignments of the second case to the fields of s.
SetKids(t, sp, c, s, R) == [t EXCEPT !.kid[sp]["left"] = c, !.kid[s]["right"] = R]
SetNext(t, s, p, b, L) == [t EXCEPT !.parent[s] = p, !.black[s] = b, !.kid[s]["left"] = L]

\* Unlink of a node with two children is Replace.
LEMMA UnlinkTwo ==
    ASSUME NEW t, NEW n, NEW L, L = t.kid[n]["left"], NEW R, R = t.kid[n]["right"],
           NEW p, p = t.parent[n], NULL \notin {L, R},
           NEW s, s = Outermost(t, R, "left"), s # NULL,
           NEW c, c = t.kid[s]["right"], NEW sp, sp = t.parent[s]
    PROVE  Unlink(t, n) = [tree |-> Replace(t, n, p, L, R, s, c, sp), child |-> c,
                           parent |-> IF sp = n THEN s ELSE sp, black |-> t.black[s]]
<1> DEFINE L0 == t.kid[n]["left"]
           R0 == t.kid[n]["right"]
           p0 == t.parent[n]
           s0 == Outermost(t, R0, "left")
           c0 == t.kid[s0]["right"]
           sp0 == t.parent[s0]
           t1 == Relink(t, p0, n, s0)
           t2 == IF sp0 = n THEN t1
                 ELSE SetKids(SetParent(SetParent(t1, c0, sp0), R0, s0), sp0, c0, s0, R0)
           t3 == SetParent(SetNext(t2, s0, p0, t.black[n], L0), L0, s0)
<1>1. NULL \notin {L0, R0}
  OBVIOUS
<1>2. Unlink(t, n) = [tree |-> t3, child |-> c0, parent |-> IF sp0 = n THEN s0 ELSE sp0,
                      black |-> t.black[s0]]
  BY <1>1 DEF Unlink, SetKids, SetNext
<1>3. L0 = L /\ R0 = R /\ p0 = p
  OBVIOUS
<1>4. s0 = s
  BY <1>3
<1>5. c0 = c /\ sp0 = sp
  BY <1>4
<1>6. \A x : SetKids(x, sp, c, s, R) = SetKid(SetKid(x, sp, "left", c), s, "right", R)
  BY DEF SetKid, SetKids
<1>7. \A x, b : SetNext(x, s, p, b, L) = SetKid(SetTone(SetParent(x, s, p), s, b), s, "left", L)
  BY DEF SetKid, SetTone, SetParent, SetNext
<1>8. t3 = Replace(t, n, p, L, R, s, c, sp)
  <2> HIDE DEF L0, R0, p0, s0, c0, sp0
  <2>1. t2 = IF sp = n THEN Relink(t, p, n, s)
             ELSE SetKid(SetKid(SetParent(SetParent(Relink(t, p, n, s), c, sp), R, s), sp, "left", c), s, "right", R)
    BY <1>3, <1>4, <1>5, <1>6
  <2>2. t3 = SetParent(SetKid(SetTone(SetParent(t2, s, p), s, t.black[n]), s, "left", L), L, s)
    <3> HIDE DEF t2
    <3> QED
      BY <1>3, <1>4, <1>5, <1>7
  <2> QED
    BY <2>1, <2>2 DEF Replace
<1> HIDE DEF L0, R0, p0, s0, c0, sp0, t3
<1> QED
  BY <1>2, <1>4, <1>5, <1>8

\* The nodes at an erase of n with two children: the next node s is the first
\* one below R.
Successor(t, S, sub, n, p, L, R, s, c, sp) ==
    /\ L \in S /\ R \in S /\ s \in S /\ sp \in S /\ c \in S \union {NULL} /\ p \in S \union {NULL}
    /\ L = t.kid[n]["left"] /\ R = t.kid[n]["right"] /\ p = t.parent[n]
    /\ c = t.kid[s]["right"] /\ sp = t.parent[s] /\ OneKid(t, s, c)
    /\ t.parent[L] = n /\ t.parent[R] = n /\ (c # NULL => t.parent[c] = s)
    /\ s # n /\ s # L /\ c # n /\ c # L /\ c # R /\ sp # s /\ L # R /\ L # n /\ R # n
    /\ p # n /\ p # s /\ p # sp /\ s # t.root /\ (p = NULL <=> n = t.root)
    /\ sp = n => s = R
    /\ sp # n => s # R /\ t.kid[sp]["left"] = s /\ t.kid[sp]["right"] # s
    /\ s \notin sub[L] /\ sp \notin sub[L] /\ n \notin sub[L]
    /\ Beside(S \ {s}, n, s)

\* Where the node is that takes the place of n.
LEMMA SuccessorFacts ==
    ASSUME NEW t, NEW S, NEW sub, Shaped(t, S, sub), Outside(t, S, NULL), NEW n \in S,
           NEW L, L = t.kid[n]["left"], NEW R, R = t.kid[n]["right"], L # NULL, R # NULL,
           NEW p, p = t.parent[n], NEW s, s = Outermost(t, R, "left"),
           NEW c, c = t.kid[s]["right"], NEW sp, sp = t.parent[s]
    PROVE  Successor(t, S, sub, n, p, L, R, s, c, sp)
<1>0. /\ S \subseteq Keys /\ NULL \notin S /\ n \in Keys /\ n # NULL
      /\ \A m \in S : m \in sub[m] /\ sub[m] \subseteq S
      /\ \A m \in S, d \in Dirs : t.kid[m][d] \in S \union {NULL}
      /\ \A m \in S, d \in Dirs : Under(sub, t.kid[m][d]) = Part(sub[m], m, d)
      /\ t.root \in S \union {NULL} /\ Under(sub, t.root) = S
  BY KeysAssumption DEF Shaped, Below
<1>1. "left" \in Dirs /\ "right" \in Dirs /\ Opp("left") = "right" /\ Opp("right") = "left"
      /\ \A d \in Dirs : d = "left" \/ d = "right"
  BY DEF Dirs, Opp
<1>2. KidOf(t, S, sub, n, "left", L) /\ KidOf(t, S, sub, n, "right", R)
  BY <1>1, KidIs
<1>3. /\ L \in S /\ L # n /\ n \notin sub[L] /\ t.parent[L] = n
      /\ sub[L] = Part(sub[n], n, "left") /\ sub[L] \subseteq sub[n]
  BY <1>2 DEF KidOf
<1>4. /\ R \in S /\ R # n /\ n \notin sub[R] /\ t.parent[R] = n /\ R # t.root
      /\ sub[R] = Part(sub[n], n, "right") /\ sub[R] \subseteq sub[n] /\ L # R
  BY <1>1, <1>2 DEF KidOf
<1>5. LastOf(sub[R], "left", s)
  BY <1>1, <1>4, OutermostIs
<1>6. s \in sub[R] /\ \A k \in sub[R] : k = s \/ On("right", k, s)
  BY <1>1, <1>5 DEF LastOf
<1>7. s \in S /\ s # n /\ s # NULL /\ s \in Keys
  BY <1>0, <1>4, <1>6
<1>8. sub[s] \subseteq sub[R]
  BY <1>4, <1>6, <1>7, Nested
<1>o. /\ \A a, b \in Keys : On("right", a, b) <=> On("left", b, a)
      /\ \A a, b \in Keys : a = b \/ On("left", a, b) \/ On("left", b, a)
      /\ \A a, b \in Keys : ~(On("left", a, b) /\ On("left", b, a))
      /\ \A a, b, z \in Keys : On("left", a, b) /\ On("left", b, z) => On("left", a, z)
  BY <1>1, OnOrder
<1>9. t.kid[s]["left"] = NULL
  <2>1. Part(sub[s], s, "left") = {}
    <3>1. ASSUME NEW k \in sub[s], On("left", k, s) PROVE FALSE
      <4>1. k \in sub[R] /\ k \in Keys
        BY <1>0, <1>4, <1>8, <3>1
      <4>2. k = s \/ On("right", k, s)
        BY <1>6, <4>1
      <4> QED
        BY <1>7, <1>o, <3>1, <4>1, <4>2
    <3> QED
      BY <3>1 DEF Part
  <2>2. PICK k : k = t.kid[s]["left"]
    OBVIOUS
  <2>3. k \in S \union {NULL} /\ Under(sub, k) = {}
    BY <1>0, <1>1, <1>7, <2>1, <2>2
  <2>4. k \notin S
    BY <1>0, <2>3 DEF Under
  <2> QED
    BY <2>2, <2>3, <2>4
<1>10. OneKid(t, s, c)
  BY <1>1, <1>9 DEF OneKid
<1>11. AtSplice(t, S, sub, s, c, sp)
  BY <1>7, <1>10, SpliceFacts
<1>12. /\ c \in (S \ {s}) \union {NULL} /\ sp \in (S \ {s}) \union {NULL}
       /\ (sp = NULL <=> s = t.root) /\ (c # NULL => t.parent[c] = s)
       /\ sub[s] = Under(sub, c) \union {s}
  BY <1>11 DEF AtSplice
<1>13. s # t.root
  <2>1. SUFFICES ASSUME s = t.root PROVE FALSE
    OBVIOUS
  <2>2. sub[s] = S
    BY <1>0, <1>7, <2>1 DEF Under
  <2> QED
    BY <1>4, <1>8, <2>2
<1>14. sp \in S /\ sp # s /\ sp # NULL
  BY <1>0, <1>12, <1>13
<1>15. On("right", s, n)
  BY <1>4, <1>6 DEF Part
<1>16. s \notin sub[L] /\ s # L
  <2>1. s \notin sub[L]
    BY <1>0, <1>3, <1>7, <1>15, <1>o DEF Part
  <2> QED
    BY <1>0, <1>3, <2>1
<1>17. PICK f \in Dirs : t.kid[sp][f] = s /\ t.kid[sp][Opp(f)] # s
  <2>1. s = t.kid[sp][Side(t, sp, s)] /\ Side(t, sp, s) \in Dirs /\ t.kid[sp][Opp(Side(t, sp, s))] # s
    BY <1>7, <1>14, ParentFacts
  <2> QED
    BY <2>1
<1>18. KidOf(t, S, sub, sp, f, s)
  BY <1>7, <1>14, <1>17, KidIs
<1>19. sub[s] \subseteq sub[sp] /\ s \in sub[sp] /\ On(f, s, sp) /\ sp \notin sub[s]
  BY <1>18 DEF KidOf
<1>20. ASSUME sp = n PROVE s = R
  <2>1. f = "left" \/ f = "right"
    BY <1>1
  <2>2. f # "left"
    BY <1>16, <1>17, <1>20
  <2> QED
    BY <1>17, <1>20, <2>1, <2>2
<1>21. ASSUME sp # n PROVE s # R /\ sp \in sub[R]
  <2>1. s # R
    BY <1>4, <1>21
  <2>2. PICK d : d = Toward(s, R)
    OBVIOUS
  <2> DEFINE E == {a \in S : a \in sub[R] /\ s \in sub[a] /\ s # a /\ sp \notin sub[a]}
  <2>3. sp \in sub[R]
    <3>1. SUFFICES ASSUME sp \notin sub[R] PROVE FALSE
      OBVIOUS
    <3>2. ASSUME NEW a \in E PROVE \E b \in E : sub[b] \subseteq sub[a] /\ sub[b] # sub[a]
      <4>1. a \in S /\ a \in sub[R] /\ s \in sub[a] /\ s # a /\ sp \notin sub[a]
        BY <3>2
      <4>2. PICK e : e = Toward(s, a)
        OBVIOUS
      <4>3. PICK b : b = t.kid[a][e]
        OBVIOUS
      <4>4. e \in Dirs /\ b \in S /\ s \in sub[b] /\ KidOf(t, S, sub, a, e, b)
        BY <4>1, <4>2, <4>3, StepDown
      <4>5. sub[b] \subseteq sub[a] /\ a \notin sub[b] /\ a \in sub[a] /\ b \in sub[a] /\ t.parent[b] = a
        BY <1>0, <4>1, <4>4 DEF KidOf
      <4>6. s # b
        BY <1>0, <4>1, <4>5
      <4>7. sub[a] \subseteq sub[R]
        BY <1>4, <4>1, Nested
      <4> QED
        BY <4>1, <4>4, <4>5, <4>6, <4>7
    <3>3. R \in E
      BY <1>0, <1>4, <1>6, <2>1, <3>1
    <3>4. IsFiniteSet(S) /\ \A a \in E : sub[a] \subseteq S
      BY DEF Shaped, Below
    <3>5. E = {}
      <4> HIDE DEF E
      <4>1. Shrinking(S, E, sub)
        BY <3>2, <3>4 DEF Shrinking
      <4> QED
        BY <4>1, Descent
    <3> QED
      BY <3>3, <3>5
  <2> QED
    BY <2>1, <2>3
<1>22. ASSUME sp # n PROVE t.kid[sp]["left"] = s /\ t.kid[sp]["right"] # s
  <2>1. sp \in sub[R] /\ sp \in Keys
    BY <1>0, <1>14, <1>21, <1>22
  <2>2. On("right", sp, s)
    BY <1>6, <1>14, <2>1
  <2>3. f # "right"
    BY <1>7, <1>19, <1>o, <2>1, <2>2
  <2>4. f = "left"
    BY <1>1, <2>3
  <2> QED
    BY <1>1, <1>17, <2>4
<1>23. sp \notin sub[L]
  <2>1. CASE sp = n
    BY <1>3, <2>1
  <2>2. CASE sp # n
    <3>1. sp \in sub[R]
      BY <1>21, <2>2
    <3>2. On("right", sp, n) /\ sp \in Keys
      BY <1>0, <1>4, <3>1 DEF Part
    <3> QED
      BY <1>0, <1>3, <1>o, <3>2 DEF Part
  <2> QED
    BY <2>1, <2>2
<1>24. c # NULL => c \in S /\ c \in sub[s]
  BY <1>0, <1>12 DEF Under
<1>25. c # n /\ c # L /\ c # R
  <2>1. CASE c = NULL
    BY <1>0, <1>3, <1>4, <2>1
  <2>2. CASE c # NULL
    <3>1. c \in sub[R] /\ t.parent[c] = s
      BY <1>8, <1>12, <1>24, <2>2
    <3> QED
      BY <1>3, <1>4, <1>7, <3>1
  <2> QED
    BY <2>1, <2>2
<1>26. /\ p = NULL <=> n = t.root
       /\ p # NULL => p \in S /\ p # n /\ n = t.kid[p][Side(t, p, n)] /\ Side(t, p, n) \in Dirs
  BY ParentFacts
<1>27. p # NULL => KidOf(t, S, sub, p, Side(t, p, n), n)
  BY <1>0, <1>26, KidIs
<1>28. p # NULL => p \notin sub[n]
  BY <1>27 DEF KidOf
<1>29. s \in sub[n] /\ (sp = n \/ sp \in sub[n]) /\ n \in sub[n]
  BY <1>0, <1>4, <1>6, <1>21
<1>30. p # s /\ p # sp /\ p # n /\ p \in S \union {NULL}
  BY <1>0, <1>7, <1>14, <1>26, <1>28, <1>29
<1>31. Beside(S \ {s}, n, s)
  <2>1. ASSUME NEW k \in S, k # s, k # n, NEW d \in Dirs PROVE On(d, k, n) <=> On(d, k, s)
    <3>0. k \in Keys
      BY <1>0
    <3>1. CASE k \notin sub[n]
      BY <1>29, <2>1, <3>1, Convex
    <3>2. CASE k \in sub[R]
      <4>1. On("right", k, n) /\ On("right", k, s)
        BY <1>4, <1>6, <2>1, <3>2 DEF Part
      <4>2. ~On("left", k, n) /\ ~On("left", k, s)
        BY <1>0, <1>7, <1>o, <3>0, <4>1
      <4> QED
        BY <1>1, <4>1, <4>2
    <3>3. CASE k \in sub[n] /\ k \notin sub[R]
      <4>1. ~On("right", k, n)
        BY <1>4, <3>3 DEF Part
      <4>2. On("left", k, n)
        BY <1>0, <1>o, <2>1, <3>0, <4>1
      <4>3. On("left", n, s)
        BY <1>0, <1>7, <1>15, <1>o
      <4>4. On("left", k, s)
        BY <1>0, <1>7, <1>o, <3>0, <4>2, <4>3
      <4>5. ~On("right", k, s)
        BY <1>7, <1>o, <3>0, <4>4
      <4> QED
        BY <1>1, <4>1, <4>2, <4>4, <4>5
    <3> QED
      BY <3>1, <3>2, <3>3
  <2> QED
    BY <2>1 DEF Beside
<1> QED
  BY <1>3, <1>4, <1>7, <1>10, <1>12, <1>13, <1>14, <1>16, <1>20, <1>21, <1>22, <1>23, <1>25,
     <1>26, <1>30, <1>31 DEF Successor

\* The replacement is the removal of s from its own place, and then s in the
\* place of n.
LEMMA ReplaceRenames ==
    ASSUME NEW t, NEW S, NEW sub, Shaped(t, S, sub), NEW n \in S,
           NEW p, NEW L, NEW R, NEW s, NEW c, NEW sp, Successor(t, S, sub, n, p, L, R, s, c, sp),
           NEW t1, Spliced(t, t1, s, c), NEW u, Replaced(t, u, n, p, L, R, s, c, sp)
    PROVE  Renamed(t1, u, S \ {s}, n, s)
<1>0. /\ S \subseteq Keys /\ NULL \notin S /\ n \in Keys /\ n # NULL
      /\ \A m \in S, d \in Dirs : t.kid[m][d] # NULL => t.parent[t.kid[m][d]] = m
      /\ \A m \in S : m # t.root =>
            t.parent[m] \in S /\ \E d \in Dirs : t.kid[t.parent[m]][d] = m
      /\ \A m \in S : m = t.root => t.parent[m] = NULL
  BY KeysAssumption DEF Shaped, Below, Links
<1>1. /\ L \in S /\ R \in S /\ s \in S /\ sp \in S /\ c \in S \union {NULL} /\ p \in S \union {NULL}
      /\ L = t.kid[n]["left"] /\ R = t.kid[n]["right"] /\ p = t.parent[n]
      /\ c = t.kid[s]["right"] /\ sp = t.parent[s]
      /\ t.parent[L] = n /\ t.parent[R] = n /\ (c # NULL => t.parent[c] = s)
      /\ s # n /\ s # L /\ c # n /\ c # L /\ c # R /\ sp # s /\ L # R /\ L # n /\ R # n
      /\ p # n /\ p # s /\ p # sp /\ s # t.root /\ (p = NULL <=> n = t.root)
  BY DEF Successor
<1>1a. p = t.parent[n] /\ sp = t.parent[s] /\ p # sp
  BY <1>1
<1>0a. n # NULL /\ s # NULL
  BY <1>0, <1>1
<1>2. /\ sp = n => s = R
      /\ sp # n => s # R /\ t.kid[sp]["left"] = s /\ t.kid[sp]["right"] # s
  BY DEF Successor
<1>3. /\ Typed(t1) /\ t1.black = t.black /\ t1.root = t.root
      /\ \A m \in Keys, e \in Dirs : t1.kid[m][e] =
                IF m = sp /\ t.kid[m][e] = s THEN c ELSE t.kid[m][e]
      /\ \A m \in Keys : t1.parent[m] = IF m = c THEN sp ELSE t.parent[m]
  BY <1>1 DEF Spliced
<1>4. /\ Typed(u) /\ u.root = IF p = NULL THEN s ELSE t.root
      /\ \A m \in Keys : u.black[m] = IF m = s THEN t.black[n] ELSE t.black[m]
  BY DEF Replaced
<1>5. \A m \in Keys, e \in Dirs : u.kid[m][e] =
            IF m = s /\ e = "left" THEN L
            ELSE IF sp # n /\ m = s /\ e = "right" THEN R
            ELSE IF sp # n /\ m = sp /\ e = "left" THEN c
            ELSE IF m = p /\ e = Side(t, p, n) THEN s ELSE t.kid[m][e]
  BY DEF Replaced
<1>6. \A m \in Keys : u.parent[m] =
            IF m = L THEN s ELSE IF m = s THEN p
            ELSE IF sp # n /\ m = R THEN s
            ELSE IF sp # n /\ m = c THEN sp ELSE t.parent[m]
  BY DEF Replaced
<1>7. "left" \in Dirs /\ "right" \in Dirs /\ "left" # "right" /\ \A d \in Dirs : d = "left" \/ d = "right"
  BY DEF Dirs
<1>8. Swap(n, n, s) = s /\ \A m : m # n => Swap(m, n, s) = m
  BY DEF Swap
<1>9. u.root = Swap(t1.root, n, s)
  BY <1>1, <1>3, <1>4, <1>8
<1>10. \A d \in Dirs : u.kid[s][d] = Swap(t1.kid[n][d], n, s)
  <2>0. s \in Keys /\ n \in Keys
    BY <1>0, <1>1
  <2>1. u.kid[s]["left"] = L
    BY <1>5, <1>7, <2>0
  <2>2. t1.kid[n]["left"] = L
    BY <1>1, <1>3, <1>7, <2>0
  <2>3. CASE sp = n
    <3>1. t1.kid[n]["right"] = c
      BY <1>1, <1>2, <1>3, <1>7, <2>0, <2>3
    <3>2. u.kid[s]["right"] = c
      BY <1>1, <1>5, <1>7, <2>0, <2>3
    <3> QED
      BY <1>1, <1>7, <1>8, <2>1, <2>2, <3>1, <3>2
  <2>4. CASE sp # n
    <3>1. t1.kid[n]["right"] = R
      BY <1>1, <1>3, <1>7, <2>0, <2>4
    <3>2. u.kid[s]["right"] = R
      BY <1>5, <1>7, <2>0, <2>4
    <3> QED
      BY <1>1, <1>7, <1>8, <2>1, <2>2, <3>1, <3>2
  <2> QED
    BY <2>3, <2>4
<1>11. /\ p # NULL => /\ n = t.kid[p][Side(t, p, n)] /\ Side(t, p, n) \in Dirs
                      /\ t.kid[p][Opp(Side(t, p, n))] # n
  BY <1>1, ParentFacts
<1>12. ASSUME NEW m \in S, m # s, m # n, NEW d \in Dirs
       PROVE  u.kid[m][d] = Swap(t1.kid[m][d], n, s)
  <2>0. m \in Keys /\ m # NULL
    BY <1>0
  <2>1. PICK k : k = t.kid[m][d]
    OBVIOUS
  <2>a. k # NULL => t.parent[k] = m
    BY <1>0, <2>1
  <2>2. CASE k = n
    <3>1. m = p /\ m # sp
      BY <1>0a, <1>1a, <2>2, <2>a
    <3>2. d = Side(t, p, n)
      BY <1>11, <2>0, <2>1, <2>2, <3>1, OnOrder
    <3>3. u.kid[m][d] = s
      BY <1>1, <1>5, <1>12, <2>0, <3>1, <3>2
    <3>4. t1.kid[m][d] = n
      BY <1>3, <2>0, <2>1, <2>2, <3>1
    <3> QED
      BY <1>8, <3>3, <3>4
  <2>3. CASE k = s
    <3>1. m = sp /\ m # p
      BY <1>0a, <1>1a, <2>3, <2>a
    <3>2. sp # n
      BY <1>12, <3>1
    <3>3. d = "left"
      BY <1>2, <1>7, <2>1, <2>3, <3>1, <3>2
    <3>4. u.kid[m][d] = c
      BY <1>5, <1>12, <2>0, <3>1, <3>2, <3>3
    <3>5. t1.kid[m][d] = c
      BY <1>3, <2>0, <2>1, <2>3, <3>1
    <3> QED
      BY <1>1, <1>8, <3>4, <3>5
  <2>4. CASE k # n /\ k # s
    <3>1. ~(m = sp /\ d = "left")
      BY <1>2, <1>12, <2>1, <2>4
    <3>2. ~(m = p /\ d = Side(t, p, n))
      BY <1>11, <2>0, <2>1, <2>4
    <3>3. u.kid[m][d] = k
      BY <1>5, <1>12, <2>0, <2>1, <3>1, <3>2
    <3>4. t1.kid[m][d] = k
      BY <1>3, <2>0, <2>1, <2>4
    <3> QED
      BY <1>8, <2>4, <3>3, <3>4
  <2> QED
    BY <2>2, <2>3, <2>4
<1>13. u.parent[s] = Swap(t1.parent[n], n, s)
  <2>0. s \in Keys /\ n \in Keys
    BY <1>0, <1>1
  <2>1. u.parent[s] = p
    BY <1>1, <1>6, <2>0
  <2>2. t1.parent[n] = p
    BY <1>1, <1>3, <2>0
  <2> QED
    BY <1>1, <1>8, <2>1, <2>2
<1>14. ASSUME NEW m \in S, m # s, m # n
       PROVE  u.parent[m] = Swap(t1.parent[m], n, s)
  <2>0. m \in Keys /\ m # NULL
    BY <1>0
  <2>1. CASE m = L
    <3>1. u.parent[m] = s /\ t1.parent[m] = n
      BY <1>1, <1>3, <1>6, <2>0, <2>1
    <3> QED
      BY <1>8, <3>1
  <2>2. CASE m = R
    <3>1. sp # n
      BY <1>2, <1>14, <2>2
    <3>2. u.parent[m] = s /\ t1.parent[m] = n
      BY <1>1, <1>3, <1>6, <1>14, <2>0, <2>2, <3>1
    <3> QED
      BY <1>8, <3>2
  <2>3. CASE m = c
    <3>1. t1.parent[m] = sp
      BY <1>3, <2>0, <2>3
    <3>2. CASE sp = n
      <4>1. u.parent[m] = s
        BY <1>1, <1>6, <1>14, <2>0, <2>3, <3>2
      <4> QED
        BY <1>8, <3>1, <3>2, <4>1
    <3>3. CASE sp # n
      <4>1. u.parent[m] = sp
        BY <1>1, <1>6, <1>14, <2>0, <2>3, <3>3
      <4> QED
        BY <1>8, <3>1, <3>3, <4>1
    <3> QED
      BY <3>2, <3>3
  <2>4. CASE m # L /\ m # R /\ m # c
    <3>1. u.parent[m] = t.parent[m] /\ t1.parent[m] = t.parent[m]
      BY <1>3, <1>6, <1>14, <2>0, <2>4
    <3>2. t.parent[m] # n
      <4>1. SUFFICES ASSUME t.parent[m] = n PROVE FALSE
        OBVIOUS
      <4>2. m # t.root
        BY <1>0, <4>1
      <4>3. \E d \in Dirs : t.kid[n][d] = m
        BY <1>0, <4>1, <4>2
      <4> QED
        BY <1>1, <1>7, <2>4, <4>3
    <3> QED
      BY <1>8, <3>1, <3>2
  <2> QED
    BY <2>1, <2>2, <2>3, <2>4
<1>15. u.black[s] = t1.black[n] /\ \A m \in S : m # s => u.black[m] = t1.black[m]
  BY <1>0, <1>1, <1>3, <1>4
<1>16. \A m \in S \ {s}, d \in Dirs : u.kid[Swap(m, n, s)][d] = Swap(t1.kid[m][d], n, s)
  <2>1. ASSUME NEW m \in S \ {s}, NEW d \in Dirs
        PROVE  u.kid[Swap(m, n, s)][d] = Swap(t1.kid[m][d], n, s)
    <3>1. CASE m = n
      BY <1>8, <1>10, <3>1
    <3>2. CASE m # n
      BY <1>8, <1>12, <3>2
    <3> QED
      BY <3>1, <3>2
  <2> QED
    BY <2>1
<1>17. \A m \in S \ {s} : u.parent[Swap(m, n, s)] = Swap(t1.parent[m], n, s)
  <2>1. ASSUME NEW m \in S \ {s} PROVE u.parent[Swap(m, n, s)] = Swap(t1.parent[m], n, s)
    <3>1. CASE m = n
      BY <1>8, <1>13, <3>1
    <3>2. CASE m # n
      BY <1>8, <1>14, <3>2
    <3> QED
      BY <3>1, <3>2
  <2> QED
    BY <2>1
<1>18. \A m \in S \ {s} : u.black[Swap(m, n, s)] = t1.black[m]
  BY <1>8, <1>15
<1> QED
  BY <1>4, <1>9, <1>16, <1>17, <1>18 DEF Renamed

\* What rb_erase leaves to __rb_erase_color and to the walk: a tree without n,
\* that lacks a black node at the child c of q if one is gone.  The nodes
\* below the left child of n are the same, and q is none of them.
Unlinked(t, S, sub, n, u, c, q, b) ==
    \E sub2 :
        /\ Shaped(u, S \ {n}, sub2) /\ Outside(u, S \ {n}, n)
        /\ b => \E bh2 : Erasing(u, S \ {n}, bh2, c, q)
        /\ ~b => \E bh2 : Balanced(u, S \ {n}, bh2)
        /\ \A L \in S : L = t.kid[n]["left"] => sub2[L] = sub[L] /\ q \notin sub[L]

\* rb_erase of a node with at most one child, up to __rb_erase_color.
LEMMA UnlinkOneStep ==
    ASSUME NEW t, NEW S, NEW sub, Shaped(t, S, sub), Outside(t, S, NULL), NEW bh, Balanced(t, S, bh),
           NEW n \in S, NEW p, p = t.parent[n], NEW c, OneKid(t, n, c),
           t.kid[n]["left"] \in {c, NULL}, NEW u, Spliced(t, u, n, c)
    PROVE  Unlinked(t, S, sub, n, u, c, p, t.black[n])
<1>0. /\ S \subseteq Keys /\ NULL \notin S /\ n \in Keys /\ Typed(t)
      /\ \A m \in S : m \in sub[m] /\ sub[m] \subseteq S
      /\ \A m \in S, d \in Dirs : t.kid[m][d] \in S \union {NULL}
  BY KeysAssumption DEF Shaped, Below
<1>1. PICK sub2 : sub2 = SubSpliced(S, sub, n)
  OBVIOUS
<1>2. Shaped(u, S \ {n}, sub2)
  BY <1>1, SpliceShape
<1>3. \A m \in S \ {n} : sub2[m] = sub[m] \ {n}
  BY <1>1 DEF SubSpliced
<1>4. AtSplice(t, S, sub, n, c, p)
  BY SpliceFacts
<1>5. /\ c \in (S \ {n}) \union {NULL} /\ p \in (S \ {n}) \union {NULL} /\ n # NULL
      /\ (p = NULL <=> n = t.root) /\ (c # NULL => t.parent[c] = n)
      /\ sub[n] = Under(sub, c) \union {n} /\ n \notin Under(sub, c)
      /\ \A e \in Dirs : t.kid[n][e] \in {c, NULL}
  BY <1>4 DEF AtSplice
<1>6. /\ Typed(u) /\ u.black = t.black
      /\ \A m \in Keys, e \in Dirs : u.kid[m][e] =
                IF m = p /\ t.kid[m][e] = n THEN c ELSE t.kid[m][e]
      /\ \A m \in Keys : u.parent[m] = IF m = c THEN p ELSE t.parent[m]
  BY DEF Spliced
<1>7. Outside(u, S \ {n}, n)
  <2>1. ASSUME NEW m \in Keys \ S
        PROVE  u.kid[m] = Blank /\ u.parent[m] = NULL /\ u.black[m] = FALSE
    <3>1. m # p /\ m # c /\ m # NULL
      BY <1>0, <1>5, KeysAssumption
    <3>2. t.kid[m] = Blank /\ t.parent[m] = NULL /\ t.black[m] = FALSE
      BY <3>1 DEF Outside
    <3>3. u.kid[m] \in [Dirs -> Ptr] /\ t.kid[m] \in [Dirs -> Ptr]
      BY <1>0, <1>6 DEF Typed
    <3>4. \A e \in Dirs : u.kid[m][e] = t.kid[m][e]
      BY <1>6, <3>1
    <3>5. u.kid[m] = t.kid[m]
      BY <3>3, <3>4
    <3> QED
      BY <1>6, <3>1, <3>2, <3>5
  <2>2. \A e \in Dirs : u.kid[n][e] \in (S \ {n}) \union {NULL}
    BY <1>0, <1>5, <1>6
  <2>3. \A e \in Dirs : Blank[e] = NULL
    BY DEF Blank
  <2> QED
    BY <2>1, <2>2, <2>3 DEF Outside
<1>8. t.black[n] => \E bh2 : Erasing(u, S \ {n}, bh2, c, p)
  BY SpliceBalance
<1>9. ~t.black[n] => \E bh2 : Balanced(u, S \ {n}, bh2)
  BY SpliceBalance
<1>10. ASSUME NEW L \in S, L = t.kid[n]["left"] PROVE sub2[L] = sub[L] /\ p \notin sub[L]
  <2>1. L = c /\ c # NULL
    BY <1>0, <1>10
  <2>2. sub[L] = Under(sub, c) /\ n \notin sub[L] /\ L # n
    BY <1>5, <2>1 DEF Under
  <2>3. sub2[L] = sub[L]
    BY <1>3, <2>2
  <2>4. sub[L] \subseteq sub[n]
    BY <1>5, <2>2
  <2>5. p \notin sub[n]
    <3>1. CASE p = NULL
      BY <1>0, <3>1
    <3>2. CASE p # NULL
      <4>1. p \in S /\ n = t.kid[p][Side(t, p, n)] /\ Side(t, p, n) \in Dirs
        BY <3>2, ParentFacts
      <4>2. KidOf(t, S, sub, p, Side(t, p, n), n)
        BY <1>5, <4>1, KidIs
      <4> QED
        BY <4>2 DEF KidOf
    <3> QED
      BY <3>1, <3>2
  <2> QED
    BY <2>3, <2>4, <2>5
<1> QED
  BY <1>2, <1>7, <1>8, <1>9, <1>10 DEF Unlinked

\* rb_erase of a node with two children, up to __rb_erase_color.
LEMMA UnlinkTwoStep ==
    ASSUME NEW t, NEW S, NEW sub, Shaped(t, S, sub), Outside(t, S, NULL), NEW bh, Balanced(t, S, bh),
           NEW n \in S, NEW p, NEW L, NEW R, NEW s, NEW c, NEW sp,
           Successor(t, S, sub, n, p, L, R, s, c, sp),
           NEW u, Replaced(t, u, n, p, L, R, s, c, sp)
    PROVE  Unlinked(t, S, sub, n, u, c, IF sp = n THEN s ELSE sp, t.black[s])
<1>0. /\ S \subseteq Keys /\ NULL \notin S /\ n \in Keys /\ Typed(t)
      /\ \A m \in S : m \in sub[m] /\ sub[m] \subseteq S
      /\ \A m \in S, d \in Dirs : t.kid[m][d] \in S \union {NULL}
  BY KeysAssumption DEF Shaped, Below
<1>1. /\ L \in S /\ R \in S /\ s \in S /\ sp \in S /\ c \in S \union {NULL} /\ p \in S \union {NULL}
      /\ L = t.kid[n]["left"] /\ sp = t.parent[s] /\ OneKid(t, s, c)
      /\ s # n /\ s # L /\ c # n /\ c # L /\ c # R /\ sp # s /\ L # R /\ L # n /\ R # n
      /\ (c # NULL => t.parent[c] = s)
      /\ p # n /\ p # s
      /\ s \notin sub[L] /\ sp \notin sub[L] /\ n \notin sub[L]
      /\ Beside(S \ {s}, n, s)
  BY DEF Successor
<1>2. PICK t1 : t1 = Relink(SetParent(t, c, sp), sp, s, c)
  OBVIOUS
<1>3. c \in Ptr
  BY <1>0, <1>1 DEF Ptr
<1>4. Spliced(t, t1, s, c)
  BY <1>1, <1>2, <1>3, SpliceFields
<1>5. PICK S1 : S1 = S \ {s}
  OBVIOUS
<1>6. PICK sub1 : sub1 = SubSpliced(S, sub, s)
  OBVIOUS
<1>7. Shaped(t1, S1, sub1)
  BY <1>1, <1>4, <1>5, <1>6, SpliceShape
<1>8. Renamed(t1, u, S1, n, s)
  BY <1>4, <1>5, ReplaceRenames
<1>9. n \in S1 /\ s \in Keys \ S1 /\ Beside(S1, n, s)
  BY <1>0, <1>1, <1>5
<1>10. SwapSet(S1, n, s) = S \ {n}
  BY <1>1, <1>5 DEF SwapSet
<1>11. PICK sub2 : sub2 = SubRenamed(S1, sub1, n, s)
  OBVIOUS
<1>12. Shaped(u, S \ {n}, sub2)
  <2>1. Shaped(u, SwapSet(S1, n, s), SubRenamed(S1, sub1, n, s))
    BY <1>7, <1>8, <1>9, RenameShape
  <2> QED
    BY <1>10, <1>11, <2>1
<1>13. c \in S1 \union {NULL} /\ sp \in S1 \union {NULL}
  <2>1. AtSplice(t, S, sub, s, c, sp)
    BY <1>1, SpliceFacts
  <2> QED
    BY <1>5, <2>1 DEF AtSplice
<1>14. Swap(c, n, s) = c /\ Swap(sp, n, s) = IF sp = n THEN s ELSE sp
  BY <1>1 DEF Swap
<1>15. ASSUME t.black[s]
       PROVE  \E bh2 : Erasing(u, S \ {n}, bh2, c, IF sp = n THEN s ELSE sp)
  <2>1. PICK bh1 : Erasing(t1, S1, bh1, c, sp)
    BY <1>1, <1>4, <1>5, <1>15, SpliceBalance
  <2>2. \E bh2 : Erasing(u, SwapSet(S1, n, s), bh2, Swap(c, n, s), Swap(sp, n, s))
    BY <1>7, <1>8, <1>9, <1>13, <2>1, RenameBalance
  <2> QED
    BY <1>10, <1>14, <2>2
<1>16. ASSUME ~t.black[s] PROVE \E bh2 : Balanced(u, S \ {n}, bh2)
  <2>1. PICK bh1 : Balanced(t1, S1, bh1)
    BY <1>1, <1>4, <1>5, <1>16, SpliceBalance
  <2>2. \E bh2 : Balanced(u, SwapSet(S1, n, s), bh2)
    BY <1>7, <1>8, <1>9, <1>13, <2>1, RenameBalance
  <2> QED
    BY <1>10, <2>2
<1>17. ASSUME NEW K \in S, K = t.kid[n]["left"]
       PROVE  sub2[K] = sub[K] /\ (IF sp = n THEN s ELSE sp) \notin sub[K]
  <2>1. K = L
    BY <1>1, <1>17
  <2>2. L \in S1 /\ L \in SwapSet(S1, n, s)
    BY <1>1, <1>5, <1>10
  <2>3. sub1[L] = sub[L]
    BY <1>1, <1>5, <1>6, <2>2 DEF SubSpliced
  <2>4. sub2[L] = SwapSet(sub1[L], n, s)
    BY <1>1, <1>11, <2>2 DEF SubRenamed
  <2>5. sub2[L] = sub[L]
    BY <1>1, <2>3, <2>4 DEF SwapSet
  <2> QED
    BY <1>1, <2>1, <2>5
<1>18. Outside(u, S \ {n}, n)
  <2>1. /\ Typed(u)
        /\ \A m \in Keys : u.black[m] = IF m = s THEN t.black[n] ELSE t.black[m]
        /\ \A m \in Keys, e \in Dirs : m # s /\ m # sp /\ m # p => u.kid[m][e] = t.kid[m][e]
        /\ \A m \in Keys : m # L /\ m # s /\ m # R /\ m # c => u.parent[m] = t.parent[m]
    BY DEF Replaced
  <2>2. ASSUME NEW m \in Keys \ S
        PROVE  u.kid[m] = Blank /\ u.parent[m] = NULL /\ u.black[m] = FALSE
    <3>1. m # p /\ m # c /\ m # NULL /\ m # s /\ m # sp /\ m # L /\ m # R
      BY <1>0, <1>1, KeysAssumption
    <3>2. t.kid[m] = Blank /\ t.parent[m] = NULL /\ t.black[m] = FALSE
      BY <3>1 DEF Outside
    <3>3. u.kid[m] \in [Dirs -> Ptr] /\ t.kid[m] \in [Dirs -> Ptr]
      BY <1>0, <2>1 DEF Typed
    <3>4. \A e \in Dirs : u.kid[m][e] = t.kid[m][e]
      BY <2>1, <3>1
    <3>5. u.kid[m] = t.kid[m]
      BY <3>3, <3>4
    <3> QED
      BY <2>1, <3>1, <3>2, <3>5
  <2>3. ASSUME NEW e \in Dirs PROVE u.kid[n][e] \in (S \ {n}) \union {NULL}
    <3>1. u.kid[n][e] \in {L, R, c, s, t.kid[n][e]}
      BY <1>0 DEF Replaced
    <3>2. t.kid[n][e] # n
      <4>1. t.kid[n][e] # NULL => KidOf(t, S, sub, n, e, t.kid[n][e])
        BY KidIs
      <4> QED
        BY <1>0, <4>1 DEF KidOf
    <3>3. t.kid[n][e] \in (S \ {n}) \union {NULL}
      BY <1>0, <3>2
    <3> QED
      BY <1>1, <3>1, <3>3
  <2>4. \A e \in Dirs : Blank[e] = NULL
    BY DEF Blank
  <2> QED
    BY <2>2, <2>3, <2>4 DEF Outside
<1> QED
  BY <1>12, <1>15, <1>16, <1>17, <1>18 DEF Unlinked

\* Unlink, whatever children n has.
LEMMA UnlinkStep ==
    ASSUME NEW t, NEW S, NEW sub, Shaped(t, S, sub), Outside(t, S, NULL), NEW bh, Balanced(t, S, bh),
           NEW n \in S
    PROVE  /\ Unlinked(t, S, sub, n, Unlink(t, n).tree, Unlink(t, n).child, Unlink(t, n).parent,
                       Unlink(t, n).black)
           /\ Unlink(t, n).parent \in Ptr /\ Unlink(t, n).black \in BOOLEAN
<1>0. /\ S \subseteq Keys /\ NULL \notin S /\ n \in Keys /\ Typed(t)
      /\ \A m \in S, d \in Dirs : t.kid[m][d] \in S \union {NULL}
  BY KeysAssumption DEF Shaped, Below
<1>1. "left" \in Dirs /\ "right" \in Dirs /\ Opp("left") = "right" /\ Opp("right") = "left"
  BY DEF Dirs, Opp
<1>2. PICK L : L = t.kid[n]["left"]
  OBVIOUS
<1>3. PICK R : R = t.kid[n]["right"]
  OBVIOUS
<1>4. PICK p : p = t.parent[n]
  OBVIOUS
<1>5. L \in S \union {NULL} /\ R \in S \union {NULL}
  BY <1>0, <1>1, <1>2, <1>3
<1>6. S \union {NULL} \subseteq Ptr /\ p \in Ptr
  BY <1>0, <1>4 DEF Ptr, Typed
<1>7. CASE NULL \in {L, R}
  <2>1. PICK c : c = IF L = NULL THEN R ELSE L
    OBVIOUS
  <2>2. Unlink(t, n) = [tree |-> Relink(SetParent(t, c, p), p, n, c),
                        child |-> c, parent |-> p, black |-> t.black[n]]
    BY <1>2, <1>3, <1>4, <1>7, <2>1, UnlinkOne
  <2>3. PICK u : u = Relink(SetParent(t, c, p), p, n, c)
    OBVIOUS
  <2>4. c \in Ptr
    BY <1>5, <1>6, <2>1
  <2>5. Spliced(t, u, n, c)
    BY <1>4, <2>3, <2>4, SpliceFields
  <2>6. OneKid(t, n, c) /\ t.kid[n]["left"] \in {c, NULL}
    BY <1>1, <1>2, <1>3, <1>7, <2>1 DEF OneKid
  <2>7. Unlinked(t, S, sub, n, u, c, p, t.black[n])
    BY <1>4, <2>5, <2>6, UnlinkOneStep
  <2>8. Unlink(t, n).tree = u /\ Unlink(t, n).child = c /\ Unlink(t, n).parent = p
        /\ Unlink(t, n).black = t.black[n]
    BY <2>2, <2>3
  <2>9. t.black[n] \in BOOLEAN
    BY <1>0 DEF Typed
  <2> QED
    BY <1>6, <2>7, <2>8, <2>9
<1>8. CASE NULL \notin {L, R}
  <2>1. PICK s : s = Outermost(t, R, "left")
    OBVIOUS
  <2>2. PICK c : c = t.kid[s]["right"]
    OBVIOUS
  <2>3. PICK sp : sp = t.parent[s]
    OBVIOUS
  <2>4. Successor(t, S, sub, n, p, L, R, s, c, sp)
    BY <1>2, <1>3, <1>4, <1>8, <2>1, <2>2, <2>3, SuccessorFacts
  <2>5. L \in S /\ R \in S /\ s \in S /\ sp \in S /\ c \in S \union {NULL}
    BY <2>4 DEF Successor
  <2>6. s # NULL /\ s \in Keys /\ sp \in Keys /\ c \in Ptr /\ L \in Ptr /\ R \in Ptr
    BY <1>0, <1>6, <2>5
  <2>7. Unlink(t, n) = [tree |-> Replace(t, n, p, L, R, s, c, sp), child |-> c,
                        parent |-> IF sp = n THEN s ELSE sp, black |-> t.black[s]]
    BY <1>2, <1>3, <1>4, <1>8, <2>1, <2>2, <2>3, <2>6, UnlinkTwo
  <2>8. PICK u : u = Replace(t, n, p, L, R, s, c, sp)
    OBVIOUS
  <2>9. Replaced(t, u, n, p, L, R, s, c, sp)
    BY <1>0, <1>6, <2>6, <2>8, ReplaceFields
  <2>10. Unlinked(t, S, sub, n, u, c, IF sp = n THEN s ELSE sp, t.black[s])
    BY <2>4, <2>9, UnlinkTwoStep
  <2>11. Unlink(t, n).tree = u /\ Unlink(t, n).child = c
         /\ Unlink(t, n).parent = (IF sp = n THEN s ELSE sp) /\ Unlink(t, n).black = t.black[s]
    BY <2>7, <2>8
  <2>12. t.black[s] \in BOOLEAN
    BY <1>0, <2>6 DEF Typed
  <2>13. (IF sp = n THEN s ELSE sp) \in Ptr
    BY <1>0, <2>5, <1>6
  <2> QED
    BY <2>10, <2>11, <2>12, <2>13
<1> QED
  BY <1>7, <1>8

-----------------------------------------------------------------------------
(* The tree in each phase *)

\* Every node before c, the cursor of a walk, is below it.
Spine(S, sub, c) == c \in S /\ \A k \in S : k < c => k \in sub[c]

\* The rounds of __rb_erase_color work outside the subtree of the cursor, or
\* at a red node inside it.
Away(t, sub, c, x, q) ==
    q \notin sub[c] \/ (q # c /\ IsRed(t, q)) \/ IsRed(t, x) \/ x = t.root

IdleTree(t, S, c) ==
    \E sub : /\ Shaped(t, S, sub) /\ Outside(t, S, NULL)
             /\ \E bh : Balanced(t, S, bh)
             /\ c # NULL => Spine(S, sub, c)

InsertTree(t, S, x) ==
    \E sub : /\ Shaped(t, S, sub) /\ Outside(t, S, NULL)
             /\ \E bh : Inserting(t, S, bh, x)

EraseTree(t, S, v, x, q, c) ==
    \E sub : /\ Shaped(t, S, sub) /\ Outside(t, S, v)
             /\ \E bh : Erasing(t, S, bh, x, q)
             /\ c # NULL => Spine(S, sub, c) /\ Away(t, sub, c, x, q)

FreeTree(t, S, v, c) ==
    \E sub : /\ Shaped(t, S, sub) /\ Outside(t, S, v)
             /\ \E bh : Balanced(t, S, bh)
             /\ c # NULL => Spine(S, sub, c)

\* What a step changes is in the tree.
Within(t, t2, S) ==
    \A m \in Keys \ S : t2.kid[m] = t.kid[m] /\ t2.parent[m] = t.parent[m] /\ t2.black[m] = t.black[m]

\* What changes within S leaves the nodes outside as they are.
LEMMA WithinOutside ==
    ASSUME NEW t, NEW t2, NEW S, NEW v, Outside(t, S, v), Within(t, t2, S)
    PROVE  Outside(t2, S, v)
BY DEF Outside, Within

\* A rotation changes nodes of the tree only.
LEMMA RotateWithin ==
    ASSUME NEW t, NEW S, NEW sub, Shaped(t, S, sub), NEW n \in S, NEW d \in Dirs,
           t.kid[n][Opp(d)] # NULL, NEW t2, Typed(t2), Rotated(t, t2, n, d),
           \A m \in Keys \ S : t2.black[m] = t.black[m]
    PROVE  Within(t, t2, S)
<1>1. S \subseteq Keys /\ Typed(t)
  BY DEF Shaped, Below
<1>2. PICK up : up = t.kid[n][Opp(d)]
  OBVIOUS
<1>3. PICK mid : mid = t.kid[up][d]
  OBVIOUS
<1>4. PICK p : p = t.parent[n]
  OBVIOUS
<1>5. up \in S /\ mid \in S \union {NULL} /\ p \in S \union {NULL}
  BY <1>2, <1>3, <1>4, RotatedNodes
<1>6. /\ \A m \in Keys, e \in Dirs : m # n /\ m # up /\ m # p => t2.kid[m][e] = t.kid[m][e]
      /\ \A m \in Keys : m # n /\ m # up /\ m # mid => t2.parent[m] = t.parent[m]
  BY <1>2, <1>3, <1>4 DEF Rotated
<1>7. ASSUME NEW m \in Keys \ S
      PROVE  t2.kid[m] = t.kid[m] /\ t2.parent[m] = t.parent[m]
  <2>1. m # n /\ m # up /\ m # p /\ m # mid
    BY <1>5, KeysAssumption
  <2>2. t2.kid[m] \in [Dirs -> Ptr] /\ t.kid[m] \in [Dirs -> Ptr]
    BY <1>1 DEF Typed
  <2>3. \A e \in Dirs : t2.kid[m][e] = t.kid[m][e]
    BY <1>6, <2>1
  <2> QED
    BY <1>6, <2>1, <2>2, <2>3
<1> QED
  BY <1>7 DEF Within

\* A recolouring of nodes of the tree too.
LEMMA TonesWithin ==
    ASSUME NEW t, Typed(t), NEW t2, Typed(t2), NEW S, NEW B, NEW R,
           B \subseteq S \union {NULL}, R \subseteq S \union {NULL}, Tones(t, t2, B, R)
    PROVE  \A m \in Keys \ S : t2.black[m] = t.black[m]
<1>1. SUFFICES ASSUME NEW m \in Keys \ S PROVE t2.black[m] = t.black[m]
  OBVIOUS
<1>2. m \notin B /\ m \notin R
  BY KeysAssumption
<1>3. t2.black[m] <=> t.black[m]
  BY <1>2 DEF Tones
<1>4. t2.black[m] \in BOOLEAN /\ t.black[m] \in BOOLEAN
  BY DEF Typed
<1> QED
  BY <1>3, <1>4

\* A change of colours within S.
LEMMA PointersWithin ==
    ASSUME NEW t, NEW t2, NEW S, SamePointers(t, t2), \A m \in Keys \ S : t2.black[m] = t.black[m]
    PROVE  Within(t, t2, S)
BY DEF SamePointers, Within

\* A rotation keeps the nodes before the cursor below it, unless the cursor
\* goes down to the right.
LEMMA RotateSpine ==
    ASSUME NEW t, NEW S, NEW sub, Shaped(t, S, sub), NEW n \in S, NEW d \in Dirs,
           t.kid[n][Opp(d)] # NULL, NEW c, Spine(S, sub, c), c = n => d = "left"
    PROVE  Spine(S, SubRotated(t, sub, n, d), c)
<1>1. S \subseteq Keys /\ DOMAIN sub = S /\ \A m \in S : sub[m] \subseteq S
  BY DEF Shaped, Below
<1>2. PICK up : up = t.kid[n][Opp(d)]
  OBVIOUS
<1>3. Opp(d) \in Dirs
  BY OnOrder
<1>4. KidOf(t, S, sub, n, Opp(d), up)
  BY <1>2, <1>3, KidIs
<1>5. up \in S /\ up # n /\ sub[up] \subseteq sub[n] /\ On(Opp(d), up, n)
  BY <1>4 DEF KidOf
<1>6. PICK sub2 : sub2 = SubRotated(t, sub, n, d)
  OBVIOUS
<1>7. \A m \in S : sub2[m] = IF m = up THEN sub[n]
                             ELSE IF m = n THEN Part(sub[n], up, d) ELSE sub[m]
  BY <1>1, <1>2, <1>6 DEF SubRotated
<1>8. c \in S /\ \A k \in S : k < c => k \in sub[c]
  BY DEF Spine
<1>9. ASSUME NEW k \in S, k < c PROVE k \in sub2[c]
  <2>1. CASE c = n
    <3>1. d = "left" /\ up \in Keys /\ n \in Keys /\ k \in Keys
      BY <1>1, <1>5, <2>1
    <3>2. On("right", up, n)
      BY <1>5, <3>1 DEF Opp
    <3>3. n < up /\ k \in Nat /\ n \in Nat /\ up \in Nat
      BY <3>1, <3>2, OnLess
    <3>4. On("left", k, up)
      BY <1>9, <2>1, <3>1, <3>3, OnLess
    <3> QED
      BY <1>5, <1>7, <1>8, <1>9, <2>1, <3>1, <3>4 DEF Part
  <2>2. CASE c # n
    BY <1>5, <1>7, <1>8, <1>9, <2>2
  <2> QED
    BY <2>1, <2>2
<1> QED
  BY <1>6, <1>8, <1>9 DEF Spine

\* The nodes of B are made black, then those of R red.
BlackRed(t, B, R) == SetColour(SetColour(t, B, TRUE), R, FALSE)

\* The fields when B turns black and R red.
LEMMA BlackRedIs ==
    ASSUME NEW t, Typed(t), NEW B, NEW R
    PROVE  Recoloured(t, BlackRed(t, B, R), B, R)
BY BlackThenRed DEF BlackRed

\* The nodes of B are made black.
Blacken(t, B) == SetColour(t, B, TRUE)

\* The fields when B turns black.
LEMMA BlackenIs ==
    ASSUME NEW t, Typed(t), NEW B
    PROVE  Recoloured(t, Blacken(t, B), B, {})
<1>1. Coloured(t, SetColour(t, B, TRUE), B, TRUE)
  BY ColourFields
<1> QED
  BY <1>1 DEF Coloured, Recoloured, Tones, Blacken

\* rb_insert hangs a new node.
LEMMA HangTree ==
    ASSUME NEW t, NEW S, IdleTree(t, S, NULL), NEW k \in Keys \ S
    PROVE  InsertTree(Hang(t, k, Above(t, k)), S \union {k}, k)
<1>1. PICK sub : Shaped(t, S, sub) /\ Outside(t, S, NULL) /\ \E bh : Balanced(t, S, bh)
  BY DEF IdleTree
<1>2. PICK bh : Balanced(t, S, bh)
  BY <1>1
<1>3. PICK p : p = Above(t, k)
  OBVIOUS
<1>4. Place(t, S, k, p)
  <2>1. /\ S = {} => Above(t, k) = NULL
        /\ S # {} => /\ Above(t, k) \in S /\ t.kid[Above(t, k)][Toward(k, Above(t, k))] = NULL
                     /\ \A j \in S : ~Between(j, Above(t, k), k)
    BY <1>1, AboveIs
  <2> QED
    BY <1>3, <2>1 DEF Place
<1>5. Typed(t) /\ S \subseteq Keys
  BY <1>1 DEF Shaped, Below
<1>6. p \in Ptr
  BY <1>4, <1>5 DEF Place, Ptr
<1>7. PICK u : u = Hang(t, k, p)
  OBVIOUS
<1>8. Hung(t, u, k, p)
  BY <1>5, <1>6, <1>7, HangFields
<1>9. Shaped(u, S \union {k}, SubHung(S, sub, k, p)) /\ Outside(u, S \union {k}, NULL)
  BY <1>1, <1>4, <1>8, HangShape
<1>10. \E bh2 : Inserting(u, S \union {k}, bh2, k)
  BY <1>1, <1>2, <1>4, <1>8, HangBalance
<1> QED
  BY <1>3, <1>7, <1>9, <1>10 DEF InsertTree

\* What a round looks at.
Kin(t, x, f, g, s, u) ==
    /\ f = t.parent[x] /\ g = t.parent[f] /\ s = Side(t, g, f) /\ u = t.kid[g][Opp(s)]
    /\ IsRed(t, f)

\* The relatives that the code names are those of InsertFacts.
LEMMA KinFamily ==
    ASSUME NEW t, NEW S, NEW sub, Shaped(t, S, sub), NEW bh, NEW x, Inserting(t, S, bh, x),
           NEW f, NEW g, NEW s, NEW u, Kin(t, x, f, g, s, u)
    PROVE  Family(t, S, x, f, g, s, u)
BY InsertFacts DEF Kin

\* A round that recolours.
Lift(t, u, f, g) == BlackRed(t, {u, f}, {g})

\* The tree after a round of rb_insert_color with a red uncle.
LEMMA InsertRecolourTree ==
    ASSUME NEW t, NEW S, NEW x, InsertTree(t, S, x),
           NEW f, NEW g, NEW s, NEW u, Kin(t, x, f, g, s, u), IsRed(t, u),
           NEW t2, t2 = Lift(t, u, f, g)
    PROVE  InsertTree(t2, S, g)
<1>1. PICK sub : Shaped(t, S, sub) /\ Outside(t, S, NULL) /\ \E bh : Inserting(t, S, bh, x)
  BY DEF InsertTree
<1>2. PICK bh : Inserting(t, S, bh, x)
  BY <1>1
<1>3. Typed(t)
  BY <1>1 DEF Shaped
<1>4. Recoloured(t, t2, {u, f}, {g})
  BY <1>3, BlackRedIs DEF Lift
<1>5. Family(t, S, x, f, g, s, u)
  BY <1>1, <1>2, KinFamily
<1>6. (\A m \in Keys \ S : t2.black[m] = t.black[m]) /\ \E bh2 : Inserting(t2, S, bh2, g)
  <2>1. Lifted(t, t2, u, f, g)
    BY <1>4 DEF Lifted
  <2> QED
    BY <1>1, <1>2, <1>5, <2>1, InsertRecolourStep
<1>7. Typed(t2) /\ SamePointers(t, t2)
  BY <1>4 DEF Recoloured
<1>8. Shaped(t2, S, sub)
  BY <1>1, <1>7, SameShape
<1>9. Within(t, t2, S)
  BY <1>6, <1>7, PointersWithin
<1>10. Outside(t2, S, NULL)
  BY <1>1, <1>9, WithinOutside
<1> QED
  BY <1>6, <1>8, <1>10 DEF InsertTree

TurnUp(t, f, g, s) == Rotate(BlackRed(t, {f}, {g}), g, Opp(s))

\* The rotation of the grandparent, after the colours.
LEMMA InsertOuterTree ==
    ASSUME NEW t, NEW S, NEW sub, Shaped(t, S, sub), Outside(t, S, NULL),
           NEW bh, NEW x, Inserting(t, S, bh, x), NEW f, NEW g, NEW s, NEW u,
           Family(t, S, x, f, g, s, u), ~IsRed(t, u), x = t.kid[f][s],
           NEW t2, t2 = TurnUp(t, f, g, s)
    PROVE  InsertTree(t2, S, x)
<1>1. Typed(t) /\ S \subseteq Keys
  BY DEF Shaped, Below
<1>2. f \in S /\ g \in S /\ s \in Dirs /\ f # NULL /\ t.kid[g][s] = f
  BY <1>1, KeysAssumption DEF Family
<1>3. Opp(s) \in Dirs /\ Opp(Opp(s)) = s
  BY <1>2, OnOrder
<1>4. PICK w : w = BlackRed(t, {f}, {g})
  OBVIOUS
<1>5. Recoloured(t, w, {f}, {g})
  BY <1>1, <1>4, BlackRedIs
<1>6. Typed(w) /\ SamePointers(t, w) /\ Tones(t, w, {f}, {g})
  BY <1>5 DEF Recoloured
<1>7. t2 = Rotate(w, g, Opp(s))
  BY <1>4 DEF TurnUp
<1>8. t.kid[g][Opp(Opp(s))] # NULL
  BY <1>2, <1>3
<1>9. Typed(t2) /\ Rotated(t, t2, g, Opp(s)) /\ t2.black = w.black
      /\ Shaped(t2, S, SubRotated(t, sub, g, Opp(s)))
  BY <1>2, <1>3, <1>6, <1>7, <1>8, TurnFacts
<1>10. Tones(t, t2, {f}, {g})
  BY <1>6, <1>9 DEF Tones
<1>11. \E bh2 : Inserting(t2, S, bh2, x)
  BY <1>9, <1>10, InsertOuterStep
<1>12. {f} \subseteq S \union {NULL} /\ {g} \subseteq S \union {NULL}
  BY <1>2
<1>13. \A m \in Keys \ S : t2.black[m] = t.black[m]
  BY <1>1, <1>9, <1>10, <1>12, TonesWithin
<1>14. Within(t, t2, S)
  BY <1>2, <1>3, <1>8, <1>9, <1>13, RotateWithin
<1>15. Outside(t2, S, NULL)
  BY <1>14, WithinOutside
<1> QED
  BY <1>9, <1>11, <1>15 DEF InsertTree

\* A round that rotates, with x on the inner or on the outer side.
Inner(t, x, f, s) == t.kid[f][Opp(s)] = x

\* The tree after a round with two rotations.
LEMMA InsertInnerTree ==
    ASSUME NEW t, NEW S, NEW x, InsertTree(t, S, x),
           NEW f, NEW g, NEW s, NEW u, Kin(t, x, f, g, s, u), ~IsRed(t, u), Inner(t, x, f, s),
           NEW t1, t1 = Rotate(t, f, s), NEW t2, t2 = TurnUp(t1, x, g, s)
    PROVE  InsertTree(t2, S, f)
<1>1. PICK sub : Shaped(t, S, sub) /\ Outside(t, S, NULL) /\ \E bh : Inserting(t, S, bh, x)
  BY DEF InsertTree
<1>2. PICK bh : Inserting(t, S, bh, x)
  BY <1>1
<1>3. Family(t, S, x, f, g, s, u)
  BY <1>1, <1>2, KinFamily
<1>4. f \in S /\ s \in Dirs /\ x \in S /\ S \subseteq Keys
  BY <1>1, <1>2, <1>3 DEF Family, Inserting, Shaped, Below
<1>5. x = t.kid[f][Opp(s)]
  BY DEF Inner
<1>6. t.kid[f][Opp(s)] # NULL
  BY <1>4, <1>5, KeysAssumption
<1>7. Typed(t1) /\ Rotated(t, t1, f, s) /\ t1.black = t.black
  BY <1>1, <1>4, <1>6, RotateFields
<1>8. Inserting(t1, S, bh, f) /\ Family(t1, S, f, x, g, s, u) /\ ~IsRed(t1, u) /\ t1.kid[x][s] = f
  BY <1>1, <1>2, <1>3, <1>5, <1>7, InsertInnerStep
<1>9. Shaped(t1, S, SubRotated(t, sub, f, s))
  BY <1>1, <1>4, <1>6, <1>7, RotateShape
<1>10. Within(t, t1, S)
  BY <1>1, <1>4, <1>6, <1>7, RotateWithin
<1>11. Outside(t1, S, NULL)
  BY <1>1, <1>10, WithinOutside
<1> QED
  BY <1>8, <1>9, <1>11, InsertOuterTree

\* The tree after a round with one rotation.
LEMMA InsertOuterOnlyTree ==
    ASSUME NEW t, NEW S, NEW x, InsertTree(t, S, x),
           NEW f, NEW g, NEW s, NEW u, Kin(t, x, f, g, s, u), ~IsRed(t, u), ~Inner(t, x, f, s),
           NEW t2, t2 = TurnUp(t, f, g, s)
    PROVE  InsertTree(t2, S, x)
<1>1. PICK sub : Shaped(t, S, sub) /\ Outside(t, S, NULL) /\ \E bh : Inserting(t, S, bh, x)
  BY DEF InsertTree
<1>2. PICK bh : Inserting(t, S, bh, x)
  BY <1>1
<1>3. Family(t, S, x, f, g, s, u)
  BY <1>1, <1>2, KinFamily
<1>4. x = t.kid[f][s]
  BY <1>3 DEF Family, Inner
<1> QED
  BY <1>1, <1>2, <1>3, <1>4, InsertOuterTree

\* The end of rb_insert_color.
LEMMA InsertDoneTree ==
    ASSUME NEW t, NEW S, NEW x, InsertTree(t, S, x), ~IsRed(t, t.parent[x]),
           NEW t2, t2 = Blacken(t, {t.root})
    PROVE  IdleTree(t2, S, NULL)
<1>1. PICK sub : Shaped(t, S, sub) /\ Outside(t, S, NULL) /\ \E bh : Inserting(t, S, bh, x)
  BY DEF InsertTree
<1>2. PICK bh : Inserting(t, S, bh, x)
  BY <1>1
<1>3. Typed(t) /\ S \subseteq Keys /\ t.root \in S \union {NULL}
  BY <1>1 DEF Shaped, Below
<1>4. Recoloured(t, t2, {t.root}, {})
  BY <1>3, BlackenIs
<1>5. Typed(t2) /\ SamePointers(t, t2)
  BY <1>4 DEF Recoloured
<1>6. Tones(t, t2, {t.root}, {})
  BY <1>4 DEF Recoloured
<1>7. x \in S /\ Heights(t, S, bh, NULL, "left") /\ Reds(t, S, x, NULL)
  BY <1>2 DEF Inserting
<1>8. \A n \in S, d \in Dirs : t.kid[n][d] = x /\ x # NULL => t.black[n]
  <2>1. SUFFICES ASSUME NEW n \in S, NEW d \in Dirs, t.kid[n][d] = x, x # NULL PROVE t.black[n]
    OBVIOUS
  <2>2. KidOf(t, S, sub, n, d, x)
    BY <1>1, <2>1, KidIs
  <2>3. n = t.parent[x] /\ n # NULL
    BY <1>3, <2>2, KeysAssumption DEF KidOf
  <2> QED
    BY <2>3 DEF IsRed
<1>9. \E bh2 : Balanced(t2, S, bh2)
  BY <1>1, <1>5, <1>6, <1>7, <1>8, BlackRootStep
<1>10. Shaped(t2, S, sub)
  BY <1>1, <1>5, SameShape
<1>11. {t.root} \subseteq S \union {NULL} /\ {} \subseteq S \union {NULL}
  BY <1>3
<1>12. \A m \in Keys \ S : t2.black[m] = t.black[m]
  BY <1>3, <1>5, <1>6, <1>11, TonesWithin
<1>13. Within(t, t2, S)
  BY <1>5, <1>12, PointersWithin
<1>14. Outside(t2, S, NULL)
  BY <1>1, <1>13, WithinOutside
<1> QED
  BY <1>9, <1>10, <1>14 DEF IdleTree

\* A node is taken out; the walk goes on with its left child, if at all.
GoesOn(t, n, c, c2) == c2 = NULL \/ (c = n /\ c2 = t.kid[n]["left"])

\* A walk that goes on to the left child has all earlier nodes below it.
LEMMA LeftSpine ==
    ASSUME NEW t, NEW S, NEW sub, Shaped(t, S, sub), NEW n \in S, Spine(S, sub, n),
           NEW c, c = t.kid[n]["left"], c # NULL
    PROVE  c \in S \ {n} /\ Spine(S, sub, c)
<1>0. S \subseteq Keys /\ "left" \in Dirs
  BY DEF Shaped, Below, Dirs
<1>1. KidOf(t, S, sub, n, "left", c)
  BY <1>0, KidIs
<1>2. c \in S /\ c # n /\ On("left", c, n) /\ sub[c] = Part(sub[n], n, "left")
  BY <1>1 DEF KidOf
<1>3. ASSUME NEW k \in S, k < c PROVE k \in sub[c]
  <2>1. c < n /\ k \in Nat /\ c \in Nat /\ n \in Nat /\ k \in Keys /\ n \in Keys
    BY <1>0, <1>2, OnLess
  <2>2. k < n
    BY <1>3, <2>1
  <2>3. k \in sub[n]
    BY <2>2 DEF Spine
  <2>4. On("left", k, n)
    BY <2>1, <2>2, OnLess
  <2> QED
    BY <1>2, <2>3, <2>4 DEF Part
<1> QED
  BY <1>2, <1>3 DEF Spine

\* The tree after rb_erase, up to __rb_erase_color, in the middle of a walk.
LEMMA UnlinkTree ==
    ASSUME NEW t, NEW S, NEW c, IdleTree(t, S, c), NEW n \in S, NEW c2, GoesOn(t, n, c, c2),
           NEW w, w = Unlink(t, n)
    PROVE  /\ w.parent \in Ptr /\ w.black \in BOOLEAN
           /\ w.black => EraseTree(w.tree, S \ {n}, n, w.child, w.parent, c2)
           /\ ~w.black => FreeTree(w.tree, S \ {n}, n, c2)
<1>1. PICK sub : /\ Shaped(t, S, sub) /\ Outside(t, S, NULL)
                 /\ \E bh : Balanced(t, S, bh)
                 /\ c # NULL => Spine(S, sub, c)
  BY DEF IdleTree
<1>2. PICK bh : Balanced(t, S, bh)
  BY <1>1
<1>3. PICK u : u = w.tree
  OBVIOUS
<1>4. PICK x : x = w.child
  OBVIOUS
<1>5. PICK q : q = w.parent
  OBVIOUS
<1>6. PICK b : b = w.black
  OBVIOUS
<1>7. /\ Unlinked(t, S, sub, n, Unlink(t, n).tree, Unlink(t, n).child, Unlink(t, n).parent,
                  Unlink(t, n).black)
      /\ Unlink(t, n).parent \in Ptr /\ Unlink(t, n).black \in BOOLEAN
  BY <1>1, <1>2, UnlinkStep
<1>8. Unlinked(t, S, sub, n, u, x, q, b) /\ q \in Ptr /\ b \in BOOLEAN
  BY <1>3, <1>4, <1>5, <1>6, <1>7
<1>9. PICK sub2 :
        /\ Shaped(u, S \ {n}, sub2) /\ Outside(u, S \ {n}, n)
        /\ b => \E bh2 : Erasing(u, S \ {n}, bh2, x, q)
        /\ ~b => \E bh2 : Balanced(u, S \ {n}, bh2)
        /\ \A L \in S : L = t.kid[n]["left"] => sub2[L] = sub[L] /\ q \notin sub[L]
  BY <1>8 DEF Unlinked
<1>10. ASSUME c2 # NULL PROVE Spine(S \ {n}, sub2, c2) /\ Away(u, sub2, c2, x, q)
  <2>1. c = n /\ c2 = t.kid[n]["left"]
    BY <1>10 DEF GoesOn
  <2>2. n # NULL
    BY <1>1, KeysAssumption DEF Shaped, Below
  <2>3. Spine(S, sub, n)
    BY <1>1, <2>1, <2>2
  <2>4. c2 \in S \ {n} /\ Spine(S, sub, c2)
    BY <1>1, <1>10, <2>1, <2>3, LeftSpine
  <2>5. sub2[c2] = sub[c2] /\ q \notin sub[c2]
    BY <1>9, <2>1, <2>4
  <2> QED
    BY <2>4, <2>5 DEF Spine, Away
<1>11. b => EraseTree(u, S \ {n}, n, x, q, c2)
  BY <1>9, <1>10 DEF EraseTree
<1>12. ~b => FreeTree(u, S \ {n}, n, c2)
  BY <1>9, <1>10 DEF FreeTree
<1> QED
  BY <1>3, <1>4, <1>5, <1>6, <1>8, <1>11, <1>12

\* What a round of __rb_erase_color looks at.
Sides(t, x, q, s, o) ==
    s = Side(t, q, x) /\ o = t.kid[q][Opp(s)] /\ ~IsRed(t, x) /\ x # t.root

\* The sibling that the code names is that of EraseFacts.
LEMMA SidesSiblings ==
    ASSUME NEW t, NEW S, NEW sub, Shaped(t, S, sub), NEW bh, NEW x, NEW q, Erasing(t, S, bh, x, q),
           NEW s, NEW o, Sides(t, x, q, s, o)
    PROVE  Siblings(t, S, bh, x, q, s, o)
BY EraseFacts DEF Sides

\* The pieces at a rotation of q.
LEMMA SiblingNodes ==
    ASSUME NEW t, NEW S, NEW sub, Shaped(t, S, sub), NEW bh, NEW x, NEW q, NEW s, NEW o,
           Siblings(t, S, bh, x, q, s, o)
    PROVE  /\ q \in S /\ o \in S /\ s \in Dirs /\ Opp(s) \in Dirs /\ Opp(Opp(s)) = s
           /\ o = t.kid[q][Opp(s)] /\ o # NULL /\ q # NULL /\ Typed(t) /\ S \subseteq Keys
           /\ (IsRed(t, o) => t.black[q]) /\ ~IsRed(t, x)
<1>1. Typed(t) /\ S \subseteq Keys
  BY DEF Shaped, Below
<1>2. q \in S /\ o \in S /\ s \in Dirs /\ o = t.kid[q][Opp(s)] /\ Reds(t, S, NULL, NULL) /\ ~IsRed(t, x)
  BY DEF Siblings
<1>3. Opp(s) \in Dirs /\ Opp(Opp(s)) = s
  BY <1>2, OnOrder
<1>4. o # NULL /\ q # NULL
  BY <1>1, <1>2, KeysAssumption
<1>5. IsRed(t, o) => t.black[q]
  BY <1>2, <1>3, <1>4 DEF Reds
<1> QED
  BY <1>1, <1>2, <1>3, <1>4, <1>5

TurnOther(t, o, q, s) == Rotate(BlackRed(t, {o}, {q}), q, s)

\* A round with a red sibling.
LEMMA EraseRedOtherTree ==
    ASSUME NEW t, NEW S, NEW v, NEW x, NEW q, NEW c, EraseTree(t, S, v, x, q, c),
           NEW s, NEW o, Sides(t, x, q, s, o), IsRed(t, o),
           NEW t2, t2 = TurnOther(t, o, q, s)
    PROVE  EraseTree(t2, S, v, x, q, c)
<1>1. PICK sub : /\ Shaped(t, S, sub) /\ Outside(t, S, v)
                 /\ \E bh : Erasing(t, S, bh, x, q)
                 /\ c # NULL => Spine(S, sub, c) /\ Away(t, sub, c, x, q)
  BY DEF EraseTree
<1>2. PICK bh : Erasing(t, S, bh, x, q)
  BY <1>1
<1>3. Siblings(t, S, bh, x, q, s, o)
  BY <1>1, <1>2, SidesSiblings
<1>4. /\ q \in S /\ o \in S /\ s \in Dirs /\ Opp(s) \in Dirs /\ Opp(Opp(s)) = s
      /\ o = t.kid[q][Opp(s)] /\ o # NULL /\ q # NULL /\ Typed(t) /\ S \subseteq Keys
      /\ (IsRed(t, o) => t.black[q]) /\ ~IsRed(t, x)
  BY <1>1, <1>3, SiblingNodes
<1>5. PICK w : w = BlackRed(t, {o}, {q})
  OBVIOUS
<1>6. Recoloured(t, w, {o}, {q})
  BY <1>4, <1>5, BlackRedIs
<1>7. Typed(w) /\ SamePointers(t, w) /\ Tones(t, w, {o}, {q})
  BY <1>6 DEF Recoloured
<1>8. t2 = Rotate(w, q, s) /\ t.kid[q][Opp(s)] # NULL
  BY <1>4, <1>5 DEF TurnOther
<1>9. PICK sub2 : sub2 = SubRotated(t, sub, q, s)
  OBVIOUS
<1>10. Typed(t2) /\ Rotated(t, t2, q, s) /\ t2.black = w.black /\ Shaped(t2, S, sub2)
  BY <1>1, <1>4, <1>7, <1>8, <1>9, TurnFacts
<1>11. Tones(t, t2, {o}, {q})
  BY <1>7, <1>10 DEF Tones
<1>12. (\E bh2 : Erasing(t2, S, bh2, x, q)) /\ IsRed(t2, q)
  BY <1>1, <1>3, <1>10, <1>11, EraseRedOtherStep
<1>13. {o} \subseteq S \union {NULL} /\ {q} \subseteq S \union {NULL}
  BY <1>4
<1>14. \A m \in Keys \ S : t2.black[m] = t.black[m]
  BY <1>4, <1>10, <1>11, <1>13, TonesWithin
<1>15. Within(t, t2, S)
  BY <1>1, <1>4, <1>8, <1>10, <1>14, RotateWithin
<1>16. Outside(t2, S, v)
  BY <1>1, <1>15, WithinOutside
<1>17. ASSUME c # NULL PROVE Spine(S, sub2, c) /\ Away(t2, sub2, c, x, q)
  <2>1. x # t.root
    BY DEF Sides
  <2>2. ~IsRed(t, q)
    BY <1>4 DEF IsRed
  <2>3. q \notin sub[c] /\ c \in S /\ Spine(S, sub, c)
    BY <1>1, <1>4, <1>17, <2>1, <2>2 DEF Away, Spine
  <2>4. c # q
    BY <1>1, <1>4, <2>3 DEF Shaped, Below
  <2>5. Spine(S, sub2, c)
    BY <1>1, <1>4, <1>8, <1>9, <2>3, <2>4, RotateSpine
  <2>6. DOMAIN sub = S
    BY <1>1 DEF Shaped, Below
  <2>7. c # o => sub2[c] = sub[c]
    BY <1>4, <1>9, <2>3, <2>4, <2>6 DEF SubRotated
  <2>8. Away(t2, sub2, c, x, q)
    BY <1>12, <2>3, <2>4, <2>7 DEF Away
  <2> QED
    BY <2>5, <2>8
<1> QED
  BY <1>10, <1>12, <1>16, <1>17 DEF EraseTree

\* The nodes of R are made red.
Redden(t, R) == SetColour(t, R, FALSE)

\* The fields when R turns red.
LEMMA ReddenIs ==
    ASSUME NEW t, Typed(t), NEW R
    PROVE  Recoloured(t, Redden(t, R), {}, R)
<1>1. Coloured(t, SetColour(t, R, FALSE), R, FALSE)
  BY ColourFields
<1> QED
  BY <1>1 DEF Coloured, Recoloured, Tones, Redden

\* A round with a black sibling that has no red child.
LEMMA EraseRecolourTree ==
    ASSUME NEW t, NEW S, NEW v, NEW x, NEW q, NEW c, EraseTree(t, S, v, x, q, c),
           NEW s, NEW o, Sides(t, x, q, s, o), ~IsRed(t, o),
           ~IsRed(t, t.kid[o][s]), ~IsRed(t, t.kid[o][Opp(s)]),
           NEW t2, t2 = Redden(t, {o})
    PROVE  q \in S /\ EraseTree(t2, S, v, q, t.parent[q], c)
<1>1. PICK sub : /\ Shaped(t, S, sub) /\ Outside(t, S, v)
                 /\ \E bh : Erasing(t, S, bh, x, q)
                 /\ c # NULL => Spine(S, sub, c) /\ Away(t, sub, c, x, q)
  BY DEF EraseTree
<1>2. PICK bh : Erasing(t, S, bh, x, q)
  BY <1>1
<1>3. Siblings(t, S, bh, x, q, s, o)
  BY <1>1, <1>2, SidesSiblings
<1>4. /\ q \in S /\ o \in S /\ s \in Dirs /\ Opp(s) \in Dirs /\ Opp(Opp(s)) = s
      /\ o = t.kid[q][Opp(s)] /\ o # NULL /\ q # NULL /\ Typed(t) /\ S \subseteq Keys
      /\ (IsRed(t, o) => t.black[q]) /\ ~IsRed(t, x)
  BY <1>1, <1>3, SiblingNodes
<1>5. Recoloured(t, t2, {}, {o})
  BY <1>4, ReddenIs
<1>6. Typed(t2) /\ SamePointers(t, t2) /\ Tones(t, t2, {}, {o})
  BY <1>5 DEF Recoloured
<1>7. \E bh2 : Erasing(t2, S, bh2, q, t.parent[q])
  BY <1>1, <1>3, <1>6, EraseRecolourStep
<1>8. Shaped(t2, S, sub)
  BY <1>1, <1>6, SameShape
<1>9. {} \subseteq S \union {NULL} /\ {o} \subseteq S \union {NULL}
  BY <1>4
<1>10. \A m \in Keys \ S : t2.black[m] = t.black[m]
  BY <1>4, <1>6, <1>9, TonesWithin
<1>11. Within(t, t2, S)
  BY <1>6, <1>10, PointersWithin
<1>12. Outside(t2, S, v)
  BY <1>1, <1>11, WithinOutside
<1>13. ASSUME c # NULL PROVE Spine(S, sub, c) /\ Away(t2, sub, c, q, t.parent[q])
  <2>1. x # t.root
    BY DEF Sides
  <2>2. Spine(S, sub, c) /\ c \in S /\ (q \notin sub[c] \/ IsRed(t, q))
    BY <1>1, <1>4, <1>13, <2>1 DEF Away, Spine
  <2>3. CASE IsRed(t, q)
    <3>1. ~t.black[q] /\ q \in Keys
      BY <1>4, <2>3 DEF IsRed
    <3>2. ~t2.black[q]
      BY <1>6, <3>1 DEF Tones
    <3> QED
      BY <1>4, <2>2, <3>2 DEF Away, IsRed
  <2>4. CASE q \notin sub[c] /\ q = t.root
    BY <1>6, <2>2, <2>4 DEF Away, SamePointers
  <2>5. CASE q \notin sub[c] /\ q # t.root
    <3>1. PICK p : p = t.parent[q]
      OBVIOUS
    <3>2. p \in S /\ q = t.kid[p][Side(t, p, q)] /\ Side(t, p, q) \in Dirs
      BY <1>1, <1>4, <2>5, <3>1, ParentFacts
    <3>3. KidOf(t, S, sub, p, Side(t, p, q), q)
      BY <1>1, <1>4, <3>2, KidIs
    <3>4. q \in sub[p]
      BY <3>3 DEF KidOf
    <3>5. p \in sub[c] => sub[p] \subseteq sub[c]
      BY <1>1, <2>2, <3>2, Nested
    <3> QED
      BY <2>2, <2>5, <3>1, <3>4, <3>5 DEF Away
  <2> QED
    BY <2>2, <2>3, <2>4, <2>5
<1> QED
  BY <1>4, <1>7, <1>8, <1>12, <1>13 DEF EraseTree

\* The colours before the last rotation.
Pass(t, q, o, s) ==
    SetColour(SetColour(t, {o}, t.black[q]), {q, t.kid[o][Opp(s)]}, TRUE)

\* The fields after the last recolouring of __rb_erase_color.
LEMMA PassIs ==
    ASSUME NEW t, NEW S, NEW sub, Shaped(t, S, sub), NEW bh, NEW x, NEW q, NEW s, NEW o,
           Siblings(t, S, bh, x, q, s, o), NEW far, far = t.kid[o][Opp(s)],
           NEW w, w = Pass(t, q, o, s)
    PROVE  /\ Typed(w) /\ SamePointers(t, w) /\ Passed(t, w, q, o, far)
           /\ \A m \in Keys \ S : w.black[m] = t.black[m]
<1>1. /\ q \in S /\ o \in S /\ s \in Dirs /\ o # NULL /\ q # NULL /\ Typed(t) /\ S \subseteq Keys
  BY SiblingNodes
<1>2. PICK near : near = t.kid[o][s]
  OBVIOUS
<1>3. PICK h : h = bh[x]
  OBVIOUS
<1>4. Nephews(t, S, bh, x, q, s, o, near, far, h)
  BY <1>2, <1>3, NephewFacts
<1>5. o # q /\ far # o /\ far \in S \union {NULL}
  BY <1>4 DEF Nephews
<1>6. PICK b : b = t.black[q]
  OBVIOUS
<1>7. b \in BOOLEAN
  BY <1>1, <1>6 DEF Typed
<1>8. Painted(t, SetColour(SetColour(t, {o}, b), {q, far}, TRUE), {o}, b, {q, far}, TRUE)
  BY <1>1, <1>7, ColourTwice
<1>9. w = SetColour(SetColour(t, {o}, b), {q, far}, TRUE)
  BY <1>6 DEF Pass
<1>10. /\ Typed(w) /\ SamePointers(t, w)
       /\ \A m \in Keys : w.black[m] =
            IF m \in {q, far} THEN TRUE ELSE IF m \in {o} THEN b ELSE t.black[m]
  BY <1>8, <1>9 DEF Painted
<1>11. \A m \in Keys : w.black[m] <=> IF m = o THEN t.black[q] ELSE m \in {q, far} \/ t.black[m]
  BY <1>5, <1>6, <1>10
<1>12. ASSUME NEW m \in Keys \ S PROVE w.black[m] = t.black[m]
  <2>1. m \notin {q, far} /\ m \notin {o}
    BY <1>1, <1>5, KeysAssumption
  <2> QED
    BY <1>10, <2>1
<1> QED
  BY <1>10, <1>11, <1>12 DEF Passed

TurnPassed(t, q, o, s) == Rotate(Pass(t, q, o, s), q, s)

\* The last rotation.
LEMMA EraseOuterTree ==
    ASSUME NEW t, NEW S, NEW sub, Shaped(t, S, sub), NEW v, Outside(t, S, v),
           NEW bh, NEW x, NEW q, NEW s, NEW o, Siblings(t, S, bh, x, q, s, o), ~IsRed(t, o),
           IsRed(t, t.kid[o][Opp(s)]), NEW c, c # NULL => Spine(S, sub, c) /\ c # q,
           NEW t2, t2 = TurnPassed(t, q, o, s)
    PROVE  EraseTree(t2, S, v, t2.root, q, c)
<1>4. /\ q \in S /\ o \in S /\ s \in Dirs /\ Opp(s) \in Dirs /\ Opp(Opp(s)) = s
      /\ o = t.kid[q][Opp(s)] /\ o # NULL /\ q # NULL /\ Typed(t) /\ S \subseteq Keys
  BY SiblingNodes
<1>5. PICK far : far = t.kid[o][Opp(s)]
  OBVIOUS
<1>6. PICK w : w = Pass(t, q, o, s)
  OBVIOUS
<1>7. Typed(w) /\ SamePointers(t, w) /\ Passed(t, w, q, o, far)
      /\ \A m \in Keys \ S : w.black[m] = t.black[m]
  BY <1>5, <1>6, PassIs
<1>8. t2 = Rotate(w, q, s) /\ t.kid[q][Opp(s)] # NULL
  BY <1>4, <1>6 DEF TurnPassed
<1>9. PICK sub2 : sub2 = SubRotated(t, sub, q, s)
  OBVIOUS
<1>10. Typed(t2) /\ Rotated(t, t2, q, s) /\ t2.black = w.black /\ Shaped(t2, S, sub2)
  BY <1>4, <1>7, <1>8, <1>9, TurnFacts
<1>11. Passed(t, t2, q, o, far)
  BY <1>7, <1>10 DEF Passed
<1>12. \E bh2 : Balanced(t2, S, bh2)
  BY <1>5, <1>10, <1>11, EraseOuterStep
<1>13. PICK bh2 : Balanced(t2, S, bh2)
  BY <1>12
<1>14. Erasing(t2, S, bh2, t2.root, q)
  <2>1. Heights(t2, S, bh2, NULL, "left") /\ Reds(t2, S, NULL, NULL)
    BY <1>13 DEF Balanced
  <2>2. Reds(t2, S, t2.root, t2.root)
    BY <1>4, <2>1, KeysAssumption DEF Reds, IsRed
  <2> QED
    BY <2>1, <2>2 DEF Erasing, RootBlack
<1>15. \A m \in Keys \ S : t2.black[m] = t.black[m]
  BY <1>7, <1>10
<1>16. Within(t, t2, S)
  BY <1>4, <1>8, <1>10, <1>15, RotateWithin
<1>17. Outside(t2, S, v)
  BY <1>16, WithinOutside
<1>18. ASSUME c # NULL PROVE Spine(S, sub2, c) /\ Away(t2, sub2, c, t2.root, q)
  <2>1. Spine(S, sub, c) /\ c # q
    BY <1>18
  <2>2. Spine(S, sub2, c)
    BY <1>4, <1>8, <1>9, <2>1, RotateSpine
  <2> QED
    BY <2>2 DEF Away
<1> QED
  BY <1>10, <1>14, <1>17, <1>18 DEF EraseTree

\* A cursor that __rb_erase_color may not turn down is not at q.
LEMMA AwayCursor ==
    ASSUME NEW t, NEW S, NEW sub, Shaped(t, S, sub), NEW c, Spine(S, sub, c),
           NEW x, NEW q, Away(t, sub, c, x, q), ~IsRed(t, x), x # t.root
    PROVE  c # q
BY DEF Shaped, Below, Spine, Away

\* A round with a red far nephew.
LEMMA EraseFarTree ==
    ASSUME NEW t, NEW S, NEW v, NEW x, NEW q, NEW c, EraseTree(t, S, v, x, q, c),
           NEW s, NEW o, Sides(t, x, q, s, o), ~IsRed(t, o), IsRed(t, t.kid[o][Opp(s)]),
           NEW t2, t2 = TurnPassed(t, q, o, s)
    PROVE  EraseTree(t2, S, v, t2.root, q, c)
<1>1. PICK sub : /\ Shaped(t, S, sub) /\ Outside(t, S, v)
                 /\ \E bh : Erasing(t, S, bh, x, q)
                 /\ c # NULL => Spine(S, sub, c) /\ Away(t, sub, c, x, q)
  BY DEF EraseTree
<1>2. PICK bh : Erasing(t, S, bh, x, q)
  BY <1>1
<1>3. Siblings(t, S, bh, x, q, s, o)
  BY <1>1, <1>2, SidesSiblings
<1>4. ~IsRed(t, x) /\ x # t.root
  BY DEF Sides
<1>5. c # NULL => Spine(S, sub, c) /\ c # q
  BY <1>1, <1>4, AwayCursor
<1> QED
  BY <1>1, <1>3, <1>5, EraseOuterTree

\* The sibling comes down, the near nephew up.
TurnNear(t, near, o, s) == Rotate(BlackRed(t, {near}, {o}), o, Opp(s))
SibOf(t, q, s) == t.kid[q][Opp(s)]
NearIs(t, o, s, near) == near = t.kid[o][s]

\* A round with a red near nephew only.
LEMMA EraseNearTree ==
    ASSUME NEW t, NEW S, NEW v, NEW x, NEW q, NEW c, EraseTree(t, S, v, x, q, c),
           NEW s, NEW o, Sides(t, x, q, s, o), ~IsRed(t, o),
           NEW near, NearIs(t, o, s, near), IsRed(t, near), ~IsRed(t, t.kid[o][Opp(s)]),
           NEW t1, t1 = TurnNear(t, near, o, s),
           NEW t2, t2 = TurnPassed(t1, q, SibOf(t1, q, s), s)
    PROVE  EraseTree(t2, S, v, t2.root, q, c)
<1>1. PICK sub : /\ Shaped(t, S, sub) /\ Outside(t, S, v)
                 /\ \E bh : Erasing(t, S, bh, x, q)
                 /\ c # NULL => Spine(S, sub, c) /\ Away(t, sub, c, x, q)
  BY DEF EraseTree
<1>2. PICK bh : Erasing(t, S, bh, x, q)
  BY <1>1
<1>3. Siblings(t, S, bh, x, q, s, o)
  BY <1>1, <1>2, SidesSiblings
<1>4. /\ q \in S /\ o \in S /\ s \in Dirs /\ Opp(s) \in Dirs /\ Opp(Opp(s)) = s
      /\ o = t.kid[q][Opp(s)] /\ o # NULL /\ q # NULL /\ Typed(t) /\ S \subseteq Keys
  BY <1>1, <1>3, SiblingNodes
<1>5. t.kid[o][Opp(Opp(s))] # NULL /\ near # NULL /\ near \in S \union {NULL}
  <2>1. near # NULL /\ near = t.kid[o][s]
    BY DEF IsRed, NearIs
  <2>2. near \in S \union {NULL}
    BY <1>1, <1>4, <2>1 DEF Shaped, Below
  <2> QED
    BY <1>4, <2>1, <2>2
<1>6. PICK w : w = BlackRed(t, {near}, {o})
  OBVIOUS
<1>7. Recoloured(t, w, {near}, {o})
  BY <1>4, <1>6, BlackRedIs
<1>8. Typed(w) /\ SamePointers(t, w) /\ Tones(t, w, {near}, {o})
  BY <1>7 DEF Recoloured
<1>9. t1 = Rotate(w, o, Opp(s))
  BY <1>6 DEF TurnNear
<1>10. PICK sub1 : sub1 = SubRotated(t, sub, o, Opp(s))
  OBVIOUS
<1>11. Typed(t1) /\ Rotated(t, t1, o, Opp(s)) /\ t1.black = w.black /\ Shaped(t1, S, sub1)
  BY <1>1, <1>4, <1>5, <1>8, <1>9, <1>10, TurnFacts
<1>12. Tones(t, t1, {near}, {o})
  BY <1>8, <1>11 DEF Tones
<1>13. /\ \E bh2 : Siblings(t1, S, bh2, x, q, s, near)
       /\ ~IsRed(t1, near) /\ t1.kid[near][Opp(s)] = o /\ IsRed(t1, o)
  BY <1>1, <1>3, <1>11, <1>12, EraseInnerStep DEF NearIs
<1>14. PICK bh2 : Siblings(t1, S, bh2, x, q, s, near)
  BY <1>13
<1>15. near = SibOf(t1, q, s)
  BY <1>14 DEF Siblings, SibOf
<1>16. {near} \subseteq S \union {NULL} /\ {o} \subseteq S \union {NULL}
  BY <1>4, <1>5
<1>17. \A m \in Keys \ S : t1.black[m] = t.black[m]
  BY <1>4, <1>11, <1>12, <1>16, TonesWithin
<1>18. Within(t, t1, S)
  BY <1>1, <1>4, <1>5, <1>11, <1>17, RotateWithin
<1>19. Outside(t1, S, v)
  BY <1>1, <1>18, WithinOutside
<1>20. ASSUME c # NULL PROVE Spine(S, sub1, c) /\ c # q
  <2>1. ~IsRed(t, x) /\ x # t.root
    BY DEF Sides
  <2>2. Spine(S, sub, c) /\ c # q
    BY <1>1, <1>20, <2>1, AwayCursor
  <2>3. ASSUME c = o PROVE Opp(s) = "left"
    <3>1. KidOf(t, S, sub, q, Opp(s), o)
      BY <1>1, <1>4, KidIs
    <3>2. q \notin sub[o] /\ On(Opp(s), o, q)
      BY <3>1 DEF KidOf
    <3>3. ~(q < o)
      BY <1>4, <2>2, <2>3, <3>2 DEF Spine
    <3>4. Opp(s) # "right"
      BY <1>4, <3>2, <3>3, OnLess
    <3> QED
      BY <3>4 DEF Opp
  <2>4. Spine(S, sub1, c)
    BY <1>1, <1>4, <1>5, <1>10, <2>2, <2>3, RotateSpine
  <2> QED
    BY <2>2, <2>4
<1>21. t2 = TurnPassed(t1, q, near, s) /\ IsRed(t1, t1.kid[near][Opp(s)])
  BY <1>13, <1>15
<1> QED
  BY <1>11, <1>13, <1>14, <1>19, <1>20, <1>21, EraseOuterTree

\* The end of rb_erase after rounds: the last node is made black and the
\* erased one freed.
LEMMA EraseDoneTree ==
    ASSUME NEW t, NEW S, NEW v \in Keys \ S, NEW x, NEW q, NEW c, EraseTree(t, S, v, x, q, c),
           IsRed(t, x) \/ x = t.root, NEW t1, t1 = Blacken(t, {x}), NEW t2, t2 = Reset(t1, v)
    PROVE  IdleTree(t2, S, c)
<1>1. PICK sub : /\ Shaped(t, S, sub) /\ Outside(t, S, v)
                 /\ \E bh : Erasing(t, S, bh, x, q)
                 /\ c # NULL => Spine(S, sub, c) /\ Away(t, sub, c, x, q)
  BY DEF EraseTree
<1>2. PICK bh : Erasing(t, S, bh, x, q)
  BY <1>1
<1>3. Typed(t)
  BY <1>1 DEF Shaped
<1>4. Recoloured(t, t1, {x}, {})
  BY <1>3, BlackenIs
<1>5. Typed(t1) /\ SamePointers(t, t1) /\ Tones(t, t1, {x}, {})
  BY <1>4 DEF Recoloured
<1>6. \E bh2 : Balanced(t1, S, bh2)
  BY <1>1, <1>2, <1>5, EraseDoneStep
<1>7. PICK bh2 : Balanced(t1, S, bh2)
  BY <1>6
<1>8. Shaped(t1, S, sub)
  BY <1>1, <1>5, SameShape
<1>9. x \in S \union {NULL}
  <2>1. x = t.root \/ (q \in S /\ \E e \in Dirs : t.kid[q][e] = x)
    BY <1>2 DEF Erasing
  <2> QED
    BY <1>1, <2>1 DEF Shaped, Below
<1>10. {x} \subseteq S \union {NULL} /\ {} \subseteq S \union {NULL}
  BY <1>9
<1>11. \A m \in Keys \ S : t1.black[m] = t.black[m]
  BY <1>3, <1>5, <1>10, TonesWithin
<1>12. Within(t, t1, S)
  BY <1>5, <1>11, PointersWithin
<1>13. Outside(t1, S, v)
  BY <1>1, <1>12, WithinOutside
<1>14. Shaped(t2, S, sub) /\ Balanced(t2, S, bh2) /\ Outside(t2, S, NULL)
  BY <1>7, <1>8, <1>13, ResetStep
<1> QED
  BY <1>1, <1>14 DEF IdleTree

\* The same without rounds.
LEMMA FreeDoneTree ==
    ASSUME NEW t, NEW S, NEW v \in Keys \ S, NEW c, FreeTree(t, S, v, c),
           NEW t1, t1 = Blacken(t, {NULL}), NEW t2, t2 = Reset(t1, v)
    PROVE  IdleTree(t2, S, c)
<1>1. PICK sub : /\ Shaped(t, S, sub) /\ Outside(t, S, v)
                 /\ \E bh : Balanced(t, S, bh)
                 /\ c # NULL => Spine(S, sub, c)
  BY DEF FreeTree
<1>2. PICK bh : Balanced(t, S, bh)
  BY <1>1
<1>3. Typed(t) /\ S \subseteq Keys
  BY <1>1 DEF Shaped, Below
<1>4. Recoloured(t, t1, {NULL}, {})
  BY <1>3, BlackenIs
<1>5. Typed(t1) /\ SamePointers(t, t1) /\ Tones(t, t1, {NULL}, {})
  BY <1>4 DEF Recoloured
<1>6. {NULL} \subseteq {} \union {NULL} /\ {} \subseteq {} \union {NULL}
  OBVIOUS
<1>7. \A m \in Keys \ {} : t1.black[m] = t.black[m]
  BY <1>3, <1>5, <1>6, TonesWithin
<1>8. \A m \in Keys : t1.black[m] = t.black[m]
  BY <1>7
<1>9. SameOn(t, t1, S)
  BY <1>3, <1>5, <1>8 DEF SameOn, SamePointers
<1>10. Shaped(t1, S, sub) /\ Balanced(t1, S, bh)
  BY <1>1, <1>2, <1>9, SameNodes
<1>11. Within(t, t1, S)
  BY <1>5, <1>8, PointersWithin
<1>12. Outside(t1, S, v)
  BY <1>1, <1>11, WithinOutside
<1>13. Shaped(t2, S, sub) /\ Balanced(t2, S, bh) /\ Outside(t2, S, NULL)
  BY <1>10, <1>12, ResetStep
<1> QED
  BY <1>1, <1>13 DEF IdleTree

-----------------------------------------------------------------------------
(* The inductive invariant *)

\* What the tree is in each phase, between two rounds.
Phase(t, A, p, x, q, v, c) ==
    /\ A \subseteq Keys
    /\ \/ p = "idle" /\ x = NULL /\ q = NULL /\ v = NULL /\ IdleTree(t, A, c)
       \/ p = "insert" /\ q = NULL /\ v = NULL /\ c = NULL /\ InsertTree(t, A, x)
       \/ p = "erase" /\ q \in Ptr /\ v \in A /\ EraseTree(t, A \ {v}, v, x, q, c)
       \/ p = "free" /\ x = NULL /\ q = NULL /\ v \in A /\ FreeTree(t, A \ {v}, v, c)

\* The walk: it rebalances only after a hit, and one that ends without a hit
\* has seen that nothing is due.
WalkInv ==
    /\ walking \in BOOLEAN /\ t_diff \in Keys \union {0} /\ hit \in BOOLEAN
    /\ ~walking => cursor = NULL
    /\ pc = "insert" => ~walking
    /\ walking /\ pc # "idle" => hit
    /\ walking /\ cursor = NULL /\ ~hit => \A k \in alloc : k > t_diff

IInv == Phase(tree, alloc, pc, node, parent, victim, cursor) /\ WalkInv

\* In every phase the nodes of the tree are those that rb_search finds.
PhaseTree(t, S, x, c, v) ==
    \E sub : /\ Shaped(t, S, sub) /\ Outside(t, S, v) /\ x \in S \union {NULL}
             /\ c # NULL => Spine(S, sub, c)

\* In every phase the nodes that are not being erased form a search tree.
LEMMA PhaseTreeIs ==
    ASSUME NEW t, NEW A, NEW p, NEW x, NEW q, NEW v, NEW c, Phase(t, A, p, x, q, v, c)
    PROVE  PhaseTree(t, A \ {v}, x, c, v)
<1>1. A \subseteq Keys /\ NULL \notin A
  BY KeysAssumption DEF Phase
<1>2. CASE p = "idle"
  <2>1. x = NULL /\ v = NULL /\ IdleTree(t, A, c)
    BY <1>2 DEF Phase
  <2>2. A \ {v} = A
    BY <1>1, <2>1
  <2> QED
    BY <2>1, <2>2 DEF IdleTree, PhaseTree
<1>3. CASE p = "insert"
  <2>1. c = NULL /\ v = NULL /\ InsertTree(t, A, x)
    BY <1>3 DEF Phase
  <2>2. A \ {v} = A
    BY <1>1, <2>1
  <2>3. x \in A
    BY <2>1 DEF InsertTree, Inserting
  <2> QED
    BY <2>1, <2>2, <2>3 DEF InsertTree, PhaseTree
<1>4. CASE p = "erase"
  <2>1. EraseTree(t, A \ {v}, v, x, q, c)
    BY <1>4 DEF Phase
  <2>2. PICK S : S = A \ {v}
    OBVIOUS
  <2>3. PICK sub : /\ Shaped(t, S, sub) /\ Outside(t, S, v)
                   /\ \E bh : Erasing(t, S, bh, x, q)
                   /\ c # NULL => Spine(S, sub, c) /\ Away(t, sub, c, x, q)
    BY <2>1, <2>2 DEF EraseTree
  <2>4. x = t.root \/ (q \in S /\ \E e \in Dirs : t.kid[q][e] = x)
    BY <2>3 DEF Erasing
  <2>5. x \in S \union {NULL}
    BY <2>3, <2>4 DEF Shaped, Below
  <2> QED
    BY <2>2, <2>3, <2>5 DEF PhaseTree
<1>5. CASE p = "free"
  <2>1. x = NULL /\ FreeTree(t, A \ {v}, v, c)
    BY <1>5 DEF Phase
  <2> QED
    BY <2>1 DEF FreeTree, PhaseTree
<1> QED
  BY <1>2, <1>3, <1>4, <1>5 DEF Phase

\* In every phase rb_search finds exactly the nodes that are not being erased.
LEMMA PhaseSearch ==
    ASSUME NEW t, NEW A, NEW p, NEW x, NEW q, NEW v, NEW c, Phase(t, A, p, x, q, v, c)
    PROVE  \A k \in Keys : rb_search(t, k) = IF k \in A \ {v} THEN k ELSE NULL
<1>1. PICK S : S = A \ {v}
  OBVIOUS
<1>2. PhaseTree(t, S, x, c, v)
  BY <1>1, PhaseTreeIs
<1>3. PICK sub : Shaped(t, S, sub) /\ Outside(t, S, v)
  BY <1>2 DEF PhaseTree
<1>4. \A k \in Keys : rb_search(t, k) = IF k \in S THEN k ELSE NULL
  BY <1>3, SearchIs
<1> QED
  BY <1>1, <1>4

\* The types that the phases imply.
LEMMA PhaseTypes ==
    ASSUME NEW t, NEW A, NEW p, NEW x, NEW q, NEW v, NEW c, Phase(t, A, p, x, q, v, c)
    PROVE  /\ Typed(t) /\ A \subseteq Keys /\ p \in {"idle", "insert", "erase", "free"}
           /\ x \in Ptr /\ q \in Ptr /\ v \in Ptr /\ c \in Ptr
           /\ c # NULL => c \in A \ {v}
<1>1. PICK S : S = A \ {v}
  OBVIOUS
<1>2. PhaseTree(t, S, x, c, v)
  BY <1>1, PhaseTreeIs
<1>3. PICK sub : /\ Shaped(t, S, sub) /\ x \in S \union {NULL}
                 /\ c # NULL => Spine(S, sub, c)
  BY <1>2 DEF PhaseTree
<1>4. Typed(t) /\ S \subseteq Keys
  BY <1>3 DEF Shaped, Below
<1>5. c # NULL => c \in S
  BY <1>3 DEF Spine
<1>6. /\ A \subseteq Keys /\ p \in {"idle", "insert", "erase", "free"}
      /\ q \in Ptr /\ v \in Ptr
  BY DEF Phase, Ptr
<1> QED
  BY <1>1, <1>3, <1>4, <1>5, <1>6 DEF Ptr

\* The types of the state.
LEMMA IInvType ==
    IInv => TypeOK
<1>1. SUFFICES ASSUME IInv PROVE TypeOK
  OBVIOUS
<1>2. Phase(tree, alloc, pc, node, parent, victim, cursor) /\ WalkInv
  BY <1>1 DEF IInv
<1>3. /\ Typed(tree) /\ alloc \subseteq Keys /\ pc \in {"idle", "insert", "erase", "free"}
      /\ node \in Ptr /\ parent \in Ptr /\ victim \in Ptr /\ cursor \in Ptr
  BY <1>2, PhaseTypes
<1>4. walking \in BOOLEAN /\ t_diff \in Keys \union {0} /\ hit \in BOOLEAN
  BY <1>2 DEF WalkInv
<1> QED
  BY <1>3, <1>4 DEF TypeOK, Typed

\* The empty tree.
LEMMA IInvInit ==
    Init => IInv
<1>1. SUFFICES ASSUME Init PROVE IInv
  OBVIOUS
<1>2. PICK t : t = tree
  OBVIOUS
<1>3. /\ t.root = NULL /\ t.kid = [n \in Keys |-> Blank]
      /\ t.parent = [n \in Keys |-> NULL] /\ t.black = [n \in Keys |-> FALSE]
      /\ t = [root |-> t.root, kid |-> t.kid, parent |-> t.parent, black |-> t.black]
  BY <1>1, <1>2 DEF Init
<1>4. NULL \in Ptr /\ Blank \in [Dirs -> Ptr]
  BY DEF Ptr, Blank
<1>5. /\ t.root \in Ptr /\ t.kid \in [Keys -> [Dirs -> Ptr]]
      /\ t.parent \in [Keys -> Ptr] /\ t.black \in [Keys -> BOOLEAN]
  BY <1>3, <1>4
<1>6. Typed(t)
  BY <1>3, <1>5 DEF Typed
<1>7. PICK sub : sub = [m \in {} |-> {}]
  OBVIOUS
<1>8. IsFiniteSet({})
  BY FS_EmptySet
<1>9. Below(t, {}, sub) /\ Links(t, {})
  BY <1>3, <1>7, <1>8 DEF Below, Links, Under
<1>10. Shaped(t, {}, sub)
  BY <1>6, <1>9 DEF Shaped
<1>11. Outside(t, {}, NULL)
  <2>1. \A m \in Keys : t.kid[m] = Blank /\ t.parent[m] = NULL /\ t.black[m] = FALSE
    BY <1>3
  <2>2. \A d \in Dirs : Blank[d] = NULL
    BY DEF Blank
  <2> QED
    BY <2>1, <2>2 DEF Outside
<1>12. PICK bh : bh = [m \in {NULL} |-> 0]
  OBVIOUS
<1>13. Balanced(t, {}, bh)
  <2>1. bh \in [{} \union {NULL} -> Nat] /\ bh[NULL] = 0
    BY <1>12
  <2>2. Heights(t, {}, bh, NULL, "left")
    BY <2>1 DEF Heights
  <2> QED
    BY <1>3, <2>2 DEF Balanced, Reds, RootBlack, IsRed
<1>14. IdleTree(t, {}, NULL)
  BY <1>10, <1>11, <1>13 DEF IdleTree
<1>15. Phase(tree, alloc, pc, node, parent, victim, cursor)
  BY <1>1, <1>2, <1>14 DEF Phase, Init
<1>16. WalkInv
  BY <1>1 DEF Init, WalkInv
<1> QED
  BY <1>15, <1>16 DEF IInv

-----------------------------------------------------------------------------
(* One step per action *)

\* The state that an invariant state idles in.
LEMMA IdleFacts ==
    ASSUME IInv, pc = "idle"
    PROVE  /\ node = NULL /\ parent = NULL /\ victim = NULL /\ alloc \subseteq Keys
           /\ IdleTree(tree, alloc, cursor)
BY DEF IInv, Phase

\* obj_sched_expire: a deadline without a node gets one.
LEMMA SchedStep ==
    ASSUME IInv, NEW k \in Keys, Sched(k)
    PROVE  IInv'
<1>1. pc = "idle" /\ ~walking /\ UNCHANGED <<walking, cursor, t_diff, hit>>
  BY DEF Sched, walkVars
<1>2. Phase(tree, alloc, pc, node, parent, victim, cursor) /\ WalkInv
  BY DEF IInv
<1>3. /\ node = NULL /\ parent = NULL /\ victim = NULL /\ alloc \subseteq Keys
      /\ IdleTree(tree, alloc, cursor) /\ cursor = NULL
  BY <1>1, <1>2, IdleFacts DEF WalkInv
<1>4. CASE rb_search(tree, k) # NULL
  <2>1. UNCHANGED <<tree, alloc, pc, node, parent, victim>>
    BY <1>4 DEF Sched, loopVars
  <2> QED
    BY <1>1, <1>2, <2>1 DEF IInv, WalkInv
<1>5. CASE rb_search(tree, k) = NULL
  <2>1. /\ tree' = LET p  == Above(tree, k)
                       t1 == [tree EXCEPT !.parent[k] = p]
                   IN  IF p = NULL THEN [t1 EXCEPT !.root = k]
                       ELSE [t1 EXCEPT !.kid[p][Toward(k, p)] = k]
        /\ alloc' = alloc \union {k} /\ pc' = "insert" /\ node' = k
        /\ parent' = parent /\ victim' = victim
    BY <1>5 DEF Sched
  <2>2. tree' = Hang(tree, k, Above(tree, k))
    BY <2>1 DEF Hang
  <2>3. k \notin alloc
    <3>1. rb_search(tree, k) = IF k \in alloc \ {victim} THEN k ELSE NULL
      BY <1>2, PhaseSearch
    <3> QED
      BY <1>3, <1>5, <3>1, KeysAssumption
  <2>4. InsertTree(Hang(tree, k, Above(tree, k)), alloc \union {k}, k)
    BY <1>3, <2>3, HangTree
  <2>5. InsertTree(tree', alloc', node')
    BY <2>1, <2>2, <2>4
  <2>6. Phase(tree', alloc', pc', node', parent', victim', cursor')
    BY <1>1, <1>3, <2>1, <2>5 DEF Phase
  <2>7. WalkInv'
    BY <1>1, <1>2, <2>1 DEF WalkInv
  <2> QED
    BY <2>6, <2>7 DEF IInv
<1> QED
  BY <1>4, <1>5

\* The loop of rb_insert_color.
LEMMA InsertFactsNow ==
    ASSUME IInv, pc = "insert"
    PROVE  /\ parent = NULL /\ victim = NULL /\ cursor = NULL /\ alloc \subseteq Keys
           /\ ~walking /\ InsertTree(tree, alloc, node) /\ WalkInv
BY DEF IInv, Phase, WalkInv

\* The nodes that a round of rb_insert_color names.
LEMMA InsertKin ==
    ASSUME InsertLoops
    PROVE  Kin(tree, node, Father, Grand, FSide, Uncle)
BY DEF InsertLoops, Kin, Father, Grand, FSide, Uncle

\* A step within the loop.
LEMMA InsertKeeps ==
    ASSUME IInv, pc = "insert", InsertTree(tree', alloc, node'),
           UNCHANGED <<alloc, pc, parent, victim, walkVars>>
    PROVE  IInv'
<1>1. /\ parent = NULL /\ victim = NULL /\ cursor = NULL /\ alloc \subseteq Keys
      /\ ~walking /\ WalkInv
  BY InsertFactsNow
<1>2. /\ alloc' = alloc /\ pc' = pc /\ parent' = parent /\ victim' = victim
      /\ walking' = walking /\ cursor' = cursor /\ t_diff' = t_diff /\ hit' = hit
  BY DEF walkVars
<1>3. InsertTree(tree', alloc', node')
  BY <1>2
<1>4. Phase(tree', alloc', pc', node', parent', victim', cursor')
  BY <1>1, <1>2, <1>3 DEF Phase
<1>5. WalkInv'
  BY <1>1, <1>2 DEF WalkInv
<1> QED
  BY <1>4, <1>5 DEF IInv

\* A round of rb_insert_color with a red uncle.
LEMMA InsertRecolourIInv ==
    ASSUME IInv, InsertRecolour
    PROVE  IInv'
<1>1. /\ InsertLoops /\ IsRed(tree, Uncle) /\ node' = Grand
      /\ tree' = SetColour(SetColour(tree, {Uncle, Father}, TRUE), {Grand}, FALSE)
      /\ UNCHANGED <<alloc, pc, parent, victim, walkVars>>
  BY DEF InsertRecolour
<1>2. pc = "insert"
  BY <1>1 DEF InsertLoops
<1>3. InsertTree(tree, alloc, node)
  BY <1>2, InsertFactsNow
<1>4. Kin(tree, node, Father, Grand, FSide, Uncle)
  BY <1>1, InsertKin
<1>5. tree' = Lift(tree, Uncle, Father, Grand)
  BY <1>1 DEF Lift, BlackRed
<1>6. InsertTree(Lift(tree, Uncle, Father, Grand), alloc, Grand)
  BY <1>1, <1>3, <1>4, InsertRecolourTree
<1>7. InsertTree(tree', alloc, node')
  BY <1>1, <1>5, <1>6
<1> QED
  BY <1>1, <1>2, <1>7, InsertKeeps

\* The last round of rb_insert_color.
LEMMA InsertRotateIInv ==
    ASSUME IInv, InsertRotate
    PROVE  IInv'
<1>1. InsertLoops /\ ~IsRed(tree, Uncle) /\ UNCHANGED <<alloc, pc, parent, victim, walkVars>>
  BY DEF InsertRotate
<1>2. pc = "insert"
  BY <1>1 DEF InsertLoops
<1>3. InsertTree(tree, alloc, node)
  BY <1>2, InsertFactsNow
<1>4. Kin(tree, node, Father, Grand, FSide, Uncle)
  BY <1>1, InsertKin
<1>5. CASE Inner(tree, node, Father, FSide)
  <2>1. tree.kid[Father][Opp(FSide)] = node
    BY <1>5 DEF Inner
  <2>2. /\ tree' = Rotate(SetColour(SetColour(Rotate(tree, Father, FSide), {node}, TRUE),
                                    {Grand}, FALSE), Grand, Opp(FSide))
        /\ node' = Father
    BY <2>1 DEF InsertRotate
  <2>3. tree' = TurnUp(Rotate(tree, Father, FSide), node, Grand, FSide)
    BY <2>2 DEF TurnUp, BlackRed
  <2>4. InsertTree(TurnUp(Rotate(tree, Father, FSide), node, Grand, FSide), alloc, Father)
    BY <1>1, <1>3, <1>4, <1>5, InsertInnerTree
  <2>5. InsertTree(tree', alloc, node')
    BY <2>2, <2>3, <2>4
  <2> QED
    BY <1>1, <1>2, <2>5, InsertKeeps
<1>6. CASE ~Inner(tree, node, Father, FSide)
  <2>1. tree.kid[Father][Opp(FSide)] # node
    BY <1>6 DEF Inner
  <2>2. /\ tree' = Rotate(SetColour(SetColour(tree, {Father}, TRUE), {Grand}, FALSE),
                          Grand, Opp(FSide))
        /\ node' = node
    BY <2>1 DEF InsertRotate
  <2>3. tree' = TurnUp(tree, Father, Grand, FSide)
    BY <2>2 DEF TurnUp, BlackRed
  <2>4. InsertTree(TurnUp(tree, Father, Grand, FSide), alloc, node)
    BY <1>1, <1>3, <1>4, <1>6, InsertOuterOnlyTree
  <2>5. InsertTree(tree', alloc, node')
    BY <2>2, <2>3, <2>4
  <2> QED
    BY <1>1, <1>2, <2>5, InsertKeeps
<1> QED
  BY <1>5, <1>6

\* The end of rb_insert_color: the root is black.
LEMMA InsertDoneIInv ==
    ASSUME IInv, InsertDone
    PROVE  IInv'
<1>1. /\ pc = "insert" /\ ~IsRed(tree, Father)
      /\ tree' = SetColour(tree, {tree.root}, TRUE) /\ pc' = "idle" /\ node' = NULL
      /\ alloc' = alloc /\ parent' = parent /\ victim' = victim
      /\ walking' = walking /\ cursor' = cursor /\ t_diff' = t_diff /\ hit' = hit
  BY DEF InsertDone, walkVars
<1>2. /\ parent = NULL /\ victim = NULL /\ cursor = NULL /\ alloc \subseteq Keys
      /\ ~walking /\ InsertTree(tree, alloc, node) /\ WalkInv
  BY <1>1, InsertFactsNow
<1>3. ~IsRed(tree, tree.parent[node])
  BY <1>1 DEF Father
<1>4. tree' = Blacken(tree, {tree.root})
  BY <1>1 DEF Blacken
<1>5. IdleTree(Blacken(tree, {tree.root}), alloc, NULL)
  BY <1>2, <1>3, InsertDoneTree
<1>6. IdleTree(tree', alloc', cursor')
  BY <1>1, <1>2, <1>4, <1>5
<1>7. Phase(tree', alloc', pc', node', parent', victim', cursor')
  BY <1>1, <1>2, <1>6 DEF Phase
<1>8. WalkInv'
  BY <1>1, <1>2 DEF WalkInv
<1> QED
  BY <1>7, <1>8 DEF IInv

\* rb_erase begins, from possibly_node_free or from the walk.
LEMMA EraseBegins ==
    ASSUME IInv, pc = "idle", NEW k \in alloc, Erase(k), alloc' = alloc,
           GoesOn(tree, k, cursor, cursor')
    PROVE  /\ Phase(tree', alloc', pc', node', parent', victim', cursor')
           /\ pc' \in {"erase", "free"}
<1>1. /\ node = NULL /\ parent = NULL /\ victim = NULL /\ alloc \subseteq Keys
      /\ IdleTree(tree, alloc, cursor)
  BY IdleFacts
<1>2. PICK w : w = Unlink(tree, k)
  OBVIOUS
<1>3. PICK c2 : c2 = cursor'
  OBVIOUS
<1>4. GoesOn(tree, k, cursor, c2)
  BY <1>3
<1>5. /\ w.parent \in Ptr /\ w.black \in BOOLEAN
      /\ w.black => EraseTree(w.tree, alloc \ {k}, k, w.child, w.parent, c2)
      /\ ~w.black => FreeTree(w.tree, alloc \ {k}, k, c2)
  BY <1>1, <1>2, <1>4, UnlinkTree
<1>6. tree' = w.tree /\ victim' = k
  BY <1>2 DEF Erase
<1>7. CASE w.black
  <2>1. pc' = "erase" /\ node' = w.child /\ parent' = w.parent
    BY <1>2, <1>7 DEF Erase
  <2>2. EraseTree(tree', alloc' \ {victim'}, victim', node', parent', cursor')
    BY <1>3, <1>5, <1>6, <1>7, <2>1
  <2> QED
    BY <1>1, <1>5, <1>6, <2>1, <2>2 DEF Phase
<1>8. CASE ~w.black
  <2>1. pc' = "free" /\ node' = node /\ parent' = parent
    BY <1>2, <1>8 DEF Erase
  <2>2. FreeTree(tree', alloc' \ {victim'}, victim', cursor')
    BY <1>3, <1>5, <1>6, <1>8, <2>1
  <2> QED
    BY <1>1, <1>6, <2>1, <2>2 DEF Phase
<1> QED
  BY <1>7, <1>8

\* possibly_node_free outside a walk.
LEMMA FreeStep ==
    ASSUME IInv, NEW k \in Keys, Free(k)
    PROVE  IInv'
<1>1. /\ pc = "idle" /\ ~walking /\ k \in alloc /\ Erase(k) /\ alloc' = alloc
      /\ walking' = walking /\ cursor' = cursor /\ t_diff' = t_diff /\ hit' = hit
  BY DEF Free, walkVars
<1>2. WalkInv /\ cursor = NULL
  BY <1>1 DEF IInv, WalkInv
<1>3. GoesOn(tree, k, cursor, cursor')
  BY <1>1, <1>2 DEF GoesOn
<1>4. Phase(tree', alloc', pc', node', parent', victim', cursor') /\ pc' \in {"erase", "free"}
  BY <1>1, <1>3, EraseBegins
<1>5. WalkInv'
  BY <1>1, <1>2, <1>4 DEF WalkInv
<1> QED
  BY <1>4, <1>5 DEF IInv

\* The walk goes on to the left child of a node that is not due.
LEMMA StepLeft ==
    ASSUME NEW t, NEW S, NEW n, IdleTree(t, S, n), n # NULL, NEW c, c = t.kid[n]["left"]
    PROVE  n \in S /\ IdleTree(t, S, c) /\ (c = NULL => \A k \in S : ~(k < n))
<1>1. PICK sub : /\ Shaped(t, S, sub) /\ Outside(t, S, NULL)
                 /\ \E bh : Balanced(t, S, bh)
                 /\ n # NULL => Spine(S, sub, n)
  BY DEF IdleTree
<1>2. Spine(S, sub, n) /\ n \in S
  BY <1>1 DEF Spine
<1>3. c # NULL => Spine(S, sub, c)
  BY <1>1, <1>2, LeftSpine
<1>4. IdleTree(t, S, c)
  BY <1>1, <1>3 DEF IdleTree
<1>5. ASSUME c = NULL, NEW k \in S, k < n PROVE FALSE
  <2>1. k \in sub[n]
    BY <1>2, <1>5 DEF Spine
  <2>2. S \subseteq Keys /\ "left" \in Dirs
    BY <1>1 DEF Shaped, Below, Dirs
  <2>3. Under(sub, c) = Part(sub[n], n, "left")
    BY <1>1, <1>2, <2>2 DEF Shaped, Below
  <2>4. On("left", k, n)
    BY <1>2, <1>5, <2>2, OnLess
  <2> QED
    BY <1>5, <2>1, <2>3, <2>4 DEF Under, Part
<1> QED
  BY <1>2, <1>4, <1>5

\* A step of the cleaner's walk: erase the node, or go left.
LEMMA WalkStepIInv ==
    ASSUME IInv, WalkStep
    PROVE  IInv'
<1>1. /\ pc = "idle" /\ walking /\ cursor # NULL
      /\ cursor' = tree.kid[cursor]["left"]
      /\ alloc' = alloc /\ walking' = walking /\ t_diff' = t_diff
  BY DEF WalkStep
<1>2. /\ node = NULL /\ parent = NULL /\ victim = NULL /\ alloc \subseteq Keys
      /\ IdleTree(tree, alloc, cursor)
  BY <1>1, IdleFacts
<1>3. WalkInv
  BY DEF IInv
<1>4. PICK c2 : c2 = cursor'
  OBVIOUS
<1>5. cursor \in alloc /\ IdleTree(tree, alloc, c2) /\ (c2 = NULL => \A k \in alloc : ~(k < cursor))
  BY <1>1, <1>2, <1>4, StepLeft
<1>6. CASE cursor <= t_diff
  <2>1. Erase(cursor)
    BY <1>6 DEF WalkStep
  <2>2. hit' = TRUE
    BY <1>6 DEF WalkStep
  <2>3. GoesOn(tree, cursor, cursor, cursor')
    BY <1>1 DEF GoesOn
  <2>4. Phase(tree', alloc', pc', node', parent', victim', cursor') /\ pc' \in {"erase", "free"}
    BY <1>1, <1>5, <2>1, <2>3, EraseBegins
  <2>5. WalkInv'
    BY <1>1, <1>3, <2>2, <2>4 DEF WalkInv
  <2> QED
    BY <2>4, <2>5 DEF IInv
<1>7. CASE ~(cursor <= t_diff)
  <2>1. tree' = tree /\ pc' = pc /\ node' = node /\ parent' = parent /\ victim' = victim
    BY <1>7 DEF WalkStep, loopVars
  <2>2. hit' = hit
    <3>1. hit' = (hit \/ cursor <= t_diff) /\ hit \in BOOLEAN
      BY <1>3 DEF WalkStep, WalkInv
    <3> QED
      BY <1>7, <3>1
  <2>3. IdleTree(tree', alloc', cursor')
    BY <1>1, <1>4, <1>5, <2>1
  <2>4. Phase(tree', alloc', pc', node', parent', victim', cursor')
    BY <1>1, <1>2, <2>1, <2>3 DEF Phase
  <2>5. c2 = NULL => \A k \in alloc : k > t_diff
    <3>1. ASSUME NEW k \in alloc, ~(k < cursor) PROVE k > t_diff
      <4>1. k \in Nat /\ cursor \in Nat /\ t_diff \in Nat
        BY <1>2, <1>3, <1>5, KeysAssumption DEF WalkInv
      <4> QED
        BY <1>7, <3>1, <4>1
    <3> QED
      BY <1>5, <3>1
  <2>6. WalkInv'
    BY <1>1, <1>3, <1>4, <2>1, <2>2, <2>5 DEF WalkInv
  <2> QED
    BY <2>4, <2>6 DEF IInv
<1> QED
  BY <1>6, <1>7

\* The walk begins at the root, which has every node below it.
LEMMA WalkBeginStep ==
    ASSUME IInv, NEW k \in Keys, WalkBegin(k)
    PROVE  IInv'
<1>1. /\ pc = "idle" /\ ~walking
      /\ walking' = TRUE /\ t_diff' = k /\ cursor' = tree.root /\ hit' = FALSE
      /\ tree' = tree /\ alloc' = alloc /\ pc' = pc /\ node' = node /\ parent' = parent /\ victim' = victim
  BY DEF WalkBegin, loopVars
<1>2. /\ node = NULL /\ parent = NULL /\ victim = NULL /\ alloc \subseteq Keys
      /\ IdleTree(tree, alloc, cursor)
  BY <1>1, IdleFacts
<1>3. PICK sub : /\ Shaped(tree, alloc, sub) /\ Outside(tree, alloc, NULL)
                 /\ \E bh : Balanced(tree, alloc, bh)
  BY <1>2 DEF IdleTree
<1>4. PICK r : r = tree.root
  OBVIOUS
<1>5. r \in alloc \union {NULL} /\ Under(sub, r) = alloc
  BY <1>3, <1>4 DEF Shaped, Below
<1>6. r # NULL => Spine(alloc, sub, r)
  BY <1>5 DEF Spine, Under
<1>7. IdleTree(tree, alloc, r)
  BY <1>3, <1>6 DEF IdleTree
<1>8. IdleTree(tree', alloc', cursor')
  BY <1>1, <1>4, <1>7
<1>9. Phase(tree', alloc', pc', node', parent', victim', cursor')
  BY <1>1, <1>2, <1>8 DEF Phase
<1>10. r = NULL => alloc = {}
  BY <1>5 DEF Under
<1>11. WalkInv'
  BY <1>1, <1>4, <1>10 DEF WalkInv
<1> QED
  BY <1>9, <1>11 DEF IInv

\* The end of the walk.
LEMMA WalkEndStep ==
    ASSUME IInv, WalkEnd
    PROVE  IInv'
<1>1. /\ pc = "idle" /\ walking /\ cursor = NULL
      /\ walking' = FALSE /\ t_diff' = 0 /\ hit' = FALSE
      /\ tree' = tree /\ alloc' = alloc /\ cursor' = cursor
      /\ pc' = pc /\ node' = node /\ parent' = parent /\ victim' = victim
  BY DEF WalkEnd, loopVars
<1>2. Phase(tree, alloc, pc, node, parent, victim, cursor)
  BY DEF IInv
<1>3. Phase(tree', alloc', pc', node', parent', victim', cursor')
  BY <1>1, <1>2
<1>4. WalkInv'
  BY <1>1 DEF WalkInv
<1> QED
  BY <1>3, <1>4 DEF IInv

\* The loop of __rb_erase_color.
LEMMA EraseFactsNow ==
    ASSUME IInv, pc = "erase"
    PROVE  /\ alloc \subseteq Keys /\ victim \in alloc /\ parent \in Ptr /\ WalkInv
           /\ EraseTree(tree, alloc \ {victim}, victim, node, parent, cursor)
BY DEF IInv, Phase

\* The nodes that a round of __rb_erase_color names.
LEMMA EraseSides ==
    ASSUME EraseLoops
    PROVE  Sides(tree, node, parent, NSide, Other)
BY DEF EraseLoops, Sides, NSide, Other

\* A step within the loop.
LEMMA EraseKeeps ==
    ASSUME IInv, pc = "erase", parent' \in Ptr,
           EraseTree(tree', alloc \ {victim}, victim, node', parent', cursor),
           UNCHANGED <<alloc, pc, victim, walkVars>>
    PROVE  IInv'
<1>1. alloc \subseteq Keys /\ victim \in alloc /\ WalkInv
  BY EraseFactsNow
<1>2. /\ alloc' = alloc /\ pc' = pc /\ victim' = victim
      /\ walking' = walking /\ cursor' = cursor /\ t_diff' = t_diff /\ hit' = hit
  BY DEF walkVars
<1>3. EraseTree(tree', alloc' \ {victim'}, victim', node', parent', cursor')
  BY <1>2
<1>4. Phase(tree', alloc', pc', node', parent', victim', cursor')
  BY <1>1, <1>2, <1>3 DEF Phase
<1>5. WalkInv'
  BY <1>1, <1>2 DEF WalkInv
<1> QED
  BY <1>4, <1>5 DEF IInv

\* The case of a red sibling.
LEMMA EraseRedOtherIInv ==
    ASSUME IInv, EraseRedOther
    PROVE  IInv'
<1>1. /\ EraseLoops /\ IsRed(tree, Other)
      /\ tree' = Rotate(SetColour(SetColour(tree, {Other}, TRUE), {parent}, FALSE), parent, NSide)
      /\ UNCHANGED <<alloc, pc, node, parent, victim, walkVars>>
  BY DEF EraseRedOther, loopVars
<1>2. pc = "erase"
  BY <1>1 DEF EraseLoops
<1>3. parent \in Ptr /\ EraseTree(tree, alloc \ {victim}, victim, node, parent, cursor)
  BY <1>2, EraseFactsNow
<1>4. Sides(tree, node, parent, NSide, Other)
  BY <1>1, EraseSides
<1>5. tree' = TurnOther(tree, Other, parent, NSide)
  BY <1>1 DEF TurnOther, BlackRed
<1>6. EraseTree(TurnOther(tree, Other, parent, NSide), alloc \ {victim}, victim, node, parent, cursor)
  BY <1>1, <1>3, <1>4, EraseRedOtherTree
<1>7. EraseTree(tree', alloc \ {victim}, victim, node', parent', cursor) /\ parent' \in Ptr
  BY <1>1, <1>3, <1>5, <1>6
<1> QED
  BY <1>1, <1>2, <1>7, EraseKeeps

\* The case of a sibling with two black children.
LEMMA EraseRecolourIInv ==
    ASSUME IInv, EraseRecolour
    PROVE  IInv'
<1>1. /\ EraseLoops /\ ~IsRed(tree, Other) /\ ~IsRed(tree, Near) /\ ~IsRed(tree, Far)
      /\ tree' = SetColour(tree, {Other}, FALSE)
      /\ node' = parent /\ parent' = tree.parent[parent]
      /\ UNCHANGED <<alloc, pc, victim, walkVars>>
  BY DEF EraseRecolour
<1>2. pc = "erase"
  BY <1>1 DEF EraseLoops
<1>3. /\ alloc \subseteq Keys
      /\ EraseTree(tree, alloc \ {victim}, victim, node, parent, cursor)
  BY <1>2, EraseFactsNow
<1>4. Sides(tree, node, parent, NSide, Other)
  BY <1>1, EraseSides
<1>5. tree' = Redden(tree, {Other})
  BY <1>1 DEF Redden
<1>6. ~IsRed(tree, tree.kid[Other][NSide]) /\ ~IsRed(tree, tree.kid[Other][Opp(NSide)])
  BY <1>1 DEF Near, Far
<1>7. /\ parent \in alloc \ {victim}
      /\ EraseTree(Redden(tree, {Other}), alloc \ {victim}, victim, parent, tree.parent[parent], cursor)
  BY <1>1, <1>3, <1>4, <1>6, EraseRecolourTree
<1>8. tree.parent[parent] \in Ptr
  <2>1. Typed(tree)
    BY PhaseTypes DEF IInv
  <2> QED
    BY <1>3, <1>7, <2>1 DEF Typed
<1>9. EraseTree(tree', alloc \ {victim}, victim, node', parent', cursor) /\ parent' \in Ptr
  BY <1>1, <1>5, <1>7, <1>8
<1> QED
  BY <1>1, <1>2, <1>9, EraseKeeps

\* The case of a sibling with a red child.
LEMMA EraseRotateIInv ==
    ASSUME IInv, EraseRotate
    PROVE  IInv'
<1>1. /\ EraseLoops /\ ~IsRed(tree, Other) /\ (IsRed(tree, Near) \/ IsRed(tree, Far))
      /\ node' = tree'.root /\ UNCHANGED <<alloc, pc, parent, victim, walkVars>>
  BY DEF EraseRotate
<1>2. pc = "erase"
  BY <1>1 DEF EraseLoops
<1>3. parent \in Ptr /\ EraseTree(tree, alloc \ {victim}, victim, node, parent, cursor)
  BY <1>2, EraseFactsNow
<1>4. Sides(tree, node, parent, NSide, Other)
  BY <1>1, EraseSides
<1>5. Far = tree.kid[Other][Opp(NSide)] /\ NearIs(tree, Other, NSide, Near)
      /\ Other = SibOf(tree, parent, NSide)
  BY DEF Far, Near, NearIs, SibOf, Other
<1>6. PICK t2 : t2 = tree'
  OBVIOUS
<1>7. EraseTree(t2, alloc \ {victim}, victim, t2.root, parent, cursor)
  <2>1. CASE IsRed(tree, Far)
    <3>1. tree' = LET o == tree.kid[parent][Opp(NSide)]
                  IN  Rotate(SetColour(SetColour(tree, {o}, tree.black[parent]),
                                       {parent, tree.kid[o][Opp(NSide)]}, TRUE), parent, NSide)
      BY <2>1 DEF EraseRotate
    <3>2. t2 = TurnPassed(tree, parent, Other, NSide)
      BY <1>6, <3>1 DEF TurnPassed, Pass, Other
    <3> QED
      BY <1>1, <1>3, <1>4, <1>5, <2>1, <3>2, EraseFarTree
  <2>2. CASE ~IsRed(tree, Far)
    <3>1. PICK t1 : t1 = TurnNear(tree, Near, Other, NSide)
      OBVIOUS
    <3>2. t1 = Rotate(SetColour(SetColour(tree, {Near}, TRUE), {Other}, FALSE), Other, Opp(NSide))
      BY <3>1 DEF TurnNear, BlackRed
    <3>3. tree' = LET o == t1.kid[parent][Opp(NSide)]
                  IN  Rotate(SetColour(SetColour(t1, {o}, t1.black[parent]),
                                       {parent, t1.kid[o][Opp(NSide)]}, TRUE), parent, NSide)
      BY <2>2, <3>2 DEF EraseRotate
    <3>4. t2 = TurnPassed(t1, parent, SibOf(t1, parent, NSide), NSide)
      BY <1>6, <3>3 DEF TurnPassed, Pass, SibOf
    <3> QED
      BY <1>1, <1>3, <1>4, <1>5, <2>2, <3>1, <3>4, EraseNearTree
  <2> QED
    BY <2>1, <2>2
<1>8. EraseTree(tree', alloc \ {victim}, victim, node', parent', cursor) /\ parent' \in Ptr
  BY <1>1, <1>3, <1>6, <1>7
<1> QED
  BY <1>1, <1>2, <1>8, EraseKeeps

\* The end of __rb_erase_color.
LEMMA EraseDoneIInv ==
    ASSUME IInv, EraseDone
    PROVE  IInv'
<1>1. /\ pc \in {"erase", "free"} /\ ~EraseLoops
      /\ alloc' = alloc \ {victim}
      /\ pc' = "idle" /\ node' = NULL /\ parent' = NULL /\ victim' = NULL
      /\ walking' = walking /\ cursor' = cursor /\ t_diff' = t_diff /\ hit' = hit
  BY DEF EraseDone, walkVars
<1>2. tree' = Reset(Blacken(tree, {node}), victim)
  BY DEF EraseDone, Reset, Blacken
<1>3. /\ alloc \subseteq Keys /\ victim \in alloc /\ WalkInv
  BY <1>1 DEF IInv, Phase
<1>4. victim \in Keys \ (alloc \ {victim})
  BY <1>3
<1>5. CASE pc = "erase"
  <2>1. EraseTree(tree, alloc \ {victim}, victim, node, parent, cursor)
    BY <1>5, EraseFactsNow
  <2>2. IsRed(tree, node) \/ node = tree.root
    BY <1>1, <1>5 DEF EraseLoops
  <2> QED
    <3>1. IdleTree(Reset(Blacken(tree, {node}), victim), alloc \ {victim}, cursor)
      BY <1>4, <2>1, <2>2, EraseDoneTree
    <3>2. IdleTree(tree', alloc', cursor')
      BY <1>1, <1>2, <3>1
    <3>3. Phase(tree', alloc', pc', node', parent', victim', cursor')
      BY <1>1, <1>3, <3>2 DEF Phase
    <3>4. WalkInv'
      BY <1>1, <1>3, <1>5 DEF WalkInv
    <3> QED
      BY <3>3, <3>4 DEF IInv
<1>6. CASE pc = "free"
  <2>1. node = NULL /\ FreeTree(tree, alloc \ {victim}, victim, cursor)
    BY <1>6 DEF IInv, Phase
  <2>2. IdleTree(Reset(Blacken(tree, {NULL}), victim), alloc \ {victim}, cursor)
    BY <1>4, <2>1, FreeDoneTree
  <2>3. IdleTree(tree', alloc', cursor')
    BY <1>1, <1>2, <2>1, <2>2
  <2>4. Phase(tree', alloc', pc', node', parent', victim', cursor')
    BY <1>1, <1>3, <2>3 DEF Phase
  <2>5. WalkInv'
    BY <1>1, <1>3, <1>6 DEF WalkInv
  <2> QED
    BY <2>4, <2>5 DEF IInv
<1> QED
  BY <1>1, <1>5, <1>6

\* Every step keeps the invariant.
LEMMA IInvNext ==
    IInv /\ [Next]_vars => IInv'
<1>1. SUFFICES ASSUME IInv, [Next]_vars PROVE IInv'
  OBVIOUS
<1>2. CASE UNCHANGED vars
  BY <1>1, <1>2 DEF vars, loopVars, walkVars, IInv, WalkInv
<1>3. ASSUME NEW k \in Keys, Sched(k) PROVE IInv'
  BY <1>1, <1>3, SchedStep
<1>4. ASSUME NEW k \in Keys, Free(k) PROVE IInv'
  BY <1>1, <1>4, FreeStep
<1>5. ASSUME NEW k \in Keys, WalkBegin(k) PROVE IInv'
  BY <1>1, <1>5, WalkBeginStep
<1>6. CASE Round
  <2>1. CASE InsertRecolour
    BY <1>1, <2>1, InsertRecolourIInv
  <2>2. CASE InsertRotate
    BY <1>1, <2>2, InsertRotateIInv
  <2>3. CASE InsertDone
    BY <1>1, <2>3, InsertDoneIInv
  <2>4. CASE EraseRedOther
    BY <1>1, <2>4, EraseRedOtherIInv
  <2>5. CASE EraseRecolour
    BY <1>1, <2>5, EraseRecolourIInv
  <2>6. CASE EraseRotate
    BY <1>1, <2>6, EraseRotateIInv
  <2>7. CASE EraseDone
    BY <1>1, <2>7, EraseDoneIInv
  <2> QED
    BY <1>6, <2>1, <2>2, <2>3, <2>4, <2>5, <2>6, <2>7 DEF Round
<1>7. CASE WalkStep
  BY <1>1, <1>7, WalkStepIInv
<1>8. CASE WalkEnd
  BY <1>1, <1>8, WalkEndStep
<1> QED
  BY <1>1, <1>2, <1>3, <1>4, <1>5, <1>6, <1>7, <1>8 DEF Next

\* The invariant holds always.
THEOREM Inductive == Spec => []IInv
BY IInvInit, IInvNext, PTL DEF Spec

\* TypeOK for every set of deadlines.
THEOREM TypeCorrect == Spec => []TypeOK
BY Inductive, IInvType, PTL

-----------------------------------------------------------------------------
(* The properties *)

\* The parent of a node is the only one that has it as a child.
LEMMA ParentIs ==
    ASSUME NEW t, NEW S, NEW sub, Shaped(t, S, sub), NEW k \in S
    PROVE  t.parent[k] = IF k = t.root THEN NULL
                         ELSE CHOOSE p \in S : \E d \in Dirs : t.kid[p][d] = k
<1>0. k # NULL
  BY KeysAssumption DEF Shaped, Below
<1>1. CASE k = t.root
  BY <1>1 DEF Shaped, Links
<1>2. CASE k # t.root
  <2>1. t.parent[k] \in S /\ \E d \in Dirs : t.kid[t.parent[k]][d] = k
    BY <1>2 DEF Shaped, Links
  <2>2. \A p \in S : (\E d \in Dirs : t.kid[p][d] = k) => p = t.parent[k]
    BY <1>0 DEF Shaped, Links
  <2> DEFINE P(p) == \E d \in Dirs : t.kid[p][d] = k
  <2>3. (CHOOSE p \in S : P(p)) \in S /\ P(CHOOSE p \in S : P(p))
    <3> HIDE DEF P
    <3>1. \E p \in S : P(p)
      BY <2>1 DEF P
    <3> QED
      BY <3>1
  <2> QED
    BY <1>2, <2>2, <2>3
<1> QED
  BY <1>1, <1>2

\* TreeExact for every set of deadlines: between any two rounds of
\* rb_insert_color and __rb_erase_color rb_search finds every node, and
\* parent and child pointers agree.
THEOREM TreeIsExact == Spec => []TreeExact
<1>1. IInv => TreeExact
  <2>1. SUFFICES ASSUME IInv PROVE TreeExact
    OBVIOUS
  <2>2. Phase(tree, alloc, pc, node, parent, victim, cursor)
    BY <2>1 DEF IInv
  <2>3. PICK S : S = InTree
    OBVIOUS
  <2>4. PhaseTree(tree, S, node, cursor, victim)
    BY <2>2, <2>3, PhaseTreeIs DEF InTree
  <2>5. PICK sub : Shaped(tree, S, sub)
    BY <2>4 DEF PhaseTree
  <2>6. S \subseteq Keys
    BY <2>5 DEF Shaped, Below
  <2>7. \A k \in S : rb_search(tree, k) = k
    BY <2>2, <2>3, <2>6, PhaseSearch DEF InTree
  <2>8. \A k \in S : tree.parent[k] =
            IF k = tree.root THEN NULL
            ELSE CHOOSE p \in S : \E d \in Dirs : tree.kid[p][d] = k
    BY <2>5, ParentIs
  <2>9. \A p \in S, d \in Dirs : tree.kid[p][d] \in S \union {NULL}
    BY <2>5 DEF Shaped, Below
  <2> QED
    BY <2>3, <2>7, <2>8, <2>9 DEF TreeExact
<1> QED
  BY <1>1, Inductive, PTL

\* WalkReachesFirst for every set of deadlines: whatever the walk erases, the
\* node it goes on with is in the tree and the earliest deadline is the end of
\* its left children.
THEOREM WalkIsSafe == Spec => []WalkReachesFirst
<1>1. IInv => WalkReachesFirst
  <2>1. SUFFICES ASSUME IInv, walking, cursor # NULL
                 PROVE  /\ cursor \in InTree
                        /\ pc = "idle" => \A k \in InTree : Outermost(tree, cursor, "left") <= k
    BY DEF WalkReachesFirst
  <2>2. cursor \in InTree
    BY <2>1, PhaseTypes DEF IInv, InTree
  <2>3. ASSUME pc = "idle", NEW k \in InTree PROVE Outermost(tree, cursor, "left") <= k
    <3>1. IdleTree(tree, alloc, cursor) /\ k \in alloc
      BY <2>1, <2>3, IdleFacts DEF InTree
    <3>2. PICK sub : /\ Shaped(tree, alloc, sub) /\ Outside(tree, alloc, NULL)
                     /\ cursor # NULL => Spine(alloc, sub, cursor)
      BY <3>1 DEF IdleTree
    <3>3. cursor \in alloc /\ \A j \in alloc : j < cursor => j \in sub[cursor]
      BY <2>1, <3>2 DEF Spine
    <3>4. PICK o : o = Outermost(tree, cursor, "left")
      OBVIOUS
    <3>5. LastOf(sub[cursor], "left", o)
      <4>1. "left" \in Dirs
        BY DEF Dirs
      <4> QED
        BY <3>2, <3>3, <3>4, <4>1, OutermostIs
    <3>6. o \in sub[cursor] /\ \A j \in sub[cursor] : j = o \/ On("right", j, o)
      BY <3>5 DEF LastOf, Opp
    <3>7. alloc \subseteq Keys /\ cursor \in sub[cursor] /\ sub[cursor] \subseteq alloc
      BY <3>2, <3>3 DEF Shaped, Below
    <3>8. \A j \in sub[cursor] : j \in Nat /\ o \in Nat /\ o <= j
      BY <3>6, <3>7, OnLess
    <3>9. k \in Nat
      BY <3>1, <3>7, OnLess
    <3> QED
      BY <3>1, <3>3, <3>4, <3>7, <3>8, <3>9
  <2> QED
    BY <2>2, <2>3
<1> QED
  BY <1>1, Inductive, PTL

-----------------------------------------------------------------------------
(* The tree implements the set of deadlines *)

\* What rb_search finds.
Found == {k \in Keys : rb_search(tree, k) = k}

\* What rb_search finds is what is in the tree.
LEMMA FoundIs ==
    ASSUME IInv
    PROVE  Found = InTree
<1>1. Phase(tree, alloc, pc, node, parent, victim, cursor)
  BY DEF IInv
<1>2. \A k \in Keys : rb_search(tree, k) = IF k \in alloc \ {victim} THEN k ELSE NULL
  BY <1>1, PhaseSearch
<1>3. alloc \subseteq Keys /\ NULL \notin Keys
  BY <1>1, KeysAssumption DEF Phase
<1> QED
  BY <1>2, <1>3 DEF Found, InTree

\* So it is in the next state.
LEMMA FoundNext ==
    ASSUME IInv, IInv'
    PROVE  Found' = InTree'
<1>1. Phase(tree', alloc', pc', node', parent', victim', cursor')
  BY DEF IInv
<1>2. \A k \in Keys : rb_search(tree', k) = IF k \in alloc' \ {victim'} THEN k ELSE NULL
  BY <1>1, PhaseSearch
<1>3. alloc' \subseteq Keys /\ NULL \notin Keys
  BY <1>1, KeysAssumption DEF Phase
<1> QED
  BY <1>2, <1>3 DEF Found, InTree

\* Each step of the tree is one of the set, or none.
LEMMA DeadlineStep ==
    ASSUME IInv, IInv', [Next]_vars
    PROVE  [Deadlines!Next]_(Deadlines!vars)
<1>1. Found = alloc \ {victim} /\ Found' = alloc' \ {victim'}
  BY FoundIs, FoundNext DEF InTree
<1>2. alloc \subseteq Keys /\ NULL \notin alloc /\ NULL \notin Keys
  BY KeysAssumption DEF IInv, Phase
<1> DEFINE Same == Found' = Found /\ walking' = walking /\ t_diff' = t_diff /\ hit' = hit
<1>3. ASSUME Same PROVE [Deadlines!Next]_(Deadlines!vars)
  BY <1>3 DEF Found, Deadlines!vars
<1>4. ASSUME UNCHANGED vars PROVE Same
  BY <1>1, <1>4 DEF vars, loopVars, walkVars
<1>5. ASSUME NEW k \in Keys, Sched(k) PROVE Deadlines!Sched(k)
  <2>1. /\ pc = "idle" /\ ~walking /\ walking' = walking /\ t_diff' = t_diff /\ hit' = hit
        /\ victim = NULL
    BY <1>5, IdleFacts DEF Sched, walkVars
  <2>2. CASE rb_search(tree, k) # NULL
    <3>1. alloc' = alloc /\ victim' = victim
      BY <1>5, <2>2 DEF Sched, loopVars
    <3>2. k \in Found
      <4>1. rb_search(tree, k) = IF k \in alloc \ {victim} THEN k ELSE NULL
        BY PhaseSearch DEF IInv
      <4> QED
        BY <1>1, <2>2, <4>1
    <3>3. Found' = Found \union {k}
      BY <1>1, <3>1, <3>2
    <3> QED
      BY <2>1, <3>3 DEF Deadlines!Sched, Found
  <2>3. CASE rb_search(tree, k) = NULL
    <3>1. alloc' = alloc \union {k} /\ victim' = victim
      BY <1>5, <2>3 DEF Sched
    <3>2. Found' = Found \union {k}
      BY <1>1, <1>2, <2>1, <3>1
    <3> QED
      BY <2>1, <3>2 DEF Deadlines!Sched, Found
  <2> QED
    BY <2>2, <2>3
<1>6. ASSUME NEW k \in Keys, Free(k) PROVE Deadlines!Free(k)
  <2>1. /\ pc = "idle" /\ ~walking /\ walking' = walking /\ t_diff' = t_diff /\ hit' = hit
        /\ victim = NULL /\ k \in alloc /\ alloc' = alloc /\ victim' = k
    BY <1>6, IdleFacts DEF Free, Erase, walkVars
  <2>2. k \in Found /\ Found' = Found \ {k}
    BY <1>1, <1>2, <2>1
  <2> QED
    BY <2>1, <2>2 DEF Deadlines!Free, Found
<1>7. ASSUME NEW k \in Keys, WalkBegin(k) PROVE Deadlines!WalkBegin(k)
  <2>1. /\ ~walking /\ walking' = TRUE /\ t_diff' = k /\ hit' = FALSE
        /\ alloc' = alloc /\ victim' = victim
    BY <1>7 DEF WalkBegin, loopVars
  <2>2. Found' = Found
    BY <1>1, <2>1
  <2> QED
    BY <2>1, <2>2 DEF Deadlines!WalkBegin, Found
<1>8. ASSUME Round PROVE Same
  <2>1. walking' = walking /\ t_diff' = t_diff /\ hit' = hit
    BY <1>8 DEF Round, InsertRecolour, InsertRotate, InsertDone, EraseRedOther, EraseRecolour,
                EraseRotate, EraseDone, walkVars
  <2>2. CASE EraseDone
    <3>1. alloc' = alloc \ {victim} /\ victim' = NULL
      BY <2>2 DEF EraseDone
    <3> QED
      BY <1>1, <1>2, <2>1, <3>1
  <2>3. CASE ~EraseDone
    <3>1. alloc' = alloc /\ victim' = victim
      BY <1>8, <2>3 DEF Round, InsertRecolour, InsertRotate, InsertDone, EraseRedOther,
                        EraseRecolour, EraseRotate, loopVars
    <3> QED
      BY <1>1, <2>1, <3>1
  <2> QED
    BY <2>2, <2>3
<1>9. ASSUME WalkStep PROVE Same \/ \E k \in Keys : Deadlines!Expire(k)
  <2>1. /\ pc = "idle" /\ walking /\ cursor # NULL /\ alloc' = alloc
        /\ walking' = walking /\ t_diff' = t_diff /\ victim = NULL
        /\ hit' = (hit \/ cursor <= t_diff) /\ hit \in BOOLEAN
    BY <1>9, IdleFacts DEF WalkStep, IInv, WalkInv
  <2>2. cursor \in alloc
    BY <2>1, PhaseTypes DEF IInv
  <2>3. CASE cursor <= t_diff
    <3>1. victim' = cursor
      BY <1>9, <2>3 DEF WalkStep, Erase
    <3>2. cursor \in Found /\ Found' = Found \ {cursor} /\ cursor \in Keys
      BY <1>1, <1>2, <2>1, <2>2, <3>1
    <3>3. cursor \in Deadlines!Due
      BY <2>3, <3>2 DEF Deadlines!Due, Found
    <3>4. hit' = TRUE
      BY <2>1, <2>3
    <3>5. PICK k \in Keys : k = cursor
      BY <3>2
    <3>6. Deadlines!Expire(k)
      BY <2>1, <3>2, <3>3, <3>4, <3>5 DEF Deadlines!Expire, Found
    <3> QED
      BY <3>6
  <2>4. CASE ~(cursor <= t_diff)
    <3>1. victim' = victim
      BY <1>9, <2>4 DEF WalkStep, loopVars
    <3>2. hit' = hit
      BY <2>1, <2>4
    <3> QED
      BY <1>1, <2>1, <3>1, <3>2
  <2> QED
    BY <2>3, <2>4
<1>10. ASSUME WalkEnd PROVE Deadlines!WalkEnd
  <2>1. /\ pc = "idle" /\ walking /\ cursor = NULL
        /\ walking' = FALSE /\ t_diff' = 0 /\ hit' = FALSE
        /\ alloc' = alloc /\ victim' = victim
    BY <1>10 DEF WalkEnd, loopVars
  <2>2. Found' = Found
    BY <1>1, <2>1
  <2>3. hit \/ Deadlines!Due = {}
    <3>1. SUFFICES ASSUME ~hit PROVE Deadlines!Due = {}
      OBVIOUS
    <3>2. \A k \in alloc : k > t_diff
      BY <2>1, <3>1 DEF IInv, WalkInv
    <3>3. \A k \in Found : ~(k <= t_diff)
      <4>1. t_diff \in Nat /\ \A k \in alloc : k \in Nat
        BY <1>2, KeysAssumption DEF IInv, WalkInv
      <4> QED
        BY <1>1, <3>2, <4>1
    <3> QED
      BY <3>3 DEF Deadlines!Due, Found
  <2> QED
    BY <2>1, <2>2, <2>3 DEF Deadlines!WalkEnd, Found
<1> QED
  BY <1>3, <1>4, <1>5, <1>6, <1>7, <1>8, <1>9, <1>10 DEF Next, Deadlines!Next

\* The tree implements DeadlineSet: inserts and erases are those of a set,
\* rebalancing is invisible, and a walk over a tree with a due deadline frees
\* one before it ends.
THEOREM Refinement == Spec => ImplementsDeadlineSet
<1>1. Init => Deadlines!Init
  <2>1. SUFFICES ASSUME Init PROVE Deadlines!Init
    OBVIOUS
  <2>2. Found = {}
    <3>1. IInv
      BY <2>1, IInvInit
    <3> QED
      BY <2>1, <3>1, FoundIs DEF Init, InTree
  <2> QED
    BY <2>1, <2>2 DEF Init, Deadlines!Init, Found
<1>2. IInv /\ IInv' /\ [Next]_vars => [Deadlines!Next]_(Deadlines!vars)
  BY DeadlineStep
<1> QED
  BY <1>1, <1>2, Inductive, PTL DEF Spec, ImplementsDeadlineSet, Deadlines!Spec

-----------------------------------------------------------------------------
(* The red-black tree *)

\* Down to a node k that lacks a child there are as many black nodes as the
\* height of the root.
LEMMA BlacksIs ==
    ASSUME NEW t, NEW S, NEW sub, Shaped(t, S, sub), Outside(t, S, NULL), NEW bh, Balanced(t, S, bh),
           NEW k \in S, NEW e \in Dirs, t.kid[k][e] = NULL
    PROVE  Blacks(t, k) = bh[t.root]
<1>0. /\ S \subseteq Keys /\ NULL \notin S /\ NULL \notin Keys /\ Typed(t)
      /\ \A m \in S, d \in Dirs : t.kid[m][d] \in S \union {NULL}
      /\ t.root \in S \union {NULL}
  BY KeysAssumption DEF Shaped, Below
<1>1. \A m \in Keys \ S : t.black[m] = FALSE /\ \A d \in Dirs : t.kid[m][d] = NULL
  BY <1>0 DEF Outside, Blank
<1>2. \A m \in Keys : Toward(k, m) \in Dirs
  BY DEF Toward, Dirs
<1>3. /\ bh \in [S \union {NULL} -> Nat] /\ bh[NULL] = 0
      /\ \A m \in S, d \in Dirs : bh[m] = bh[t.kid[m][d]] + Weight(t, m)
  <2>1. Heights(t, S, bh, NULL, "left")
    BY DEF Balanced
  <2>2. Level(t, S, bh)
    BY <1>0, <2>1, PlainHeights
  <2> QED
    BY <2>2 DEF Level
<1>4. \A m : Weight(t, m) \in Nat /\ Weight(t, m) = IF t.black[m] THEN 1 ELSE 0
  BY DEF Weight
<1> DEFINE Eq(f) == f = [n \in Ptr |-> IF n = NULL THEN 0
                         ELSE (IF t.black[n] THEN 1 ELSE 0)
                              + (IF n = k THEN 0 ELSE f[t.kid[n][Toward(k, n)]])]
<1>5. PICK F : Blacks(t, k) = F[t.root] /\ F = CHOOSE f : Eq(f)
  BY DEF Blacks
<1>6. PICK W : W = [n \in Ptr |-> IF n \in S \union {NULL} THEN bh[n] ELSE 0]
  OBVIOUS
<1>7. S \union {NULL} \subseteq Ptr
  BY <1>0 DEF Ptr
<1>8. \A n \in Ptr : W[n] = IF n \in S \union {NULL} THEN bh[n] ELSE 0
  BY <1>6
<1>9. ASSUME NEW n \in Ptr
      PROVE  W[n] = IF n = NULL THEN 0
                    ELSE (IF t.black[n] THEN 1 ELSE 0)
                         + (IF n = k THEN 0 ELSE W[t.kid[n][Toward(k, n)]])
  <2>1. CASE n = NULL
    BY <1>3, <1>8, <2>1
  <2>2. CASE n \notin S \union {NULL}
    <3>1. n \in Keys \ S /\ n # k /\ n # NULL
      BY <1>9, <2>2 DEF Ptr
    <3>2. t.black[n] = FALSE /\ t.kid[n][Toward(k, n)] = NULL
      BY <1>1, <1>2, <3>1
    <3>3. W[NULL] = 0 /\ W[n] = 0
      BY <1>3, <1>7, <1>8, <2>2
    <3> QED
      BY <3>1, <3>2, <3>3
  <2>3. CASE n \in S /\ n = k
    <3>1. bh[k] = bh[NULL] + Weight(t, k)
      BY <1>3
    <3>2. W[n] = Weight(t, n)
      BY <1>3, <1>4, <1>8, <2>3, <3>1
    <3> QED
      BY <1>0, <1>4, <2>3, <3>2
  <2>4. CASE n \in S /\ n # k
    <3>1. PICK c : c = t.kid[n][Toward(k, n)]
      OBVIOUS
    <3>2. c \in S \union {NULL} /\ bh[n] = bh[c] + Weight(t, n)
      BY <1>0, <1>2, <1>3, <2>4, <3>1
    <3>3. W[c] = bh[c] /\ W[n] = bh[n] /\ bh[c] \in Nat
      BY <1>3, <1>7, <1>8, <2>4, <3>2
    <3>4. W[n] = Weight(t, n) + W[c]
      BY <1>4, <3>2, <3>3
    <3> QED
      BY <1>0, <1>4, <2>4, <3>1, <3>4
  <2> QED
    BY <2>1, <2>2, <2>3, <2>4
<1>10. Eq(W)
  BY <1>6, <1>9
<1>11. Eq(F)
  BY <1>5, <1>10
<1>12. \A n \in Ptr : F[n] = IF n = NULL THEN 0
                             ELSE (IF t.black[n] THEN 1 ELSE 0)
                                  + (IF n = k THEN 0 ELSE F[t.kid[n][Toward(k, n)]])
  BY <1>11
<1>13. ASSUME NEW i \in S, F[i] # W[i]
       PROVE  \E d \in Dirs : t.kid[i][d] # NULL /\ F[t.kid[i][d]] # W[t.kid[i][d]]
  <2>1. PICK d \in Dirs : d = Toward(k, i)
    BY <1>0, <1>2
  <2>2. PICK c : c = t.kid[i][d]
    OBVIOUS
  <2>3. i \in Ptr /\ NULL \in Ptr /\ i # NULL
    BY <1>0, <1>7
  <2>4. i # k
    BY <1>9, <1>12, <1>13, <2>3
  <2>5. F[c] # W[c]
    BY <1>9, <1>12, <1>13, <2>1, <2>2, <2>3, <2>4
  <2>6. F[NULL] = 0 /\ W[NULL] = 0
    BY <1>9, <1>12, <2>3
  <2> QED
    BY <2>2, <2>5, <2>6
<1>14. \A i \in S : F[i] = W[i]
  BY <1>13, Agree
<1>15. F[NULL] = 0 /\ W[NULL] = 0
  BY <1>7, <1>9, <1>12
<1>16. F[t.root] = bh[t.root]
  BY <1>0, <1>3, <1>7, <1>8, <1>14, <1>15
<1> QED
  BY <1>5, <1>16

\* RedBlack for every set of deadlines: whenever rb_insert or rb_erase has
\* returned the root is black, no red node has a red child, and all paths to a
\* missing child have the same number of black nodes.
THEOREM TreeIsRedBlack == Spec => []RedBlack
<1>1. IInv => RedBlack
  <2>1. SUFFICES ASSUME IInv, pc = "idle"
                 PROVE  /\ ~IsRed(tree, tree.root)
                        /\ \A p \in InTree, d \in Dirs : IsRed(tree, tree.kid[p][d]) => tree.black[p]
                        /\ \A p, q \in {n \in InTree : \E d \in Dirs : tree.kid[n][d] = NULL} :
                                Blacks(tree, p) = Blacks(tree, q)
    BY DEF RedBlack
  <2>2. victim = NULL /\ alloc \subseteq Keys /\ IdleTree(tree, alloc, cursor)
    BY <2>1, IdleFacts
  <2>3. InTree = alloc /\ NULL \notin alloc
    BY <2>2, KeysAssumption DEF InTree
  <2>4. PICK sub : Shaped(tree, alloc, sub) /\ Outside(tree, alloc, NULL) /\ \E bh : Balanced(tree, alloc, bh)
    BY <2>2 DEF IdleTree
  <2>5. PICK bh : Balanced(tree, alloc, bh)
    BY <2>4
  <2>6. ~IsRed(tree, tree.root)
    BY <2>5 DEF Balanced, RootBlack, IsRed
  <2>7. \A p \in alloc, d \in Dirs : IsRed(tree, tree.kid[p][d]) => tree.black[p]
    BY <2>3, <2>5 DEF Balanced, Reds, IsRed
  <2>8. \A p \in alloc, d \in Dirs : tree.kid[p][d] = NULL => Blacks(tree, p) = bh[tree.root]
    BY <2>4, <2>5, BlacksIs
  <2> QED
    BY <2>3, <2>6, <2>7, <2>8
<1> QED
  BY <1>1, Inductive, PTL

-----------------------------------------------------------------------------
(* rb_next and rb_prev *)

\* Two functions that differ at a node only if they differ at its parent do
\* not differ.
LEMMA AgreeUp ==
    ASSUME NEW t, NEW S, NEW sub, Shaped(t, S, sub), NEW F, NEW W,
           \A n \in S : F[n] # W[n] => t.parent[n] # NULL /\ F[t.parent[n]] # W[t.parent[n]]
    PROVE  \A n \in S : F[n] = W[n]
<1> DEFINE E == {n \in S : F[n] # W[n]}
<1>0. PICK rest : rest = [n \in S |-> S \ sub[n]]
  OBVIOUS
<1>1. ASSUME NEW a \in E PROVE \E p \in E : rest[p] \subseteq rest[a] /\ rest[p] # rest[a]
  <2>1. a \in S /\ F[a] # W[a]
    BY <1>1
  <2>2. PICK p : p = t.parent[a]
    OBVIOUS
  <2>3. p # NULL /\ F[p] # W[p]
    BY <2>1, <2>2
  <2>4. p \in S /\ a = t.kid[p][Side(t, p, a)] /\ Side(t, p, a) \in Dirs
    BY <2>1, <2>2, <2>3, ParentFacts
  <2>5. a # NULL
    BY <2>1, KeysAssumption DEF Shaped, Below
  <2>6. KidOf(t, S, sub, p, Side(t, p, a), a)
    BY <2>4, <2>5, KidIs
  <2>7. sub[a] \subseteq sub[p] /\ p \notin sub[a] /\ p \in sub[p]
    BY <2>4, <2>6 DEF KidOf, Shaped, Below
  <2>8. rest[p] = S \ sub[p] /\ rest[a] = S \ sub[a]
    BY <1>0, <2>1, <2>4
  <2> QED
    BY <2>3, <2>4, <2>7, <2>8
<1>2. IsFiniteSet(S) /\ \A n \in E : rest[n] \subseteq S
  BY <1>0 DEF Shaped, Below
<1>3. E = {}
  <2> HIDE DEF E
  <2>1. Shrinking(S, E, rest)
    BY <1>1, <1>2 DEF Shrinking
  <2> QED
    BY <2>1, Descent
<1> QED
  BY <1>3

\* The nearest of the keys X that are on side d.
Nearest(X, d) == IF X = {} THEN NULL ELSE CHOOSE x : LastOf(X, Opp(d), x)

\* It is the last of X on the other side, and the only one.
LEMMA NearestIs ==
    ASSUME NEW X, X \subseteq Keys, NEW d \in Dirs
    PROVE  /\ X # {} => LastOf(X, Opp(d), Nearest(X, d))
           /\ \A x : LastOf(X, Opp(d), x) => Nearest(X, d) = x
<1>1. Opp(d) \in Dirs
  BY OnOrder
<1>2. ASSUME X # {} PROVE LastOf(X, Opp(d), Nearest(X, d))
  <2>1. \E x : LastOf(X, Opp(d), x)
    BY <1>1, <1>2, LastExists
  <2> QED
    BY <1>2, <2>1 DEF Nearest
<1>3. ASSUME NEW x, LastOf(X, Opp(d), x) PROVE Nearest(X, d) = x
  <2>1. X # {}
    BY <1>3 DEF LastOf
  <2> QED
    BY <1>1, <1>2, <1>3, <2>1, LastUnique
<1> QED
  BY <1>2, <1>3

\* The nodes on side d of i that are not below it.
Beyond(S, sub, i, d) == {j \in S \ sub[i] : On(d, j, i)}

\* The nearest of them is the parent of i, if i is its child on the other side.
LEMMA BeyondTurn ==
    ASSUME NEW t, NEW S, NEW sub, Shaped(t, S, sub), NEW p \in S, NEW d \in Dirs,
           NEW i, i = t.kid[p][Opp(d)], i # NULL
    PROVE  LastOf(Beyond(S, sub, i, d), Opp(d), p)
<1>0. S \subseteq Keys /\ sub[p] \subseteq S /\ p \in sub[p]
  BY DEF Shaped, Below
<1>1. Opp(d) \in Dirs /\ Opp(Opp(d)) = d
  BY OnOrder
<1>2. KidOf(t, S, sub, p, Opp(d), i)
  BY <1>1, KidIs
<1>3. i \in S /\ i \in sub[p] /\ p \notin sub[i] /\ On(Opp(d), i, p) /\ sub[i] = Part(sub[p], p, Opp(d))
  BY <1>2 DEF KidOf
<1>4. On(d, p, i)
  BY <1>0, <1>3, OnOrder
<1>5. p \in Beyond(S, sub, i, d)
  BY <1>3, <1>4 DEF Beyond
<1>6. ASSUME NEW k \in Beyond(S, sub, i, d) PROVE k = p \/ On(d, k, p)
  <2>1. k \in S /\ k \notin sub[i] /\ On(d, k, i)
    BY <1>6 DEF Beyond
  <2>2. CASE k \in sub[p]
    <3>1. ~On(Opp(d), k, p)
      BY <1>3, <2>1, <2>2 DEF Part
    <3> QED
      BY <1>0, <1>1, <2>1, <3>1, OnOrder
  <2>3. CASE k \notin sub[p]
    <3>1. On(d, k, i) <=> On(d, k, p)
      BY <1>3, <2>1, <2>3, Convex
    <3> QED
      BY <2>1, <3>1
  <2> QED
    BY <2>2, <2>3
<1> QED
  BY <1>1, <1>5, <1>6 DEF LastOf

\* They are those of the parent, if i is its child on side d.
LEMMA BeyondSame ==
    ASSUME NEW t, NEW S, NEW sub, Shaped(t, S, sub), NEW p \in S, NEW d \in Dirs,
           NEW i, i = t.kid[p][d], i # NULL
    PROVE  Beyond(S, sub, i, d) = Beyond(S, sub, p, d)
<1>0. S \subseteq Keys /\ sub[p] \subseteq S /\ p \in sub[p]
  BY DEF Shaped, Below
<1>1. KidOf(t, S, sub, p, d, i)
  BY KidIs
<1>2. /\ i \in S /\ i \in sub[p] /\ On(d, i, p) /\ sub[i] = Part(sub[p], p, d)
      /\ sub[i] \subseteq sub[p]
  BY <1>1 DEF KidOf
<1>3. ASSUME NEW k \in S, k \notin sub[i], On(d, k, i) PROVE k \notin sub[p]
  <2>1. On(d, k, p)
    BY <1>0, <1>2, <1>3, OnOrder
  <2> QED
    BY <1>2, <1>3, <2>1 DEF Part
<1>4. \A k \in S : k \notin sub[p] => (On(d, k, i) <=> On(d, k, p))
  BY <1>2, Convex
<1>5. \A k : k \in Beyond(S, sub, i, d) <=> k \in Beyond(S, sub, p, d)
  BY <1>2, <1>3, <1>4 DEF Beyond
<1> QED
  BY <1>5

\* The ancestor that the loops of rb_next and rb_prev go up to.
LEMMA AncestorIs ==
    ASSUME NEW t, NEW S, NEW sub, Shaped(t, S, sub), Outside(t, S, NULL), NEW n \in S, NEW d \in Dirs
    PROVE  AncestorWith(t, n, Opp(d)) = Nearest(Beyond(S, sub, n, d), d)
<1>0. /\ S \subseteq Keys /\ NULL \notin S /\ NULL \notin Keys
      /\ Under(sub, t.root) = S /\ t.root \in S \union {NULL}
  BY KeysAssumption DEF Shaped, Below
<1>1. \A m \in Keys : m \notin S => t.parent[m] = NULL
  BY <1>0 DEF Outside
<1>2. Opp(Opp(d)) = d /\ \A e \in Dirs : e # d => e = Opp(d)
  BY OnOrder
<1> DEFINE Eq(f) == f = [i \in Keys |->
        LET p == t.parent[i]
        IN  IF p = NULL \/ t.kid[p][Opp(Opp(d))] # i THEN p ELSE f[p]]
<1>3. PICK F : AncestorWith(t, n, Opp(d)) = F[n] /\ F = CHOOSE f : Eq(f)
  BY DEF AncestorWith
<1>4. PICK W : W = [i \in Keys |-> IF i \in S THEN Nearest(Beyond(S, sub, i, d), d) ELSE NULL]
  OBVIOUS
<1>5. \A i \in Keys : W[i] = IF i \in S THEN Nearest(Beyond(S, sub, i, d), d) ELSE NULL
  BY <1>4
<1>6. ASSUME NEW i \in Keys, NEW p, p = t.parent[i]
      PROVE  W[i] = IF p = NULL \/ t.kid[p][d] # i THEN p ELSE W[p]
  <2>1. CASE i \notin S
    BY <1>1, <1>5, <1>6, <2>1
  <2>2. CASE i \in S /\ p = NULL
    <3>1. i = t.root
      BY <1>6, <2>2, ParentFacts
    <3>2. sub[i] = S
      BY <1>0, <2>2, <3>1 DEF Under
    <3>3. Beyond(S, sub, i, d) = {}
      BY <3>2 DEF Beyond
    <3> QED
      BY <1>5, <2>2, <3>3 DEF Nearest
  <2>3. CASE i \in S /\ p # NULL
    <3>1. PICK s : s = Side(t, p, i)
      OBVIOUS
    <3>2. p \in S /\ i = t.kid[p][s] /\ s \in Dirs /\ t.kid[p][Opp(s)] # i
      BY <1>6, <2>3, <3>1, ParentFacts
    <3>3. i # NULL /\ p \in Keys
      BY <1>0, <2>3, <3>2
    <3>4. CASE s = d
      <4>1. Beyond(S, sub, i, d) = Beyond(S, sub, p, d)
        BY <3>2, <3>3, <3>4, BeyondSame
      <4>2. W[i] = W[p]
        BY <1>5, <2>3, <3>2, <3>3, <4>1
      <4> QED
        BY <2>3, <3>2, <3>4, <4>2
    <3>5. CASE s # d
      <4>1. s = Opp(d)
        BY <1>2, <3>2, <3>5
      <4>2. i = t.kid[p][Opp(d)]
        BY <3>2, <4>1
      <4>3. LastOf(Beyond(S, sub, i, d), Opp(d), p)
        BY <3>2, <3>3, <4>2, BeyondTurn
      <4>4. PICK X : X = Beyond(S, sub, i, d)
        OBVIOUS
      <4>5. X \subseteq Keys
        BY <1>0, <4>4 DEF Beyond
      <4>6. Nearest(X, d) = p
        BY <4>3, <4>4, <4>5, NearestIs
      <4>7. W[i] = p
        BY <1>5, <2>3, <4>4, <4>6
      <4>8. t.kid[p][d] # i
        BY <1>2, <3>2, <4>1
      <4> QED
        BY <4>7, <4>8
    <3> QED
      BY <3>4, <3>5
  <2> QED
    BY <2>1, <2>2, <2>3
<1>7. Eq(W)
  BY <1>2, <1>4, <1>6
<1>8. Eq(F)
  BY <1>3, <1>7
<1>9. ASSUME NEW i \in Keys, NEW p, p = t.parent[i]
      PROVE  F[i] = IF p = NULL \/ t.kid[p][d] # i THEN p ELSE F[p]
  BY <1>2, <1>8, <1>9
<1>10. ASSUME NEW i \in S, F[i] # W[i]
       PROVE  t.parent[i] # NULL /\ F[t.parent[i]] # W[t.parent[i]]
  <2>1. PICK p : p = t.parent[i]
    OBVIOUS
  <2>2. i \in Keys
    BY <1>0
  <2>3. F[i] = IF p = NULL \/ t.kid[p][d] # i THEN p ELSE F[p]
    BY <1>9, <2>1, <2>2
  <2>4. W[i] = IF p = NULL \/ t.kid[p][d] # i THEN p ELSE W[p]
    BY <1>6, <2>1, <2>2
  <2> QED
    BY <1>10, <2>1, <2>3, <2>4
<1>11. \A i \in S : F[i] = W[i]
  BY <1>10, AgreeUp
<1> QED
  BY <1>0, <1>3, <1>5, <1>11

\* The next node on side d of k.
LEMMA NeighbourIs ==
    ASSUME NEW t, NEW S, NEW sub, Shaped(t, S, sub), Outside(t, S, NULL), NEW k \in S, NEW d \in Dirs
    PROVE  Neighbour(t, k, d) = Nearest(Part(S, k, d), d)
<1>0. S \subseteq Keys /\ sub[k] \subseteq S /\ k \in sub[k]
      /\ Under(sub, t.kid[k][d]) = Part(sub[k], k, d)
  BY DEF Shaped, Below
<1>1. Opp(d) \in Dirs /\ Opp(Opp(d)) = d
  BY OnOrder
<1>2. CASE t.kid[k][d] = NULL
  <2>1. Part(sub[k], k, d) = {}
    BY <1>0, <1>2 DEF Under
  <2>2. \A j : j \in Part(S, k, d) <=> j \in Beyond(S, sub, k, d)
    BY <2>1 DEF Part, Beyond
  <2>3. Part(S, k, d) = Beyond(S, sub, k, d)
    BY <2>2
  <2>4. Neighbour(t, k, d) = AncestorWith(t, k, Opp(d))
    BY <1>2 DEF Neighbour
  <2> QED
    BY <2>3, <2>4, AncestorIs
<1>3. CASE t.kid[k][d] # NULL
  <2>1. PICK c : c = t.kid[k][d]
    OBVIOUS
  <2>2. KidOf(t, S, sub, k, d, c)
    BY <1>3, <2>1, KidIs
  <2>3. c \in S /\ sub[c] = Part(sub[k], k, d)
    BY <2>2 DEF KidOf
  <2>4. PICK o : o = Outermost(t, c, Opp(d))
    OBVIOUS
  <2>5. LastOf(sub[c], Opp(d), o)
    BY <1>1, <2>3, <2>4, OutermostIs
  <2>6. o \in sub[c] /\ \A j \in sub[c] : j = o \/ On(d, j, o)
    BY <1>1, <2>5 DEF LastOf
  <2>7. o \in sub[k] /\ On(d, o, k) /\ o \in S
    BY <1>0, <2>3, <2>6 DEF Part
  <2>8. ASSUME NEW j \in Part(S, k, d) PROVE j = o \/ On(d, j, o)
    <3>1. j \in S /\ On(d, j, k)
      BY <2>8 DEF Part
    <3>2. CASE j \in sub[k]
      BY <2>3, <2>6, <3>1, <3>2 DEF Part
    <3>3. CASE j \notin sub[k]
      <4>1. On(d, j, o) <=> On(d, j, k)
        BY <2>7, <3>1, <3>3, Convex
      <4> QED
        BY <3>1, <4>1
    <3> QED
      BY <3>2, <3>3
  <2>9. PICK X : X = Part(S, k, d)
    OBVIOUS
  <2>10. X \subseteq Keys /\ LastOf(X, Opp(d), o)
    BY <1>0, <1>1, <2>7, <2>8, <2>9 DEF LastOf, Part
  <2>11. Nearest(X, d) = o
    BY <2>10, NearestIs
  <2>12. Neighbour(t, k, d) = o
    BY <1>3, <2>1, <2>4 DEF Neighbour
  <2> QED
    BY <2>9, <2>11, <2>12
<1> QED
  BY <1>2, <1>3

\* NeighboursExact for every set of deadlines: rb_last is the latest one, and
\* rb_next and rb_prev go from each to the one after and the one before it.
THEOREM NeighboursAreExact == Spec => []NeighboursExact
<1>1. IInv => NeighboursExact
  <2>1. SUFFICES ASSUME IInv, pc = "idle"
                 PROVE  /\ rb_last(tree) # NULL <=> InTree # {}
                        /\ \A k \in InTree :
                            /\ k <= rb_last(tree)
                            /\ LET n == Neighbour(tree, k, "right")
                               IN  /\ n = NULL => \A j \in InTree : j <= k
                                   /\ n # NULL => n > k /\ Neighbour(tree, n, "left") = k
                                   /\ \A j \in InTree : j > k => n <= j
    BY DEF NeighboursExact
  <2>2. PICK S : S = alloc
    OBVIOUS
  <2>3. victim = NULL /\ S \subseteq Keys /\ IdleTree(tree, S, cursor)
    BY <2>1, <2>2, IdleFacts
  <2>4. InTree = S
    BY <2>2, <2>3, OnLess DEF InTree
  <2>5. PICK sub : Shaped(tree, S, sub) /\ Outside(tree, S, NULL)
    BY <2>3 DEF IdleTree
  <2>6. "left" \in Dirs /\ "right" \in Dirs /\ Opp("left") = "right" /\ Opp("right") = "left"
    BY DEF Dirs, Opp
  <2>7. PICK z : z = rb_last(tree)
    OBVIOUS
  <2>8. (z # NULL <=> S # {}) /\ \A k \in S : k <= z
    <3>1. PICK r : r = tree.root
      OBVIOUS
    <3>2. r \in S \union {NULL} /\ Under(sub, r) = S
      BY <2>5, <3>1 DEF Shaped, Below
    <3>3. z = Outermost(tree, r, "right")
      BY <2>7, <3>1 DEF rb_last
    <3>4. CASE r = NULL
      BY <3>2, <3>3, <3>4 DEF Under, Outermost
    <3>5. CASE r # NULL
      <4>1. r \in S /\ sub[r] = S
        BY <3>2, <3>5 DEF Under
      <4>2. LastOf(S, "right", z)
        <5>1. LastOf(sub[r], "right", z)
          BY <2>5, <2>6, <3>3, <4>1, OutermostIs
        <5> QED
          BY <4>1, <5>1
      <4>3. z \in S /\ \A k \in S : k = z \/ On("left", k, z)
        BY <2>6, <4>2 DEF LastOf
      <4> QED
        BY <2>3, <4>1, <4>3, OnLess
    <3> QED
      BY <3>4, <3>5
  <2>9. ASSUME NEW k \in S, NEW n, n = Neighbour(tree, k, "right")
        PROVE  /\ n = NULL => \A j \in S : j <= k
               /\ n # NULL => n > k /\ Neighbour(tree, n, "left") = k
               /\ \A j \in S : j > k => n <= j
    <3>1. PICK X : X = Part(S, k, "right")
      OBVIOUS
    <3>2. X \subseteq Keys /\ \A j : j \in X <=> j \in S /\ j > k
      BY <2>3, <2>9, <3>1, OnLess DEF Part
    <3>3. n = Nearest(X, "right")
      BY <2>5, <2>6, <2>9, <3>1, NeighbourIs
    <3>4. \A j \in S : j \in Nat /\ j # NULL
      BY <2>3, OnLess
    <3>5. CASE X = {}
      <4>1. n = NULL
        BY <3>3, <3>5 DEF Nearest
      <4>2. \A j \in S : ~(j > k)
        BY <3>2, <3>5
      <4> QED
        BY <3>4, <4>1, <4>2, <2>9
    <3>6. CASE X # {}
      <4>1. LastOf(X, "left", n)
        BY <2>6, <3>2, <3>3, <3>6, NearestIs
      <4>2. n \in X /\ \A j \in X : j = n \/ On("right", j, n)
        BY <2>6, <4>1 DEF LastOf
      <4>3. n \in S /\ n > k /\ n \in Keys
        BY <2>3, <3>2, <4>2
      <4>4. \A j \in X : n <= j
        BY <2>3, <3>2, <4>2, <4>3, OnLess
      <4>5. PICK Y : Y = Part(S, n, "left")
        OBVIOUS
      <4>6. Y \subseteq Keys /\ \A j : j \in Y <=> j \in S /\ j < n
        BY <2>3, <4>3, <4>5, OnLess DEF Part
      <4>7. k \in Y
        BY <2>9, <3>4, <4>3, <4>6
      <4>8. ASSUME NEW j \in Y PROVE j = k \/ On("left", j, k)
        <5>1. j \in S /\ j < n /\ j \in Keys /\ k \in Keys
          BY <2>3, <2>9, <4>6, <4>8
        <5>2. j \notin X
          BY <3>4, <4>3, <4>4, <5>1
        <5>3. ~(j > k)
          BY <3>2, <5>1, <5>2
        <5>4. j = k \/ j < k
          BY <2>9, <3>4, <5>1, <5>3
        <5> QED
          BY <5>1, <5>4, OnLess
      <4>9. LastOf(Y, "right", k)
        BY <2>6, <4>7, <4>8 DEF LastOf
      <4>10. Nearest(Y, "left") = k
        BY <2>6, <4>6, <4>9, NearestIs
      <4>11. Neighbour(tree, n, "left") = Nearest(Y, "left")
        BY <2>5, <2>6, <4>3, <4>5, NeighbourIs
      <4> QED
        BY <3>2, <3>4, <4>3, <4>4, <4>10, <4>11
    <3> QED
      BY <3>5, <3>6
  <2> QED
    BY <2>4, <2>7, <2>8, <2>9
<1> QED
  BY <1>1, Inductive, PTL

=============================================================================
