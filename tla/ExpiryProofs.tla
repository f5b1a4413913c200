---------------------------- MODULE ExpiryProofs ----------------------------
(***************************************************************************)
(* Theorems about the expiry timers, for every set of objects, every       *)
(* expiry time and every bound of the clock.                               *)
(***************************************************************************)
EXTENDS Expiry, FiniteSetTheorems, SequenceTheorems, TLAPS

\* An arithmetic fact about truncation to uint32.
LEMMA Truncated ==
    ASSUME NEW n \in Nat PROVE n % ClockMod \in Deadlines
BY ConstantsAssumption DEF Deadlines

\* obj_sched_expire keeps the types.
LEMMA SchedType ==
    ASSUME TypeOK, NEW o \in Objs, NEW tr \in [Types -> SUBSET Deadlines],
           NEW ptr \in [Rescheduled -> Deadlines \union {NULL, DANGLING}],
           obj_sched_expire(o, tr, ptr)
    PROVE  /\ tree' \in [Types -> SUBSET Deadlines]
           /\ link' \in [Objs -> Deadlines \union {NULL}]
           /\ expiry_node' \in [Rescheduled -> Deadlines \union {NULL, DANGLING}]
           /\ signalled' \in BOOLEAN /\ joined' \subseteq Rescheduled
<1>1. PICK key \in Deadlines : key = (now + Period[o]) % ClockMod
  <2>1. now + Period[o] \in Nat
    BY ConstantsAssumption DEF TypeOK
  <2> QED
    BY <2>1, Truncated
<1>2. TypeOf(o) \in Types
  BY DEF TypeOf, Types
<1>3. tree' = [tr EXCEPT ![TypeOf(o)] = @ \union {key}]
      /\ link' = [link EXCEPT ![o] = key]
      /\ expiry_node' \in {ptr, [ptr EXCEPT ![o] = key]}
  BY <1>1 DEF obj_sched_expire
<1>4. signalled' \in BOOLEAN /\ joined' \subseteq Rescheduled
  BY DEF obj_sched_expire, TypeOK
<1> QED
  BY <1>1, <1>2, <1>3, <1>4 DEF TypeOK

\* Freeing a node leaves pointers or dangling pointers.
LEMMA FreedType ==
    ASSUME TypeOK, NEW ty, NEW k
    PROVE  Freed(ty, k) \in [Rescheduled -> Deadlines \union {NULL, DANGLING}]
BY DEF TypeOK, Freed

\* memqueue_resched keeps the types.
LEMMA ReschedType ==
    ASSUME TypeOK, NEW o \in Rescheduled, Resched(o)
    PROVE  /\ tree' \in [Types -> SUBSET Deadlines]
           /\ link' \in [Objs -> Deadlines \union {NULL}]
           /\ expiry_node' \in [Rescheduled -> Deadlines \union {NULL, DANGLING}]
           /\ signalled' \in BOOLEAN /\ fault' \in BOOLEAN
           /\ joined' \subseteq Rescheduled
<1>0. o \in Objs /\ TypeOf(o) \in Types
  BY DEF Objs, TypeOf, Types
<1>1. PICK k : k = expiry_node[o]
  OBVIOUS
<1>2. CASE k \in {NULL, DANGLING}
  BY <1>1, <1>2 DEF Resched, TypeOK
<1>3. CASE k \notin {NULL, DANGLING}
  <2>1. PICK tr, ptr :
            /\ \/ tr = tree /\ ptr = expiry_node
               \/ /\ tr = [tree EXCEPT ![TypeOf(o)] = @ \ {k}]
                  /\ ptr = [Freed(TypeOf(o), k) EXCEPT ![o] = NULL]
            /\ obj_sched_expire(o, tr, ptr)
    BY <1>1, <1>3 DEF Resched
  <2>2. tr \in [Types -> SUBSET Deadlines]
    BY <1>0, <2>1 DEF TypeOK
  <2>3. ptr \in [Rescheduled -> Deadlines \union {NULL, DANGLING}]
    BY <2>1, FreedType DEF TypeOK
  <2> QED
    BY <1>0, <2>1, <2>2, <2>3, SchedType DEF Resched
<1> QED
  BY <1>2, <1>3

\* Every step keeps the types.
LEMMA TypeStep == ASSUME TypeOK, [Next]_vars PROVE TypeOK'
<1> USE ConstantsAssumption
<1>0. msecs_now \in Deadlines
  BY Truncated DEF TypeOK, msecs_now
<1>1. CASE UNCHANGED vars
  BY <1>1 DEF TypeOK, vars, cleanerVars
<1>2. ASSUME NEW o \in Objs, Create(o) PROVE TypeOK'
  BY <1>2 DEF TypeOK, Create, cleanerVars
<1>3. ASSUME NEW q \in Queues, PostDone(q) PROVE TypeOK'
  <2>1. calls' \in Seq(Objs)
    BY <1>3 DEF PostDone, Objs, Rescheduled
  <2> QED
    BY <1>3, <2>1 DEF TypeOK, PostDone, cleanerVars
<1>4. ASSUME NEW q \in Queues, NEW k \in Consumers \union {NULL}, PollBegin(q, k)
      PROVE  TypeOK'
  <2>1. q \in Objs /\ (k # NULL => k \in Objs /\ <<k, "joined">> \in Objs)
    BY DEF Objs, Rescheduled, Messages, Notices
  <2>2. PICK s \in Seq(Objs) : calls' = s \o <<q>>
    <3>1. <<>> \in Seq(Objs) /\ (k # NULL => << <<k, "joined">>, k >> \in Seq(Objs)
                                             /\ <<k>> \in Seq(Objs))
      BY <2>1
    <3> QED
      BY <1>4, <3>1 DEF PollBegin
  <2>3. <<q>> \in Seq(Objs)
    BY <2>1
  <2>4. calls' \in Seq(Objs)
    BY <2>2, <2>3
  <2> QED
    BY <1>4, <2>4 DEF TypeOK, PollBegin, cleanerVars
<1>6. CASE Call
  <2>1. PICK o \in Objs : o = Head(calls)
    BY <1>6 DEF TypeOK, Call
  <2>2. calls' \in Seq(Objs) /\ active' \in [Objs -> 0 .. MaxNow]
    BY <1>6, <2>1 DEF TypeOK, Call
  <2>3. /\ tree' \in [Types -> SUBSET Deadlines]
        /\ link' \in [Objs -> Deadlines \union {NULL}]
        /\ expiry_node' \in [Rescheduled -> Deadlines \union {NULL, DANGLING}]
        /\ signalled' \in BOOLEAN /\ fault' \in BOOLEAN
        /\ joined' \subseteq Rescheduled
    <3>1. CASE o \in Rescheduled /\ link[o] # NULL
      BY <1>6, <2>1, <3>1, ReschedType DEF Call
    <3>2. CASE ~(o \in Rescheduled /\ link[o] # NULL)
      <4>1. obj_sched_expire(o, tree, expiry_node) /\ fault' = fault
        BY <1>6, <2>1, <3>2 DEF Call
      <4>2. tree \in [Types -> SUBSET Deadlines]
            /\ expiry_node \in [Rescheduled -> Deadlines \union {NULL, DANGLING}]
        BY DEF TypeOK
      <4> QED
        BY <4>1, <4>2, SchedType DEF TypeOK
    <3> QED
      BY <3>1, <3>2
  <2> QED
    BY <1>6, <2>2, <2>3 DEF TypeOK, Call, cleanerVars
<1>7. CASE CleanerWake
  BY <1>0, <1>7 DEF TypeOK, CleanerWake, Types
<1>8. ASSUME NEW ty \in Types, NEW k \in Deadlines, ExpireNode(ty, k) PROVE TypeOK'
  <2> DEFINE O == {o \in Objs : TypeOf(o) = ty /\ link[o] = k}
  <2>1. calls' \in Seq(Objs)
    <3>1. CASE ty # "consumer"
      BY <1>8, <3>1 DEF ExpireNode
    <3>2. CASE ty = "consumer"
      <4>1. O \subseteq Consumers
        BY <3>2 DEF TypeOf
      <4>2. PICK n \in Nat : n = Cardinality(O)
        BY <4>1, FS_Subset, FS_CardinalityType
      <4>3. PICK s \in [1 .. n -> O] : calls' = [i \in 1 .. n |-> <<s[i], "expired">>]
        BY <1>8, <3>2, <4>2 DEF ExpireNode
      <4>4. \A i \in 1 .. n : <<s[i], "expired">> \in Objs
        BY <4>1, <4>3 DEF Objs, Messages, Notices
      <4>5. calls' \in [1 .. n -> Objs]
        BY <4>3, <4>4
      <4>6. calls' \in UNION {[1 .. i -> Objs] : i \in Nat}
        BY <4>2, <4>5, Zenon
      <4> QED
        BY <4>6, SeqDef, Zenon
    <3> QED
      BY <3>1, <3>2
  <2>2. tree' \in [Types -> SUBSET Deadlines]
    BY <1>8 DEF TypeOK, ExpireNode
  <2>3. /\ link' \in [Objs -> Deadlines \union {NULL}]
        /\ expiry_node' \in [Rescheduled -> Deadlines \union {NULL, DANGLING}]
        /\ gone' \subseteq Objs
    BY <1>8, FreedType DEF TypeOK, ExpireNode
  <2> QED
    BY <1>8, <2>1, <2>2, <2>3 DEF TypeOK, ExpireNode
<1>9. ASSUME NEW ty \in Types, NEW next \in Types, NextWalk(ty, next) PROVE TypeOK'
  BY <1>0, <1>9 DEF TypeOK, NextWalk
<1>10. CASE CleanerSleep
  <2>1. wake' \in Nat \union {NULL} /\ pc' \in Types \union {"wait"}
    BY <1>10 DEF TypeOK, CleanerSleep, Types
  <2> QED
    BY <1>0, <1>10, <2>1 DEF TypeOK, CleanerSleep
<1>11. CASE Tick
  BY <1>11 DEF TypeOK, Tick, cleanerVars
<1> QED
  BY <1>1, <1>2, <1>3, <1>4, <1>6, <1>7, <1>8, <1>9, <1>10, <1>11
  DEF Next, Request, Cleaner

\* The initial state is well typed.
LEMMA TypeInit == Init => TypeOK
<1> SUFFICES ASSUME Init PROVE TypeOK
  OBVIOUS
<1>1. 0 \in Deadlines /\ 0 \in 0 .. MaxNow /\ <<>> \in Seq(Objs)
  BY ConstantsAssumption DEF Deadlines
<1>2. tree \in [Types -> SUBSET Deadlines]
  BY DEF Init
<1> QED
  BY <1>1, <1>2 DEF Init, TypeOK

\* The state of the timers is well typed in every behaviour.
THEOREM TypeCorrect == Spec => []TypeOK
<1>1. Init => TypeOK
  BY TypeInit
<1>2. TypeOK /\ [Next]_vars => TypeOK'
  BY TypeStep
<1> QED
  BY <1>1, <1>2, PTL DEF Spec

\* Without wrap-around a deadline is the time it stands for.
LEMMA NotTruncated ==
    ASSUME TypeOK, NoWrap
    PROVE  /\ msecs_now = now
           /\ \A o \in Objs : (now + Period[o]) % ClockMod = now + Period[o]
<1>1. \A n \in 0 .. ClockMod - 1 : n % ClockMod = n
  BY ConstantsAssumption
<1>2. now \in 0 .. ClockMod - 1 /\ \A o \in Objs : now + Period[o] \in 0 .. ClockMod - 1
  BY ConstantsAssumption DEF TypeOK, NoWrap
<1> QED
  BY <1>1, <1>2 DEF msecs_now

\* A tree is part of the nodes.
LEMMA NodesOf ==
    ASSUME NEW tr, NEW k
    PROVE  k \in Nodes(tr) <=> \E ty \in Types : k \in tr[ty]
BY DEF Nodes

\* obj_sched_expire signals the cleaner whenever the new deadline comes before
\* the time the cleaner wakes by itself.
LEMMA SchedCovers ==
    ASSUME TypeOK, NoWrap, SleepCovers, NEW o \in Objs,
           NEW tr \in [Types -> SUBSET Deadlines], NEW ptr,
           \A ty \in Types : tr[ty] \subseteq tree[ty],
           obj_sched_expire(o, tr, ptr), UNCHANGED <<pc, wake>>
    PROVE  SleepCovers'
<1> SUFFICES ASSUME pc = "wait", ~signalled', NEW k \in Nodes(tree')
             PROVE  wake # NULL /\ wake <= k
  BY DEF SleepCovers
<1>1. PICK key \in Nat : key = now + Period[o] /\ key > now
  <2>1. now \in Nat /\ Period[o] \in Nat /\ Period[o] > 0
    BY ConstantsAssumption DEF TypeOK
  <2> QED
    BY <2>1
<1>2. tree' = [tr EXCEPT ![TypeOf(o)] = @ \union {key}]
  BY <1>1, NotTruncated DEF obj_sched_expire
<1>3. PICK r \in 0 .. ClockMod : /\ MinTimeout(tr, r) /\ ~signalled
                                 /\ r # 0 /\ r <= Period[o]
  <2>1. PICK r \in 0 .. ClockMod :
            /\ MinTimeout(tr, r)
            /\ signalled' = (signalled \/ (pc = "wait" /\ (r = 0 \/ r > Period[o])))
    BY DEF obj_sched_expire
  <2>2. ~signalled /\ r # 0 /\ ~(r > Period[o])
    BY <2>1
  <2>3. Period[o] \in Nat
    BY ConstantsAssumption
  <2>4. r <= Period[o]
    BY <2>2, <2>3
  <2> QED
    BY <2>1, <2>2, <2>4
<1>4. ASSUME NEW j \in Nodes(tr)
      PROVE  j \in Nat /\ wake \in Nat /\ wake # NULL /\ wake <= j
  <2>1. j \in Nodes(tree)
    BY NodesOf
  <2>2. j \in Nat
    BY NodesOf DEF Deadlines
  <2>3. wake # NULL /\ wake <= j
    BY <1>3, <2>1 DEF SleepCovers
  <2> QED
    BY <2>2, <2>3 DEF TypeOK
<1>5. CASE k \in Nodes(tr)
  BY <1>4, <1>5
<1>6. CASE k = key
  <2>1. PICK j \in Nodes(tr) : j <= now \/ r = j - now
    BY <1>3, NotTruncated DEF MinTimeout
  <2>2. j \in Nat /\ wake \in Nat /\ wake # NULL /\ wake <= j
    BY <1>4, <2>1
  <2>3. now \in Nat /\ Period[o] \in Nat
    BY ConstantsAssumption DEF TypeOK
  <2>4. j <= key
    BY <1>1, <1>3, <2>1, <2>2, <2>3
  <2> QED
    BY <1>6, <2>2, <2>4
<1>7. k \in Nodes(tr) \/ k = key
  <2>1. TypeOf(o) \in Types
    BY DEF TypeOf, Types
  <2>2. PICK ty \in Types : k \in tree'[ty]
    BY NodesOf
  <2>3. k \in tr[ty] \/ k = key
    BY <1>2, <2>1, <2>2
  <2> QED
    BY <2>3, NodesOf
<1> QED
  BY <1>5, <1>6, <1>7

\* Every step keeps the cleaner's sleep short enough.
LEMMA SleepStep ==
    ASSUME TypeOK, NoWrap, SleepCovers, [Next]_vars PROVE SleepCovers'
<1> USE ConstantsAssumption
<1>1. CASE UNCHANGED <<tree, pc, wake, signalled>>
  BY <1>1 DEF SleepCovers, Nodes
<1>2. CASE Call
  <2>1. PICK o \in Objs : o = Head(calls)
    BY <1>2 DEF TypeOK, Call
  <2>2. UNCHANGED <<pc, wake>>
    BY <1>2 DEF Call, cleanerVars
  <2>3. tree \in [Types -> SUBSET Deadlines]
    BY DEF TypeOK
  <2>4. CASE obj_sched_expire(o, tree, expiry_node)
    BY <2>2, <2>3, <2>4, SchedCovers
  <2>5. CASE Resched(o)
    <3>1. PICK k : k = expiry_node[o]
      OBVIOUS
    <3>2. CASE k \in {NULL, DANGLING}
      BY <1>1, <2>2, <2>5, <3>1, <3>2 DEF Resched
    <3>3. CASE k \notin {NULL, DANGLING}
      <4>1. PICK tr, ptr :
                /\ tr = tree \/ tr = [tree EXCEPT ![TypeOf(o)] = @ \ {k}]
                /\ obj_sched_expire(o, tr, ptr)
        BY <2>5, <3>1, <3>3 DEF Resched
      <4>2. tr \in [Types -> SUBSET Deadlines] /\ \A ty \in Types : tr[ty] \subseteq tree[ty]
        BY <2>3, <4>1
      <4> QED
        BY <2>2, <4>1, <4>2, SchedCovers
    <3> QED
      BY <3>2, <3>3
  <2> QED
    BY <1>2, <2>1, <2>4, <2>5 DEF Call
<1>3. CASE CleanerWake
  BY <1>3 DEF CleanerWake, SleepCovers
<1>4. ASSUME NEW ty \in Types, NEW k \in Deadlines, ExpireNode(ty, k)
      PROVE  SleepCovers'
  BY <1>4 DEF ExpireNode, Walks, Types, SleepCovers
<1>5. ASSUME NEW ty \in Types, NEW next \in Types, NextWalk(ty, next)
      PROVE  SleepCovers'
  BY <1>5 DEF NextWalk, Types, SleepCovers
<1>6. CASE CleanerSleep
  <2> SUFFICES ASSUME pc' = "wait", NEW k \in Nodes(tree)
               PROVE  wake' # NULL /\ wake' <= k
    BY <1>6 DEF CleanerSleep, SleepCovers
  <2>1. PICK sleep \in 0 .. ClockMod :
            MinTimeout(tree, sleep) /\ sleep # 1
            /\ wake' = IF sleep \in {0, 1} THEN NULL ELSE now + sleep
    BY <1>6 DEF CleanerSleep
  <2>2. PICK j \in Nodes(tree) : j <= k /\ sleep = j - now /\ j > now
    BY <2>1, NotTruncated DEF MinTimeout
  <2>3. j \in Nat /\ k \in Nat /\ now \in Nat
    BY NodesOf DEF TypeOK, Deadlines
  <2>4. wake' = j
    BY <2>1, <2>2, <2>3
  <2> QED
    BY <2>2, <2>3, <2>4
<1> QED
  BY <1>1, <1>2, <1>3, <1>4, <1>5, <1>6
  DEF Next, Request, Cleaner, Create, PostDone, PollBegin, Tick, vars, cleanerVars

\* While no deadline wraps, the cleaner never oversleeps: every timer that is
\* set, restarted or left over is due no earlier than the cleaner wakes.
THEOREM NeverOversleeps == ASSUME NoWrap PROVE Spec => []SleepCovers
<1>1. Init => TypeOK /\ SleepCovers
  <2>1. Init => TypeOK
    BY TypeInit
  <2>2. Init => SleepCovers
    BY DEF Init, SleepCovers, Nodes
  <2> QED
    BY <2>1, <2>2
<1>2. (TypeOK /\ SleepCovers) /\ [Next]_vars => (TypeOK /\ SleepCovers)'
  BY TypeStep, SleepStep
<1> QED
  BY <1>1, <1>2, PTL DEF Spec

\* obj_sched_expire keeps the pointers exact, given pointers that are exact
\* for all objects but the one it schedules.
LEMMA SchedPtr ==
    ASSUME TypeOK, NEW o \in Objs, NEW tr,
           NEW ptr \in [Rescheduled -> Deadlines \union {NULL, DANGLING}],
           \A p \in Rescheduled \ joined : p # o => ptr[p] = link[p],
           obj_sched_expire(o, tr, ptr)
    PROVE  NodePtrExact'
<1> SUFFICES ASSUME NEW p \in Rescheduled, p \notin joined'
             PROVE  expiry_node'[p] = link'[p]
  BY DEF NodePtrExact
<1>0. p \in Objs
  BY DEF Objs
<1>1. PICK key : key = (now + Period[o]) % ClockMod
  OBVIOUS
<1>2. /\ link' = [link EXCEPT ![o] = key]
      /\ expiry_node' = IF key \notin tr[TypeOf(o)] /\ o \in Rescheduled
                        THEN [ptr EXCEPT ![o] = key] ELSE ptr
      /\ joined' = (joined \ {o}) \union {x \in {o} \cap Rescheduled : key \in tr[TypeOf(o)]}
  BY <1>1 DEF obj_sched_expire
<1>3. CASE p = o
  BY <1>0, <1>2, <1>3 DEF TypeOK
<1>4. CASE p # o
  BY <1>0, <1>2, <1>4 DEF TypeOK
<1> QED
  BY <1>3, <1>4

\* A resched frees a node only when nobody whose pointer is exact is left in it.
LEMMA ReschedPtr ==
    ASSUME TypeOK, NodePtrExact, NEW o \in Rescheduled, Resched(o)
    PROVE  NodePtrExact'
<1>0. o \in Objs
  BY DEF Objs
<1>1. PICK k : k = expiry_node[o]
  OBVIOUS
<1>2. PICK ty : ty = TypeOf(o)
  OBVIOUS
<1>3. CASE k \in {NULL, DANGLING}
  BY <1>1, <1>3 DEF Resched, NodePtrExact
<1>4. CASE k \notin {NULL, DANGLING} /\ \A p \in Objs \ {o} : TypeOf(p) = ty => link[p] # k
  <2>1. PICK ptr : ptr = [Freed(ty, k) EXCEPT ![o] = NULL]
    OBVIOUS
  <2>2. \E tr : obj_sched_expire(o, tr, ptr)
    BY <1>1, <1>2, <1>4, <2>1 DEF Resched
  <2>3. ptr \in [Rescheduled -> Deadlines \union {NULL, DANGLING}]
    BY <2>1, FreedType
  <2>4. ASSUME NEW p \in Rescheduled, p \notin joined, p # o PROVE ptr[p] = link[p]
    <3>1. expiry_node[p] = link[p] /\ p \in Objs
      BY <2>4 DEF NodePtrExact, Objs
    <3>2. ~(TypeOf(p) = ty /\ expiry_node[p] = k)
      BY <1>4, <2>4, <3>1
    <3> QED
      BY <2>1, <2>4, <3>1, <3>2 DEF Freed
  <2> QED
    BY <1>0, <2>2, <2>3, <2>4, SchedPtr
<1>5. CASE k \notin {NULL, DANGLING} /\ ~(\A p \in Objs \ {o} : TypeOf(p) = ty => link[p] # k)
  <2>1. obj_sched_expire(o, tree, expiry_node)
    BY <1>1, <1>2, <1>5 DEF Resched
  <2>2. /\ expiry_node \in [Rescheduled -> Deadlines \union {NULL, DANGLING}]
        /\ \A p \in Rescheduled \ joined : p # o => expiry_node[p] = link[p]
    BY DEF TypeOK, NodePtrExact
  <2> QED
    BY <1>0, <2>1, <2>2, SchedPtr
<1> QED
  BY <1>3, <1>4, <1>5

\* Every step keeps the pointers exact.
LEMMA PtrStep == ASSUME TypeOK, NodePtrExact, [Next]_vars PROVE NodePtrExact'
<1>1. CASE UNCHANGED <<link, expiry_node, joined>>
  BY <1>1 DEF NodePtrExact
<1>2. CASE Call
  <2>1. PICK o \in Objs : o = Head(calls)
    BY <1>2 DEF TypeOK, Call
  <2>2. CASE o \in Rescheduled /\ link[o] # NULL
    BY <1>2, <2>1, <2>2, ReschedPtr DEF Call
  <2>3. CASE ~(o \in Rescheduled /\ link[o] # NULL)
    <3>1. obj_sched_expire(o, tree, expiry_node)
      BY <1>2, <2>1, <2>3 DEF Call
    <3>2. /\ expiry_node \in [Rescheduled -> Deadlines \union {NULL, DANGLING}]
          /\ \A p \in Rescheduled \ joined : p # o => expiry_node[p] = link[p]
      BY DEF TypeOK, NodePtrExact
    <3> QED
      BY <3>1, <3>2, SchedPtr
  <2> QED
    BY <2>2, <2>3
<1>3. ASSUME NEW ty \in Types, NEW k \in Deadlines, ExpireNode(ty, k)
      PROVE  NodePtrExact'
  <2> SUFFICES ASSUME NEW p \in Rescheduled, p \notin joined
               PROVE  expiry_node'[p] = link'[p]
    BY <1>3 DEF ExpireNode, NodePtrExact
  <2>1. p \in Objs /\ expiry_node[p] = link[p]
    BY DEF Objs, NodePtrExact
  <2>2. link'[p] = IF TypeOf(p) = ty /\ link[p] = k THEN NULL ELSE link[p]
    BY <1>3, <2>1 DEF ExpireNode
  <2>3. expiry_node'[p] = IF TypeOf(p) = ty /\ link[p] = k THEN NULL ELSE Freed(ty, k)[p]
    BY <1>3, <2>1 DEF ExpireNode
  <2> QED
    BY <2>1, <2>2, <2>3 DEF Freed
<1> QED
  BY <1>1, <1>2, <1>3
  DEF Next, Request, Cleaner, Create, PostDone, PollBegin, CleanerWake, NextWalk,
      CleanerSleep, Tick, vars, cleanerVars

\* An object that was given an expiry node of its own has a pointer to it for
\* as long as it is linked there.
THEOREM NodePtrCorrect == Spec => []NodePtrExact
<1>1. Init => TypeOK /\ NodePtrExact
  <2>1. Init => NodePtrExact
    BY DEF Init, NodePtrExact, Objs
  <2> QED
    BY <2>1, TypeInit
<1>2. (TypeOK /\ NodePtrExact) /\ [Next]_vars => (TypeOK /\ NodePtrExact)'
  BY TypeStep, PtrStep
<1> QED
  BY <1>1, <1>2, PTL DEF Spec

\* The deadline of such an object is its period after its last activity, and
\* the cleaner never compares with a time that is yet to come.
DeadlineExact ==
    /\ \A o \in Rescheduled \ joined :
            link[o] # NULL => link[o] = active[o] + Period[o]
    /\ t_diff <= now

\* A scheduled object's deadline is counted from now.
LEMMA SchedDeadline ==
    ASSUME TypeOK, NoWrap, DeadlineExact, NEW o \in Objs, NEW tr, NEW ptr,
           obj_sched_expire(o, tr, ptr), active' = [active EXCEPT ![o] = now],
           UNCHANGED <<t_diff, now>>
    PROVE  DeadlineExact'
<1> SUFFICES ASSUME NEW p \in Rescheduled, p \notin joined', link'[p] # NULL
             PROVE  link'[p] = active'[p] + Period[p]
  BY DEF DeadlineExact
<1>0. p \in Objs
  BY DEF Objs
<1>1. link' = [link EXCEPT ![o] = now + Period[o]]
  BY NotTruncated DEF obj_sched_expire
<1>2. CASE p = o
  BY <1>0, <1>1, <1>2 DEF TypeOK
<1>3. CASE p # o
  <2>1. p \notin joined
    BY <1>3 DEF obj_sched_expire
  <2>2. link'[p] = link[p] /\ active'[p] = active[p]
    BY <1>0, <1>1, <1>3 DEF TypeOK
  <2> QED
    BY <2>1, <2>2 DEF DeadlineExact
<1> QED
  BY <1>2, <1>3

\* Every step keeps the deadlines exact.
LEMMA DeadlineStep ==
    ASSUME TypeOK, NoWrap, NodePtrExact, DeadlineExact, [Next]_vars
    PROVE  DeadlineExact'
<1>0. msecs_now = now /\ now \in Nat /\ now <= now
  BY NotTruncated DEF TypeOK
<1>1. CASE UNCHANGED <<link, active, joined, now>> /\ t_diff' \in {t_diff, now}
  BY <1>0, <1>1 DEF DeadlineExact
<1>2. CASE Call
  <2>1. PICK o \in Objs : o = Head(calls)
    BY <1>2 DEF TypeOK, Call
  <2>2. active' = [active EXCEPT ![o] = now] /\ UNCHANGED <<t_diff, now>>
    BY <1>2, <2>1 DEF Call, cleanerVars
  <2>3. CASE \E tr, ptr : obj_sched_expire(o, tr, ptr)
    BY <2>2, <2>3, SchedDeadline
  <2>4. CASE ~\E tr, ptr : obj_sched_expire(o, tr, ptr)
    <3>1. /\ o \in Rescheduled /\ link[o] # NULL
          /\ Resched(o)
      BY <1>2, <2>1, <2>4 DEF Call
    <3>2. expiry_node[o] \in {NULL, DANGLING} /\ UNCHANGED <<link, joined>>
      BY <2>4, <3>1 DEF Resched
    <3>3. link[o] \notin {NULL, DANGLING}
      BY <3>1, ConstantsAssumption DEF TypeOK, Deadlines
    <3>4. o \in joined
      BY <3>1, <3>2, <3>3 DEF NodePtrExact
    <3>5. \A p \in Objs : p # o => active'[p] = active[p]
      BY <2>2 DEF TypeOK
    <3> QED
      BY <2>2, <3>2, <3>4, <3>5 DEF DeadlineExact, Objs
  <2> QED
    BY <2>3, <2>4
<1>3. ASSUME NEW ty \in Types, NEW k \in Deadlines, ExpireNode(ty, k)
      PROVE  DeadlineExact'
  <2>1. \A p \in Objs : link'[p] \in {NULL, link[p]}
    BY <1>3 DEF ExpireNode
  <2>2. UNCHANGED <<active, joined, now, t_diff>>
    BY <1>3 DEF ExpireNode
  <2> QED
    BY <2>1, <2>2 DEF DeadlineExact, Objs
<1>4. CASE Tick
  BY <1>0, <1>4 DEF Tick, TypeOK, DeadlineExact, Deadlines, cleanerVars
<1>5. CASE CleanerWake \/ CleanerSleep \/ \E ty, next \in Types : NextWalk(ty, next)
  BY <1>0, <1>1, <1>5 DEF CleanerWake, CleanerSleep, NextWalk
<1>6. CASE UNCHANGED <<link, active, joined, now, t_diff>>
  BY <1>1, <1>6
<1> QED
  BY <1>2, <1>3, <1>4, <1>5, <1>6
  DEF Next, Request, Cleaner, Create, PostDone, PollBegin, vars, cleanerVars

\* Only objects that are due expire.
LEMMA ExpiresLate ==
    ASSUME TypeOK, DeadlineExact, [Next]_vars,
           NEW o \in Rescheduled, o \notin joined, o \in gone' \ gone
    PROVE  now >= active[o] + Period[o]
<1>1. PICK ty \in Types, k \in Deadlines : ExpireNode(ty, k)
  BY DEF Next, Request, Cleaner, Create, PostDone, PollBegin, Call, CleanerWake,
         NextWalk, CleanerSleep, Tick, vars
<1>2. link[o] = k /\ k <= t_diff
  BY <1>1 DEF ExpireNode, Due
<1>3. link[o] = active[o] + Period[o] /\ t_diff <= now
  BY <1>2, ConstantsAssumption DEF DeadlineExact, Deadlines
<1>4. k \in Nat /\ t_diff \in Nat /\ now \in Nat
  BY DEF TypeOK, Deadlines
<1> QED
  BY <1>2, <1>3, <1>4

\* While no deadline wraps, a queue or consumer that has an expiry node of
\* its own expires only after its period of inactivity.
THEOREM InactivityCorrect == ASSUME NoWrap PROVE Spec => InactivityRespected
<1> DEFINE IInv == TypeOK /\ NodePtrExact /\ DeadlineExact
<1>1. Init => IInv
  <2>1. Init => NodePtrExact /\ DeadlineExact
    BY DEF Init, NodePtrExact, DeadlineExact, Objs
  <2> QED
    BY <2>1, TypeInit
<1>2. IInv /\ [Next]_vars => IInv'
  BY TypeStep, PtrStep, DeadlineStep
<1>3. IInv /\ [Next]_vars =>
        [\A o \in Rescheduled \ joined :
            o \in gone' \ gone => now >= active[o] + Period[o]]_vars
  BY ExpiresLate
<1> QED
  BY <1>1, <1>2, <1>3, PTL DEF Spec, InactivityRespected

=============================================================================
