--------------------------- MODULE MemQueueProofs ---------------------------
(***************************************************************************)
(* The engine of module MemQueue for every set of queue names, queues,     *)
(* clients, consumer ids and options, every MaxRev and whatever the        *)
(* clients do: its state keeps its types, and until freed memory is used,  *)
(* the store is exact, message reference counts are exact, a pending       *)
(* message stays queued and no poll sleeps on a message.  Under the        *)
(* contract of MemQueueContract, no freed queue is ever used and every     *)
(* queue's reference count is exact.                                       *)
(***************************************************************************)
EXTENDS MemQueueContract, FiniteSetTheorems, SequenceTheorems, TLAPS

-----------------------------------------------------------------------------
(* Lists, finite sets and types *)

\* Sets of clients are finite, so the code's counters over them are numbers.
LEMMA ClientSets ==
    ASSUME NEW S \in SUBSET Clients
    PROVE  IsFiniteSet(S) /\ Cardinality(S) \in Nat
BY FS_Subset, FS_CardinalityType, ConstantsAssumption

\* Bound(q) is a set of clients, whatever the list of binders holds.
LEMMA BoundClients ==
    ASSUME NEW q PROVE Bound(q) \in SUBSET Clients
BY DEF Bound

\* So are sets of messages of one queue: revisions are bounded.
LEMMA QueueMsgSets ==
    ASSUME NEW q, NEW S \in SUBSET Messages, \A m \in S : m[1] = q
    PROVE  IsFiniteSet(S) /\ Cardinality(S) \in Nat
<1>1. IsFiniteSet({q}) /\ IsFiniteSet(1 .. MaxRev)
  <2>1. 1 \in Int /\ MaxRev \in Int
    BY ConstantsAssumption
  <2>2. IsFiniteSet(1 .. MaxRev)
    BY <2>1, FS_Interval
  <2>3. IsFiniteSet({q})
    BY FS_Singleton
  <2> QED
    BY <2>2, <2>3
<1>2. IsFiniteSet({q} \X (1 .. MaxRev))
  BY <1>1, FS_Product
<1>3. S \subseteq {q} \X (1 .. MaxRev)
  BY DEF Messages
<1> QED
  BY <1>2, <1>3, FS_Subset, FS_CardinalityType

\* A set with exactly one element has only that element.
LEMMA OnlyElement ==
    ASSUME NEW S, IsFiniteSet(S), NEW x \in S, Cardinality(S) = 1
    PROVE  S = {x}
<1>1. IsFiniteSet(S \ {x}) /\ Cardinality(S \ {x}) = 0
  BY FS_RemoveElement
<1>2. S \ {x} = {}
  BY <1>1, FS_EmptySet
<1> QED
  BY <1>2

\* t is the list s without its element i.
Without(s, i, t) ==
    /\ t \in Seq(Clients)
    /\ Len(t) = Len(s) - 1
    /\ \A j \in 1 .. Len(t) : t[j] = IF j < i THEN s[j] ELSE s[j + 1]

\* Cutting a list before and after element i leaves the list without it.
LEMMA RemoveAt ==
    ASSUME NEW s \in Seq(Clients), NEW i \in 1 .. Len(s), NEW t,
           t = SubSeq(s, 1, i - 1) \o SubSeq(s, i + 1, Len(s))
    PROVE  Without(s, i, t)
<1> DEFINE x == SubSeq(s, 1, i - 1)
           y == SubSeq(s, i + 1, Len(s))
<1>0. Len(s) \in Nat /\ \A k \in 1 .. Len(s) : s[k] \in Clients
  OBVIOUS
<1>1. x \in Seq(Clients) /\ Len(x) = i - 1
      /\ \A k \in 1 .. i - 1 : x[k] = s[k]
  <2>1. 1 \in Int /\ i - 1 \in Int /\ \A k \in 1 .. i - 1 : s[k] \in Clients
    BY <1>0
  <2>2. x \in Seq(Clients) /\ Len(x) = (IF 1 <= i - 1 THEN (i - 1) - 1 + 1 ELSE 0)
        /\ \A k \in 1 .. (i - 1) - 1 + 1 : x[k] = s[1 + k - 1]
    BY <2>1, SubSeqProperties
  <2> HIDE DEF x
  <2> QED
    BY <2>2
<1>2. y \in Seq(Clients) /\ Len(y) = Len(s) - i
      /\ \A k \in 1 .. Len(s) - i : y[k] = s[i + k]
  <2>1. i + 1 \in Int /\ Len(s) \in Int /\ \A k \in i + 1 .. Len(s) : s[k] \in Clients
    BY <1>0
  <2>2. y \in Seq(Clients)
        /\ Len(y) = (IF i + 1 <= Len(s) THEN Len(s) - (i + 1) + 1 ELSE 0)
        /\ \A k \in 1 .. Len(s) - (i + 1) + 1 : y[k] = s[(i + 1) + k - 1]
    BY <2>1, SubSeqProperties
  <2> HIDE DEF y
  <2> QED
    BY <2>2
<1> HIDE DEF x, y
<1>3. x \o y \in Seq(Clients) /\ Len(x \o y) = Len(x) + Len(y)
      /\ \A j \in 1 .. Len(x) + Len(y) :
            (x \o y)[j] = IF j <= Len(x) THEN x[j] ELSE y[j - Len(x)]
  BY <1>1, <1>2, ConcatProperties
<1>4. Len(x \o y) = Len(s) - 1
  BY <1>0, <1>1, <1>2, <1>3
<1>5. ASSUME NEW j \in 1 .. Len(x \o y)
      PROVE  (x \o y)[j] = IF j < i THEN s[j] ELSE s[j + 1]
  <2>1. j \in 1 .. Len(x) + Len(y) /\ j \in Int /\ i \in Int
    BY <1>0, <1>1, <1>2, <1>3
  <2>2. CASE j < i
    <3>1. j <= Len(x) /\ j \in 1 .. i - 1
      BY <2>1, <2>2, <1>0, <1>1
    <3> QED
      BY <2>1, <2>2, <3>1, <1>1, <1>3
  <2>3. CASE ~(j < i)
    <3>1. ~(j <= Len(x)) /\ j - Len(x) \in 1 .. Len(s) - i /\ i + (j - Len(x)) = j + 1
      BY <2>1, <2>3, <1>0, <1>1, <1>2
    <3> QED
      BY <2>1, <2>3, <3>1, <1>2, <1>3
  <2> QED
    BY <2>2, <2>3
<1> QED
  BY <1>3, <1>4, <1>5 DEF Without, x, y

\* t holds the clients of s other than c, none of them twice if s has none
\* twice; c is still there only if it was there twice.
Unlinked(s, c, t) ==
    /\ t \in Seq(Clients)
    /\ \A j \in 1 .. Len(t) : \E k \in 1 .. Len(s) : t[j] = s[k]
    /\ \A k \in 1 .. Len(s) : s[k] # c => \E j \in 1 .. Len(t) : t[j] = s[k]
    /\ (\A k, l \in 1 .. Len(s) : s[k] = s[l] => k = l)
         => /\ \A k, l \in 1 .. Len(t) : t[k] = t[l] => k = l
            /\ \A k \in 1 .. Len(t) : t[k] # c

\* Unlinking a client's binder from a list of binders.
LEMMA UnlinkFacts ==
    ASSUME NEW s \in Seq(Clients), NEW c PROVE Unlinked(s, c, Unlink(s, c))
<1>1. CASE \E i \in 1 .. Len(s) : s[i] = c
  <2>1. PICK i \in 1 .. Len(s) :
            s[i] = c /\ Unlink(s, c) = SubSeq(s, 1, i - 1) \o SubSeq(s, i + 1, Len(s))
    BY <1>1 DEF Unlink
  <2>2. PICK t : t = Unlink(s, c) /\ Without(s, i, t)
    BY <2>1, RemoveAt
  <2>a. s[i] = c /\ Len(s) \in Nat
    BY <2>1
  <2>b. /\ t \in Seq(Clients) /\ Len(t) = Len(s) - 1
        /\ \A j \in 1 .. Len(t) : t[j] = IF j < i THEN s[j] ELSE s[j + 1]
    BY <2>2, Zenon DEF Without
  <2>3. /\ s[i] = c /\ Len(s) \in Nat
        /\ t \in Seq(Clients) /\ Len(t) = Len(s) - 1
        /\ \A j \in 1 .. Len(t) : t[j] = IF j < i THEN s[j] ELSE s[j + 1]
    BY <2>a, <2>b, Zenon
  <2> DEFINE at(j) == IF j < i THEN j ELSE j + 1
  <2>4. ASSUME NEW j \in 1 .. Len(t)
        PROVE  at(j) \in 1 .. Len(s) /\ at(j) # i /\ t[j] = s[at(j)]
    BY <2>3
  <2>5. ASSUME NEW k \in 1 .. Len(s), s[k] # c
        PROVE  \E j \in 1 .. Len(t) : t[j] = s[k]
    <3>1. CASE k < i
      BY <3>1, <2>3, k \in 1 .. Len(t)
    <3>2. CASE k > i
      <4>1. k - 1 \in 1 .. Len(t) /\ ~(k - 1 < i) /\ (k - 1) + 1 = k
        BY <3>2, <2>3
      <4> QED
        BY <4>1, <2>3
    <3> QED
      BY <3>1, <3>2, <2>3, <2>5
  <2>6. ASSUME \A k, l \in 1 .. Len(s) : s[k] = s[l] => k = l,
               NEW k \in 1 .. Len(t), NEW l \in 1 .. Len(t), t[k] = t[l]
        PROVE  k = l
    <3>1. s[at(k)] = s[at(l)] /\ at(k) \in 1 .. Len(s) /\ at(l) \in 1 .. Len(s)
      BY <2>4, <2>6
    <3>2. at(k) = at(l)
      BY <2>6, <3>1
    <3> QED
      BY <3>2, <2>3
  <2>7. ASSUME \A k, l \in 1 .. Len(s) : s[k] = s[l] => k = l, NEW k \in 1 .. Len(t)
        PROVE  t[k] # c
    BY <2>3, <2>4, <2>7
  <2>8. \A j \in 1 .. Len(t) : \E k \in 1 .. Len(s) : t[j] = s[k]
    BY <2>4
  <2> QED
    BY <2>2, <2>3, <2>5, <2>6, <2>7, <2>8 DEF Unlinked
<1>2. CASE ~ \E i \in 1 .. Len(s) : s[i] = c
  BY <1>2 DEF Unlink, Unlinked
<1> QED
  BY <1>1, <1>2

\* The types of what memqueue_release assigns.
LEMMA ReleaseType ==
    ASSUME TypeOK, NEW q \in Queues \union {NULL}, memqueue_release(q)
    PROVE  /\ queue_store' \in [QIds -> Queues \union {NULL}]
           /\ life' \in [Queues -> {"unused", "live", "freed"}]
           /\ ref_count' \in [Queues -> Int]
           /\ fault' \in BOOLEAN
<1>1. fault' \in BOOLEAN
  BY DEF memqueue_release
<1>2. ref_count' \in [Queues -> Int]
  <2>1. ref_count' = [ref_count EXCEPT ![q] = @ - 1] /\ ref_count \in [Queues -> Int]
    BY DEF TypeOK, memqueue_release
  <2>2. CASE q \in Queues
    BY <2>1, <2>2
  <2>3. CASE q \notin Queues
    <3>1. ref_count' = ref_count
      BY <2>1, <2>3
    <3> QED
      BY <2>1, <3>1
  <2> QED
    BY <2>2, <2>3
<1>3. life' \in [Queues -> {"unused", "live", "freed"}]
  BY DEF TypeOK, memqueue_release
<1>4. queue_store' \in [QIds -> Queues \union {NULL}]
  BY DEF TypeOK, memqueue_release
<1> QED
  BY <1>1, <1>2, <1>3, <1>4

MsgCreateTypes ==
    /\ rev' \in [Queues -> 0 .. MaxRev]
    /\ msg_queue' \subseteq Messages
    /\ msg_new' \subseteq Messages
    /\ msg_ref' \in [Messages -> Int]
    /\ msg_own' \subseteq Messages
    /\ pending' \in [Clients -> SUBSET Messages]
    /\ ref_count' \in [Queues -> Int]

\* The types of what memqueue_msg_create assigns, whoever calls it.
LEMMA CreateType ==
    ASSUME TypeOK, NEW q \in Queues, NEW keep \in Retention,
           NEW dropped \in SUBSET Messages, NEW extra \in Int,
           memqueue_msg_create(q, keep, dropped, extra)
    PROVE  <<q, rev[q] + 1>> \in Messages /\ MsgCreateTypes
<1> DEFINE m == <<q, rev[q] + 1>>
<1>1. m \in Messages
  BY ConstantsAssumption DEF TypeOK, memqueue_msg_create, Messages
<1>2. Cardinality(Bound(q)) \in Nat
  BY BoundClients, ClientSets
<1>3. rev' \in [Queues -> 0 .. MaxRev]
  BY ConstantsAssumption DEF TypeOK, memqueue_msg_create
<1>4. msg_queue' \subseteq Messages /\ msg_new' \subseteq Messages
  BY <1>1 DEF TypeOK, memqueue_msg_create
<1>5. msg_own' \subseteq Messages
  BY <1>1 DEF TypeOK, memqueue_msg_create
<1>6. msg_ref' \in [Messages -> Int] /\ ref_count' \in [Queues -> Int]
  BY <1>1, <1>2 DEF TypeOK, memqueue_msg_create
<1>7. pending' \in [Clients -> SUBSET Messages]
  BY <1>1 DEF TypeOK, memqueue_msg_create
<1> QED
  BY <1>1, <1>3, <1>4, <1>5, <1>6, <1>7 DEF MsgCreateTypes

\* Waking clients keeps every pc a program counter.
LEMMA WokenType ==
    ASSUME TypeOK, NEW B PROVE Woken(B) \in [Clients -> PCs]
BY DEF TypeOK, Woken, PCs

\* objs_expire writes to messages, queues and consumers.
LEMMA ClearType ==
    ASSUME TypeOK, NEW x, NEW o \in TimedObjects, ClearNode(x, o)
    PROVE  late' \subseteq TimedObjects
BY DEF TypeOK, ClearNode

\* Every step of a handler or of the cleaner keeps the types.
LEMMA TypeStep == ASSUME TypeOK, [Next]_vars PROVE TypeOK'
<1> USE ConstantsAssumption
<1>1. CASE UNCHANGED vars
  BY <1>1 DEF TypeOK, vars, storeVars, msgVars, handlerVars
<1>2. ASSUME NEW id \in QIds, NEW q \in Queues, NEW o \in QueueOptions,
             QueueCreate(id, q, o)
      PROVE  TypeOK'
  BY <1>2 DEF TypeOK, QueueCreate, msgVars, handlerVars
<1>3. ASSUME NEW m \in msg_timer, MsgExpire(m) PROVE TypeOK'
  <2>1. m \in Messages /\ m[1] \in Queues
    BY DEF TypeOK, Messages
  <2>2. memqueue_release(m[1])
    BY <1>3 DEF MsgExpire, memqueue_msg_release
  <2>3. msg_queue' \subseteq Messages /\ msg_new' \subseteq Messages
        /\ msg_ref' \in [Messages -> Int]
    BY <1>3, <2>1 DEF TypeOK, MsgExpire, memqueue_msg_release
  <2>4. late' \subseteq TimedObjects
    <3>1. <<"msg", m>> \in TimedObjects
      BY <2>1 DEF TimedObjects
    <3> QED
      BY <1>3, <3>1, ClearType DEF MsgExpire
  <2> QED
    BY <1>3, <2>1, <2>2, <2>3, <2>4, ReleaseType DEF TypeOK, MsgExpire, handlerVars
<1>4. ASSUME NEW q \in q_timer, QueueExpire(q) PROVE TypeOK'
  <2>1. q \in Queues /\ memqueue_release(q)
    BY <1>4 DEF TypeOK, QueueExpire
  <2>2. late' \subseteq TimedObjects
    <3>1. <<"queue", q>> \in TimedObjects
      BY <2>1 DEF TimedObjects
    <3> QED
      BY <1>4, <3>1, ClearType DEF QueueExpire
  <2> QED
    BY <1>4, <2>1, <2>2, ReleaseType DEF TypeOK, QueueExpire, msgVars, handlerVars
<1>5. ASSUME NEW q \in Queues, NEW k \in consumers[q], ConsumerExpire(q, k)
      PROVE  TypeOK'
  <2>1. memqueue_msg_create(q, "timed", {}, -1)
    BY <1>5 DEF ConsumerExpire
  <2>2. msg_own' = msg_own \union {<<q, rev[q] + 1>>}
    BY <2>1 DEF memqueue_msg_create
  <2>3. MsgCreateTypes
    BY <2>1, CreateType, "timed" \in Retention, -1 \in Int DEF Retention
  <2>4. pc' \in [Clients -> PCs]
    BY <1>5, WokenType DEF ConsumerExpire
  <2>5. late' \subseteq TimedObjects
    <3>1. <<"consumer", <<q, k>>>> \in TimedObjects
      BY DEF TypeOK, TimedObjects
    <3> QED
      BY <1>5, <3>1, ClearType DEF ConsumerExpire
  <2> QED
    BY <1>5, <2>2, <2>3, <2>4, <2>5
    DEF TypeOK, MsgCreateTypes, ConsumerExpire, storeVars
<1>6. ASSUME NEW c \in Clients, Handler(c) PROVE TypeOK'
  <2>1. ASSUME NEW id \in QIds, queue_store[id] # NULL, NEW keep \in Retention,
               MsgPost(c, queue_store[id], keep)
        PROVE  TypeOK'
    <3> DEFINE q == queue_store[id]
    <3>1. q \in Queues
      BY <2>1 DEF TypeOK
    <3> HIDE DEF q
    <3>2. PICK d \in SUBSET Messages : memqueue_msg_create(q, keep, d, 0)
      BY <2>1 DEF TypeOK, MsgPost, Oldest, InQueue, q
    <3>3. msg_timer' \subseteq msg_own'
      BY <2>1, <3>2 DEF TypeOK, MsgPost, memqueue_msg_create, q
    <3>4. pc' \in [Clients -> PCs]
      BY <2>1, WokenType DEF MsgPost, PCs
    <3>5. MsgCreateTypes
      BY <2>1, <3>1, <3>2, CreateType, 0 \in Int
    <3> QED
      BY <2>1, <3>1, <3>3, <3>4, <3>5
      DEF TypeOK, MsgCreateTypes, MsgPost, storeVars, q
  <2>2. ASSUME NEW id \in QIds, queue_store[id] # NULL,
               MsgReject(c, queue_store[id])
        PROVE  TypeOK'
    BY <2>2 DEF TypeOK, MsgReject, PCs, storeVars, msgVars
  <2>3. CASE PostDone(c)
    BY <2>3 DEF TypeOK, PostDone, PCs, storeVars, msgVars
  <2>4. ASSUME NEW id \in QIds, queue_store[id] # NULL,
               DeleteRespond(c, queue_store[id])
        PROVE  TypeOK'
    BY <2>4 DEF TypeOK, DeleteRespond, PCs, storeVars, msgVars
  <2>5. CASE DeleteRelease(c)
    <3>1. target[c] \in Queues \union {NULL} /\ memqueue_release(target[c])
      BY <2>5 DEF TypeOK, DeleteRelease
    <3> QED
      BY <2>5, <3>1, ReleaseType DEF TypeOK, DeleteRelease, PCs, msgVars
  <2>6. ASSUME NEW w \in PollRequests, PollBegin(c, w) PROVE TypeOK'
    BY <2>6 DEF TypeOK, PollBegin, PCs, storeVars, msgVars
  <2>7. ASSUME NEW id \in QIds, PollJoin(c, id) PROVE TypeOK'
    <3> DEFINE q == queue_store[id]
               a == want[c][id]
    <3>1. q \in Queues /\ a \in PollArgs /\ a.consumer_id \in ConsumerIds
      BY <2>7 DEF TypeOK, PollJoin, PollRequests, PollArgs, NewConsumer
    <3>2. memqueue_msg_create(q, "timed", {}, 1)
      BY <2>7 DEF PollJoin
    <3>3. consumers' = [consumers EXCEPT ![q] = @ \union {a.consumer_id}]
      BY <2>7 DEF PollJoin
    <3>4. msg_timer' = msg_timer \union {<<q, rev[q] + 1>>} /\ pc' = Woken(Bound(q))
      BY <2>7 DEF PollJoin
    <3>5. UNCHANGED <<storeVars, binders, run, want, target, fault, late>>
      BY <2>7 DEF PollJoin
    <3> HIDE DEF q, a
    <3>6. msg_own' = msg_own \union {<<q, rev[q] + 1>>}
      BY <3>2 DEF memqueue_msg_create
    <3>7. MsgCreateTypes
      BY <3>1, <3>2, CreateType, "timed" \in Retention, 1 \in Int DEF Retention
    <3>8. pc' \in [Clients -> PCs]
      BY <3>4, WokenType
    <3> QED
      BY <3>1, <3>3, <3>4, <3>5, <3>6, <3>7, <3>8
      DEF TypeOK, MsgCreateTypes, storeVars
  <2>8. ASSUME NEW id \in QIds, PollBind(c, id) PROVE TypeOK'
    <3> DEFINE q == queue_store[id]
               M == Matching(q, want[c][id])
    <3>1. q \in Queues
      BY <2>8 DEF TypeOK, PollBind
    <3>2. M \subseteq Messages
      BY DEF TypeOK, Matching, InQueue
    <3>3. ref_count' \in [Queues -> Int]
      <4>1. Cardinality(M) \in Nat
        <5>1. \A m \in M : m[1] = q
          BY DEF Matching, InQueue
        <5> QED
          BY <3>2, <5>1, QueueMsgSets
      <4>2. ref_count' = [ref_count EXCEPT ![q] = @ + Cardinality(M)]
        BY <2>8 DEF PollBind
      <4> HIDE DEF q, M
      <4> QED
        BY <3>1, <4>1, <4>2 DEF TypeOK
    <3> QED
      BY <2>8, <3>1, <3>2, <3>3 DEF TypeOK, PollBind, PollRequests, storeVars
  <2>9. ASSUME NEW id \in QIds, PollSkip(c, id) PROVE TypeOK'
    BY <2>9 DEF TypeOK, PollSkip, PollRequests, storeVars, msgVars
  <2>10. CASE PollDecide(c)
    BY <2>10 DEF TypeOK, PollDecide, PCs, storeVars, msgVars
  <2>11. CASE PollRespond(c)
    BY <2>11 DEF TypeOK, PollRespond, PCs, storeVars, msgVars
  <2>12. ASSUME NEW m \in pending[c], PollRelease(c, m) PROVE TypeOK'
    <3>1. m \in Messages /\ m[1] \in Queues
      BY DEF TypeOK, Messages
    <3>2. memqueue_release(m[1])
      BY <2>12 DEF PollRelease, memqueue_msg_release
    <3>3. msg_queue' \subseteq Messages /\ msg_new' \subseteq Messages
          /\ msg_ref' \in [Messages -> Int]
      BY <2>12, <3>1 DEF TypeOK, PollRelease, memqueue_msg_release
    <3> QED
      BY <2>12, <3>1, <3>2, <3>3, ReleaseType DEF TypeOK, PollRelease
  <2>13. CASE PollFree(c)
    BY <2>13 DEF TypeOK, PollFree, PCs, storeVars, msgVars
  <2>14. CASE PollTimeout(c)
    BY <2>14 DEF TypeOK, PollTimeout, PCs, storeVars, msgVars
  <2>15. CASE PollUnbind(c)
    <3>1. binders' \in [Queues -> Seq(Clients)]
      BY <2>15, UnlinkFacts DEF TypeOK, PollUnbind, Unlinked
    <3> QED
      BY <2>15, <3>1 DEF TypeOK, PollUnbind, PCs, storeVars, msgVars
  <2> QED
    BY <1>6, <2>1, <2>2, <2>3, <2>4, <2>5, <2>6, <2>7, <2>8, <2>9, <2>10, <2>11,
       <2>12, <2>13, <2>14, <2>15 DEF Handler, Post, Delete, PollStep
<1> QED
  BY <1>1, <1>2, <1>3, <1>4, <1>5, <1>6 DEF Next, Create, Cleaner

\* The initial state has the types.
LEMMA TypeInit == ASSUME Init PROVE TypeOK
<1>1. binders \in [Queues -> Seq(Clients)]
  BY DEF Init
<1>2. want \in [Clients -> PollRequests]
  BY DEF Init, PollRequests
<1>3. rev \in [Queues -> 0 .. MaxRev] /\ msg_ref \in [Messages -> Int]
      /\ ref_count \in [Queues -> Int]
  BY ConstantsAssumption DEF Init
<1>4. pending \in [Clients -> SUBSET Messages]
      /\ consumers \in [Queues -> SUBSET ConsumerIds]
  BY DEF Init
<1> QED
  BY <1>1, <1>2, <1>3, <1>4 DEF Init, TypeOK, PCs

\* The types hold in every reachable state (TypeOK).
THEOREM TypeCorrect == Spec => []TypeOK
<1>1. Init => TypeOK
  BY TypeInit
<1>2. TypeOK /\ [Next]_vars => TypeOK'
  BY TypeStep
<1> QED
  BY <1>1, <1>2, PTL DEF Spec

-----------------------------------------------------------------------------
(* The invariants *)

\* Steps that only move handlers along keep everything but PollShape.
LEMMA HandlerFrame ==
    ASSUME EngineShape, ~fault,
           UNCHANGED <<queue_store, life, q_id, rev, ref_count, msg_queue,
                       msg_ref, msg_own, pending>>
    PROVE  StoreExact' /\ RevsUsed' /\ LiveIsReferenced' /\ MsgRefExact'
           /\ PendingIsQueued'
BY DEF EngineShape, StoreExact, RevsUsed, LiveIsReferenced, MsgRefExact,
       PendingIsQueued, Holders

\* memqueue_release of a live queue: the store and the count stay exact, and
\* no name starts to lead to another queue.
LEMMA ReleaseStep ==
    ASSUME TypeOK, EngineShape, NEW q \in Queues, memqueue_release(q), ~fault',
           UNCHANGED q_id
    PROVE  /\ StoreExact'
           /\ LiveIsReferenced'
           /\ life[q] = "live"
           /\ \A id \in QIds : queue_store'[id] \in {queue_store[id], NULL}
<1>1. life[q] = "live" /\ ref_count[q] >= 1 /\ ref_count[q] \in Int
  BY DEF TypeOK, EngineShape, memqueue_release, LiveIsReferenced
<1>2. q_id[q] \in QIds /\ queue_store[q_id[q]] = q
  BY <1>1 DEF EngineShape, StoreExact
<1>3. CASE ref_count[q] = 1
  <2>1. /\ life' = [life EXCEPT ![q] = "freed"]
        /\ queue_store' = [queue_store EXCEPT ![q_id[q]] = NULL]
        /\ ref_count' = [ref_count EXCEPT ![q] = 0]
    BY <1>1, <1>3 DEF memqueue_release, TypeOK
  <2>2. LiveIsReferenced'
    BY <2>1 DEF TypeOK, EngineShape, LiveIsReferenced
  <2>3. StoreExact'
    BY <1>2, <2>1, ConstantsAssumption DEF TypeOK, EngineShape, StoreExact
  <2> QED
    BY <1>1, <2>1, <2>2, <2>3 DEF TypeOK
<1>4. CASE ref_count[q] # 1
  <2>1. /\ life' = life
        /\ queue_store' = queue_store
        /\ ref_count' = [ref_count EXCEPT ![q] = @ - 1]
    BY <1>1, <1>4 DEF memqueue_release, TypeOK
  <2>2. LiveIsReferenced'
    BY <1>1, <1>4, <2>1 DEF TypeOK, EngineShape, LiveIsReferenced
  <2> QED
    BY <1>1, <2>1, <2>2 DEF TypeOK, EngineShape, StoreExact
<1> QED
  BY <1>3, <1>4

\* memqueue_msg_release of a reference that is accounted for - the creator's,
\* when own, or client c's - keeps message counts exact, and removes from the
\* queue only a message nobody else has pending.
LEMMA MsgReleaseStep ==
    ASSUME TypeOK, EngineShape, ~fault, ~fault', NEW m \in Messages,
           memqueue_msg_release(m), UNCHANGED rev,
           \/ /\ m \in msg_own /\ msg_own' = msg_own \ {m} /\ UNCHANGED pending
           \/ \E c \in Clients : /\ m \in pending[c] /\ UNCHANGED msg_own
                                 /\ pending' = [pending EXCEPT ![c] = @ \ {m}]
    PROVE  RevsUsed' /\ MsgRefExact' /\ PendingIsQueued'
<1> USE DEF EngineShape
<1>0. /\ IsFiniteSet(Holders(m)) /\ Cardinality(Holders(m)) \in Nat
      /\ msg_ref[m] = (IF m \in msg_own THEN 1 ELSE 0) + Cardinality(Holders(m))
  BY ClientSets DEF Holders, MsgRefExact
<1>1. /\ msg_ref' = [msg_ref EXCEPT ![m] = @ - 1]
      /\ msg_queue' = IF msg_ref[m] = 1 THEN msg_queue \ {m} ELSE msg_queue
  BY DEF memqueue_msg_release
<1>2. CASE m \in msg_own /\ msg_own' = msg_own \ {m} /\ UNCHANGED pending
  <2>1. \A n \in Messages : Holders(n)' = Holders(n)
    BY <1>2 DEF Holders
  <2>2. MsgRefExact'
    BY <1>0, <1>1, <1>2, <2>1 DEF TypeOK, MsgRefExact
  <2>3. msg_ref[m] = 1 => Holders(m) = {}
    <3>1. msg_ref[m] = 1 => Cardinality(Holders(m)) = 0
      BY <1>0, <1>2
    <3> QED
      BY <3>1, <1>0, FS_EmptySet
  <2>4. PendingIsQueued'
    BY <1>1, <1>2, <2>3 DEF PendingIsQueued, Holders
  <2>5. RevsUsed'
    BY <1>1, <1>2 DEF RevsUsed
  <2> QED
    BY <2>2, <2>4, <2>5
<1>3. ASSUME NEW c \in Clients, m \in pending[c], UNCHANGED msg_own,
             pending' = [pending EXCEPT ![c] = @ \ {m}]
      PROVE  RevsUsed' /\ MsgRefExact' /\ PendingIsQueued'
  <2>1. \A n \in Messages : n # m => Holders(n)' = Holders(n)
    BY <1>3 DEF Holders, TypeOK
  <2>2. Holders(m)' = Holders(m) \ {c} /\ c \in Holders(m)
    BY <1>3 DEF Holders, TypeOK
  <2>3. Cardinality(Holders(m) \ {c}) = Cardinality(Holders(m)) - 1
    BY <1>0, <2>2, FS_RemoveElement
  <2>4. MsgRefExact'
    <3>1. ASSUME NEW n \in Messages, n # m
          PROVE  msg_ref'[n] = (IF n \in msg_own' THEN 1 ELSE 0)
                                + Cardinality(Holders(n)')
      BY <1>1, <1>3, <2>1, <3>1 DEF TypeOK, MsgRefExact
    <3>2. msg_ref'[m] = (IF m \in msg_own' THEN 1 ELSE 0)
                        + Cardinality(Holders(m)')
      BY <1>0, <1>1, <1>3, <2>2, <2>3 DEF TypeOK
    <3> QED
      BY <3>1, <3>2 DEF MsgRefExact
  <2>5. Cardinality(Holders(m)) # 0
    BY <1>0, <2>2, FS_EmptySet
  <2>6. msg_ref[m] = 1 => Holders(m) = {c} /\ m \notin msg_own
    <3>1. msg_ref[m] = 1 => Cardinality(Holders(m)) = 1 /\ m \notin msg_own
      BY <1>0, <2>5
    <3> QED
      BY <1>0, <2>2, <3>1, OnlyElement
  <2>7. PendingIsQueued'
    BY <1>1, <1>3, <2>6 DEF PendingIsQueued, Holders, TypeOK
  <2>8. RevsUsed'
    BY <1>1, <1>3, <2>6 DEF RevsUsed
  <2> QED
    BY <2>4, <2>7, <2>8
<1> QED
  BY <1>2, <1>3

\* memqueue_msg_create: the message is new, so its count is what its creator
\* and the bound polls retain; messages dropped before it had no holder.
LEMMA MsgCreateStep ==
    ASSUME TypeOK, EngineShape, ~fault, NEW q \in Queues, life[q] = "live",
           NEW keep \in Retention, NEW dropped \in SUBSET Messages,
           NEW extra \in -1 .. 1, keep = "none" => extra = 0,
           memqueue_msg_create(q, keep, dropped, extra),
           UNCHANGED <<life, queue_store, q_id>>
    PROVE  StoreExact' /\ RevsUsed' /\ LiveIsReferenced' /\ MsgRefExact'
           /\ PendingIsQueued'
<1> USE DEF EngineShape
<1> DEFINE B   == Bound(q)
           own == IF keep = "none" THEN 0 ELSE 1
<1>0. PICK m \in Messages : m = <<q, rev[q] + 1>>
  BY CreateType, extra \in Int
<1>1. m \notin msg_queue /\ m \notin msg_own
      /\ \A c \in Clients : m \notin pending[c]
  <2>1. ~(m[2] <= rev[m[1]])
    BY <1>0 DEF TypeOK
  <2> QED
    BY <2>1 DEF RevsUsed, PendingIsQueued
<1>2. B \subseteq Clients /\ IsFiniteSet(B) /\ Cardinality(B) \in Nat
  BY BoundClients, ClientSets
<1>3. StoreExact'
  BY DEF StoreExact
<1>4. ASSUME NEW d \in Messages, msg_ref[d] = 0
      PROVE  d \notin msg_own /\ \A c \in Clients : d \notin pending[c]
  <2>1. IsFiniteSet(Holders(d)) /\ Cardinality(Holders(d)) \in Nat
    BY ClientSets DEF Holders
  <2>2. d \notin msg_own /\ Cardinality(Holders(d)) = 0
    BY <1>4, <2>1 DEF MsgRefExact
  <2>3. Holders(d) = {}
    BY <2>1, <2>2, FS_EmptySet
  <2> QED
    BY <2>2, <2>3 DEF Holders
<1>5. /\ rev' = [rev EXCEPT ![q] = @ + 1]
      /\ msg_queue' = (msg_queue \ {d \in dropped : msg_ref[d] = 0}) \union {m}
      /\ msg_ref' = [msg_ref EXCEPT ![m] = own + Cardinality(B)]
      /\ msg_own' = IF keep = "none" THEN msg_own ELSE msg_own \union {m}
      /\ pending' = [c \in Clients |->
                        IF c \in B THEN pending[c] \union {m} ELSE pending[c]]
      /\ ref_count' = [ref_count EXCEPT ![q] = @ + own + Cardinality(B) + extra]
  BY <1>0 DEF memqueue_msg_create
<1>6. RevsUsed'
  <2>1. msg_own' \subseteq msg_queue'
    BY <1>4, <1>5 DEF TypeOK, RevsUsed
  <2>2. ASSUME NEW n \in msg_queue' PROVE n[2] <= rev'[n[1]]
    <3>1. CASE n = m
      BY <3>1, <1>0, <1>5 DEF TypeOK
    <3>2. CASE n # m
      <4>1. n \in msg_queue /\ n \in Messages /\ n[2] <= rev[n[1]]
        BY <3>2, <1>5 DEF TypeOK, RevsUsed
      <4>2. n[1] \in Queues /\ n[2] \in Int
        BY <4>1 DEF Messages
      <4> QED
        BY <4>1, <4>2, <1>5 DEF TypeOK
    <3> QED
      BY <3>1, <3>2
  <2> QED
    BY <2>1, <2>2 DEF RevsUsed
<1>7. LiveIsReferenced'
  <2>1. own \in 0 .. 1 /\ own + extra \in -1 .. 2 /\ (own + extra >= 0)
    OBVIOUS
  <2>2. ref_count'[q] >= 1
    BY <1>2, <1>5, <2>1 DEF TypeOK, LiveIsReferenced
  <2> QED
    BY <1>5, <2>2 DEF TypeOK, LiveIsReferenced
<1>8. PendingIsQueued'
  BY <1>4, <1>5 DEF TypeOK, PendingIsQueued
<1>9. MsgRefExact'
  <2>1. ASSUME NEW n \in Messages, n # m
        PROVE  msg_ref'[n] = (IF n \in msg_own' THEN 1 ELSE 0)
                             + Cardinality(Holders(n)')
    <3>1. Holders(n)' = Holders(n) /\ (n \in msg_own' <=> n \in msg_own)
      BY <1>5, <2>1 DEF Holders
    <3> QED
      BY <3>1, <1>5, <2>1 DEF TypeOK, MsgRefExact
  <2>2. msg_ref'[m] = (IF m \in msg_own' THEN 1 ELSE 0) + Cardinality(Holders(m)')
    <3>1. Holders(m)' = B
      BY <1>1, <1>2, <1>5 DEF Holders
    <3>2. m \in msg_own' <=> keep # "none"
      BY <1>1, <1>5
    <3> QED
      BY <1>1, <1>5, <3>1, <3>2 DEF TypeOK
  <2> QED
    BY <2>1, <2>2 DEF MsgRefExact
<1> QED
  BY <1>3, <1>6, <1>7, <1>8, <1>9

\* PollShape is about bound and pending, not about what queues contain.
LEMMA PollShapeOnCreate ==
    ASSUME TypeOK, EngineShape, NEW q \in Queues, NEW m, m[1] = q,
           pending' = [c \in Clients |->
                IF c \in Bound(q) THEN pending[c] \union {m} ELSE pending[c]],
           UNCHANGED <<queue_store, binders, run, want>>,
           \/ pc' = Woken(Bound(q)) /\ UNCHANGED target
           \/ \E c \in Clients : /\ pc[c] = "idle" /\ run = NULL
                                 /\ pc' = [Woken(Bound(q)) EXCEPT ![c] = "post"]
                                 /\ target' = [target EXCEPT ![c] = q]
    PROVE  PollShape'
<1>1. \A r : Bound(r)' = Bound(r)
  BY DEF Bound
<1>2. \A c \in Clients : c \in Bound(q) => pc[c] \in {"bind", "wait", "ready", "reply"}
  BY DEF EngineShape, PollShape, ClientShape
<1>3. CASE pc' = Woken(Bound(q)) /\ UNCHANGED target
  <2>1. \A c \in Clients : pc'[c] = IF c \in Bound(q) /\ pc[c] = "wait" THEN "ready"
                                    ELSE pc[c]
    BY <1>3 DEF Woken
  <2> QED
    BY <1>1, <1>2, <1>3, <2>1 DEF TypeOK, EngineShape, PollShape, ClientShape, BindersDistinct
<1>4. ASSUME NEW c \in Clients, pc[c] = "idle", run = NULL,
             pc' = [Woken(Bound(q)) EXCEPT ![c] = "post"],
             target' = [target EXCEPT ![c] = q]
      PROVE  PollShape'
  <2>1. c \notin Bound(q) /\ pending[c] = {} /\ target[c] = NULL
    BY <1>2, <1>4 DEF EngineShape, PollShape, ClientShape
  <2>2. \A d \in Clients : pc'[d] = IF d = c THEN "post"
                                    ELSE IF d \in Bound(q) /\ pc[d] = "wait" THEN "ready"
                                    ELSE pc[d]
    BY <1>4 DEF Woken
  <2>3. q # NULL
    BY ConstantsAssumption
  <2>4. \A r \in Queues : c \notin Bound(r)
    BY <1>4 DEF EngineShape, PollShape, ClientShape
  <2> QED
    BY <1>1, <1>2, <1>4, <2>1, <2>2, <2>3, <2>4, ConstantsAssumption
    DEF TypeOK, EngineShape, PollShape, ClientShape, BindersDistinct
<1> QED
  BY <1>3, <1>4

\* A step of client c that leaves the binders alone: only c's shape can change.
LEMMA LocalStep ==
    ASSUME TypeOK, PollShape, NEW c \in Clients,
           run \in {NULL, c}, run' \in {NULL, c}, UNCHANGED binders,
           \A id \in QIds : queue_store'[id] \in {queue_store[id], NULL},
           \A d \in Clients : d # c => /\ pc'[d] = pc[d] /\ want'[d] = want[d]
                                       /\ target'[d] = target[d]
                                       /\ pending'[d] = pending[d],
           ClientShape(c)'
    PROVE  PollShape'
<1>1. BindersDistinct'
  BY DEF PollShape, BindersDistinct
<1>2. \A r : Bound(r)' = Bound(r)
  BY DEF Bound
<1>3. ASSUME NEW d \in Clients, d # c PROVE ClientShape(d)'
  <2>1. ClientShape(d) /\ run # d /\ run' # d
    BY <1>3, ConstantsAssumption DEF PollShape
  <2> QED
    BY <1>2, <1>3, <2>1 DEF ClientShape
<1> QED
  BY <1>1, <1>3 DEF PollShape

\* Putting a binder at the head of a list adds one client to it.
LEMMA PushFacts ==
    ASSUME NEW s \in Seq(Clients), NEW c \in Clients
    PROVE  LET t == <<c>> \o s
           IN  /\ Len(t) = Len(s) + 1
               /\ t[1] = c
               /\ \A j \in 2 .. Len(t) : t[j] = s[j - 1]
OBVIOUS

\* The behaviour ends with the first use of freed memory.
LEMMA NextStopsAtFault == ASSUME Next PROVE ~fault
<1>1. Create => ~fault
  BY DEF Create, QueueCreate, Scheduled
<1>2. Cleaner => ~fault
  BY DEF Cleaner, MsgExpire, QueueExpire, ConsumerExpire, Scheduled
<1>3. ASSUME NEW c \in Clients, Handler(c) PROVE ~fault
  <2>1. PollStep(c) => ~fault
    BY DEF PollStep, PollJoin, PollBind, PollSkip, PollDecide, PollRespond,
           PollRelease, PollFree, Runs
  <2>2. Post(c) \/ Delete(c) => ~fault
    BY DEF Post, Delete, MsgPost, MsgReject, DeleteRespond, Scheduled
  <2>3. PostDone(c) \/ DeleteRelease(c) \/ PollTimeout(c) \/ PollUnbind(c) => ~fault
    BY DEF PostDone, DeleteRelease, PollTimeout, PollUnbind, Scheduled
  <2>4. (\E w \in PollRequests : PollBegin(c, w)) => ~fault
    BY DEF PollBegin, Scheduled
  <2> QED
    BY <1>3, <2>1, <2>2, <2>3, <2>4 DEF Handler
<1> QED
  BY <1>1, <1>2, <1>3 DEF Next

\* Every step that uses no freed memory preserves EngineShape.
LEMMA EngineStep ==
    ASSUME TypeOK, EngineShape, ~fault, ~fault', Next
    PROVE  EngineShape'
<1> USE ConstantsAssumption
<1>0. TypeOK' /\ PollShape
  BY TypeStep DEF EngineShape
<1>1. ASSUME NEW id \in QIds, NEW q \in Queues, NEW o \in QueueOptions,
             QueueCreate(id, q, o)
      PROVE  EngineShape'
  <2>1. StoreExact' /\ LiveIsReferenced'
    BY <1>1 DEF TypeOK, EngineShape, QueueCreate, StoreExact, LiveIsReferenced
  <2>2. RevsUsed' /\ MsgRefExact' /\ PendingIsQueued'
    BY <1>1 DEF EngineShape, QueueCreate, RevsUsed, MsgRefExact, PendingIsQueued,
       Holders, msgVars, handlerVars
  <2>3. PollShape'
    <3>1. run = NULL /\ UNCHANGED <<binders, handlerVars>>
      BY <1>1 DEF QueueCreate, Scheduled
    <3>2. \A c \in Clients : c # NULL /\ \A n \in QIds : want[c][n] = NULL
      BY <1>0, <3>1 DEF PollShape, ClientShape
    <3>3. \A r : Bound(r)' = Bound(r)
      BY <3>1 DEF Bound
    <3> QED
      BY <1>0, <3>1, <3>2, <3>3 DEF PollShape, ClientShape, BindersDistinct, handlerVars
  <2> QED
    BY <2>1, <2>2, <2>3 DEF EngineShape
<1>2. ASSUME NEW m \in msg_timer, MsgExpire(m) PROVE EngineShape'
  <2>1. m \in Messages /\ m \in msg_own /\ m[1] \in Queues
    BY DEF TypeOK, Messages
  <2>2. memqueue_msg_release(m) /\ memqueue_release(m[1])
    BY <1>2 DEF MsgExpire, memqueue_msg_release
  <2>3. UNCHANGED <<q_id, rev, binders, handlerVars>> /\ msg_own' = msg_own \ {m}
    BY <1>2 DEF MsgExpire
  <2>4. RevsUsed' /\ MsgRefExact' /\ PendingIsQueued'
    BY <2>1, <2>2, <2>3, MsgReleaseStep DEF handlerVars
  <2>5. StoreExact' /\ LiveIsReferenced'
        /\ \A id \in QIds : queue_store'[id] \in {queue_store[id], NULL}
    BY <2>1, <2>2, <2>3, ReleaseStep
  <2>6. PollShape'
    BY <1>0, <2>3, <2>5 DEF PollShape, ClientShape, BindersDistinct, Bound, handlerVars
  <2> QED
    BY <2>4, <2>5, <2>6 DEF EngineShape
<1>3. ASSUME NEW q \in q_timer, QueueExpire(q) PROVE EngineShape'
  <2>1. q \in Queues /\ memqueue_release(q)
    BY <1>3 DEF TypeOK, QueueExpire
  <2>2. UNCHANGED <<q_id, rev, binders, msgVars, handlerVars>>
    BY <1>3 DEF QueueExpire
  <2>3. StoreExact' /\ LiveIsReferenced'
        /\ \A id \in QIds : queue_store'[id] \in {queue_store[id], NULL}
    BY <2>1, <2>2, ReleaseStep
  <2>4. PollShape'
    BY <1>0, <2>2, <2>3 DEF PollShape, ClientShape, BindersDistinct, Bound, handlerVars
  <2>5. RevsUsed' /\ MsgRefExact' /\ PendingIsQueued'
    BY <2>2 DEF EngineShape, RevsUsed, MsgRefExact, PendingIsQueued, Holders,
       msgVars, handlerVars
  <2> QED
    BY <2>3, <2>4, <2>5 DEF EngineShape
<1>4. ASSUME NEW q \in Queues, NEW k \in consumers[q], ConsumerExpire(q, k)
      PROVE  EngineShape'
  <2>1. life[q] = "live" /\ memqueue_msg_create(q, "timed", {}, -1)
        /\ pc' = Woken(Bound(q)) /\ UNCHANGED <<storeVars, binders, run, want, target>>
    BY <1>4 DEF ConsumerExpire
  <2>2. StoreExact' /\ RevsUsed' /\ LiveIsReferenced' /\ MsgRefExact'
        /\ PendingIsQueued'
    BY <2>1, MsgCreateStep, "timed" \in Retention, -1 \in -1 .. 1
    DEF Retention, storeVars
  <2>3. PICK m \in Messages : m = <<q, rev[q] + 1>>
    BY <2>1, CreateType, "timed" \in Retention, -1 \in Int DEF Retention
  <2>4. PollShape'
    BY <2>1, <2>3, PollShapeOnCreate DEF memqueue_msg_create, storeVars
  <2> QED
    BY <2>2, <2>4 DEF EngineShape
<1>5. ASSUME NEW c \in Clients, Handler(c) PROVE EngineShape'
  <2>1. ASSUME NEW id \in QIds, queue_store[id] # NULL, NEW keep \in Retention,
               MsgPost(c, queue_store[id], keep)
        PROVE  EngineShape'
    <3>1. PICK q \in Queues : q = queue_store[id] /\ life[q] = "live"
      BY <2>1 DEF TypeOK, EngineShape, StoreExact
    <3>2. PICK d \in SUBSET Messages : memqueue_msg_create(q, keep, d, 0)
      BY <2>1, <3>1 DEF TypeOK, MsgPost, Oldest, InQueue
    <3>3. /\ pc[c] = "idle" /\ run = NULL
          /\ pc' = [Woken(Bound(q)) EXCEPT ![c] = "post"]
          /\ target' = [target EXCEPT ![c] = q]
          /\ UNCHANGED <<storeVars, binders, run, want>>
      BY <2>1, <3>1 DEF MsgPost, Scheduled
    <3>4. StoreExact' /\ RevsUsed' /\ LiveIsReferenced' /\ MsgRefExact'
          /\ PendingIsQueued'
      BY <2>1, <3>1, <3>2, <3>3, MsgCreateStep, 0 \in -1 .. 1 DEF storeVars
    <3>5. PICK m \in Messages : m = <<q, rev[q] + 1>>
      BY <2>1, <3>1, <3>2, CreateType, 0 \in Int
    <3>6. PollShape'
      BY <3>1, <3>2, <3>3, <3>5, PollShapeOnCreate DEF memqueue_msg_create, storeVars
    <3> QED
      BY <3>4, <3>6 DEF EngineShape
  <2>2. ASSUME NEW id \in QIds, queue_store[id] # NULL,
               MsgReject(c, queue_store[id])
        PROVE  EngineShape'
    <3>1. PollShape'
      <4>0. ClientShape(c) /\ \A r : Bound(r)' = Bound(r)
        BY <1>0, <2>2 DEF PollShape, MsgReject, Bound
      <4>1. ClientShape(c)'
        BY <2>2, <4>0 DEF TypeOK, ClientShape, MsgReject, Scheduled, storeVars
      <4> QED
        BY <1>0, <2>2, <4>1, LocalStep DEF TypeOK, MsgReject, Scheduled, storeVars
    <3> QED
      BY <2>2, <3>1, HandlerFrame DEF EngineShape, MsgReject, storeVars, msgVars
  <2>3. CASE PostDone(c)
    <3>1. PollShape'
      <4>0. ClientShape(c) /\ \A r : Bound(r)' = Bound(r)
        BY <1>0, <2>3 DEF PollShape, PostDone, Bound
      <4>1. ClientShape(c)'
        BY <2>3, <4>0 DEF TypeOK, ClientShape, PostDone, Scheduled, storeVars
      <4> QED
        BY <1>0, <2>3, <4>1, LocalStep DEF TypeOK, PostDone, Scheduled, storeVars
    <3> QED
      BY <2>3, <3>1, HandlerFrame DEF EngineShape, PostDone, storeVars, msgVars
  <2>4. ASSUME NEW id \in QIds, queue_store[id] # NULL,
               DeleteRespond(c, queue_store[id])
        PROVE  EngineShape'
    <3>1. PollShape'
      <4>0. ClientShape(c) /\ \A r : Bound(r)' = Bound(r)
        BY <1>0, <2>4 DEF PollShape, DeleteRespond, Bound
      <4>1. ClientShape(c)'
        BY <2>4, <4>0 DEF TypeOK, ClientShape, DeleteRespond, Scheduled, storeVars
      <4> QED
        BY <1>0, <2>4, <4>1, LocalStep DEF TypeOK, DeleteRespond, Scheduled, storeVars
    <3> QED
      BY <2>4, <3>1, HandlerFrame DEF EngineShape, DeleteRespond, storeVars, msgVars
  <2>5. CASE DeleteRelease(c)
    <3>1. PICK q \in Queues : q = target[c]
      BY <1>0, <2>5 DEF TypeOK, PollShape, ClientShape, DeleteRelease
    <3>2. memqueue_release(q) /\ pc[c] = "delete" /\ run = NULL
          /\ pc' = [pc EXCEPT ![c] = "idle"] /\ target' = [target EXCEPT ![c] = NULL]
          /\ UNCHANGED <<q_id, rev, binders, msgVars, run, want, pending>>
      BY <2>5, <3>1 DEF DeleteRelease, Scheduled
    <3>3. StoreExact' /\ LiveIsReferenced'
          /\ \A id \in QIds : queue_store'[id] \in {queue_store[id], NULL}
      BY <3>2, ReleaseStep
    <3>4. PollShape'
      <4>0. ClientShape(c) /\ \A r : Bound(r)' = Bound(r)
        BY <1>0, <3>2 DEF PollShape, Bound
      <4>1. ClientShape(c)'
        BY <3>2, <3>3, <4>0 DEF TypeOK, ClientShape
      <4> QED
        BY <1>0, <3>2, <3>3, <4>1, LocalStep DEF TypeOK
    <3>5. RevsUsed' /\ MsgRefExact' /\ PendingIsQueued'
      BY <3>2 DEF EngineShape, RevsUsed, MsgRefExact, PendingIsQueued, Holders,
         msgVars
    <3> QED
      BY <3>3, <3>4, <3>5 DEF EngineShape
  <2>6. ASSUME NEW w \in PollRequests, PollBegin(c, w) PROVE EngineShape'
    <3>1. PollShape'
      <4>1. \A q \in Queues : c \notin Bound(q)
        BY <1>0, <2>6 DEF PollShape, ClientShape, PollBegin
      <4>2. \A r : Bound(r)' = Bound(r)
        BY <2>6 DEF PollBegin, Bound
      <4>3. ClientShape(c)'
        BY <1>0, <2>6, <4>1, <4>2
        DEF TypeOK, PollShape, ClientShape, PollBegin, Scheduled, storeVars
      <4> QED
        BY <1>0, <2>6, <4>3, LocalStep DEF TypeOK, PollBegin, Scheduled, storeVars
    <3> QED
      BY <2>6, <3>1, HandlerFrame DEF EngineShape, PollBegin, storeVars, msgVars
  <2>7. ASSUME NEW id \in QIds, PollJoin(c, id) PROVE EngineShape'
    <3>1. PICK q \in Queues : q = queue_store[id] /\ life[q] = "live"
      BY <2>7 DEF TypeOK, EngineShape, StoreExact, PollJoin
    <3>2. memqueue_msg_create(q, "timed", {}, 1) /\ pc' = Woken(Bound(q))
          /\ UNCHANGED <<storeVars, binders, run, want, target>>
      BY <2>7, <3>1 DEF PollJoin
    <3>3. StoreExact' /\ RevsUsed' /\ LiveIsReferenced' /\ MsgRefExact'
          /\ PendingIsQueued'
      BY <3>1, <3>2, MsgCreateStep, "timed" \in Retention, 1 \in -1 .. 1
      DEF Retention, storeVars
    <3>4. PICK m \in Messages : m = <<q, rev[q] + 1>>
      BY <3>2, CreateType, "timed" \in Retention, 1 \in Int DEF Retention
    <3>5. PollShape'
      BY <3>2, <3>4, PollShapeOnCreate DEF memqueue_msg_create, storeVars
    <3> QED
      BY <3>3, <3>5 DEF EngineShape
  <2>8. ASSUME NEW id \in QIds, PollBind(c, id) PROVE EngineShape'
    <3>1. PICK q \in Queues : q = queue_store[id] /\ life[q] = "live"
      BY <2>8 DEF TypeOK, EngineShape, StoreExact, PollBind
    <3>2. PICK M \in SUBSET Messages : M = Matching(q, want[c][id])
      BY DEF TypeOK, Matching, InQueue
    <3>3. M \subseteq msg_queue /\ \A m \in M : m[1] = q
      BY <3>2 DEF Matching, InQueue
    <3>4. /\ pc[c] = "bind" /\ run = c /\ want[c][id] # NULL
          /\ binders' = [binders EXCEPT ![q] = <<c>> \o @]
          /\ pending' = [pending EXCEPT ![c] = @ \union M]
          /\ msg_ref' = [m \in Messages |->
                            IF m \in M THEN msg_ref[m] + 1 ELSE msg_ref[m]]
          /\ ref_count' = [ref_count EXCEPT ![q] = @ + Cardinality(M)]
          /\ want' = [want EXCEPT ![c][id] = NULL]
          /\ UNCHANGED <<queue_store, life, q_id, rev, msg_queue, msg_own, pc, run,
                         target>>
      BY <1>0, <2>8, <3>1, <3>2
      DEF PollBind, Runs, PollShape, ClientShape, storeVars
    <3>5. c \notin Bound(q) /\ \A m \in M : m \notin pending[c]
      BY <1>0, <3>1, <3>3, <3>4 DEF PollShape, ClientShape
    <3>6. Bound(q)' = Bound(q) \union {c} /\ \A r \in Queues : r # q => Bound(r)' = Bound(r)
      <4>1. binders[q] \in Seq(Clients) /\ binders'[q] = <<c>> \o binders[q]
            /\ Len(binders[q]) \in Nat
        BY <3>4 DEF TypeOK
      <4>2. /\ Len(binders'[q]) = Len(binders[q]) + 1
            /\ binders'[q][1] = c
            /\ \A j \in 2 .. Len(binders'[q]) : binders'[q][j] = binders[q][j - 1]
        BY <4>1, PushFacts
      <4>3. ASSUME NEW d \in Clients, NEW i \in 1 .. Len(binders[q]), binders[q][i] = d
            PROVE  \E j \in 1 .. Len(binders'[q]) : binders'[q][j] = d
        <5>1. i + 1 \in 2 .. Len(binders'[q]) /\ (i + 1) - 1 = i
          BY <4>1, <4>2
        <5> QED
          BY <4>2, <4>3, <5>1
      <4>4. ASSUME NEW d \in Clients, NEW j \in 1 .. Len(binders'[q]), binders'[q][j] = d
            PROVE  d = c \/ \E i \in 1 .. Len(binders[q]) : binders[q][i] = d
        <5>1. j = 1 \/ (j \in 2 .. Len(binders'[q]) /\ j - 1 \in 1 .. Len(binders[q]))
          BY <4>1, <4>2
        <5> QED
          BY <4>2, <4>4, <5>1
      <4>5. 1 \in 1 .. Len(binders'[q])
        BY <4>1, <4>2
      <4>6. Bound(q)' = Bound(q) \union {c}
        BY <4>2, <4>3, <4>4, <4>5 DEF Bound
      <4>7. \A r \in Queues : r # q => binders'[r] = binders[r]
        BY <3>4 DEF TypeOK
      <4>8. \A r \in Queues : r # q => Bound(r)' = Bound(r)
        BY <4>7 DEF Bound
      <4> QED
        BY <4>6, <4>8
    <3>7. PollShape'
      <4>1. BindersDistinct'
        <5>1. ASSUME NEW r \in Queues, r # q
              PROVE  \A i, j \in 1 .. Len(binders'[r]) :
                        binders'[r][i] = binders'[r][j] => i = j
          BY <1>0, <3>4, <5>1 DEF PollShape, BindersDistinct, TypeOK
        <5>2. ASSUME NEW i \in 1 .. Len(binders'[q]), NEW j \in 1 .. Len(binders'[q]),
                     binders'[q][i] = binders'[q][j]
              PROVE  i = j
          <6>1. binders[q] \in Seq(Clients) /\ binders'[q] = <<c>> \o binders[q]
                /\ Len(binders[q]) \in Nat
            BY <3>4 DEF TypeOK
          <6>2. /\ Len(binders'[q]) = Len(binders[q]) + 1
                /\ binders'[q][1] = c
                /\ \A k \in 2 .. Len(binders'[q]) : binders'[q][k] = binders[q][k - 1]
            BY <6>1, PushFacts
          <6>3. \A k \in 1 .. Len(binders[q]) : binders[q][k] # c
            BY <3>5 DEF Bound
          <6>4. \A k, l \in 1 .. Len(binders[q]) : binders[q][k] = binders[q][l] => k = l
            BY <1>0 DEF PollShape, BindersDistinct
          <6>5. \A k \in 1 .. Len(binders'[q]) :
                    k = 1 \/ (k \in 2 .. Len(binders'[q]) /\ k - 1 \in 1 .. Len(binders[q]))
            BY <6>1, <6>2
          <6>6. CASE i = 1 /\ j # 1
            BY <5>2, <6>2, <6>3, <6>5, <6>6
          <6>7. CASE i # 1 /\ j = 1
            BY <5>2, <6>2, <6>3, <6>5, <6>7
          <6>8. CASE i # 1 /\ j # 1
            <7>1. binders[q][i - 1] = binders[q][j - 1]
              BY <5>2, <6>2, <6>5, <6>8
            <7>2. i - 1 = j - 1
              BY <6>4, <6>5, <6>8, <7>1
            <7> QED
              BY <7>2
          <6> QED
            BY <6>6, <6>7, <6>8
        <5> QED
          BY <5>1, <5>2 DEF BindersDistinct
      <4>2. ASSUME NEW d \in Clients, d # c PROVE ClientShape(d)'
        <5>1. ClientShape(d)
          BY <1>0 DEF PollShape
        <5>2. pending'[d] = pending[d] /\ want'[d] = want[d] /\ pending[d] \subseteq Messages
          BY <3>4, <4>2 DEF TypeOK
        <5>3. \A r \in Queues : d \in Bound(r)' <=> d \in Bound(r)
          BY <3>6, <4>2
        <5>4. \A m \in Messages : m[1] \in Queues
          BY DEF Messages
        <5>5. \A n \in QIds : queue_store[n] = NULL \/ queue_store[n] \in Queues
          BY DEF TypeOK
        <5> QED
          BY <3>4, <5>1, <5>2, <5>3, <5>4, <5>5 DEF ClientShape
      <4>3. ClientShape(c)'
        <5>1. ClientShape(c)
          BY <1>0 DEF PollShape
        <5>2. /\ pending'[c] = pending[c] \union M /\ pending[c] \subseteq Messages
              /\ \A n \in QIds : want'[c][n] = IF n = id THEN NULL ELSE want[c][n]
          BY <3>4 DEF TypeOK, PollRequests
        <5>3. \A r \in Queues : c \in Bound(r)' <=> (c \in Bound(r) \/ r = q)
          BY <3>6
        <5>4. \A m \in Messages : m[1] \in Queues
          BY DEF Messages
        <5>5. \A n \in QIds : queue_store[n] # NULL =>
                queue_store[n] \in Queues /\ (n # id => queue_store[n] # q)
          BY <3>1 DEF TypeOK, EngineShape, StoreExact
        <5> QED
          BY <3>3, <3>4, <5>1, <5>2, <5>3, <5>4, <5>5 DEF ClientShape
      <4> QED
        BY <4>1, <4>2, <4>3 DEF PollShape
    <3>8. MsgRefExact'
      <4>1. ASSUME NEW m \in Messages, m \notin M
            PROVE  msg_ref'[m] = (IF m \in msg_own' THEN 1 ELSE 0)
                                 + Cardinality(Holders(m)')
        <5>1. Holders(m)' = Holders(m)
          BY <3>4, <4>1 DEF Holders, TypeOK
        <5> QED
          BY <3>4, <4>1, <5>1 DEF EngineShape, MsgRefExact
      <4>2. ASSUME NEW m \in M
            PROVE  msg_ref'[m] = (IF m \in msg_own' THEN 1 ELSE 0)
                                 + Cardinality(Holders(m)')
        <5>1. Holders(m)' = Holders(m) \union {c} /\ c \notin Holders(m)
          BY <3>4, <3>5, <4>2 DEF Holders, TypeOK
        <5>2. IsFiniteSet(Holders(m)) /\ Cardinality(Holders(m)) \in Nat
          BY ClientSets DEF Holders
        <5>3. Cardinality(Holders(m)') = Cardinality(Holders(m)) + 1
          BY <5>1, <5>2, FS_AddElement
        <5> QED
          BY <3>4, <4>2, <5>2, <5>3 DEF TypeOK, EngineShape, MsgRefExact
      <4> QED
        BY <4>1, <4>2 DEF MsgRefExact
    <3>9. StoreExact' /\ RevsUsed' /\ PendingIsQueued'
      BY <3>3, <3>4 DEF TypeOK, EngineShape, StoreExact, RevsUsed, PendingIsQueued
    <3>10. LiveIsReferenced'
      <4>1. Cardinality(M) \in Nat
        BY <3>3, QueueMsgSets
      <4> QED
        BY <3>1, <3>4, <4>1 DEF TypeOK, EngineShape, LiveIsReferenced
    <3> QED
      BY <3>7, <3>8, <3>9, <3>10 DEF EngineShape
  <2>9. ASSUME NEW id \in QIds, PollSkip(c, id) PROVE EngineShape'
    <3>1. PollShape'
      <4>0. ClientShape(c) /\ \A r : Bound(r)' = Bound(r)
        BY <1>0, <2>9 DEF PollShape, PollSkip, Bound
      <4>1. ClientShape(c)'
        BY <2>9, <4>0 DEF TypeOK, ClientShape, PollSkip, Runs, storeVars
      <4> QED
        BY <1>0, <2>9, <4>1, LocalStep DEF TypeOK, PollSkip, Runs, storeVars
    <3> QED
      BY <2>9, <3>1, HandlerFrame DEF EngineShape, PollSkip, storeVars, msgVars
  <2>10. CASE PollDecide(c)
    <3>1. PollShape'
      <4>0. ClientShape(c) /\ \A r : Bound(r)' = Bound(r)
        BY <1>0, <2>10 DEF PollShape, PollDecide, Bound
      <4>1. ClientShape(c)'
        <5>1. /\ pc[c] = "bind" /\ run = c
              /\ \A id \in QIds : want[c][id] = NULL
              /\ UNCHANGED <<queue_store, want, pending, target>>
          BY <2>10, <4>0 DEF PollDecide, Runs, ClientShape, storeVars
        <5>2. CASE /\ \A q \in Queues : c \notin Bound(q)
                   /\ pc' = [pc EXCEPT ![c] = "idle"] /\ run' = NULL
          <6>1. pending[c] = {}
            BY <4>0, <5>1, <5>2 DEF TypeOK, ClientShape, Messages
          <6> QED
            BY <4>0, <5>1, <5>2, <6>1 DEF TypeOK, ClientShape
        <5>3. CASE /\ pending[c] = {}
                   /\ pc' = [pc EXCEPT ![c] = "wait"] /\ run' = NULL
          BY <4>0, <5>1, <5>3 DEF TypeOK, ClientShape
        <5>4. CASE pc' = [pc EXCEPT ![c] = "ready"] /\ UNCHANGED run
          BY <4>0, <5>1, <5>4 DEF TypeOK, ClientShape
        <5> QED
          BY <2>10, <5>2, <5>3, <5>4 DEF PollDecide
      <4> QED
        BY <1>0, <2>10, <4>1, LocalStep DEF TypeOK, PollDecide, Runs, storeVars
    <3> QED
      BY <2>10, <3>1, HandlerFrame DEF EngineShape, PollDecide, storeVars, msgVars
  <2>11. CASE PollRespond(c)
    <3>1. PollShape'
      <4>0. ClientShape(c) /\ \A r : Bound(r)' = Bound(r)
        BY <1>0, <2>11 DEF PollShape, PollRespond, Bound
      <4>1. ClientShape(c)'
        BY <2>11, <4>0 DEF TypeOK, ClientShape, PollRespond, Runs, storeVars
      <4> QED
        BY <1>0, <2>11, <4>1, LocalStep DEF TypeOK, PollRespond, Runs, storeVars
    <3> QED
      BY <2>11, <3>1, HandlerFrame DEF EngineShape, PollRespond, storeVars, msgVars
  <2>12. ASSUME NEW m \in pending[c], PollRelease(c, m) PROVE EngineShape'
    <3>1. m \in Messages /\ m[1] \in Queues
      BY DEF TypeOK, Messages
    <3>2. memqueue_msg_release(m) /\ memqueue_release(m[1])
      BY <2>12 DEF PollRelease, memqueue_msg_release
    <3>3. /\ pending' = [pending EXCEPT ![c] = @ \ {m}]
          /\ UNCHANGED <<q_id, rev, binders, msg_own, pc, run, want, target>>
      BY <2>12 DEF PollRelease
    <3>4. RevsUsed' /\ MsgRefExact' /\ PendingIsQueued'
      BY <3>1, <3>2, <3>3, MsgReleaseStep
    <3>5. StoreExact' /\ LiveIsReferenced'
          /\ \A id \in QIds : queue_store'[id] \in {queue_store[id], NULL}
      BY <3>1, <3>2, <3>3, ReleaseStep
    <3>6. PollShape'
      <4>1. run = c
        BY <1>0, <2>12 DEF PollRelease, Runs, PollShape, ClientShape
      <4>2. pc[c] = "release" /\ ClientShape(c) /\ \A r : Bound(r)' = Bound(r)
        BY <1>0, <2>12, <3>3 DEF PollRelease, Runs, PollShape, Bound
      <4>3. ClientShape(c)'
        BY <3>3, <3>5, <4>2 DEF TypeOK, ClientShape
      <4> QED
        BY <1>0, <3>3, <3>5, <4>1, <4>3, LocalStep DEF TypeOK
    <3> QED
      BY <3>4, <3>5, <3>6 DEF EngineShape
  <2>13. CASE PollFree(c)
    <3>1. PollShape'
      <4>0. ClientShape(c) /\ \A r : Bound(r)' = Bound(r)
        BY <1>0, <2>13 DEF PollShape, PollFree, Bound
      <4>1. ClientShape(c)'
        BY <2>13, <4>0 DEF TypeOK, ClientShape, PollFree, Runs, storeVars
      <4> QED
        BY <1>0, <2>13, <4>1, LocalStep DEF TypeOK, PollFree, Runs, storeVars
    <3> QED
      BY <2>13, <3>1, HandlerFrame DEF EngineShape, PollFree, storeVars, msgVars
  <2>14. CASE PollTimeout(c)
    <3>1. PollShape'
      <4>0. ClientShape(c) /\ \A r : Bound(r)' = Bound(r)
        BY <1>0, <2>14 DEF PollShape, PollTimeout, Bound
      <4>1. ClientShape(c)'
        BY <2>14, <4>0 DEF TypeOK, ClientShape, PollTimeout, Scheduled, storeVars
      <4> QED
        BY <1>0, <2>14, <4>1, LocalStep DEF TypeOK, PollTimeout, Scheduled, storeVars
    <3> QED
      BY <2>14, <3>1, HandlerFrame DEF EngineShape, PollTimeout, storeVars, msgVars
  <2>15. CASE PollUnbind(c)
    <3>1. /\ run = NULL /\ pc[c] = "reply"
          /\ binders' = [q \in Queues |-> Unlink(binders[q], c)]
          /\ pc' = [pc EXCEPT ![c] = "release"] /\ run' = c
          /\ UNCHANGED <<storeVars, rev, ref_count, msgVars, want, pending, target>>
      BY <2>15 DEF PollUnbind, Scheduled
    <3>2. ASSUME NEW q \in Queues
          PROVE  /\ Bound(q)' = Bound(q) \ {c}
                 /\ \A i, j \in 1 .. Len(binders'[q]) :
                        binders'[q][i] = binders'[q][j] => i = j
      <4>1. PICK s \in Seq(Clients) : s = binders[q]
        BY DEF TypeOK
      <4>2. PICK t : t = binders'[q] /\ Unlinked(s, c, t)
        BY <3>1, <4>1, UnlinkFacts
      <4>3. \A k, l \in 1 .. Len(s) : s[k] = s[l] => k = l
        BY <1>0, <4>1 DEF PollShape, BindersDistinct
      <4>4. /\ \A j \in 1 .. Len(t) : \E k \in 1 .. Len(s) : t[j] = s[k]
            /\ \A k \in 1 .. Len(s) : s[k] # c => \E j \in 1 .. Len(t) : t[j] = s[k]
            /\ \A k, l \in 1 .. Len(t) : t[k] = t[l] => k = l
            /\ \A k \in 1 .. Len(t) : t[k] # c
        BY <4>2, <4>3 DEF Unlinked
      <4>5. /\ Bound(q) = {d \in Clients : \E k \in 1 .. Len(s) : s[k] = d}
            /\ Bound(q)' = {d \in Clients : \E k \in 1 .. Len(t) : t[k] = d}
        BY <4>1, <4>2 DEF Bound
      <4>6. Bound(q)' = Bound(q) \ {c}
        <5>1. Bound(q)' \subseteq Bound(q) \ {c}
          BY <4>4, <4>5
        <5>2. Bound(q) \ {c} \subseteq Bound(q)'
          BY <4>4, <4>5
        <5> QED
          BY <5>1, <5>2
      <4> QED
        BY <4>2, <4>4, <4>6
    <3>3. ASSUME NEW d \in Clients PROVE ClientShape(d)'
      <4>1. ClientShape(d) /\ ClientShape(c) /\ c # NULL /\ pending[d] \subseteq Messages
        BY <1>0 DEF PollShape, TypeOK
      <4>2. \A m \in Messages : m[1] \in Queues
        BY DEF Messages
      <4>3. \A n \in QIds : want[c][n] = NULL /\ (queue_store[n] = NULL \/ queue_store[n] \in Queues)
        BY <3>1, <4>1 DEF ClientShape, TypeOK
      <4> QED
        BY <3>1, <3>2, <4>1, <4>2, <4>3 DEF TypeOK, ClientShape, storeVars
    <3>4. PollShape'
      BY <3>2, <3>3 DEF PollShape, BindersDistinct
    <3> QED
      BY <3>1, <3>4, HandlerFrame DEF EngineShape, storeVars, msgVars
  <2> QED
    BY <1>5, <2>1, <2>2, <2>3, <2>4, <2>5, <2>6, <2>7, <2>8, <2>9, <2>10, <2>11,
       <2>12, <2>13, <2>14, <2>15 DEF Handler, Post, Delete, PollStep
<1> QED
  BY <1>1, <1>2, <1>3, <1>4, <1>5 DEF Next, Create, Cleaner

\* The initial state satisfies the invariant.
LEMMA EngineInit == ASSUME Init PROVE EngineInv
<1>1. TypeOK
  BY TypeInit
<1>2. StoreExact /\ LiveIsReferenced /\ RevsUsed /\ PendingIsQueued
  BY DEF Init, StoreExact, LiveIsReferenced, RevsUsed, PendingIsQueued
<1>3. MsgRefExact
  <2>1. \A m \in Messages : Holders(m) = {}
    BY DEF Init, Holders
  <2>2. \A m \in Messages : Cardinality(Holders(m)) = 0
    BY <2>1, FS_EmptySet
  <2>3. \A m \in Messages : msg_ref[m] = 0 /\ m \notin msg_own
    BY DEF Init
  <2> QED
    BY <2>2, <2>3 DEF MsgRefExact
<1>4. PollShape
  <2>1. \A q : Bound(q) = {} \/ q \notin Queues
    BY DEF Init, Bound
  <2> QED
    BY <2>1, ConstantsAssumption DEF Init, PollShape, ClientShape, BindersDistinct
<1> QED
  BY <1>1, <1>2, <1>3, <1>4 DEF EngineInv, EngineShape

\* Every step of the engine preserves the invariant.
LEMMA EngineNext == ASSUME EngineInv, [Next]_vars PROVE EngineInv'
<1>1. TypeOK /\ TypeOK'
  BY TypeStep DEF EngineInv
<1>2. CASE UNCHANGED vars
  <2>1. UNCHANGED <<queue_store, life, q_id, rev, ref_count, binders, msg_queue,
                    msg_ref, msg_own, pc, run, want, pending, target, fault>>
    BY <1>2 DEF vars, storeVars, msgVars, handlerVars
  <2> QED
    BY <1>1, <2>1
    DEF EngineInv, EngineShape, StoreExact, LiveIsReferenced, RevsUsed,
        PendingIsQueued, MsgRefExact, Holders, PollShape, ClientShape,
        BindersDistinct, Bound
<1>3. CASE Next
  <2>1. ~fault
    BY <1>3, NextStopsAtFault
  <2> QED
    BY <1>1, <1>3, <2>1, EngineStep DEF EngineInv
<1> QED
  BY <1>2, <1>3

\* Until freed memory is used, EngineShape holds in every reachable state.
THEOREM EngineInvariant == Spec => []EngineInv
  BY EngineInit, EngineNext, PTL DEF Spec

\* The step that uses freed memory, the last one, writes neither the store nor
\* a waiting poll: the store stays exact and no message arrives unsignalled.
LEMMA FaultStep ==
    ASSUME TypeOK, EngineShape, ~fault, fault', Next
    PROVE  StoreExact' /\ NoLostWakeup'
<1> DEFINE Untouched == /\ UNCHANGED <<queue_store, life, q_id>>
                        /\ \A d \in Clients : pc'[d] = "wait" =>
                                pc[d] = "wait" /\ pending'[d] \subseteq pending[d]
<1>1. ~Create
  BY DEF Create, QueueCreate
<1>2. ASSUME NEW m \in msg_timer, MsgExpire(m) PROVE Untouched
  BY <1>2 DEF MsgExpire, memqueue_msg_release, memqueue_release, handlerVars
<1>3. ASSUME NEW q \in q_timer, QueueExpire(q) PROVE Untouched
  BY <1>3 DEF QueueExpire, memqueue_release, handlerVars
<1>4. ASSUME NEW q \in Queues, NEW k \in consumers[q], ConsumerExpire(q, k)
      PROVE  Untouched
  BY <1>4 DEF ConsumerExpire, memqueue_msg_create, Woken, storeVars
<1>5. ASSUME NEW c \in Clients, Handler(c) PROVE Untouched
  <2>1. pc \in [Clients -> PCs] /\ pending \in [Clients -> SUBSET Messages]
    BY DEF TypeOK
  <2>2. ~Post(c) /\ ~Delete(c) /\ ~PollTimeout(c)
    BY DEF Post, MsgPost, MsgReject, Delete, DeleteRespond, PollTimeout
  <2>3. ~\E w \in PollRequests : PollBegin(c, w)
    BY DEF PollBegin
  <2>4. CASE PostDone(c)
    BY <2>1, <2>4 DEF PostDone, storeVars
  <2>5. CASE DeleteRelease(c)
    BY <2>1, <2>5 DEF DeleteRelease, memqueue_release
  <2>6. CASE PollUnbind(c)
    BY <2>1, <2>6 DEF PollUnbind, storeVars
  <2>7. CASE PollStep(c)
    <3>1. ASSUME NEW id \in QIds PROVE ~(PollJoin(c, id) \/ PollBind(c, id) \/ PollSkip(c, id))
      BY DEF PollJoin, PollBind, PollSkip
    <3>2. ~PollDecide(c) /\ ~PollFree(c)
      BY DEF PollDecide, PollFree
    <3>3. CASE PollRespond(c)
      BY <2>1, <3>3 DEF PollRespond, storeVars
    <3>4. ASSUME NEW m \in pending[c], PollRelease(c, m) PROVE Untouched
      BY <2>1, <3>4 DEF PollRelease, memqueue_msg_release, memqueue_release
    <3> QED
      BY <2>7, <3>1, <3>2, <3>3, <3>4 DEF PollStep
  <2> QED
    BY <1>5, <2>2, <2>3, <2>4, <2>5, <2>6, <2>7 DEF Handler
<1>6. Untouched
  BY <1>1, <1>2, <1>3, <1>4, <1>5 DEF Next, Cleaner
<1>7. StoreExact'
  BY <1>6 DEF EngineShape, StoreExact
<1>8. NoLostWakeup'
  BY <1>6 DEF EngineShape, PollShape, ClientShape, NoLostWakeup
<1> QED
  BY <1>7, <1>8

\* EngineInv with the two properties that also hold once freed memory was used.
EngineEndInv == EngineInv /\ StoreExact /\ NoLostWakeup

\* EngineEndInv holds in every reachable state.
THEOREM EngineEndInvariant == Spec => []EngineEndInv
<1>1. EngineInv /\ ~fault => EngineEndInv
  BY DEF EngineInv, EngineShape, PollShape, ClientShape, NoLostWakeup, EngineEndInv
<1>2. Init => EngineEndInv
  BY <1>1, EngineInit DEF Init
<1>3. ASSUME EngineEndInv, [Next]_vars PROVE EngineEndInv'
  <2>1. EngineInv'
    BY <1>3, EngineNext DEF EngineEndInv
  <2>2. CASE UNCHANGED vars
    BY <1>3, <2>1, <2>2 DEF EngineEndInv, StoreExact, NoLostWakeup, vars, storeVars,
       handlerVars
  <2>3. CASE Next
    <3>1. TypeOK /\ ~fault /\ EngineShape
      BY <1>3, <2>3, NextStopsAtFault DEF EngineEndInv, EngineInv
    <3>2. CASE fault'
      BY <2>1, <2>3, <3>1, <3>2, FaultStep DEF EngineEndInv
    <3>3. CASE ~fault'
      BY <2>1, <3>3 DEF EngineInv, EngineShape, PollShape, ClientShape, NoLostWakeup,
         EngineEndInv
    <3> QED
      BY <3>2, <3>3
  <2> QED
    BY <1>3, <2>2, <2>3
<1> QED
  BY <1>2, <1>3, PTL DEF Spec

\* The store is exact in every state, whatever the clients do, also in the one
\* where freed memory is used (StoreExact).
THEOREM StoreCorrect == Spec => []StoreExact
<1>1. EngineEndInv => StoreExact
  BY DEF EngineEndInv
<1> QED
  BY <1>1, EngineEndInvariant, PTL

\* Message reference counts are exact (MsgRefExact).
THEOREM MsgRefCorrect == Spec => []MsgRefExact
<1>1. EngineInv => MsgRefExact
  BY DEF EngineInv, EngineShape, MsgRefExact
<1> QED
  BY <1>1, EngineInvariant, PTL

\* A message that is pending is still queued (PendingIsQueued).
THEOREM PendingCorrect == Spec => []PendingIsQueued
<1>1. EngineInv => PendingIsQueued
  BY DEF EngineInv, EngineShape, PendingIsQueued
<1> QED
  BY <1>1, EngineInvariant, PTL

\* No poll sleeps while a message is pending for it, in every state
\* (NoLostWakeup).
THEOREM WakeupCorrect == Spec => []NoLostWakeup
<1>1. EngineEndInv => NoLostWakeup
  BY DEF EngineEndInv
<1> QED
  BY <1>1, EngineEndInvariant, PTL

-----------------------------------------------------------------------------
(* Under the clients' contract *)

\* What QueueRefExact counts is finite.
LEMMA ReferenceSets ==
    ASSUME TypeOK, NEW q \in Queues
    PROVE  /\ IsFiniteSet(consumers[q]) /\ Cardinality(consumers[q]) \in Nat
           /\ IsFiniteSet(Retained(q)) /\ Cardinality(Retained(q)) \in Nat
           /\ IsFiniteSet(Held(q)) /\ Cardinality(Held(q)) \in Nat
<1>1. IsFiniteSet(consumers[q]) /\ Cardinality(consumers[q]) \in Nat
  BY FS_Subset, FS_CardinalityType, ConstantsAssumption DEF TypeOK
<1>2. IsFiniteSet(Retained(q)) /\ Cardinality(Retained(q)) \in Nat
  <2>1. Retained(q) \in SUBSET Messages /\ \A m \in Retained(q) : m[1] = q
    BY DEF TypeOK, Retained
  <2> QED
    BY <2>1, QueueMsgSets
<1>3. IsFiniteSet(Held(q)) /\ Cardinality(Held(q)) \in Nat
  <2> DEFINE S == {m \in Messages : m[1] = q}
  <2>1. IsFiniteSet(S)
    BY QueueMsgSets, S \in SUBSET Messages, \A m \in S : m[1] = q
  <2>2. IsFiniteSet(Clients \X S)
    BY <2>1, FS_Product, ConstantsAssumption
  <2>3. Held(q) \subseteq Clients \X S
    BY DEF Held
  <2> QED
    BY <2>2, <2>3, FS_Subset, FS_CardinalityType
<1> QED
  BY <1>1, <1>2, <1>3

\* A queue somebody has a reference to has not been freed.
LEMMA ReferencedIsLive ==
    ASSUME TypeOK, QueueRefExact, LiveIsReferenced, NEW q \in Queues,
           \/ q \in base
           \/ consumers[q] # {}
           \/ Retained(q) # {}
           \/ Held(q) # {}
    PROVE  life[q] = "live"
<1>1. ref_count[q] = (IF q \in base THEN 1 ELSE 0) + Cardinality(consumers[q])
                     + Cardinality(Retained(q)) + Cardinality(Held(q))
  BY DEF QueueRefExact, References
<1>2. /\ IsFiniteSet(consumers[q]) /\ Cardinality(consumers[q]) \in Nat
      /\ IsFiniteSet(Retained(q)) /\ Cardinality(Retained(q)) \in Nat
      /\ IsFiniteSet(Held(q)) /\ Cardinality(Held(q)) \in Nat
  BY ReferenceSets
<1>3. /\ consumers[q] # {} => Cardinality(consumers[q]) # 0
      /\ Retained(q) # {} => Cardinality(Retained(q)) # 0
      /\ Held(q) # {} => Cardinality(Held(q)) # 0
  BY <1>2, FS_EmptySet
<1>4. ref_count[q] # 0
  BY <1>1, <1>2, <1>3
<1> QED
  BY <1>4 DEF LiveIsReferenced

\* No step of the contract uses freed memory.
LEMMA NoFaultStep ==
    ASSUME ContractInv, ContractNext PROVE ~fault'
<1> USE ConstantsAssumption
<1>0. TypeOK /\ ~fault /\ EngineShape /\ QueueRefExact /\ LiveIsReferenced
      /\ PollShape /\ UsersAreBased /\ Next
  BY DEF ContractInv, EngineInv, EngineShape, ContractNext
<1>1. Create => ~fault'
  BY <1>0 DEF Create, QueueCreate
<1>2. ASSUME NEW m \in msg_timer, MsgExpire(m) PROVE ~fault'
  <2>1. m \in msg_own /\ m[1] \in Queues
    BY <1>0 DEF TypeOK, Messages
  <2>2. Retained(m[1]) # {}
    BY <2>1 DEF Retained
  <2> QED
    BY <1>0, <1>2, <2>1, <2>2, ReferencedIsLive
    DEF MsgExpire, memqueue_msg_release, memqueue_release
<1>3. ASSUME NEW q \in q_timer, QueueExpire(q) PROVE ~fault'
  BY <1>0, <1>3, ReferencedIsLive DEF TypeOK, UsersAreBased, QueueExpire, memqueue_release
<1>4. ASSUME NEW q \in Queues, NEW k \in consumers[q], ConsumerExpire(q, k)
      PROVE  ~fault'
  BY <1>0, <1>4, ReferencedIsLive DEF ConsumerExpire
<1>5. ASSUME NEW c \in Clients, Handler(c) PROVE ~fault'
  <2>1. Post(c) \/ Delete(c) => ~fault'
    BY <1>0 DEF Post, Delete, MsgPost, MsgReject, DeleteRespond
  <2>2. PostDone(c) \/ DeleteRelease(c) => ~fault'
    <3>1. ASSUME pc[c] \in {"post", "delete"}
          PROVE  target[c] \in Queues /\ life[target[c]] = "live"
      <4>1. target[c] \in Queues
        BY <1>0, <3>1 DEF TypeOK, PollShape, ClientShape
      <4>2. target[c] \in base
        BY <1>0, <4>1 DEF UsersAreBased, Quiet
      <4> QED
        BY <1>0, <4>1, <4>2, ReferencedIsLive
    <3> QED
      BY <3>1 DEF PostDone, DeleteRelease, memqueue_release
  <2>3. (\E w \in PollRequests : PollBegin(c, w)) \/ PollTimeout(c) => ~fault'
    BY <1>0 DEF PollBegin, PollTimeout
  <2>4. ASSUME NEW m \in pending[c] PROVE m[1] \in Queues /\ life[m[1]] = "live"
    <3>1. m \in Messages /\ m[1] \in Queues
      BY <1>0 DEF TypeOK, Messages
    <3>2. <<c, m>> \in Held(m[1])
      BY <3>1 DEF Held
    <3> QED
      BY <1>0, <3>1, <3>2, ReferencedIsLive
  <2>5. PollStep(c) => ~fault'
    BY <1>0, <2>4 DEF PollStep, PollJoin, PollBind, PollSkip, PollDecide, PollRespond,
       PollRelease, PollFree, memqueue_msg_release, memqueue_release
  <2>6. PollUnbind(c) => ~fault'
    <3>1. \A q \in Queues : binders[q] # <<>> => life[q] = "live"
      BY <1>0, ReferencedIsLive DEF UsersAreBased, Quiet
    <3> QED
      BY <3>1 DEF PollUnbind
  <2> QED
    BY <1>5, <2>1, <2>2, <2>3, <2>5, <2>6 DEF Handler
<1> QED
  BY <1>0, <1>1, <1>2, <1>3, <1>4, <1>5 DEF Next, Cleaner

\* A queue whose references and count do not change stays exact.
LEMMA RefUnchanged ==
    ASSUME QueueRefExact, NEW r \in Queues, ref_count'[r] = ref_count[r],
           r \in base' <=> r \in base, consumers'[r] = consumers[r],
           Retained(r)' = Retained(r), Held(r)' = Held(r)
    PROVE  ref_count'[r] = References(r)'
BY DEF QueueRefExact, References

\* memqueue_msg_create counts what it adds: the message's own retention, one
\* reference per bound poll, and the caller's change to the consumers.
LEMMA CreateRefs ==
    ASSUME TypeOK, EngineShape, ~fault, QueueRefExact, NEW q \in Queues,
           NEW keep \in Retention, NEW d \in SUBSET Messages, NEW x \in -1 .. 1,
           memqueue_msg_create(q, keep, d, x), UNCHANGED base,
           consumers'[q] \in SUBSET ConsumerIds,
           Cardinality(consumers'[q]) = Cardinality(consumers[q]) + x,
           \A r \in Queues : r # q => consumers'[r] = consumers[r]
    PROVE  QueueRefExact'
<1> DEFINE own == IF keep = "none" THEN 0 ELSE 1
<1>0. PICK m \in Messages : m = <<q, rev[q] + 1>>
  BY CreateType, x \in Int
<1>1. PICK B \in SUBSET Clients : B = Bound(q)
  BY BoundClients
<1>2. /\ msg_own' = IF keep = "none" THEN msg_own ELSE msg_own \union {m}
      /\ pending' = [c \in Clients |->
                        IF c \in B THEN pending[c] \union {m} ELSE pending[c]]
      /\ ref_count' = [ref_count EXCEPT ![q] = @ + own + Cardinality(B) + x]
  BY <1>0, <1>1 DEF memqueue_msg_create
<1>3. m \notin msg_own /\ (\A c \in Clients : m \notin pending[c])
  <2>1. ~(m[2] <= rev[m[1]])
    BY <1>0 DEF TypeOK
  <2> QED
    BY <2>1 DEF EngineShape, RevsUsed, PendingIsQueued
<1>4. m[1] = q
  BY <1>0
<1>5. IsFiniteSet(B) /\ Cardinality(B) \in Nat
  BY ClientSets
<1>6. ASSUME NEW r \in Queues, r # q PROVE ref_count'[r] = References(r)'
  <2>1. Retained(r)' = Retained(r)
    BY <1>2, <1>4, <1>6 DEF Retained
  <2>2. Held(r)' = Held(r)
    BY <1>2, <1>4, <1>6 DEF Held, TypeOK
  <2>3. ref_count'[r] = ref_count[r]
    BY <1>2, <1>6 DEF TypeOK
  <2> QED
    BY <1>6, <2>1, <2>2, <2>3, RefUnchanged
<1>7. Cardinality(Retained(q)') = Cardinality(Retained(q)) + own
      /\ Cardinality(Retained(q)) \in Nat
  <2>1. IsFiniteSet(Retained(q)) /\ Cardinality(Retained(q)) \in Nat /\ m \notin Retained(q)
    BY <1>3, ReferenceSets DEF Retained
  <2>2. CASE keep = "none"
    BY <1>2, <2>1, <2>2 DEF Retained
  <2>3. CASE keep # "none"
    <3>1. Retained(q)' = Retained(q) \union {m}
      BY <1>2, <1>4, <2>3 DEF Retained
    <3> QED
      BY <2>1, <2>3, <3>1, FS_AddElement
  <2> QED
    BY <2>2, <2>3
<1>8. Cardinality(Held(q)') = Cardinality(Held(q)) + Cardinality(B)
      /\ Cardinality(Held(q)) \in Nat
  <2> DEFINE P == B \X {m}
  <2>1. IsFiniteSet(Held(q)) /\ Cardinality(Held(q)) \in Nat
    BY ReferenceSets
  <2>2. IsFiniteSet({m}) /\ Cardinality({m}) = 1
    BY FS_Singleton
  <2>3. IsFiniteSet(P) /\ Cardinality(P) = Cardinality(B) * Cardinality({m})
    BY <1>5, <2>2, FS_Product
  <2>4. Held(q)' = Held(q) \union P
    BY <1>2, <1>4 DEF Held, TypeOK
  <2>5. Held(q) \cap P = {}
    BY <1>3 DEF Held
  <2>6. Cardinality(Held(q) \union P) =
            Cardinality(Held(q)) + Cardinality(P) - Cardinality(Held(q) \cap P)
    BY <2>1, <2>3, FS_Union
  <2>7. Cardinality(Held(q) \cap P) = 0
    BY <2>5, FS_EmptySet
  <2>8. Cardinality(P) = Cardinality(B)
    BY <1>5, <2>2, <2>3
  <2> QED
    BY <1>5, <2>1, <2>4, <2>6, <2>7, <2>8
<1>9. ref_count'[q] = References(q)'
  <2>1. Cardinality(consumers[q]) \in Nat
    BY ReferenceSets
  <2>2. ref_count[q] = (IF q \in base THEN 1 ELSE 0) + Cardinality(consumers[q])
                       + Cardinality(Retained(q)) + Cardinality(Held(q))
    BY DEF QueueRefExact, References
  <2>3. ref_count'[q] = ref_count[q] + own + Cardinality(B) + x
    BY <1>2 DEF TypeOK
  <2>4. References(q)' = (IF q \in base THEN 1 ELSE 0) + Cardinality(consumers'[q])
                       + Cardinality(Retained(q)') + Cardinality(Held(q)')
    BY DEF References
  <2> QED
    BY <1>5, <1>7, <1>8, <2>1, <2>2, <2>3, <2>4
<1> QED
  BY <1>6, <1>9 DEF QueueRefExact

\* Steps that neither take nor drop a reference keep the counts exact.
LEMMA RefFrame ==
    ASSUME QueueRefExact, UNCHANGED <<ref_count, base, consumers, msg_own, pending>>
    PROVE  QueueRefExact'
BY DEF QueueRefExact, References, Retained, Held

\* Releasing the creator's reference, which is still there.
LEMMA BaseReleaseRefs ==
    ASSUME TypeOK, QueueRefExact, NEW q \in base, q \in Queues,
           base' = base \ {q}, ref_count' = [ref_count EXCEPT ![q] = @ - 1],
           UNCHANGED <<consumers, msg_own, pending>>
    PROVE  QueueRefExact'
<1>1. \A r : Retained(r)' = Retained(r) /\ Held(r)' = Held(r)
  BY DEF Retained, Held
<1>2. ASSUME NEW r \in Queues, r # q PROVE ref_count'[r] = References(r)'
  BY <1>1, <1>2, RefUnchanged DEF TypeOK
<1>3. ref_count'[q] = References(q)'
  BY <1>1, ReferenceSets DEF TypeOK, QueueRefExact, References
<1> QED
  BY <1>2, <1>3 DEF QueueRefExact

\* Releasing one message's reference to its queue, by the message's timer
\* (own) or by the poll c that had it pending.
LEMMA MsgReleaseRefs ==
    ASSUME TypeOK, QueueRefExact, NEW m \in Messages,
           ref_count' = [ref_count EXCEPT ![m[1]] = @ - 1],
           UNCHANGED <<base, consumers>>,
           \/ /\ m \in msg_own /\ msg_own' = msg_own \ {m} /\ UNCHANGED pending
           \/ \E c \in Clients : /\ m \in pending[c] /\ UNCHANGED msg_own
                                 /\ pending' = [pending EXCEPT ![c] = @ \ {m}]
    PROVE  QueueRefExact'
<1>0. PICK q \in Queues : q = m[1]
  BY DEF Messages
<1>1. /\ IsFiniteSet(Retained(q)) /\ Cardinality(Retained(q)) \in Nat
      /\ IsFiniteSet(Held(q)) /\ Cardinality(Held(q)) \in Nat
      /\ Cardinality(consumers[q]) \in Nat
  BY ReferenceSets
<1>2. /\ ref_count[q] = (IF q \in base THEN 1 ELSE 0) + Cardinality(consumers[q])
                        + Cardinality(Retained(q)) + Cardinality(Held(q))
      /\ References(q)' = (IF q \in base THEN 1 ELSE 0) + Cardinality(consumers[q])
                          + Cardinality(Retained(q)') + Cardinality(Held(q)')
      /\ ref_count'[q] = ref_count[q] - 1
  BY <1>0 DEF TypeOK, QueueRefExact, References
<1>3. CASE m \in msg_own /\ msg_own' = msg_own \ {m} /\ UNCHANGED pending
  <2>1. \A r : Held(r)' = Held(r)
    BY <1>3 DEF Held
  <2>2. \A r : r # q => Retained(r)' = Retained(r)
    BY <1>0, <1>3 DEF Retained
  <2>3. ASSUME NEW r \in Queues, r # q PROVE ref_count'[r] = References(r)'
    BY <1>0, <2>1, <2>2, <2>3, RefUnchanged DEF TypeOK
  <2>4. Retained(q)' = Retained(q) \ {m} /\ m \in Retained(q)
    BY <1>0, <1>3 DEF Retained
  <2>5. Cardinality(Retained(q)') = Cardinality(Retained(q)) - 1
    BY <1>1, <2>4, FS_RemoveElement
  <2>6. ref_count'[q] = References(q)'
    BY <1>1, <1>2, <2>1, <2>5
  <2> QED
    BY <2>3, <2>6 DEF QueueRefExact
<1>4. ASSUME NEW c \in Clients, m \in pending[c], UNCHANGED msg_own,
             pending' = [pending EXCEPT ![c] = @ \ {m}]
      PROVE  QueueRefExact'
  <2>1. \A r : Retained(r)' = Retained(r)
    BY <1>4 DEF Retained
  <2>2. \A r : r # q => Held(r)' = Held(r)
    BY <1>0, <1>4 DEF Held, TypeOK
  <2>3. ASSUME NEW r \in Queues, r # q PROVE ref_count'[r] = References(r)'
    BY <1>0, <2>1, <2>2, <2>3, RefUnchanged DEF TypeOK
  <2>4. Held(q)' = Held(q) \ {<<c, m>>} /\ <<c, m>> \in Held(q)
    BY <1>0, <1>4 DEF Held, TypeOK
  <2>5. Cardinality(Held(q)') = Cardinality(Held(q)) - 1
    BY <1>1, <2>4, FS_RemoveElement
  <2>6. ref_count'[q] = References(q)'
    BY <1>1, <1>2, <2>1, <2>5
  <2> QED
    BY <2>3, <2>6 DEF QueueRefExact
<1> QED
  BY <1>3, <1>4

\* A new poll takes one reference for each message it finds.
LEMMA BindRefs ==
    ASSUME TypeOK, QueueRefExact, NEW q \in Queues, NEW c \in Clients,
           NEW M \in SUBSET Messages, \A m \in M : m[1] = q /\ m \notin pending[c],
           pending' = [pending EXCEPT ![c] = @ \union M],
           ref_count' = [ref_count EXCEPT ![q] = @ + Cardinality(M)],
           UNCHANGED <<base, consumers, msg_own>>
    PROVE  QueueRefExact'
<1>1. /\ IsFiniteSet(Retained(q)) /\ Cardinality(Retained(q)) \in Nat
      /\ IsFiniteSet(Held(q)) /\ Cardinality(Held(q)) \in Nat
      /\ Cardinality(consumers[q]) \in Nat
  BY ReferenceSets
<1>2. IsFiniteSet(M) /\ Cardinality(M) \in Nat
  BY QueueMsgSets
<1>3. \A r : Retained(r)' = Retained(r)
  BY DEF Retained
<1>4. ASSUME NEW r \in Queues, r # q PROVE ref_count'[r] = References(r)'
  <2>1. Held(r)' = Held(r)
    BY <1>4 DEF Held, TypeOK
  <2> QED
    BY <1>3, <1>4, <2>1, RefUnchanged DEF TypeOK
<1>5. Cardinality(Held(q)') = Cardinality(Held(q)) + Cardinality(M)
  <2> DEFINE P == {c} \X M
  <2>1. IsFiniteSet({c}) /\ Cardinality({c}) = 1
    BY FS_Singleton
  <2>2. IsFiniteSet(P) /\ Cardinality(P) = Cardinality({c}) * Cardinality(M)
    BY <1>2, <2>1, FS_Product
  <2>3. Held(q)' = Held(q) \union P
    BY DEF Held, TypeOK
  <2>4. Held(q) \cap P = {}
    BY DEF Held
  <2>5. Cardinality(Held(q) \union P) =
            Cardinality(Held(q)) + Cardinality(P) - Cardinality(Held(q) \cap P)
    BY <1>1, <2>2, FS_Union
  <2>6. Cardinality(Held(q) \cap P) = 0
    BY <2>4, FS_EmptySet
  <2>7. Cardinality(P) = Cardinality(M)
    BY <1>2, <2>1, <2>2
  <2> QED
    BY <1>1, <1>2, <2>3, <2>5, <2>6, <2>7
<1>6. ref_count'[q] = References(q)'
  <2>1. /\ ref_count[q] = (IF q \in base THEN 1 ELSE 0) + Cardinality(consumers[q])
                          + Cardinality(Retained(q)) + Cardinality(Held(q))
        /\ References(q)' = (IF q \in base THEN 1 ELSE 0) + Cardinality(consumers[q])
                            + Cardinality(Retained(q)') + Cardinality(Held(q)')
        /\ ref_count'[q] = ref_count[q] + Cardinality(M)
    BY DEF TypeOK, QueueRefExact, References
  <2> QED
    BY <1>1, <1>2, <1>3, <1>5, <2>1
<1> QED
  BY <1>4, <1>6 DEF QueueRefExact

\* Every step of the contract keeps the counts of queue references exact.
LEMMA RefStep ==
    ASSUME ContractInv, ContractNext PROVE QueueRefExact'
<1> USE ConstantsAssumption
<1>0. TypeOK /\ ~fault /\ EngineShape /\ QueueRefExact /\ LiveIsReferenced
      /\ PollShape /\ StoreExact /\ UsersAreBased /\ Next
  BY DEF ContractInv, EngineInv, EngineShape, ContractNext
<1>1. ASSUME NEW id \in QIds, NEW q \in Queues, NEW o \in QueueOptions,
             QueueCreate(id, q, o)
      PROVE  QueueRefExact'
  <2>1. /\ life[q] = "unused" /\ base' = base \union {q}
        /\ ref_count' = [ref_count EXCEPT ![q] = 1]
        /\ UNCHANGED <<consumers, msg_own, pending>>
    BY <1>1 DEF QueueCreate, msgVars, handlerVars
  <2>2. q \notin base /\ consumers[q] = {} /\ Retained(q) = {} /\ Held(q) = {}
    BY <1>0, <2>1, ReferencedIsLive
  <2>3. \A r : Retained(r)' = Retained(r) /\ Held(r)' = Held(r)
    BY <2>1 DEF Retained, Held
  <2>4. ASSUME NEW r \in Queues, r # q PROVE ref_count'[r] = References(r)'
    BY <1>0, <2>1, <2>3, <2>4, RefUnchanged DEF TypeOK
  <2>5. References(q)' = 1 + 0 + 0 + 0
    BY <2>1, <2>2, <2>3, FS_EmptySet DEF References
  <2>6. ref_count'[q] = 1
    BY <1>0, <2>1 DEF TypeOK
  <2> QED
    BY <2>4, <2>5, <2>6 DEF QueueRefExact
<1>2. ASSUME NEW m \in msg_timer, MsgExpire(m) PROVE QueueRefExact'
  <2>1. m \in msg_own /\ m \in Messages
    BY <1>0 DEF TypeOK
  <2> QED
    BY <1>0, <1>2, <2>1, MsgReleaseRefs
    DEF MsgExpire, memqueue_msg_release, memqueue_release, handlerVars
<1>3. ASSUME NEW q \in q_timer, QueueExpire(q) PROVE QueueRefExact'
  <2>1. q \in base /\ q \in Queues
    BY <1>0 DEF TypeOK, UsersAreBased
  <2> QED
    BY <1>0, <1>3, <2>1, BaseReleaseRefs
    DEF QueueExpire, memqueue_release, msgVars, handlerVars
<1>4. ASSUME NEW q \in Queues, NEW k \in consumers[q], ConsumerExpire(q, k)
      PROVE  QueueRefExact'
  <2>1. /\ consumers' = [consumers EXCEPT ![q] = @ \ {k}]
        /\ memqueue_msg_create(q, "timed", {}, -1) /\ UNCHANGED base
    BY <1>4 DEF ConsumerExpire, storeVars
  <2>2. IsFiniteSet(consumers[q]) /\ Cardinality(consumers[q]) \in Nat
    BY <1>0, ReferenceSets
  <2>3. consumers'[q] = consumers[q] \ {k} /\ consumers'[q] \in SUBSET ConsumerIds
        /\ \A r \in Queues : r # q => consumers'[r] = consumers[r]
    BY <1>0, <2>1 DEF TypeOK
  <2>4. Cardinality(consumers'[q]) = Cardinality(consumers[q]) + (-1)
    <3>1. Cardinality(consumers[q] \ {k}) = Cardinality(consumers[q]) - 1
      BY <2>2, FS_RemoveElement
    <3> QED
      BY <2>2, <2>3, <3>1
  <2>5. "timed" \in Retention /\ {} \in SUBSET Messages /\ -1 \in -1 .. 1
    BY DEF Retention
  <2> QED
    BY <1>0, <2>1, <2>3, <2>4, <2>5, CreateRefs
<1>5. ASSUME NEW c \in Clients, Handler(c) PROVE QueueRefExact'
  <2>1. ASSUME NEW id \in QIds, queue_store[id] # NULL, NEW keep \in Retention,
               MsgPost(c, queue_store[id], keep)
        PROVE  QueueRefExact'
    <3>1. PICK q \in Queues : q = queue_store[id]
      BY <1>0, <2>1 DEF TypeOK
    <3>2. PICK d \in SUBSET Messages : memqueue_msg_create(q, keep, d, 0)
      BY <1>0, <2>1, <3>1 DEF TypeOK, MsgPost, Oldest, InQueue
    <3>3. UNCHANGED <<base, consumers>>
      BY <2>1 DEF MsgPost, storeVars
    <3>4. Cardinality(consumers[q]) \in Nat /\ consumers[q] \in SUBSET ConsumerIds
      BY <1>0, ReferenceSets DEF TypeOK
    <3>5. Cardinality(consumers'[q]) = Cardinality(consumers[q]) + 0 /\ 0 \in -1 .. 1
      BY <3>3, <3>4
    <3> QED
      BY <1>0, <2>1, <3>2, <3>3, <3>4, <3>5, CreateRefs
  <2>2. ASSUME NEW id \in QIds, MsgReject(c, queue_store[id]) PROVE QueueRefExact'
    BY <1>0, <2>2, RefFrame DEF MsgReject, storeVars, msgVars
  <2>3. CASE PostDone(c)
    BY <1>0, <2>3, RefFrame DEF PostDone, storeVars, msgVars
  <2>4. ASSUME NEW id \in QIds, DeleteRespond(c, queue_store[id]) PROVE QueueRefExact'
    BY <1>0, <2>4, RefFrame DEF DeleteRespond, storeVars, msgVars
  <2>5. CASE DeleteRelease(c)
    <3>1. PICK q \in Queues : q = target[c] /\ q \in base
      BY <1>0, <2>5 DEF TypeOK, PollShape, ClientShape, DeleteRelease, UsersAreBased, Quiet
    <3> QED
      BY <1>0, <2>5, <3>1, BaseReleaseRefs DEF DeleteRelease, memqueue_release, msgVars
  <2>6. ASSUME NEW w \in PollRequests, PollBegin(c, w) PROVE QueueRefExact'
    BY <1>0, <2>6, RefFrame DEF PollBegin, storeVars, msgVars
  <2>7. ASSUME NEW id \in QIds, PollJoin(c, id) PROVE QueueRefExact'
    <3>1. PICK q \in Queues : q = queue_store[id]
      BY <1>0, <2>7 DEF TypeOK, PollJoin
    <3>2. PICK k \in ConsumerIds : k = want[c][id].consumer_id /\ k \notin consumers[q]
      BY <1>0, <2>7, <3>1 DEF TypeOK, PollJoin, NewConsumer, PollRequests, PollArgs
    <3>3. /\ consumers' = [consumers EXCEPT ![q] = @ \union {k}]
          /\ memqueue_msg_create(q, "timed", {}, 1) /\ UNCHANGED base
      BY <2>7, <3>1, <3>2 DEF PollJoin, storeVars
    <3>4. IsFiniteSet(consumers[q]) /\ Cardinality(consumers[q]) \in Nat
      BY <1>0, ReferenceSets
    <3>5. consumers'[q] = consumers[q] \union {k} /\ consumers'[q] \in SUBSET ConsumerIds
          /\ \A r \in Queues : r # q => consumers'[r] = consumers[r]
      BY <1>0, <3>3 DEF TypeOK
    <3>6. Cardinality(consumers'[q]) = Cardinality(consumers[q]) + 1
      <4>1. Cardinality(consumers[q] \union {k}) = Cardinality(consumers[q]) + 1
        BY <3>2, <3>4, FS_AddElement
      <4> QED
        BY <3>5, <4>1
    <3>7. "timed" \in Retention /\ {} \in SUBSET Messages /\ 1 \in -1 .. 1
      BY DEF Retention
    <3> QED
      BY <1>0, <3>3, <3>5, <3>6, <3>7, CreateRefs
  <2>8. ASSUME NEW id \in QIds, PollBind(c, id) PROVE QueueRefExact'
    <3>1. PICK q \in Queues : q = queue_store[id]
      BY <1>0, <2>8 DEF TypeOK, PollBind
    <3>2. PICK M \in SUBSET Messages : M = Matching(q, want[c][id])
      BY <1>0 DEF TypeOK, Matching, InQueue
    <3>3. \A m \in M : m[1] = q
      BY <3>2 DEF Matching, InQueue
    <3>4. /\ pc[c] = "bind" /\ want[c][id] # NULL
          /\ pending' = [pending EXCEPT ![c] = @ \union M]
          /\ ref_count' = [ref_count EXCEPT ![q] = @ + Cardinality(M)]
          /\ UNCHANGED <<base, consumers, msg_own>>
      BY <2>8, <3>1, <3>2 DEF PollBind, Runs, storeVars
    <3>5. \A m \in M : m \notin pending[c]
      BY <1>0, <3>1, <3>3, <3>4 DEF PollShape, ClientShape
    <3> QED
      BY <1>0, <3>3, <3>4, <3>5, BindRefs
  <2>9. ASSUME NEW id \in QIds, PollSkip(c, id) PROVE QueueRefExact'
    BY <1>0, <2>9, RefFrame DEF PollSkip, storeVars, msgVars
  <2>10. CASE PollDecide(c)
    BY <1>0, <2>10, RefFrame DEF PollDecide, storeVars, msgVars
  <2>11. CASE PollRespond(c)
    BY <1>0, <2>11, RefFrame DEF PollRespond, storeVars, msgVars
  <2>12. ASSUME NEW m \in pending[c], PollRelease(c, m) PROVE QueueRefExact'
    <3>1. m \in Messages
      BY <1>0 DEF TypeOK
    <3> QED
      BY <1>0, <2>12, <3>1, MsgReleaseRefs
      DEF PollRelease, memqueue_msg_release, memqueue_release
  <2>13. CASE PollFree(c)
    BY <1>0, <2>13, RefFrame DEF PollFree, storeVars, msgVars
  <2>14. CASE PollTimeout(c)
    BY <1>0, <2>14, RefFrame DEF PollTimeout, storeVars, msgVars
  <2>15. CASE PollUnbind(c)
    BY <1>0, <2>15, RefFrame DEF PollUnbind, storeVars, msgVars
  <2> QED
    BY <1>5, <2>1, <2>2, <2>3, <2>4, <2>5, <2>6, <2>7, <2>8, <2>9, <2>10, <2>11,
       <2>12, <2>13, <2>14, <2>15 DEF Handler, Post, Delete, PollStep
<1> QED
  BY <1>0, <1>1, <1>2, <1>3, <1>4, <1>5 DEF Next, Create, Cleaner

\* Steps that only let go of queues keep every user of a queue covered.
LEMMA BasedLetGo ==
    ASSUME TypeOK, PollShape, UsersAreBased, UNCHANGED <<base, opts, q_timer>>,
           \A q \in Queues : binders[q] = <<>> => binders'[q] = <<>>,
           \A c \in Clients : target'[c] \in {target[c], NULL},
           \A c \in Clients : pc'[c] = "delete" => pc[c] = "delete" /\ target'[c] = target[c],
           \A c \in Clients : \A id \in QIds : want'[c][id] # NULL => want[c][id] # NULL,
           \A id \in QIds : queue_store'[id] \in {queue_store[id], NULL}
    PROVE  UsersAreBased'
<1> USE ConstantsAssumption
<1>1. \A q \in Queues : Quiet(q) => Quiet(q)'
  BY DEF Quiet
<1>2. \A q \in Queues : Available(q) => Available(q)'
  BY DEF Available
<1>3. \A c \in Clients : pc[c] = "delete" => target[c] \in Queues
  BY DEF TypeOK, PollShape, ClientShape
<1>4. \A q \in Queues : ~Quiet(q)' => q \in base'
  BY <1>1 DEF UsersAreBased
<1>5. q_timer' \subseteq base' /\ \A q \in q_timer' : opts'[q].expiry
  BY DEF UsersAreBased
<1>6. ASSUME NEW c \in Clients, NEW id \in QIds, want'[c][id] # NULL,
             queue_store'[id] # NULL
      PROVE  Available(queue_store[id])'
  <2>1. want[c][id] # NULL /\ queue_store'[id] = queue_store[id]
        /\ queue_store[id] # NULL
    BY <1>6
  <2>2. PICK q \in Queues : q = queue_store[id]
    BY <2>1 DEF TypeOK
  <2>3. Available(q)'
    BY <1>2, <2>1, <2>2 DEF UsersAreBased
  <2> QED
    BY <2>1, <2>2, <2>3 DEF Available
<1>7. ASSUME NEW c \in Clients, pc'[c] = "delete"
      PROVE  /\ binders'[target'[c]] = <<>>
             /\ target'[c] \notin q_timer'
             /\ \A d \in Clients : target'[d] = target'[c] => d = c
  <2>1. pc[c] = "delete" /\ target'[c] = target[c] /\ target[c] \in Queues
    BY <1>3, <1>7
  <2>2. /\ binders[target[c]] = <<>> /\ target[c] \notin q_timer
        /\ \A d \in Clients : target[d] = target[c] => d = c
    BY <2>1 DEF UsersAreBased
  <2> QED
    BY <2>1, <2>2
<1> QED
  BY <1>4, <1>5, <1>6, <1>7 DEF UsersAreBased

\* A request that is sent for an available queue q finds it based.
LEMMA BasedRequest ==
    ASSUME TypeOK, PollShape, UsersAreBased, NEW c \in Clients, NEW q \in Queues,
           Available(q), target' = [target EXCEPT ![c] = q], run = NULL,
           UNCHANGED <<base, opts, q_timer, queue_store, want, binders>>,
           \A d \in Clients : d # c => (pc'[d] = "delete" <=> pc[d] = "delete"),
           pc'[c] = "delete" => Quiet(q) /\ ~opts[q].expiry
    PROVE  UsersAreBased'
<1> USE ConstantsAssumption
<1>1. \A d \in Clients : \A id \in QIds : want[d][id] = NULL
  BY DEF PollShape, ClientShape
<1>2. \A d \in Clients : d # c => target'[d] = target[d]
  BY DEF TypeOK
<1>3. target'[c] = q
  BY DEF TypeOK
<1>4. \A r \in Queues : ~Quiet(r)' => r \in base'
  <2>1. \A r \in Queues : r # q => (Quiet(r) => Quiet(r)')
    BY <1>2, <1>3 DEF Quiet
  <2> QED
    BY <2>1 DEF UsersAreBased, Available
<1>5. ASSUME NEW d \in Clients, pc'[d] = "delete"
      PROVE  /\ binders'[target'[d]] = <<>>
             /\ target'[d] \notin q_timer'
             /\ \A e \in Clients : target'[e] = target'[d] => e = d
  <2>1. CASE d = c
    BY <1>2, <1>3, <1>5, <2>1 DEF Quiet, UsersAreBased
  <2>2. CASE d # c
    <3>1. pc[d] = "delete" /\ target'[d] = target[d] /\ target[d] # q
      BY <1>2, <1>5, <2>2 DEF Available
    <3>2. /\ binders[target[d]] = <<>> /\ target[d] \notin q_timer
          /\ \A e \in Clients : target[e] = target[d] => e = d
      BY <3>1 DEF UsersAreBased
    <3> QED
      BY <1>2, <1>3, <3>1, <3>2
  <2> QED
    BY <2>1, <2>2
<1>6. q_timer' \subseteq base' /\ \A r \in q_timer' : opts'[r].expiry
  BY DEF UsersAreBased
<1> QED
  BY <1>1, <1>4, <1>5, <1>6 DEF UsersAreBased

\* The creator's reference of a queue nobody else uses goes.
LEMMA BasedExpire ==
    ASSUME TypeOK, PollShape, UsersAreBased, NEW q \in Queues, run = NULL,
           base' = base \ {q}, q_timer' = q_timer \ {q},
           UNCHANGED <<opts, want, binders>>,
           \A c \in Clients : target'[c] \in {target[c], NULL},
           \A c \in Clients : pc'[c] = "delete" => pc[c] = "delete" /\ target'[c] = target[c],
           Quiet(q)'
    PROVE  UsersAreBased'
<1> USE ConstantsAssumption
<1>1. \A d \in Clients : \A id \in QIds : want'[d][id] = NULL
  BY DEF PollShape, ClientShape
<1>2. \A r \in Queues : ~Quiet(r)' => r \in base'
  <2>1. \A r \in Queues : Quiet(r) => Quiet(r)'
    BY DEF Quiet
  <2> QED
    BY <2>1 DEF UsersAreBased
<1>3. q_timer' \subseteq base' /\ \A r \in q_timer' : opts'[r].expiry
  BY DEF UsersAreBased
<1>4. ASSUME NEW c \in Clients, pc'[c] = "delete"
      PROVE  /\ binders'[target'[c]] = <<>>
             /\ target'[c] \notin q_timer'
             /\ \A d \in Clients : target'[d] = target'[c] => d = c
  <2>1. pc[c] = "delete" /\ target'[c] = target[c] /\ target[c] \in Queues
    BY <1>4 DEF TypeOK, PollShape, ClientShape
  <2>2. /\ binders[target[c]] = <<>> /\ target[c] \notin q_timer
        /\ \A d \in Clients : target[d] = target[c] => d = c
    BY <2>1 DEF UsersAreBased
  <2> QED
    BY <2>1, <2>2
<1> QED
  BY <1>1, <1>2, <1>3, <1>4 DEF UsersAreBased

\* What memqueue_release does to the store.
LEMMA ReleaseStore ==
    ASSUME TypeOK, NEW q \in Queues, memqueue_release(q)
    PROVE  \A id \in QIds : queue_store'[id] \in {queue_store[id], NULL}
BY DEF TypeOK, memqueue_release

\* Woken makes no poll a DELETE.
LEMMA WokenDelete ==
    ASSUME NEW B, NEW c \in Clients
    PROVE  Woken(B)[c] = "delete" <=> pc[c] = "delete"
BY DEF Woken

\* Every step of the contract leaves each queue in use with the creator's
\* reference.
LEMMA BasedStep ==
    ASSUME ContractInv, ContractNext PROVE UsersAreBased'
<1> USE ConstantsAssumption
<1>0. TypeOK /\ ~fault /\ QueueRefExact /\ LiveIsReferenced /\ PollShape
      /\ UsersAreBased /\ Next /\ Contract
  BY DEF ContractInv, EngineInv, EngineShape, ContractNext
<1>1. run = NULL => \A c \in Clients : \A id \in QIds : want[c][id] = NULL
  BY <1>0 DEF PollShape, ClientShape
<1>2. ASSUME NEW id \in QIds, NEW q \in Queues, NEW o \in QueueOptions,
             QueueCreate(id, q, o)
      PROVE  UsersAreBased'
  <2>1. q \notin base
    BY <1>0, <1>2, ReferencedIsLive DEF QueueCreate
  <2>2. /\ run = NULL /\ base' = base \union {q} /\ q_timer' \subseteq q_timer \union {q}
        /\ q \in q_timer' => o.expiry
        /\ opts' = [opts EXCEPT ![q] = o]
        /\ UNCHANGED <<binders, target, pc, want>>
    BY <1>0, <1>2, <2>1 DEF QueueCreate, Scheduled, handlerVars, UsersAreBased
  <2>3. \A r \in Queues : ~Quiet(r)' => r \in base'
    BY <1>0, <2>2 DEF UsersAreBased, Quiet
  <2>4. q_timer' \subseteq base' /\ \A r \in q_timer' : opts'[r].expiry
    BY <1>0, <2>2 DEF UsersAreBased, TypeOK
  <2>5. ASSUME NEW c \in Clients, pc[c] = "delete"
        PROVE  target[c] \notin q_timer'
    <3>1. target[c] \in Queues /\ target[c] \notin q_timer /\ target[c] \in base
      BY <1>0, <2>5 DEF TypeOK, PollShape, ClientShape, UsersAreBased, Quiet
    <3> QED
      BY <2>1, <2>2, <3>1
  <2> QED
    BY <1>0, <1>1, <2>2, <2>3, <2>4, <2>5 DEF UsersAreBased
<1>3. ASSUME NEW m \in msg_timer, MsgExpire(m) PROVE UsersAreBased'
  <2>1. m[1] \in Queues
    BY <1>0 DEF TypeOK, Messages
  <2>2. \A id \in QIds : queue_store'[id] \in {queue_store[id], NULL}
    BY <1>0, <1>3, <2>1, ReleaseStore DEF MsgExpire, memqueue_msg_release
  <2> QED
    BY <1>0, <1>3, <2>2, BasedLetGo DEF MsgExpire, handlerVars
<1>4. ASSUME NEW q \in q_timer, QueueExpire(q) PROVE UsersAreBased'
  <2>1. /\ q \in Queues /\ run = NULL /\ q_timer' = q_timer \ {q} /\ base' = base \ {q}
        /\ UNCHANGED <<opts, want, binders, target, pc>>
    BY <1>0, <1>4 DEF QueueExpire, Scheduled, handlerVars, TypeOK
  <2>2. Quiet(q)'
    BY <1>0, <2>1 DEF Contract, ExpiryOutlastsRequests, Quiet
  <2> QED
    BY <1>0, <2>1, <2>2, BasedExpire
<1>5. ASSUME NEW q \in Queues, NEW k \in consumers[q], ConsumerExpire(q, k)
      PROVE  UsersAreBased'
  <2>1. \A c \in Clients : pc'[c] = "delete" => pc[c] = "delete"
    BY <1>5, WokenDelete DEF ConsumerExpire
  <2> QED
    BY <1>0, <1>5, <2>1, BasedLetGo DEF ConsumerExpire, storeVars
<1>6. ASSUME NEW c \in Clients, Handler(c) PROVE UsersAreBased'
  <2>1. ASSUME NEW id \in QIds, queue_store[id] # NULL,
               NEW q \in Queues, q = queue_store[id],
               \/ \E keep \in Retention : MsgPost(c, q, keep)
               \/ MsgReject(c, q)
               \/ DeleteRespond(c, q)
        PROVE  UsersAreBased'
    <3>1. /\ pc[c] = "idle" /\ run = NULL /\ target' = [target EXCEPT ![c] = q]
          /\ UNCHANGED <<base, opts, q_timer, queue_store, want, binders>>
      BY <2>1 DEF MsgPost, MsgReject, DeleteRespond, storeVars, Scheduled
    <3>2. target[c] = NULL /\ target'[c] = q
      BY <1>0, <3>1 DEF PollShape, ClientShape, TypeOK
    <3>3. Available(q)
      BY <1>0, <3>2 DEF Contract, RequestsAvailable
    <3>4. \A d \in Clients : d # c => (pc'[d] = "delete" <=> pc[d] = "delete")
      <4>1. \/ pc' = [Woken(Bound(q)) EXCEPT ![c] = "post"]
            \/ pc' = [pc EXCEPT ![c] = "post"]
            \/ pc' = [pc EXCEPT ![c] = "delete"]
        BY <2>1 DEF MsgPost, MsgReject, DeleteRespond
      <4>2. \A d \in Clients : d # c => pc'[d] \in {Woken(Bound(q))[d], pc[d]}
        BY <1>0, <4>1 DEF TypeOK, Woken
      <4> QED
        BY <4>2, WokenDelete
    <3>5. pc'[c] = "delete" => Quiet(q) /\ ~opts[q].expiry
      BY <1>0, <3>1, <3>2 DEF Contract, DeletesAreExclusive
    <3> QED
      BY <1>0, <3>1, <3>3, <3>4, <3>5, BasedRequest
  <2>2. CASE PostDone(c)
    BY <1>0, <2>2, BasedLetGo DEF PostDone, storeVars, TypeOK
  <2>3. CASE DeleteRelease(c)
    <3>1. PICK q \in Queues : q = target[c]
      BY <1>0, <2>3 DEF TypeOK, PollShape, ClientShape, DeleteRelease
    <3>2. /\ pc[c] = "delete" /\ run = NULL /\ base' = base \ {q}
          /\ UNCHANGED <<opts, q_timer, want, binders>>
          /\ target' = [target EXCEPT ![c] = NULL] /\ pc' = [pc EXCEPT ![c] = "idle"]
      BY <2>3, <3>1 DEF DeleteRelease, Scheduled
    <3>3. /\ binders[q] = <<>> /\ q \notin q_timer
          /\ \A d \in Clients : target[d] = q => d = c
      BY <1>0, <3>1, <3>2 DEF UsersAreBased
    <3>4. Quiet(q)'
      BY <1>0, <3>2, <3>3 DEF Quiet, TypeOK
    <3>5. /\ \A d \in Clients : target'[d] \in {target[d], NULL}
          /\ \A d \in Clients : pc'[d] = "delete" => pc[d] = "delete" /\ target'[d] = target[d]
      BY <1>0, <3>2 DEF TypeOK
    <3>6. q_timer' = q_timer \ {q}
      BY <3>2, <3>3
    <3> QED
      BY <1>0, <3>2, <3>4, <3>5, <3>6, BasedExpire
  <2>4. ASSUME NEW w \in PollRequests, PollBegin(c, w) PROVE UsersAreBased'
    <3>1. /\ pc[c] = "idle" /\ run = NULL /\ want' = [want EXCEPT ![c] = w]
          /\ pc' = [pc EXCEPT ![c] = "bind"]
          /\ UNCHANGED <<base, opts, q_timer, queue_store, binders, target>>
      BY <2>4 DEF PollBegin, Scheduled, storeVars
    <3>2. /\ want'[c] = w /\ \A d \in Clients : d # c => want'[d] = want[d]
          /\ pc'[c] = "bind" /\ \A d \in Clients : pc'[d] = "delete" <=> pc[d] = "delete"
      BY <1>0, <3>1 DEF TypeOK
    <3>3. \A q : (Quiet(q)' <=> Quiet(q)) /\ (Available(q) => Available(q)')
      BY <3>1, <3>2 DEF Quiet, Available
    <3>4. ASSUME NEW d \in Clients, NEW id \in QIds, want'[d][id] # NULL,
                 queue_store'[id] # NULL
          PROVE  Available(queue_store[id])'
      <4>1. d = c
        BY <1>1, <3>1, <3>2, <3>4
      <4>2. PICK q \in Queues : q = queue_store[id]
        BY <1>0, <3>1, <3>4 DEF TypeOK
      <4>3. Available(q)
        BY <1>0, <3>1, <3>2, <3>4, <4>1, <4>2 DEF Contract, PollsAvailable
      <4> QED
        BY <3>1, <3>3, <4>2, <4>3 DEF Available
    <3> QED
      BY <1>0, <3>1, <3>2, <3>3, <3>4 DEF UsersAreBased
  <2>5. ASSUME NEW id \in QIds, PollJoin(c, id) PROVE UsersAreBased'
    <3>1. \A d \in Clients : pc'[d] = "delete" => pc[d] = "delete"
      BY <2>5, WokenDelete DEF PollJoin
    <3> QED
      BY <1>0, <2>5, <3>1, BasedLetGo DEF PollJoin, storeVars
  <2>6. ASSUME NEW id \in QIds, PollBind(c, id) PROVE UsersAreBased'
    <3>1. PICK q \in Queues : q = queue_store[id]
      BY <1>0, <2>6 DEF TypeOK, PollBind
    <3>2. /\ want[c][id] # NULL /\ queue_store[id] # NULL
          /\ binders' = [binders EXCEPT ![q] = <<c>> \o @]
          /\ want' = [want EXCEPT ![c][id] = NULL]
          /\ UNCHANGED <<base, opts, q_timer, queue_store, target, pc>>
      BY <2>6, <3>1 DEF PollBind, storeVars
    <3>3. Available(q)
      BY <1>0, <3>1, <3>2 DEF UsersAreBased
    <3>4. \A r \in Queues : r # q => binders'[r] = binders[r]
      BY <1>0, <3>2 DEF TypeOK
    <3>5. \A r \in Queues : ~Quiet(r)' => r \in base'
      BY <1>0, <3>2, <3>3, <3>4 DEF UsersAreBased, Quiet, Available
    <3>6. \A r : Available(r)' <=> Available(r)
      BY <3>2 DEF Available
    <3>7. \A d \in Clients : \A i \in QIds : want'[d][i] # NULL => want[d][i] # NULL
      BY <1>0, <3>2 DEF TypeOK, PollRequests
    <3>8. ASSUME NEW d \in Clients, pc[d] = "delete" PROVE binders'[target[d]] = <<>>
      <4>1. target[d] \in Queues /\ target[d] # q
        BY <1>0, <3>3, <3>8 DEF TypeOK, PollShape, ClientShape, Available
      <4> QED
        BY <1>0, <3>4, <3>8, <4>1 DEF UsersAreBased
    <3>9. \A d \in Clients : \A i \in QIds :
             (want'[d][i] # NULL /\ queue_store'[i] # NULL) => Available(queue_store[i])'
      BY <1>0, <3>2, <3>6, <3>7 DEF UsersAreBased, Available
    <3> QED
      BY <1>0, <3>2, <3>5, <3>8, <3>9 DEF UsersAreBased
  <2>7. ASSUME NEW id \in QIds, PollSkip(c, id) PROVE UsersAreBased'
    <3>1. \A d \in Clients : \A i \in QIds : want'[d][i] # NULL => want[d][i] # NULL
      BY <1>0, <2>7 DEF PollSkip, TypeOK, PollRequests
    <3> QED
      BY <1>0, <2>7, <3>1, BasedLetGo DEF PollSkip, storeVars
  <2>8. CASE PollDecide(c)
    <3>1. \A d \in Clients : pc'[d] = "delete" => pc[d] = "delete"
      BY <1>0, <2>8 DEF PollDecide, TypeOK
    <3> QED
      BY <1>0, <2>8, <3>1, BasedLetGo DEF PollDecide, storeVars
  <2>9. CASE PollRespond(c) \/ PollFree(c) \/ PollTimeout(c)
    <3>1. \A d \in Clients : pc'[d] = "delete" => pc[d] = "delete"
      BY <1>0, <2>9 DEF PollRespond, PollFree, PollTimeout, TypeOK
    <3> QED
      BY <1>0, <2>9, <3>1, BasedLetGo DEF PollRespond, PollFree, PollTimeout, storeVars
  <2>10. ASSUME NEW m \in pending[c], PollRelease(c, m) PROVE UsersAreBased'
    <3>1. m[1] \in Queues
      BY <1>0 DEF TypeOK, Messages
    <3>2. \A id \in QIds : queue_store'[id] \in {queue_store[id], NULL}
      BY <1>0, <2>10, <3>1, ReleaseStore DEF PollRelease, memqueue_msg_release
    <3> QED
      BY <1>0, <2>10, <3>2, BasedLetGo DEF PollRelease
  <2>11. CASE PollUnbind(c)
    <3>1. \A q \in Queues : binders[q] = <<>> => binders'[q] = <<>>
      BY <1>0, <2>11 DEF PollUnbind, Unlink, TypeOK
    <3>2. \A d \in Clients : pc'[d] = "delete" => pc[d] = "delete"
      BY <1>0, <2>11 DEF PollUnbind, TypeOK
    <3> QED
      BY <1>0, <2>11, <3>1, <3>2, BasedLetGo DEF PollUnbind, storeVars
  <2>12. Post(c) \/ Delete(c) => UsersAreBased'
    BY <1>0, <2>1 DEF Post, Delete, TypeOK
  <2> QED
    BY <1>6, <2>2, <2>3, <2>4, <2>5, <2>6, <2>7, <2>8, <2>9, <2>10, <2>11, <2>12
    DEF Handler, PollStep
<1> QED
  BY <1>0, <1>2, <1>3, <1>4, <1>5, <1>6 DEF Next, Create, Cleaner

\* Under the contract the counts are exact, every queue in use keeps the
\* creator's reference, and freed memory is not used: the inductive invariant.
THEOREM ContractInvariant == ContractSpec => []ContractInv
<1>1. ASSUME Init PROVE ContractInv
  <2>1. EngineInv /\ ~fault
    BY <1>1, EngineInit DEF Init
  <2>2. \A q \in Queues : /\ q \notin base /\ consumers[q] = {} /\ ref_count[q] = 0
                          /\ Retained(q) = {} /\ Held(q) = {}
    BY <1>1 DEF Init, Retained, Held
  <2>3. QueueRefExact
    BY <2>2, FS_EmptySet DEF QueueRefExact, References
  <2>4. UsersAreBased
    BY <1>1, ConstantsAssumption DEF Init, UsersAreBased, Quiet
  <2> QED
    BY <2>1, <2>3, <2>4 DEF ContractInv
<1>2. ASSUME ContractInv, [ContractNext]_vars PROVE ContractInv'
  <2>1. EngineInv'
    BY <1>2, EngineNext DEF ContractInv, ContractNext
  <2>2. CASE UNCHANGED vars
    <3>1. UNCHANGED <<ref_count, base, consumers, msg_own, pending, opts, q_timer,
                      binders, target, pc, want, queue_store, fault>>
      BY <2>2 DEF vars, storeVars, msgVars, handlerVars
    <3>2. QueueRefExact'
      BY <1>2, <3>1, RefFrame DEF ContractInv
    <3>3. UsersAreBased'
      BY <1>2, <3>1 DEF ContractInv, UsersAreBased, Quiet, Available
    <3> QED
      BY <1>2, <2>1, <3>1, <3>2, <3>3 DEF ContractInv
  <2>3. CASE ContractNext
    BY <1>2, <2>1, <2>3, NoFaultStep, RefStep, BasedStep DEF ContractInv
  <2> QED
    BY <1>2, <2>2, <2>3
<1> QED
  BY <1>1, <1>2, PTL DEF ContractSpec

\* Clients that keep the contract never make memqueue.c use a queue after
\* memqueue_release freed it: not when a poll unlinks its binder or releases
\* its messages, nor after the response to a POST or DELETE, nor in a timer -
\* except for the store in `late`, which LateCorrect is about.
THEOREM OnlyLateUse == ContractSpec => []NoFault
<1>1. ContractInv => NoFault
  BY DEF ContractInv, NoFault
<1> QED
  BY <1>1, ContractInvariant, PTL

\* What objs_expire stored in after the release stays freed: a message of that
\* revision is not created again, and a queue is not allocated again.
LEMMA LateStep ==
    ASSUME ContractInv, LateIsFreed, ContractNext
    PROVE  LateIsFreed'
<1> USE ConstantsAssumption
<1>0. TypeOK /\ ~fault /\ ~fault' /\ RevsUsed /\ Next
  BY NoFaultStep DEF ContractInv, EngineInv, EngineShape, ContractNext
<1>1. /\ rev \in [Queues -> 0 .. MaxRev] /\ life \in [Queues -> {"unused", "live", "freed"}]
      /\ \A m \in Messages : m[1] \in Queues /\ m[2] \in 1 .. MaxRev /\ m = <<m[1], m[2]>>
  BY <1>0 DEF TypeOK, Messages
<1> DEFINE Old == /\ \A q \in Queues : rev[q] <= rev'[q] /\ rev'[q] \in Int
                  /\ \A m \in msg_queue' : m \in msg_queue \/ m[2] > rev[m[1]]
                  /\ \A q \in Queues : life[q] = "freed" => life'[q] = "freed"
<1>2. ASSUME Old, late' = late PROVE LateIsFreed'
  BY <1>1, <1>2 DEF LateIsFreed
<1>3. ASSUME NEW q \in Queues, memqueue_release(q)
      PROVE  \A r \in Queues : life[r] = "freed" => life'[r] = "freed"
  BY <1>1, <1>3 DEF memqueue_release
<1>4. ASSUME NEW q \in Queues, NEW keep, NEW d, NEW x, life' = life,
             memqueue_msg_create(q, keep, d, x)
      PROVE  Old
  <2>1. rev' = [rev EXCEPT ![q] = @ + 1] /\ rev[q] < MaxRev
        /\ msg_queue' \subseteq msg_queue \union {<<q, rev[q] + 1>>}
    BY <1>4 DEF memqueue_msg_create
  <2>2. \A r \in Queues : rev[r] <= rev'[r] /\ rev'[r] \in Int
    BY <1>1, <2>1
  <2>3. \A m \in msg_queue' : m \in msg_queue \/ m[2] > rev[m[1]]
    BY <1>1, <2>1
  <2> QED
    BY <1>4, <2>2, <2>3
<1>5. ASSUME rev' = rev, msg_queue' \subseteq msg_queue,
             \A q \in Queues : life[q] = "freed" => life'[q] = "freed"
      PROVE  Old
  BY <1>1, <1>5
<1>6. ASSUME NEW id \in QIds, NEW q \in Queues, NEW o \in QueueOptions,
             QueueCreate(id, q, o)
      PROVE  LateIsFreed'
  BY <1>1, <1>2, <1>5, <1>6 DEF QueueCreate, msgVars
<1>7. ASSUME NEW m \in msg_timer, MsgExpire(m) PROVE LateIsFreed'
  <2>1. m \in Messages /\ m[1] \in Queues /\ m[2] <= rev[m[1]]
    BY <1>0, <1>1 DEF TypeOK, RevsUsed
  <2>2. Old
    <3>1. rev' = rev /\ msg_queue' \subseteq msg_queue /\ memqueue_release(m[1])
      BY <1>7 DEF MsgExpire, memqueue_msg_release
    <3> QED
      BY <1>3, <1>5, <2>1, <3>1
  <2>3. \A n \in Messages : <<"msg", n>> \in late' =>
            <<"msg", n>> \in late \/ (n = m /\ m \notin msg_queue')
    BY <1>7 DEF MsgExpire, ClearNode
  <2>4. \A q \in Queues : <<"queue", q>> \in late' => <<"queue", q>> \in late
    BY <1>7 DEF MsgExpire, ClearNode
  <2> QED
    BY <1>1, <2>1, <2>2, <2>3, <2>4 DEF LateIsFreed
<1>8. ASSUME NEW q \in q_timer, QueueExpire(q) PROVE LateIsFreed'
  <2>1. q \in Queues /\ memqueue_release(q) /\ life[q] = "live"
    BY <1>0, <1>8 DEF TypeOK, QueueExpire, memqueue_release
  <2>2. Old
    <3>1. rev' = rev /\ msg_queue' = msg_queue
      BY <1>8 DEF QueueExpire, msgVars
    <3> QED
      BY <1>3, <1>5, <2>1, <3>1
  <2>3. life'[q] \in {"live", "freed"}
    BY <1>1, <2>1 DEF memqueue_release
  <2>4. \A n \in Messages : <<"msg", n>> \in late' => <<"msg", n>> \in late
    BY <1>8 DEF QueueExpire, ClearNode
  <2>5. \A r \in Queues : <<"queue", r>> \in late' =>
            <<"queue", r>> \in late \/ (r = q /\ life'[q] # "live")
    BY <1>8 DEF QueueExpire, ClearNode
  <2> QED
    BY <1>1, <2>2, <2>3, <2>4, <2>5 DEF LateIsFreed
<1>9. ASSUME NEW q \in Queues, NEW k \in consumers[q], ConsumerExpire(q, k)
      PROVE  LateIsFreed'
  <2>1. Old
    BY <1>4, <1>9 DEF ConsumerExpire, storeVars
  <2>2. /\ \A n \in Messages : <<"msg", n>> \in late' => <<"msg", n>> \in late
        /\ \A r \in Queues : <<"queue", r>> \in late' => <<"queue", r>> \in late
    BY <1>9 DEF ConsumerExpire, ClearNode
  <2> QED
    BY <1>1, <2>1, <2>2 DEF LateIsFreed
<1>10. ASSUME NEW c \in Clients, Handler(c) PROVE LateIsFreed'
  <2>1. ASSUME NEW id \in QIds, queue_store[id] # NULL, NEW keep \in Retention,
               MsgPost(c, queue_store[id], keep)
        PROVE  LateIsFreed'
    <3>1. queue_store[id] \in Queues
      BY <1>0, <2>1 DEF TypeOK
    <3> QED
      BY <1>2, <1>4, <2>1, <3>1 DEF MsgPost, storeVars
  <2>2. ASSUME NEW id \in QIds, \/ MsgReject(c, queue_store[id])
                                \/ DeleteRespond(c, queue_store[id])
        PROVE  LateIsFreed'
    BY <1>2, <1>5, <2>2 DEF MsgReject, DeleteRespond, storeVars, msgVars
  <2>3. CASE PostDone(c) \/ PollTimeout(c) \/ PollUnbind(c)
    BY <1>2, <1>5, <2>3 DEF PostDone, PollTimeout, PollUnbind, storeVars, msgVars
  <2>4. CASE DeleteRelease(c)
    <3>1. target[c] \in Queues
      BY <1>0, <2>4 DEF TypeOK, DeleteRelease, ContractInv, EngineInv, EngineShape,
         PollShape, ClientShape
    <3> QED
      BY <1>2, <1>3, <1>5, <2>4, <3>1 DEF DeleteRelease, msgVars
  <2>5. ASSUME NEW w \in PollRequests, PollBegin(c, w) PROVE LateIsFreed'
    BY <1>2, <1>5, <2>5 DEF PollBegin, storeVars, msgVars
  <2>6. ASSUME NEW id \in QIds, PollJoin(c, id) PROVE LateIsFreed'
    <3>1. queue_store[id] \in Queues
      BY <1>0, <2>6 DEF TypeOK, PollJoin
    <3> QED
      BY <1>2, <1>4, <2>6, <3>1 DEF PollJoin, storeVars
  <2>7. ASSUME NEW id \in QIds, PollBind(c, id) \/ PollSkip(c, id) PROVE LateIsFreed'
    BY <1>2, <1>5, <2>7 DEF PollBind, PollSkip, storeVars, msgVars
  <2>8. CASE PollDecide(c) \/ PollRespond(c) \/ PollFree(c)
    BY <1>2, <1>5, <2>8 DEF PollDecide, PollRespond, PollFree, storeVars, msgVars
  <2>9. ASSUME NEW m \in pending[c], PollRelease(c, m) PROVE LateIsFreed'
    <3>1. m[1] \in Queues
      BY <1>0, <1>1 DEF TypeOK
    <3>2. rev' = rev /\ late' = late /\ msg_queue' \subseteq msg_queue
          /\ memqueue_release(m[1])
      BY <2>9 DEF PollRelease, memqueue_msg_release
    <3> QED
      BY <1>2, <1>3, <1>5, <3>1, <3>2
  <2> QED
    BY <1>10, <2>1, <2>2, <2>3, <2>4, <2>5, <2>6, <2>7, <2>8, <2>9
    DEF Handler, Post, Delete, PollStep
<1> QED
  BY <1>0, <1>6, <1>7, <1>8, <1>9, <1>10 DEF Next, Create, Cleaner

\* The store that objs_expire makes after its release is to memory nobody else
\* refers to any more (LateIsUnseen), for clients that keep the contract.
THEOREM LateCorrect == ContractSpec => []LateIsUnseen
<1>1. Init => LateIsFreed
  BY DEF Init, LateIsFreed
<1>2. ASSUME ContractInv, LateIsFreed, [ContractNext]_vars PROVE LateIsFreed'
  <2>1. CASE UNCHANGED vars
    BY <1>2, <2>1 DEF LateIsFreed, vars, storeVars, msgVars
  <2> QED
    BY <1>2, <2>1, LateStep
<1>3. ASSUME ContractInv, LateIsFreed PROVE LateIsUnseen
  <2>0. TypeOK /\ EngineShape /\ ~fault /\ QueueRefExact /\ UsersAreBased
    BY <1>3 DEF ContractInv, EngineInv
  <2>1. ASSUME NEW m \in Messages, <<"msg", m>> \in late
        PROVE  m \notin msg_queue \union msg_timer /\ Holders(m) = {}
    <3>1. m \notin msg_queue
      BY <1>3, <2>1 DEF LateIsFreed
    <3>2. m \notin msg_timer
      BY <2>0, <3>1 DEF TypeOK, EngineShape, RevsUsed
    <3>3. \A c \in Clients : m \notin pending[c]
      BY <2>0, <3>1 DEF EngineShape, PendingIsQueued
    <3> QED
      BY <3>1, <3>2, <3>3 DEF Holders
  <2>2. ASSUME NEW q \in Queues, <<"queue", q>> \in late
        PROVE  /\ Quiet(q) /\ consumers[q] = {} /\ Retained(q) = {} /\ Held(q) = {}
               /\ q \notin q_timer /\ \A id \in QIds : queue_store[id] # q
    <3>1. life[q] = "freed"
      BY <1>3, <2>2 DEF LateIsFreed
    <3>2. q \notin base /\ consumers[q] = {} /\ Retained(q) = {} /\ Held(q) = {}
      BY <2>0, <3>1, ReferencedIsLive DEF EngineShape
    <3>3. Quiet(q) /\ q \notin q_timer
      BY <2>0, <3>2 DEF UsersAreBased
    <3>4. \A id \in QIds : queue_store[id] # q
      BY <2>0, <3>1, ConstantsAssumption DEF EngineShape, StoreExact
    <3> QED
      BY <3>2, <3>3, <3>4
  <2> QED
    BY <2>1, <2>2 DEF LateIsUnseen
<1> QED
  BY <1>1, <1>2, <1>3, ContractInvariant, PTL DEF ContractSpec

\* Under the contract q->ref_count always is the number of references, so the
\* assertion in memqueue_release holds and a queue is freed exactly when its
\* last user lets go.
THEOREM QueueRefCorrect == ContractSpec => []QueueRefExact
<1>1. ContractInv => QueueRefExact
  BY DEF ContractInv
<1> QED
  BY <1>1, ContractInvariant, PTL

=============================================================================
