----------------------- MODULE MemQueueFollowersProofs -----------------------
(***************************************************************************)
(* What a client that follows the README's protocol can rely on, for any   *)
(* number of clients, queues and messages: it misses nothing, it receives  *)
(* nothing twice, and a message that only polls retain is not freed before *)
(* every poll that took it in time has put it in its answer.               *)
(*                                                                         *)
(* Revisions start anew with each queue object, so the first two are about *)
(* behaviours in which a name is not given to a second queue.              *)
(***************************************************************************)
EXTENDS MemQueueFollowers, MemQueueProofs

\* No name was given to a second queue.
NotReused == \A q, r \in Queues : q_id[q] # NULL /\ q_id[q] = q_id[r] => q = r

\* Types of the history the followers keep.
FollowerTypes ==
    /\ seen \in [Clients -> [QIds -> Nat]]
    /\ upto \in [Clients -> [QIds -> Nat]]
    /\ got \in [Clients -> SUBSET Messages]
    /\ body \in [Clients -> SUBSET Messages]

\* A queue that was never created has no name, no revision and no consumer.
UnusedShape ==
    \A q \in Queues : life[q] = "unused" =>
        q_id[q] = NULL /\ rev[q] = 0 /\ consumers[q] = {}

\* A name leads to a queue of that name, also once freed memory was used.
NamedStore ==
    \A id \in QIds : queue_store[id] # NULL => q_id[queue_store[id]] = id

\* A poll asks for what follows the revision its client is at.
AsksNext(c) ==
    \A id \in QIds : want[c][id] # NULL =>
        want[c][id].rev = seen[c][id] /\ ~want[c][id].latest

\* No client is ahead of a queue, nor at a revision of a name never used.
Behind(c) ==
    /\ \A id \in QIds : (\A q \in Queues : q_id[q] # id) =>
            seen[c][id] = 0 /\ upto[c][id] = 0
    /\ \A q \in Queues : q_id[q] \in QIds =>
            seen[c][q_id[q]] <= rev[q] /\ upto[c][q_id[q]] <= rev[q]

\* The client received what it is past, as far as it is still queued, and
\* nothing it is not past.
Received(c) ==
    /\ \A m \in msg_queue : q_id[m[1]] \in QIds /\ m[2] <= seen[c][q_id[m[1]]]
            => m \in got[c]
    /\ \A m \in got[c] : q_id[m[1]] \in QIds /\ m[2] <= seen[c][q_id[m[1]]]

\* A bound poll has every later message pending, and only those.
Collected(c) ==
    /\ \A q \in Queues : c \in Bound(q) => q_id[q] \in QIds
    /\ \A m \in msg_queue : c \in Bound(m[1]) /\ m[2] > seen[c][q_id[m[1]]]
            => m \in pending[c]
    /\ pc[c] # "release" => \A m \in pending[c] :
            q_id[m[1]] \in QIds /\ m[2] > seen[c][q_id[m[1]]]

\* The answer that is being written holds what lies between the revision the
\* client is at and the one the answer carries.
Answered(c) ==
    IF pc[c] = "reply"
    THEN /\ \A id \in QIds : seen[c][id] <= upto[c][id]
         /\ \A m \in body[c] : /\ q_id[m[1]] \in QIds
                               /\ m[2] > seen[c][q_id[m[1]]]
                               /\ m[2] <= upto[c][q_id[m[1]]]
         /\ \A m \in msg_queue : q_id[m[1]] \in QIds /\ m[2] <= upto[c][q_id[m[1]]]
                => m \in got[c] \union body[c]
    ELSE body[c] = {}

FollowShape(c) ==
    /\ AsksNext(c)
    /\ Behind(c)
    /\ Received(c)
    /\ Collected(c)
    /\ Answered(c)

FollowInv ==
    /\ FollowerTypes
    /\ UnusedShape
    /\ NamedStore
    /\ \A c \in Clients : FollowShape(c)

\* What is owed to a poll is pending there, and the poll has yet to answer.
OwedShape ==
    \A p \in owed : /\ p \in Clients \X Messages
                    /\ p[2] \in pending[p[1]]
                    /\ pc[p[1]] \notin {"reply", "release"}

-----------------------------------------------------------------------------
(* The engine under followers *)

\* A step with followers is a step of the engine.
LEMMA FollowerNextIsNext == ASSUME FollowerNext PROVE Next
<1>1. ASSUME NEW c \in Clients, NEW w \in PollRequests, FollowBegin(c, w)
      PROVE  Next
  BY <1>1 DEF FollowBegin, Next, Handler
<1>2. ASSUME NEW c \in Clients, FollowRespond(c) PROVE Next
  BY <1>2 DEF FollowRespond, Next, Handler, PollStep
<1>3. ASSUME NEW c \in Clients, FollowDone(c) PROVE Next
  BY <1>3 DEF FollowDone, Next, Handler
<1>4. ASSUME NEW c \in Clients, FollowPost(c) PROVE Next
  BY <1>4 DEF FollowPost, Next, Handler
<1>5. ASSUME NEW c \in Clients, Unseen(c) PROVE Next
  BY <1>5 DEF Unseen, Next, Handler, PollStep
<1>6. ASSUME Create \/ Cleaner PROVE Next
  BY <1>6 DEF Next
<1> QED
  BY <1>1, <1>2, <1>3, <1>4, <1>5, <1>6 DEF FollowerNext

\* So the engine under followers does what the engine may do.
LEMMA FollowerStepIsStep == ASSUME [FollowerNext]_fvars PROVE [Next]_vars
<1>1. CASE FollowerNext
  BY <1>1, FollowerNextIsNext
<1>2. CASE UNCHANGED fvars
  BY <1>2 DEF fvars
<1> QED
  BY <1>1, <1>2

\* The engine's invariant holds with followers as well.
LEMMA FollowerEngine == FollowerSpec => []EngineInv
<1>1. FollowerInit => EngineInv
  BY EngineInit DEF FollowerInit
<1>2. EngineInv /\ [FollowerNext]_fvars => EngineInv'
  BY EngineNext, FollowerStepIsStep
<1> QED
  BY <1>1, <1>2, PTL DEF FollowerSpec

-----------------------------------------------------------------------------
(* What a step of somebody else, or an unseen one, does to a follower *)

\* Seen from poll d, queues keep their names, revisions grow, and messages
\* come with a later revision, into what is pending at d if d is bound.
Passive(d) ==
    /\ q_id' = q_id
    /\ \A q \in Queues : rev[q] <= rev'[q]
    /\ \A id \in QIds : want'[d][id] \in {want[d][id], NULL}
    /\ \A q \in Queues : d \in Bound(q)' => d \in Bound(q)
    /\ \A m \in msg_queue' \ msg_queue :
            m[2] > rev[m[1]] /\ (d \in Bound(m[1]) => m \in pending'[d])
    /\ \A m \in pending'[d] \ pending[d] : d \in Bound(m[1]) /\ m[2] > rev[m[1]]
    /\ pending[d] \subseteq pending'[d] \/ pc[d] = "release"
    /\ pc'[d] = "reply" <=> pc[d] = "reply"
    /\ pc[d] = "release" => pc'[d] = "release" \/ pending'[d] = {}
    /\ pc'[d] = "release" => pc[d] = "release"

\* Steps that leave the queues alone and at d at most free the poll.
LEMMA QuietPassive ==
    ASSUME TypeOK, NEW d \in Clients,
           UNCHANGED <<q_id, rev, pending>>,
           \A q \in Queues : d \in Bound(q)' => d \in Bound(q),
           msg_queue' \subseteq msg_queue,
           \A id \in QIds : want'[d][id] \in {want[d][id], NULL},
           pc'[d] = "reply" <=> pc[d] = "reply",
           pc[d] = "release" => pc'[d] = "release" \/ pending[d] = {},
           pc'[d] = "release" => pc[d] = "release"
    PROVE  Passive(d)
<1>1. \A q \in Queues : rev[q] <= rev'[q]
  BY DEF TypeOK
<1> QED
  BY <1>1 DEF Passive

\* memqueue_msg_create is passive at every poll it does not move.
LEMMA CreatePassive ==
    ASSUME TypeOK, NEW d \in Clients, NEW q \in Queues, NEW keep, NEW dropped,
           NEW extra, memqueue_msg_create(q, keep, dropped, extra),
           UNCHANGED <<q_id, binders, want>>,
           pc'[d] \in {pc[d], "ready", "post"},
           pc'[d] # pc[d] => pc[d] \in {"wait", "idle"}
    PROVE  Passive(d)
<1> DEFINE m == <<q, rev[q] + 1>>
<1>1. rev' = [rev EXCEPT ![q] = @ + 1] /\ rev \in [Queues -> Nat]
  BY DEF memqueue_msg_create, TypeOK
<1>2. \A r \in Queues : rev[r] <= rev'[r]
  BY <1>1
<1>3. \A r : Bound(r)' = Bound(r)
  BY DEF Bound
<1>4. /\ msg_queue' \subseteq msg_queue \union {m}
      /\ pending'[d] = IF d \in Bound(q) THEN pending[d] \union {m} ELSE pending[d]
  BY DEF memqueue_msg_create
<1>5. m[1] = q /\ m[2] = rev[q] + 1 /\ m[2] > rev[q]
  BY <1>1
<1> HIDE DEF m
<1>6. \A n \in msg_queue' \ msg_queue :
            n[2] > rev[n[1]] /\ (d \in Bound(n[1]) => n \in pending'[d])
  BY <1>4, <1>5
<1>7. \A n \in pending'[d] \ pending[d] : d \in Bound(n[1]) /\ n[2] > rev[n[1]]
  BY <1>4, <1>5
<1>8. pending[d] \subseteq pending'[d]
  BY <1>4
<1> QED
  BY <1>2, <1>3, <1>6, <1>7, <1>8 DEF Passive

\* The cleaner's steps are passive at every poll.
LEMMA CleanerPassive ==
    ASSUME TypeOK, Cleaner, NEW d \in Clients PROVE Passive(d)
<1>1. ASSUME NEW m, MsgExpire(m) PROVE Passive(d)
  <2>1. /\ UNCHANGED <<q_id, rev, pending, binders, want, pc>>
        /\ msg_queue' \subseteq msg_queue
    BY <1>1 DEF MsgExpire, memqueue_msg_release, handlerVars
  <2> QED
    BY <2>1, QuietPassive DEF Bound
<1>2. ASSUME NEW q, QueueExpire(q) PROVE Passive(d)
  <2>1. UNCHANGED <<q_id, rev, pending, binders, want, pc, msg_queue>>
    BY <1>2 DEF QueueExpire, msgVars, handlerVars
  <2> QED
    BY <2>1, QuietPassive DEF Bound
<1>3. ASSUME NEW q \in Queues, NEW k, ConsumerExpire(q, k) PROVE Passive(d)
  <2>1. /\ memqueue_msg_create(q, "timed", {}, -1)
        /\ UNCHANGED <<q_id, binders, want>>
        /\ pc' = Woken(Bound(q))
    BY <1>3 DEF ConsumerExpire, storeVars
  <2>2. pc'[d] \in {pc[d], "ready", "post"} /\ (pc'[d] # pc[d] => pc[d] \in {"wait", "idle"})
    BY <2>1 DEF Woken
  <2> QED
    BY <2>1, <2>2, CreatePassive
<1> QED
  BY <1>1, <1>2, <1>3 DEF Cleaner

\* A post is passive at every poll.
LEMMA PostPassive ==
    ASSUME TypeOK, NEW c \in Clients, Post(c), NEW d \in Clients PROVE Passive(d)
<1>1. PICK id \in QIds :
          /\ queue_store[id] # NULL
          /\ \/ \E keep \in Retention : MsgPost(c, queue_store[id], keep)
             \/ MsgReject(c, queue_store[id])
  BY DEF Post
<1>2. PICK q \in Queues : q = queue_store[id]
  BY <1>1 DEF TypeOK
<1>3. ASSUME NEW keep \in Retention, MsgPost(c, q, keep) PROVE Passive(d)
  <2>1. PICK dropped : memqueue_msg_create(q, keep, dropped, 0)
    BY <1>3 DEF MsgPost
  <2>2. /\ UNCHANGED <<q_id, binders, want>>
        /\ pc[c] = "idle"
        /\ pc' = [Woken(Bound(q)) EXCEPT ![c] = "post"]
    BY <1>3 DEF MsgPost, storeVars
  <2>3. pc'[d] \in {pc[d], "ready", "post"} /\ (pc'[d] # pc[d] => pc[d] \in {"wait", "idle"})
    BY <2>2 DEF Woken
  <2> QED
    BY <2>1, <2>2, <2>3, CreatePassive
<1>4. ASSUME MsgReject(c, q) PROVE Passive(d)
  <2>1. /\ UNCHANGED <<q_id, rev, pending, binders, want, msg_queue>>
        /\ pc[c] = "idle" /\ pc' = [pc EXCEPT ![c] = "post"]
    BY <1>4 DEF MsgReject, storeVars, msgVars
  <2>2. \/ pc'[d] = pc[d]
        \/ pc[d] = "idle" /\ pc'[d] = "post"
    BY <2>1 DEF TypeOK
  <2> QED
    BY <2>1, <2>2, QuietPassive DEF Bound
<1> QED
  BY <1>1, <1>2, <1>3, <1>4

\* c moves on, from a place where it owes nobody anything.
MovesOn(c) ==
    /\ UNCHANGED <<q_id, rev, pending, binders, want, msg_queue>>
    /\ \/ pc[c] \in {"post", "delete", "bind", "wait", "idle"}
       \/ pc[c] = "release" /\ pending[c] = {}
    /\ pc'[c] \in {"idle", "delete", "wait", "ready"}
    /\ \A e \in Clients : e # c => pc'[e] = pc[e]

\* Moving on is passive at every poll.
LEMMA MovesOnPassive ==
    ASSUME TypeOK, NEW c \in Clients, NEW d \in Clients, MovesOn(c)
    PROVE  Passive(d)
<1>1. \/ pc'[d] = pc[d]
      \/ /\ pc'[d] \notin {"reply", "release"}
         /\ pc[d] # "reply" /\ (pc[d] = "release" => pending[d] = {})
  BY DEF TypeOK, MovesOn
<1>2. UNCHANGED <<q_id, rev, pending, binders, want, msg_queue>>
  BY DEF MovesOn
<1> QED
  BY <1>1, <1>2, QuietPassive DEF Bound

\* So are the unseen steps of a handler, except that a poll that binds takes
\* what it finds.
LEMMA UnseenPassive ==
    ASSUME TypeOK, NEW c \in Clients, Unseen(c), NEW d \in Clients,
           \A id \in QIds : PollBind(c, id) => d # c
    PROVE  Passive(d)
<1>2. ASSUME PostDone(c) PROVE Passive(d)
  <2>1. MovesOn(c)
    BY <1>2 DEF MovesOn, TypeOK, PostDone, storeVars, msgVars
  <2> QED
    BY <2>1, MovesOnPassive
<1>3. ASSUME Delete(c) PROVE Passive(d)
  <2>1. MovesOn(c)
    BY <1>3 DEF MovesOn, TypeOK, Delete, DeleteRespond, storeVars, msgVars
  <2> QED
    BY <2>1, MovesOnPassive
<1>4. ASSUME DeleteRelease(c) PROVE Passive(d)
  <2>1. MovesOn(c)
    BY <1>4 DEF MovesOn, TypeOK, DeleteRelease, msgVars
  <2> QED
    BY <2>1, MovesOnPassive
<1>5. ASSUME NEW id \in QIds, PollJoin(c, id) PROVE Passive(d)
  <2>1. PICK q \in Queues : q = queue_store[id]
    BY <1>5 DEF PollJoin, TypeOK
  <2>2. /\ memqueue_msg_create(q, "timed", {}, 1)
        /\ UNCHANGED <<q_id, binders, want>>
        /\ pc' = Woken(Bound(q))
    BY <1>5, <2>1 DEF PollJoin, storeVars
  <2>3. pc'[d] \in {pc[d], "ready", "post"} /\ (pc'[d] # pc[d] => pc[d] \in {"wait", "idle"})
    BY <2>2 DEF Woken
  <2> QED
    BY <2>2, <2>3, CreatePassive
<1>6. ASSUME NEW id \in QIds, PollBind(c, id) PROVE Passive(d)
  <2>1. PICK q \in Queues : q = queue_store[id]
    BY <1>6 DEF PollBind, TypeOK
  <2>2. /\ UNCHANGED <<q_id, rev, msg_queue, pc>>
        /\ binders' = [binders EXCEPT ![q] = <<c>> \o @]
        /\ \E M : pending' = [pending EXCEPT ![c] = @ \union M]
        /\ want' = [want EXCEPT ![c][id] = NULL]
        /\ d # c
    BY <1>6, <2>1 DEF PollBind, storeVars
  <2>3. pending'[d] = pending[d] /\ want'[d] = want[d]
    BY <2>2 DEF TypeOK
  <2>4. ASSUME NEW r \in Queues, d \in Bound(r)' PROVE d \in Bound(r)
    <3>1. PICK j \in 1 .. Len(binders'[r]) : binders'[r][j] = d
      BY <2>4 DEF Bound
    <3>2. CASE r # q
      BY <2>2, <3>1, <3>2 DEF Bound, TypeOK
    <3>3. CASE r = q
      <4>1. binders[q] \in Seq(Clients) /\ binders'[q] = <<c>> \o binders[q]
        BY <2>2 DEF TypeOK
      <4>2. /\ Len(binders'[q]) = Len(binders[q]) + 1
            /\ binders'[q][1] = c
            /\ \A i \in 2 .. Len(binders'[q]) : binders'[q][i] = binders[q][i - 1]
        BY <4>1, PushFacts
      <4>3. j # 1 /\ j - 1 \in 1 .. Len(binders[q]) /\ binders[q][j - 1] = d
        BY <4>1, <4>2, <3>1, <3>3, <2>2
      <4> QED
        BY <4>3, <3>3 DEF Bound
    <3> QED
      BY <3>2, <3>3
  <2>5. \A r \in Queues : rev[r] <= rev'[r]
    BY <2>2 DEF TypeOK
  <2> QED
    BY <2>2, <2>3, <2>4, <2>5 DEF Passive
<1>7. ASSUME NEW id \in QIds, PollSkip(c, id) PROVE Passive(d)
  <2>1. /\ UNCHANGED <<q_id, rev, pending, binders, msg_queue, pc>>
        /\ want' = [want EXCEPT ![c][id] = NULL]
    BY <1>7 DEF PollSkip, storeVars, msgVars
  <2>2. \A i \in QIds : want'[d][i] \in {want[d][i], NULL}
    BY <2>1 DEF TypeOK, PollRequests
  <2> QED
    BY <2>1, <2>2, QuietPassive DEF Bound
<1>8. ASSUME PollDecide(c) PROVE Passive(d)
  <2>1. MovesOn(c)
    BY <1>8 DEF MovesOn, TypeOK, PollDecide, storeVars, msgVars, Runs
  <2> QED
    BY <2>1, MovesOnPassive
<1>9. ASSUME NEW m \in pending[c], PollRelease(c, m) PROVE Passive(d)
  <2>1. /\ UNCHANGED <<q_id, rev, binders, want, pc>>
        /\ msg_queue' \subseteq msg_queue
        /\ pc[c] = "release"
        /\ pending' = [pending EXCEPT ![c] = @ \ {m}]
    BY <1>9 DEF PollRelease, memqueue_msg_release, Runs
  <2>2. /\ pending'[d] \subseteq pending[d]
        /\ pending'[d] = pending[d] \/ pc[d] = "release"
    BY <2>1 DEF TypeOK
  <2>3. \A r \in Queues : rev[r] <= rev'[r]
    BY <2>1 DEF TypeOK
  <2> QED
    BY <2>1, <2>2, <2>3 DEF Passive, Bound
<1>10. ASSUME PollFree(c) PROVE Passive(d)
  <2>1. MovesOn(c)
    BY <1>10 DEF MovesOn, TypeOK, PollFree, storeVars, msgVars, Runs
  <2> QED
    BY <2>1, MovesOnPassive
<1>11. ASSUME PollTimeout(c) PROVE Passive(d)
  <2>1. MovesOn(c)
    BY <1>11 DEF MovesOn, TypeOK, PollTimeout, storeVars, msgVars
  <2> QED
    BY <2>1, MovesOnPassive
<1> QED
  BY <1>2, <1>3, <1>4, <1>5, <1>6, <1>7, <1>8, <1>9, <1>10, <1>11 DEF Unseen

\* Beginning, answering and ending a poll is passive at the other polls.
LEMMA OtherPassive ==
    ASSUME TypeOK, NEW c \in Clients, NEW d \in Clients, d # c,
           (\E w \in PollRequests : PollBegin(c, w)) \/ PollRespond(c) \/ PollUnbind(c)
    PROVE  Passive(d)
<1>1. ASSUME NEW w \in PollRequests, PollBegin(c, w) PROVE Passive(d)
  <2>1. /\ UNCHANGED <<q_id, rev, pending, binders, msg_queue>>
        /\ want'[d] = want[d] /\ pc'[d] = pc[d]
    BY <1>1 DEF PollBegin, storeVars, msgVars, TypeOK
  <2> QED
    BY <2>1, QuietPassive DEF Bound
<1>2. ASSUME PollRespond(c) PROVE Passive(d)
  <2>1. /\ UNCHANGED <<q_id, rev, pending, binders, msg_queue, want>>
        /\ pc'[d] = pc[d]
    BY <1>2 DEF PollRespond, storeVars, msgVars, TypeOK
  <2> QED
    BY <2>1, QuietPassive DEF Bound
<1>3. ASSUME PollUnbind(c) PROVE Passive(d)
  <2>1. /\ UNCHANGED <<q_id, rev, pending, msg_queue, want>>
        /\ pc'[d] = pc[d]
        /\ binders' = [q \in Queues |-> Unlink(binders[q], c)]
    BY <1>3 DEF PollUnbind, storeVars, msgVars, TypeOK
  <2>2. ASSUME NEW q \in Queues, d \in Bound(q)' PROVE d \in Bound(q)
    <3>1. binders[q] \in Seq(Clients) /\ binders'[q] = Unlink(binders[q], c)
      BY <2>1 DEF TypeOK
    <3>2. Unlinked(binders[q], c, binders'[q])
      BY <3>1, UnlinkFacts
    <3> QED
      <4>1. PICK j \in 1 .. Len(binders'[q]) : binders'[q][j] = d
        BY <2>2 DEF Bound
      <4>2. PICK k \in 1 .. Len(binders[q]) : binders[q][k] = d
        BY <3>2, <4>1, Zenon DEF Unlinked
      <4> QED
        BY <4>2 DEF Bound
  <2> QED
    BY <2>1, <2>2, QuietPassive
<1> QED
  BY <1>1, <1>2, <1>3

-----------------------------------------------------------------------------
(* Messages that only polls retain *)

\* What is pending at d before its answer stays pending there.
Keeps(d) ==
    pc[d] \notin {"reply", "release"} =>
        pending[d] \subseteq pending'[d] /\ pc'[d] \notin {"reply", "release"}

\* The owed messages stay owed where every poll keeps what it has.
LEMMA OwedFrame ==
    ASSUME OwedShape, owed' \subseteq owed,
           \A d \in Clients : Keeps(d) \/ \A p \in owed' : p[1] # d
    PROVE  OwedShape'
BY DEF OwedShape, Keeps

\* Every step keeps the shape of what is owed.
LEMMA OwedStep ==
    ASSUME TypeOK, EngineShape, OwedShape, FollowerNext PROVE OwedShape'
<1>1. \A d \in Clients : Passive(d) => Keeps(d)
  BY DEF Passive, Keeps
<1>2. ASSUME NEW c \in Clients, NEW w \in PollRequests, FollowBegin(c, w)
      PROVE  OwedShape'
  <2>1. /\ PollBegin(c, w) /\ UNCHANGED <<owed, pending>>
        /\ pc[c] = "idle" /\ pc' = [pc EXCEPT ![c] = "bind"]
    BY <1>2 DEF FollowBegin, PollBegin, followerVars
  <2>2. \A d \in Clients : Keeps(d)
    BY <2>1 DEF Keeps, TypeOK
  <2> QED
    BY <2>1, <2>2, OwedFrame
<1>3. ASSUME NEW c \in Clients, FollowRespond(c) PROVE OwedShape'
  <2>1. /\ PollRespond(c) /\ owed' = owed \ ({c} \X pending[c])
    BY <1>3 DEF FollowRespond
  <2>2. \A d \in Clients : d # c => Keeps(d)
    BY <2>1, <1>1, OtherPassive
  <2>3. \A p \in owed' : p \in owed /\ p[1] # c
    <3>1. SUFFICES ASSUME NEW p \in owed', p[1] = c PROVE FALSE
      BY <2>1
    <3>2. p \in owed /\ p[2] \in pending[c]
      BY <2>1, <3>1 DEF OwedShape
    <3>3. p = <<p[1], p[2]>>
      BY <3>2 DEF OwedShape
    <3> QED
      BY <3>1, <3>2, <3>3, <2>1
  <2> QED
    BY <2>2, <2>3, <2>1, OwedFrame
<1>4. ASSUME NEW c \in Clients, FollowDone(c) PROVE OwedShape'
  <2>1. PollUnbind(c) /\ UNCHANGED owed
    BY <1>4 DEF FollowDone
  <2>2. \A d \in Clients : d # c => Keeps(d)
    BY <2>1, <1>1, OtherPassive
  <2>3. Keeps(c)
    BY <2>1 DEF PollUnbind, Keeps
  <2> QED
    BY <2>2, <2>3, <2>1, OwedFrame
<1>5. ASSUME NEW c \in Clients, FollowPost(c) PROVE OwedShape'
  <2>1. Post(c)
    BY <1>5 DEF FollowPost
  <2>2. \A d \in Clients : Passive(d) /\ Keeps(d)
    BY <2>1, <1>1, PostPassive
  <2>3. SUFFICES ASSUME NEW p \in owed'
                 PROVE  /\ p \in Clients \X Messages
                        /\ p[2] \in pending'[p[1]]
                        /\ pc'[p[1]] \notin {"reply", "release"}
    BY DEF OwedShape
  <2>4. CASE p \in owed
    BY <2>2, <2>4 DEF Keeps, OwedShape
  <2>5. CASE p \notin owed
    <3>1. /\ p \in Clients \X (msg_queue' \ (msg_queue \union msg_own'))
          /\ p[2] \in pending'[p[1]] /\ pc[p[1]] # "reply"
      BY <1>5, <2>5 DEF FollowPost
    <3>2. p[1] \in Clients /\ p[2] \notin msg_queue
      BY <3>1
    <3>3. ~fault
      BY <2>1 DEF Post, MsgPost, MsgReject, Scheduled
    <3>4. p[2] \notin pending[p[1]]
      BY <3>2, <3>3 DEF EngineShape, PendingIsQueued
    <3>5. p[1] \in Bound(p[2][1])
      BY <2>2, <3>1, <3>2, <3>4 DEF Passive
    <3>0. TypeOK'
      BY TypeStep, FollowerStepIsStep
    <3>6. p[2] \in Messages /\ p \in Clients \X Messages
      BY <3>0, <3>1 DEF TypeOK
    <3>7. p[2][1] \in Queues
      BY <3>6 DEF Messages
    <3>8. pc[p[1]] \in {"bind", "wait", "ready", "reply"}
      BY <3>2, <3>5, <3>7 DEF EngineShape, PollShape, ClientShape
    <3>9. pc'[p[1]] \notin {"reply", "release"}
      BY <3>1, <3>2, <3>8, <2>2 DEF Keeps
    <3> QED
      BY <3>1, <3>6, <3>9
  <2> QED
    BY <2>4, <2>5
<1>6. ASSUME NEW c \in Clients, Unseen(c), UNCHANGED followerVars PROVE OwedShape'
  <2>1. UNCHANGED owed
    BY <1>6 DEF followerVars
  <2>2. \A d \in Clients : d # c => Keeps(d)
    BY <1>6, <1>1, UnseenPassive
  <2>3. CASE \A id \in QIds : ~PollBind(c, id)
    BY <2>3, <1>6, <1>1, <2>1, UnseenPassive, OwedFrame
  <2>4. ASSUME NEW id \in QIds, PollBind(c, id) PROVE Keeps(c)
    BY <2>4 DEF PollBind, Keeps, TypeOK
  <2> QED
    BY <2>1, <2>2, <2>3, <2>4, OwedFrame
<1>7. ASSUME Create, UNCHANGED followerVars PROVE OwedShape'
  <2>1. UNCHANGED <<owed, pc, pending>>
    BY <1>7 DEF Create, QueueCreate, followerVars, handlerVars
  <2> QED
    BY <2>1 DEF OwedShape
<1>8. ASSUME Cleaner, UNCHANGED followerVars PROVE OwedShape'
  <2>1. \A d \in Clients : Keeps(d)
    BY <1>8, <1>1, CleanerPassive
  <2> QED
    BY <1>8, <2>1, OwedFrame DEF followerVars
<1> QED
  BY <1>2, <1>3, <1>4, <1>5, <1>6, <1>7, <1>8 DEF FollowerNext

\* The invariant of BriefCorrect.
THEOREM BriefInvariant == FollowerSpec => [](EngineInv /\ (fault \/ OwedShape))
<1>1. FollowerInit => OwedShape
  BY DEF FollowerInit, OwedShape
<1>2. EngineInv /\ (fault \/ OwedShape) /\ [FollowerNext]_fvars => (fault \/ OwedShape)'
  <2> SUFFICES ASSUME EngineInv, fault \/ OwedShape, [FollowerNext]_fvars
               PROVE  fault' \/ OwedShape'
    OBVIOUS
  <2>1. CASE UNCHANGED fvars
    BY <2>1 DEF fvars, vars, handlerVars, followerVars, OwedShape
  <2>2. CASE FollowerNext
    BY <2>2, FollowerNextIsNext, NextStopsAtFault, OwedStep DEF EngineInv
  <2> QED
    BY <2>1, <2>2
<1> QED
  BY <1>1, <1>2, FollowerEngine, PTL DEF FollowerSpec

\* A message without expiry is not freed, until freed memory is used, before
\* every poll that took it in time has put it in its answer: neither the
\* other polls that release it nor drop_from_head nor a timeout frees it.
THEOREM BriefCorrect == FollowerSpec => []BriefIsConsumed
<1>1. EngineInv /\ (fault \/ OwedShape) => BriefIsConsumed
  BY DEF EngineInv, EngineShape, PendingIsQueued, OwedShape, BriefIsConsumed
<1> QED
  BY <1>1, BriefInvariant, PTL

-----------------------------------------------------------------------------
(* Followers miss nothing and receive nothing twice *)

\* A message has a queue and a revision.
LEMMA MessageParts ==
    ASSUME NEW m \in Messages PROVE m[1] \in Queues /\ m[2] \in Nat /\ m[2] >= 1
BY ConstantsAssumption DEF Messages

\* A passive step that leaves follower d alone keeps its shape.
LEMMA FollowFrame ==
    ASSUME TypeOK, TypeOK', FollowerTypes, NEW d \in Clients, ClientShape(d),
           FollowShape(d), Passive(d),
           seen'[d] = seen[d], upto'[d] = upto[d], got'[d] = got[d],
           body'[d] = body[d]
    PROVE  FollowShape(d)'
<1>1. /\ q_id' = q_id
      /\ \A q \in Queues : rev[q] <= rev'[q]
      /\ \A q \in Queues : rev[q] \in Nat /\ rev'[q] \in Nat
      /\ msg_queue' \subseteq Messages /\ pending'[d] \subseteq Messages
  BY DEF Passive, TypeOK
<1>2. /\ seen[d] \in [QIds -> Nat] /\ upto[d] \in [QIds -> Nat]
      /\ got[d] \subseteq Messages /\ body[d] \subseteq Messages
  BY DEF FollowerTypes
<1>3. AsksNext(d)'
  BY DEF FollowShape, AsksNext, Passive
<1>4. Behind(d)'
  <2>1. ASSUME NEW id \in QIds, \A q \in Queues : q_id'[q] # id
        PROVE  seen'[d][id] = 0 /\ upto'[d][id] = 0
    BY <1>1, <2>1 DEF FollowShape, Behind
  <2>2. ASSUME NEW q \in Queues, q_id'[q] \in QIds
        PROVE  seen'[d][q_id'[q]] <= rev'[q] /\ upto'[d][q_id'[q]] <= rev'[q]
    <3>1. seen[d][q_id[q]] <= rev[q] /\ upto[d][q_id[q]] <= rev[q]
      BY <1>1, <2>2 DEF FollowShape, Behind
    <3>2. seen[d][q_id[q]] \in Nat /\ upto[d][q_id[q]] \in Nat
      BY <1>1, <1>2, <2>2
    <3> QED
      BY <3>1, <3>2, <1>1
  <2> QED
    BY <2>1, <2>2 DEF Behind
\* A message that just came is past every revision at d.
<1>5. ASSUME NEW m \in msg_queue' \ msg_queue, q_id[m[1]] \in QIds
      PROVE  m[2] > seen[d][q_id[m[1]]] /\ m[2] > upto[d][q_id[m[1]]]
  <2>1. m[1] \in Queues /\ m[2] \in Nat /\ m[2] > rev[m[1]]
    BY <1>1, <1>5, MessageParts DEF Passive
  <2>2. seen[d][q_id[m[1]]] <= rev[m[1]] /\ upto[d][q_id[m[1]]] <= rev[m[1]]
    BY <2>1, <1>5 DEF FollowShape, Behind
  <2>3. seen[d][q_id[m[1]]] \in Nat /\ upto[d][q_id[m[1]]] \in Nat /\ rev[m[1]] \in Nat
    BY <2>1, <1>1, <1>2, <1>5
  <2> QED
    BY <2>1, <2>2, <2>3
<1>6. Received(d)'
  <2>1. ASSUME NEW m \in msg_queue', q_id'[m[1]] \in QIds,
               m[2] <= seen'[d][q_id'[m[1]]]
        PROVE  m \in got'[d]
    <3>1. m[1] \in Queues /\ m[2] \in Nat /\ seen[d][q_id[m[1]]] \in Nat
      BY <1>1, <1>2, <2>1, MessageParts
    <3>2. m \in msg_queue
      BY <1>1, <1>5, <2>1, <3>1
    <3> QED
      BY <3>2, <2>1, <1>1 DEF FollowShape, Received
  <2>2. ASSUME NEW m \in got'[d]
        PROVE  q_id'[m[1]] \in QIds /\ m[2] <= seen'[d][q_id'[m[1]]]
    BY <1>1 DEF FollowShape, Received
  <2> QED
    BY <2>1, <2>2 DEF Received
<1>7. Collected(d)'
  <2>1. ASSUME NEW q \in Queues, d \in Bound(q)' PROVE q_id'[q] \in QIds
    BY <1>1, <2>1 DEF FollowShape, Collected, Passive
  <2>2. ASSUME NEW m \in msg_queue', d \in Bound(m[1])',
               m[2] > seen'[d][q_id'[m[1]]]
        PROVE  m \in pending'[d]
    <3>1. m[1] \in Queues
      BY <1>1, MessageParts
    <3>2. d \in Bound(m[1])
      BY <2>2, <3>1 DEF Passive
    <3>3. CASE m \in msg_queue
      <4>1. m \in pending[d]
        BY <2>2, <3>2, <3>3, <1>1 DEF FollowShape, Collected
      <4>2. pc[d] # "release"
        BY <3>1, <3>2 DEF ClientShape
      <4> QED
        BY <4>1, <4>2 DEF Passive
    <3>4. CASE m \notin msg_queue
      BY <3>2, <3>4 DEF Passive
    <3> QED
      BY <3>3, <3>4
  <2>3. ASSUME pc'[d] # "release", NEW m \in pending'[d]
        PROVE  q_id'[m[1]] \in QIds /\ m[2] > seen'[d][q_id'[m[1]]]
    <3>1. m[1] \in Queues /\ m[2] \in Nat
      BY <1>1, MessageParts
    <3>2. CASE m \in pending[d]
      <4>1. pc[d] # "release"
        BY <2>3 DEF Passive
      <4> QED
        BY <3>2, <4>1, <1>1 DEF FollowShape, Collected
    <3>3. CASE m \notin pending[d]
      <4>1. d \in Bound(m[1]) /\ m[2] > rev[m[1]]
        BY <3>3 DEF Passive
      <4>2. q_id[m[1]] \in QIds
        BY <3>1, <4>1 DEF FollowShape, Collected
      <4>3. seen[d][q_id[m[1]]] <= rev[m[1]]
        BY <3>1, <4>2 DEF FollowShape, Behind
      <4>4. seen[d][q_id[m[1]]] \in Nat /\ rev[m[1]] \in Nat
        BY <4>2, <3>1, <1>1, <1>2
      <4> QED
        BY <3>1, <4>1, <4>2, <4>3, <4>4, <1>1
    <3> QED
      BY <3>2, <3>3
  <2> QED
    BY <2>1, <2>2, <2>3 DEF Collected
<1>8. Answered(d)'
  <2>1. CASE pc[d] # "reply"
    BY <2>1 DEF FollowShape, Answered, Passive
  <2>2. CASE pc[d] = "reply"
    <3>1. pc'[d] = "reply"
      BY <2>2 DEF Passive
    <3>2. \A id \in QIds : seen'[d][id] <= upto'[d][id]
      BY <2>2 DEF FollowShape, Answered
    <3>3. \A m \in body'[d] : /\ q_id'[m[1]] \in QIds
                              /\ m[2] > seen'[d][q_id'[m[1]]]
                              /\ m[2] <= upto'[d][q_id'[m[1]]]
      BY <2>2, <1>1 DEF FollowShape, Answered
    <3>4. ASSUME NEW m \in msg_queue', q_id'[m[1]] \in QIds,
                 m[2] <= upto'[d][q_id'[m[1]]]
          PROVE  m \in got'[d] \union body'[d]
      <4>1. m[1] \in Queues /\ m[2] \in Nat /\ upto[d][q_id[m[1]]] \in Nat
        BY <1>1, <1>2, <3>4, MessageParts
      <4>2. m \in msg_queue
        BY <1>1, <1>5, <3>4, <4>1
      <4> QED
        BY <4>2, <3>4, <2>2, <1>1 DEF FollowShape, Answered
    <3> QED
      BY <3>1, <3>2, <3>3, <3>4 DEF Answered
  <2> QED
    BY <2>1, <2>2
<1> QED
  BY <1>3, <1>4, <1>6, <1>7, <1>8 DEF FollowShape

\* A PUT gives a name to a queue that no follower has met.
LEMMA FollowCreate ==
    ASSUME TypeOK, FollowerTypes, UnusedShape, RevsUsed, NotReused',
           NEW d \in Clients, FollowShape(d), Create, UNCHANGED followerVars
    PROVE  FollowShape(d)'
<1>1. PICK id \in QIds, q \in Queues :
          /\ life[q] = "unused"
          /\ q_id' = [q_id EXCEPT ![q] = id]
          /\ UNCHANGED <<rev, binders, msg_queue, pc, want, pending>>
  BY DEF Create, QueueCreate, msgVars, handlerVars
<1>2. UNCHANGED <<seen, got, body, upto>>
  BY DEF followerVars
<1>3. q_id[q] = NULL /\ rev[q] = 0 /\ NULL \notin QIds
  BY <1>1, ConstantsAssumption DEF UnusedShape
<1>4. q_id'[q] = id /\ \A r \in Queues : r # q => q_id'[r] = q_id[r] /\ q_id'[r] # id
  BY <1>1, ConstantsAssumption DEF TypeOK, NotReused
<1>5. \A m \in msg_queue : m[1] \in Queues /\ m[1] # q
  <2>1. SUFFICES ASSUME NEW m \in msg_queue PROVE m[1] \in Queues /\ m[1] # q
    OBVIOUS
  <2>2. m[1] \in Queues /\ m[2] \in Nat /\ m[2] >= 1
    BY MessageParts DEF TypeOK
  <2>3. m[2] <= rev[m[1]]
    BY DEF RevsUsed
  <2> QED
    BY <2>2, <2>3, <1>3
<1>6. AsksNext(d)'
  BY <1>1, <1>2 DEF FollowShape, AsksNext
<1>7. Behind(d)'
  <2>1. \A i \in QIds : (\A r \in Queues : q_id'[r] # i) => \A r \in Queues : q_id[r] # i
    BY <1>3, <1>4
  <2>2. seen[d][id] = 0 /\ upto[d][id] = 0
    BY <1>3, <1>4 DEF FollowShape, Behind
  <2>3. ASSUME NEW r \in Queues, q_id'[r] \in QIds
        PROVE  seen[d][q_id'[r]] <= rev[r] /\ upto[d][q_id'[r]] <= rev[r]
    <3>1. CASE r = q
      BY <3>1, <2>2, <1>3, <1>4
    <3>2. CASE r # q
      BY <3>2, <1>4, <2>3 DEF FollowShape, Behind
    <3> QED
      BY <3>1, <3>2
  <2> QED
    BY <2>1, <2>3, <1>1, <1>2 DEF FollowShape, Behind
<1>8. \A m \in got[d] \union body[d] : m[1] \in Queues
  BY MessageParts DEF FollowerTypes
<1>9. Received(d)'
  <2>1. \A m \in msg_queue : q_id'[m[1]] = q_id[m[1]]
    BY <1>4, <1>5
  <2>2. \A m \in got[d] : q_id'[m[1]] = q_id[m[1]]
    BY <1>3, <1>4, <1>8 DEF FollowShape, Received
  <2> QED
    BY <2>1, <2>2, <1>1, <1>2 DEF FollowShape, Received
<1>10. Collected(d)'
  <2>1. \A r : Bound(r)' = Bound(r)
    BY <1>1 DEF Bound
  <2>2. d \notin Bound(q)
    BY <1>3 DEF FollowShape, Collected
  <2>3. \A r \in Queues : d \in Bound(r)' => q_id'[r] \in QIds
    BY <1>4, <2>1 DEF FollowShape, Collected
  <2>4. ASSUME NEW m \in msg_queue, d \in Bound(m[1])', m[2] > seen[d][q_id'[m[1]]]
        PROVE  m \in pending[d]
    BY <2>4, <2>1, <1>4, <1>5 DEF FollowShape, Collected
  <2>5. ASSUME pc[d] # "release", NEW m \in pending[d]
        PROVE  q_id'[m[1]] \in QIds /\ m[2] > seen[d][q_id'[m[1]]]
    <3>1. m[1] \in Queues
      BY MessageParts DEF TypeOK
    <3>2. q_id[m[1]] \in QIds /\ m[2] > seen[d][q_id[m[1]]]
      BY <2>5 DEF FollowShape, Collected
    <3> QED
      BY <3>1, <3>2, <1>3, <1>4
  <2> QED
    BY <2>3, <2>4, <2>5, <1>1, <1>2 DEF Collected
<1>11. Answered(d)'
  <2>1. CASE pc[d] # "reply"
    BY <2>1, <1>1, <1>2 DEF FollowShape, Answered
  <2>2. CASE pc[d] = "reply"
    <3>1. \A m \in msg_queue : q_id'[m[1]] = q_id[m[1]]
      BY <1>4, <1>5
    <3>2. \A m \in body[d] : q_id'[m[1]] = q_id[m[1]]
      BY <2>2, <1>3, <1>4, <1>8 DEF FollowShape, Answered
    <3> QED
      BY <2>2, <3>1, <3>2, <1>1, <1>2 DEF FollowShape, Answered
  <2> QED
    BY <2>1, <2>2
<1> QED
  BY <1>6, <1>7, <1>9, <1>10, <1>11 DEF FollowShape

\* A poll begins: the follower asks from where it is.
LEMMA FollowBegins ==
    ASSUME TypeOK, NEW c \in Clients, FollowShape(c),
           NEW w \in PollRequests, FollowBegin(c, w)
    PROVE  FollowShape(c)'
<1>1. /\ UNCHANGED <<q_id, rev, binders, msg_queue, pending>>
      /\ UNCHANGED <<seen, got, body, upto>>
      /\ pc[c] = "idle" /\ pc'[c] = "bind"
      /\ want'[c] = w
      /\ \A id \in QIds : w[id] # NULL => w[id].rev = seen[c][id] /\ ~w[id].latest
  BY DEF FollowBegin, PollBegin, storeVars, msgVars, followerVars, TypeOK
<1>2. AsksNext(c)'
  BY <1>1 DEF AsksNext
<1>3. Behind(c)' /\ Received(c)'
  BY <1>1 DEF FollowShape, Behind, Received
<1>4. Collected(c)'
  <2>1. \A r : Bound(r)' = Bound(r)
    BY <1>1 DEF Bound
  <2> QED
    BY <2>1, <1>1 DEF FollowShape, Collected
<1>5. Answered(c)'
  BY <1>1 DEF FollowShape, Answered
<1> QED
  BY <1>2, <1>3, <1>4, <1>5 DEF FollowShape

\* A poll binds and takes exactly the messages past the follower's revision:
\* that revision is not from the queue's future.
LEMMA FollowBinds ==
    ASSUME TypeOK, FollowerTypes, StoreExact, NEW c \in Clients, ClientShape(c),
           FollowShape(c), NEW id \in QIds, PollBind(c, id), UNCHANGED followerVars
    PROVE  FollowShape(c)'
<1>1. PICK q \in Queues : q = queue_store[id]
  BY DEF PollBind, TypeOK
<1>2. q_id[q] = id
  BY <1>1, ConstantsAssumption DEF StoreExact
<1>3. PICK a : a = want[c][id] /\ a # NULL
  BY DEF PollBind
<1>4. /\ UNCHANGED <<q_id, rev, msg_queue, pc>>
      /\ pc[c] = "bind"
      /\ binders' = [binders EXCEPT ![q] = <<c>> \o @]
      /\ pending' = [pending EXCEPT ![c] = @ \union Matching(q, a)]
      /\ want' = [want EXCEPT ![c][id] = NULL]
  BY <1>1, <1>3 DEF PollBind, storeVars, Runs
<1>5. UNCHANGED <<seen, got, body, upto>>
  BY DEF followerVars
<1>6. a.rev = seen[c][id] /\ ~a.latest /\ seen[c][id] <= rev[q]
  BY <1>1, <1>2, <1>3 DEF FollowShape, AsksNext, Behind
<1>7. seen[c][id] \in Nat /\ rev[q] \in Nat
  BY DEF FollowerTypes, TypeOK
<1>8. Matching(q, a) = {m \in InQueue(q) : seen[c][id] < m[2]}
  <2>1. ~(rev[q] < a.rev)
    BY <1>6, <1>7
  <2> QED
    BY <2>1, <1>6 DEF Matching
<1>9. pending'[c] = pending[c] \union {m \in InQueue(q) : seen[c][id] < m[2]}
  BY <1>4, <1>8 DEF TypeOK
<1>10. AsksNext(c)'
  <2>1. \A i \in QIds : want'[c][i] \in {want[c][i], NULL}
    BY <1>4 DEF TypeOK, PollRequests
  <2> QED
    BY <2>1, <1>5 DEF FollowShape, AsksNext
<1>11. Behind(c)' /\ Received(c)' /\ Answered(c)'
  BY <1>4, <1>5 DEF FollowShape, Behind, Received, Answered
<1>12. \A r \in Queues : r # q => (c \in Bound(r)' <=> c \in Bound(r))
  BY <1>4 DEF Bound, TypeOK
<1>13. Collected(c)'
  <2>1. \A r \in Queues : c \in Bound(r)' => q_id'[r] \in QIds
    BY <1>2, <1>4, <1>12 DEF FollowShape, Collected
  <2>2. ASSUME NEW m \in msg_queue', c \in Bound(m[1])', m[2] > seen'[c][q_id'[m[1]]]
        PROVE  m \in pending'[c]
    <3>1. m[1] \in Queues /\ m \in msg_queue /\ m[2] \in Nat
      BY <1>4, MessageParts DEF TypeOK
    <3>2. CASE m[1] = q
      <4>1. m[2] > seen[c][id]
        BY <2>2, <3>2, <1>2, <1>4, <1>5
      <4>2. seen[c][id] < m[2]
        BY <4>1, <3>1, <1>7
      <4> QED
        BY <3>1, <3>2, <4>2, <1>9 DEF InQueue
    <3>3. CASE m[1] # q
      BY <2>2, <3>1, <3>3, <1>4, <1>5, <1>9, <1>12 DEF FollowShape, Collected
    <3> QED
      BY <3>2, <3>3
  <2>3. ASSUME pc'[c] # "release", NEW m \in pending'[c]
        PROVE  q_id'[m[1]] \in QIds /\ m[2] > seen'[c][q_id'[m[1]]]
    <3>1. CASE m \in pending[c]
      BY <3>1, <1>4, <1>5, <2>3 DEF FollowShape, Collected
    <3>2. CASE m \notin pending[c]
      <4>1. m \in msg_queue /\ m[1] = q /\ seen[c][id] < m[2]
        BY <3>2, <1>9 DEF InQueue
      <4>2. m[2] \in Nat
        BY <4>1, MessageParts DEF TypeOK
      <4>3. m[2] > seen[c][id]
        BY <4>1, <4>2, <1>7
      <4> QED
        BY <4>1, <4>3, <1>2, <1>4, <1>5
    <3> QED
      BY <3>1, <3>2
  <2> QED
    BY <2>1, <2>2, <2>3 DEF Collected
<1> QED
  BY <1>10, <1>11, <1>13 DEF FollowShape

\* The answer is built: the revision it carries for a queue is the queue's,
\* and what it holds is all that lies between.
LEMMA FollowResponds ==
    ASSUME TypeOK, EngineShape, ~fault, FollowerTypes, NotReused, NEW c \in Clients,
           FollowShape(c), FollowRespond(c)
    PROVE  FollowShape(c)'
<1>1. /\ UNCHANGED <<q_id, rev, binders, msg_queue, pending, want>>
      /\ UNCHANGED <<seen, got>>
      /\ pc[c] = "ready" /\ pc'[c] = "reply"
      /\ body'[c] = pending[c]
  BY DEF FollowRespond, PollRespond, Runs, storeVars, msgVars, TypeOK, FollowerTypes
<1>2. /\ seen[c] \in [QIds -> Nat] /\ rev \in [Queues -> Nat]
      /\ pending[c] \subseteq Messages /\ msg_queue \subseteq Messages
      /\ pending[c] \subseteq msg_queue
  BY DEF FollowerTypes, TypeOK, EngineShape, PendingIsQueued
<1>3. ClientShape(c)
  BY DEF EngineShape, PollShape
<1>4. NULL \notin QIds
  BY ConstantsAssumption
\* What the answer carries for a name, with and without a message of it.
<1>5. ASSUME NEW id \in QIds, NEW m \in pending[c], q_id[m[1]] = id
      PROVE  upto'[c][id] = rev[m[1]]
  <2>1. PICK n \in pending[c] : q_id[n[1]] = id /\ upto'[c][id] = rev[n[1]]
    BY <1>5 DEF FollowRespond, FollowerTypes
  <2>2. n[1] \in Queues /\ m[1] \in Queues
    BY <1>2, MessageParts
  <2>3. n[1] = m[1]
    BY <2>1, <2>2, <1>5, <1>4 DEF NotReused
  <2> QED
    BY <2>1, <2>3
<1>6. ASSUME NEW id \in QIds, \A m \in pending[c] : q_id[m[1]] # id
      PROVE  upto'[c][id] = seen[c][id]
  BY <1>6 DEF FollowRespond, FollowerTypes
<1>7. ASSUME NEW q \in Queues, q_id[q] \in QIds
      PROVE  \/ upto'[c][q_id[q]] = rev[q] /\ c \in Bound(q)
             \/ upto'[c][q_id[q]] = seen[c][q_id[q]]
  <2>1. CASE \A m \in pending[c] : q_id[m[1]] # q_id[q]
    BY <2>1, <1>6, <1>7
  <2>2. ASSUME NEW m \in pending[c], q_id[m[1]] = q_id[q]
        PROVE  upto'[c][q_id[q]] = rev[q] /\ c \in Bound(q)
    <3>1. m[1] \in Queues
      BY <1>2, MessageParts
    <3>2. m[1] = q
      BY <3>1, <2>2, <1>4, <1>7 DEF NotReused
    <3>3. c \in Bound(m[1])
      BY <1>1, <1>3 DEF ClientShape
    <3> QED
      BY <3>2, <3>3, <2>2, <1>5, <1>7
  <2> QED
    BY <2>1, <2>2
<1>8. \A q \in Queues : q_id[q] \in QIds =>
          /\ seen[c][q_id[q]] <= rev[q]
          /\ seen[c][q_id[q]] \in Nat /\ rev[q] \in Nat
  BY <1>2 DEF FollowShape, Behind
<1>9. \A id \in QIds : (\A q \in Queues : q_id[q] # id) =>
          seen[c][id] = 0 /\ upto'[c][id] = 0
  <2>1. SUFFICES ASSUME NEW id \in QIds, \A q \in Queues : q_id[q] # id
                 PROVE  seen[c][id] = 0 /\ upto'[c][id] = 0
    OBVIOUS
  <2>2. \A m \in pending[c] : q_id[m[1]] # id
    BY <2>1, <1>2, MessageParts
  <2> QED
    BY <2>1, <2>2, <1>6 DEF FollowShape, Behind
<1>10. AsksNext(c)' /\ Received(c)'
  BY <1>1 DEF FollowShape, AsksNext, Received
<1>11. Behind(c)'
  <2>1. \A q \in Queues : q_id[q] \in QIds =>
            seen[c][q_id[q]] <= rev[q] /\ upto'[c][q_id[q]] <= rev[q]
    BY <1>7, <1>8
  <2> QED
    BY <2>1, <1>9, <1>1 DEF Behind
<1>12. Collected(c)'
  <2>1. \A r : Bound(r)' = Bound(r)
    BY <1>1 DEF Bound
  <2> QED
    BY <2>1, <1>1 DEF FollowShape, Collected
<1>13. Answered(c)'
  <2>1. ASSUME NEW id \in QIds PROVE seen'[c][id] <= upto'[c][id]
    <3>1. CASE \E q \in Queues : q_id[q] = id
      BY <3>1, <1>1, <1>7, <1>8
    <3>2. CASE \A q \in Queues : q_id[q] # id
      BY <3>2, <1>9, <1>1
    <3> QED
      BY <3>1, <3>2
  <2>2. ASSUME NEW m \in body'[c]
        PROVE  /\ q_id'[m[1]] \in QIds
               /\ m[2] > seen'[c][q_id'[m[1]]]
               /\ m[2] <= upto'[c][q_id'[m[1]]]
    <3>1. m \in pending[c] /\ m \in msg_queue
      BY <1>1, <1>2
    <3>2. q_id[m[1]] \in QIds /\ m[2] > seen[c][q_id[m[1]]]
      BY <3>1, <1>1 DEF FollowShape, Collected
    <3>3. m[2] <= rev[m[1]]
      BY <3>1 DEF EngineShape, RevsUsed
    <3>4. upto'[c][q_id[m[1]]] = rev[m[1]]
      BY <3>1, <3>2, <1>5
    <3> QED
      BY <3>2, <3>3, <3>4, <1>1
  <2>3. ASSUME NEW m \in msg_queue', q_id'[m[1]] \in QIds, m[2] <= upto'[c][q_id'[m[1]]]
        PROVE  m \in got'[c] \union body'[c]
    <3>1. m \in msg_queue /\ m[1] \in Queues /\ m[2] \in Nat
      BY <1>1, <1>2, MessageParts
    <3>2. CASE m[2] <= seen[c][q_id[m[1]]]
      BY <3>1, <3>2, <2>3, <1>1 DEF FollowShape, Received
    <3>3. CASE ~(m[2] <= seen[c][q_id[m[1]]])
      <4>1. c \in Bound(m[1])
        BY <3>1, <3>3, <2>3, <1>1, <1>7
      <4>2. m[2] > seen[c][q_id[m[1]]]
        BY <3>1, <3>3, <2>3, <1>1, <1>8
      <4> QED
        BY <3>1, <4>1, <4>2, <1>1 DEF FollowShape, Collected
    <3> QED
      BY <3>2, <3>3
  <2> QED
    BY <2>1, <2>2, <2>3, <1>1 DEF Answered
<1> QED
  BY <1>10, <1>11, <1>12, <1>13 DEF FollowShape

\* The answer is written, or lost.
LEMMA FollowEnds ==
    ASSUME TypeOK, EngineShape, FollowerTypes, NEW c \in Clients,
           FollowShape(c), FollowDone(c)
    PROVE  FollowShape(c)'
<1>1. /\ UNCHANGED <<q_id, rev, msg_queue, pending, want>>
      /\ UNCHANGED upto
      /\ pc[c] = "reply" /\ pc'[c] = "release"
      /\ body'[c] = {}
      /\ binders' = [q \in Queues |-> Unlink(binders[q], c)]
  BY DEF FollowDone, PollUnbind, storeVars, msgVars, TypeOK, FollowerTypes
<1>2. \/ seen'[c] = upto[c] /\ got'[c] = got[c] \union body[c]
      \/ seen'[c] = seen[c] /\ got'[c] = got[c]
  BY DEF FollowDone, FollowerTypes
<1>3. \A id \in QIds : want'[c][id] = NULL
  BY <1>1 DEF EngineShape, PollShape, ClientShape
<1>4. \A q \in Queues : c \notin Bound(q)'
  <2>1. SUFFICES ASSUME NEW q \in Queues PROVE c \notin Bound(q)'
    OBVIOUS
  <2>2. binders[q] \in Seq(Clients) /\ binders'[q] = Unlink(binders[q], c)
    BY <1>1 DEF TypeOK
  <2>3. Unlinked(binders[q], c, binders'[q])
    BY <2>2, UnlinkFacts
  <2>4. \A i, j \in 1 .. Len(binders[q]) : binders[q][i] = binders[q][j] => i = j
    BY DEF EngineShape, PollShape, BindersDistinct
  <2>5. \A k \in 1 .. Len(binders'[q]) : binders'[q][k] # c
    BY <2>3, <2>4, Zenon DEF Unlinked
  <2> QED
    BY <2>5 DEF Bound
<1>5. AsksNext(c)'
  BY <1>3 DEF AsksNext
<1>6. Behind(c)'
  BY <1>1, <1>2 DEF FollowShape, Behind
<1>7. Collected(c)'
  <2>1. \A m \in msg_queue : m[1] \in Queues
    BY MessageParts DEF TypeOK
  <2> QED
    BY <2>1, <1>1, <1>4 DEF Collected
<1>8. Answered(c)'
  BY <1>1 DEF Answered
<1>9. Received(c)'
  <2>1. CASE seen'[c] = seen[c] /\ got'[c] = got[c]
    BY <2>1, <1>1 DEF FollowShape, Received
  <2>2. CASE seen'[c] = upto[c] /\ got'[c] = got[c] \union body[c]
    <3>1. ASSUME NEW m \in got[c] \union body[c]
          PROVE  q_id[m[1]] \in QIds /\ m[2] <= upto[c][q_id[m[1]]]
      <4>1. CASE m \in body[c]
        BY <4>1, <1>1 DEF FollowShape, Answered
      <4>2. CASE m \in got[c]
        <5>1. q_id[m[1]] \in QIds /\ m[2] <= seen[c][q_id[m[1]]]
          BY <4>2 DEF FollowShape, Received
        <5>2. seen[c][q_id[m[1]]] <= upto[c][q_id[m[1]]]
          BY <5>1, <1>1 DEF FollowShape, Answered
        <5>3. m[2] \in Nat
          BY <4>2, MessageParts DEF FollowerTypes
        <5>4. seen[c][q_id[m[1]]] \in Nat /\ upto[c][q_id[m[1]]] \in Nat
          BY <5>1 DEF FollowerTypes
        <5> QED
          BY <5>1, <5>2, <5>3, <5>4
      <4> QED
        BY <3>1, <4>1, <4>2
    <3>2. \A m \in msg_queue : q_id[m[1]] \in QIds /\ m[2] <= upto[c][q_id[m[1]]]
                => m \in got[c] \union body[c]
      BY <1>1 DEF FollowShape, Answered
    <3> QED
      BY <3>1, <3>2, <2>2, <1>1 DEF Received
  <2> QED
    BY <2>1, <2>2, <1>2
<1> QED
  BY <1>5, <1>6, <1>7, <1>8, <1>9 DEF FollowShape

\* Nothing touches a queue before it is created.
LEMMA UnusedStep ==
    ASSUME TypeOK, StoreExact, UnusedShape, Next PROVE UnusedShape'
<1>1. ASSUME UNCHANGED <<q_id, rev, consumers>>,
             \A q \in Queues : life'[q] = "unused" => life[q] = "unused"
      PROVE  UnusedShape'
  BY <1>1 DEF UnusedShape
<1>2. ASSUME NEW q, memqueue_release(q)
      PROVE  \A r \in Queues : life'[r] = "unused" => life[r] = "unused"
  BY <1>2 DEF memqueue_release, TypeOK
<1>3. ASSUME NEW q \in Queues, life[q] # "unused", UNCHANGED <<q_id, life>>,
             \A r \in Queues : r # q => rev'[r] = rev[r] /\ consumers'[r] = consumers[r]
      PROVE  UnusedShape'
  BY <1>3 DEF UnusedShape
<1>4. \A id \in QIds : queue_store[id] # NULL =>
          queue_store[id] \in Queues /\ life[queue_store[id]] # "unused"
  BY DEF StoreExact, TypeOK
<1>5. CASE Create
  <2>1. PICK id \in QIds, q \in Queues :
            /\ life' = [life EXCEPT ![q] = "live"]
            /\ q_id' = [q_id EXCEPT ![q] = id]
            /\ UNCHANGED <<rev, consumers>>
    BY <1>5 DEF Create, QueueCreate
  <2> QED
    BY <2>1 DEF UnusedShape, TypeOK
<1>6. CASE Cleaner
  <2>1. ASSUME NEW m, MsgExpire(m) PROVE UnusedShape'
    <3>1. memqueue_release(m[1]) /\ UNCHANGED <<q_id, rev, consumers>>
      BY <2>1 DEF MsgExpire, memqueue_msg_release
    <3> QED
      BY <3>1, <1>1, <1>2
  <2>2. ASSUME NEW q, QueueExpire(q) PROVE UnusedShape'
    <3>1. memqueue_release(q) /\ UNCHANGED <<q_id, rev, consumers>>
      BY <2>2 DEF QueueExpire
    <3> QED
      BY <3>1, <1>1, <1>2
  <2>3. ASSUME NEW q \in Queues, NEW k \in consumers[q], ConsumerExpire(q, k)
        PROVE  UnusedShape'
    <3>1. life[q] # "unused"
      BY <2>3 DEF UnusedShape
    <3>2. /\ UNCHANGED <<q_id, life>>
          /\ rev' = [rev EXCEPT ![q] = @ + 1]
          /\ consumers' = [consumers EXCEPT ![q] = @ \ {k}]
      BY <2>3 DEF ConsumerExpire, memqueue_msg_create, storeVars
    <3>3. \A r \in Queues : r # q => rev'[r] = rev[r] /\ consumers'[r] = consumers[r]
      BY <3>2 DEF TypeOK
    <3> QED
      BY <3>1, <3>2, <3>3, <1>3
  <2> QED
    BY <1>6, <2>1, <2>2, <2>3 DEF Cleaner
<1>7. ASSUME NEW c \in Clients, Handler(c) PROVE UnusedShape'
  <2>1. ASSUME Post(c) PROVE UnusedShape'
    <3>1. PICK q \in Queues :
              /\ life[q] # "unused"
              /\ (\E keep \in Retention : MsgPost(c, q, keep)) \/ MsgReject(c, q)
      BY <2>1, <1>4 DEF Post
    <3>2. UNCHANGED <<q_id, life, consumers>>
      BY <3>1 DEF MsgPost, MsgReject, storeVars
    <3>3. rev' \in {rev, [rev EXCEPT ![q] = @ + 1]}
      BY <3>1 DEF MsgPost, MsgReject, memqueue_msg_create
    <3>4. \A r \in Queues : r # q => rev'[r] = rev[r] /\ consumers'[r] = consumers[r]
      BY <3>2, <3>3 DEF TypeOK
    <3> QED
      BY <3>1, <3>2, <3>4, <1>3
  <2>2. ASSUME DeleteRelease(c) PROVE UnusedShape'
    <3>1. memqueue_release(target[c]) /\ UNCHANGED <<q_id, rev, consumers>>
      BY <2>2 DEF DeleteRelease
    <3> QED
      BY <3>1, <1>1, <1>2
  <2>3. ASSUME NEW id \in QIds, PollJoin(c, id) PROVE UnusedShape'
    <3>1. PICK q \in Queues : life[q] # "unused" /\ q = queue_store[id]
      BY <2>3, <1>4 DEF PollJoin
    <3>2. /\ UNCHANGED <<q_id, life>>
          /\ rev' = [rev EXCEPT ![q] = @ + 1]
          /\ \E K : consumers' = [consumers EXCEPT ![q] = K]
      BY <2>3, <3>1 DEF PollJoin, memqueue_msg_create, storeVars
    <3>3. \A r \in Queues : r # q => rev'[r] = rev[r] /\ consumers'[r] = consumers[r]
      BY <3>2 DEF TypeOK
    <3> QED
      BY <3>1, <3>2, <3>3, <1>3
  <2>4. ASSUME NEW m, PollRelease(c, m) PROVE UnusedShape'
    <3>1. memqueue_release(m[1]) /\ UNCHANGED <<q_id, rev, consumers>>
      BY <2>4 DEF PollRelease, memqueue_msg_release
    <3> QED
      BY <3>1, <1>1, <1>2
  <2>5. ASSUME PostDone(c) \/ Delete(c) \/ PollTimeout(c) \/ PollUnbind(c)
               \/ PollDecide(c) \/ PollRespond(c) \/ PollFree(c)
               \/ (\E w \in PollRequests : PollBegin(c, w))
               \/ (\E id \in QIds : PollBind(c, id) \/ PollSkip(c, id))
        PROVE  UnusedShape'
    <3>1. UNCHANGED <<q_id, life, rev, consumers>>
      BY <2>5 DEF PostDone, Delete, DeleteRespond, PollTimeout, PollUnbind,
                  PollDecide, PollRespond, PollFree, PollBegin, PollBind,
                  PollSkip, storeVars
    <3> QED
      BY <3>1, <1>1
  <2> QED
    BY <1>7, <2>1, <2>2, <2>3, <2>4, <2>5 DEF Handler, PollStep
<1> QED
  BY <1>5, <1>6, <1>7 DEF Next

\* Names are given to a queue once and removed with it.
LEMMA NamedStep ==
    ASSUME TypeOK, UnusedShape, NamedStore, Next PROVE NamedStore'
<1>1. ASSUME UNCHANGED q_id,
             \A id \in QIds : queue_store'[id] \in {queue_store[id], NULL}
      PROVE  NamedStore'
  BY <1>1 DEF NamedStore
<1>2. ASSUME NEW q, memqueue_release(q), UNCHANGED q_id PROVE NamedStore'
  <2>1. \A id \in QIds : queue_store'[id] \in {queue_store[id], NULL}
    BY <1>2 DEF memqueue_release, TypeOK
  <2> QED
    BY <2>1, <1>1, <1>2
<1>3. ASSUME UNCHANGED storeVars PROVE NamedStore'
  BY <1>3 DEF storeVars, NamedStore
<1>4. CASE Create
  <2>1. PICK id \in QIds, q \in Queues :
            /\ life[q] = "unused"
            /\ queue_store' = [queue_store EXCEPT ![id] = q]
            /\ q_id' = [q_id EXCEPT ![q] = id]
    BY <1>4 DEF Create, QueueCreate
  <2>2. q_id[q] = NULL /\ NULL \notin QIds
    BY <2>1, ConstantsAssumption DEF UnusedShape
  <2>3. ASSUME NEW i \in QIds, queue_store'[i] # NULL
        PROVE  q_id'[queue_store'[i]] = i
    <3>1. CASE i = id
      BY <3>1, <2>1 DEF TypeOK
    <3>2. CASE i # id
      <4>1. queue_store'[i] = queue_store[i] /\ q_id[queue_store[i]] = i
        BY <3>2, <2>1, <2>3 DEF TypeOK, NamedStore
      <4>2. queue_store[i] # q
        BY <4>1, <2>2
      <4> QED
        BY <4>1, <4>2, <2>1, <2>3 DEF TypeOK
    <3> QED
      BY <3>1, <3>2
  <2> QED
    BY <2>3 DEF NamedStore
<1>5. CASE Cleaner
  <2>1. ASSUME NEW m, MsgExpire(m) PROVE NamedStore'
    BY <2>1, <1>2 DEF MsgExpire, memqueue_msg_release
  <2>2. ASSUME NEW q, QueueExpire(q) PROVE NamedStore'
    BY <2>2, <1>2 DEF QueueExpire
  <2>3. ASSUME NEW q, NEW k, ConsumerExpire(q, k) PROVE NamedStore'
    BY <2>3, <1>3 DEF ConsumerExpire
  <2> QED
    BY <1>5, <2>1, <2>2, <2>3 DEF Cleaner
<1>6. ASSUME NEW c \in Clients, Handler(c) PROVE NamedStore'
  <2>1. ASSUME DeleteRelease(c) PROVE NamedStore'
    BY <2>1, <1>2 DEF DeleteRelease
  <2>2. ASSUME NEW m, PollRelease(c, m) PROVE NamedStore'
    BY <2>2, <1>2 DEF PollRelease, memqueue_msg_release
  <2>3. ASSUME \/ Post(c) \/ PostDone(c) \/ Delete(c) \/ PollTimeout(c)
               \/ PollUnbind(c) \/ PollDecide(c) \/ PollRespond(c) \/ PollFree(c)
               \/ \E w \in PollRequests : PollBegin(c, w)
               \/ \E id \in QIds : PollJoin(c, id) \/ PollBind(c, id) \/ PollSkip(c, id)
        PROVE  NamedStore'
    <3>1. UNCHANGED storeVars
      BY <2>3 DEF Post, MsgPost, MsgReject, PostDone, Delete, DeleteRespond,
                  PollTimeout, PollUnbind, PollDecide, PollRespond, PollFree,
                  PollBegin, PollJoin, PollBind, PollSkip
    <3> QED
      BY <3>1, <1>3
  <2> QED
    BY <1>6, <2>1, <2>2, <2>3 DEF Handler, PollStep
<1> QED
  BY <1>4, <1>5, <1>6 DEF Next

\* The history the followers keep has its types.
LEMMA FollowerTypesStep ==
    ASSUME TypeOK, FollowerTypes, FollowerNext PROVE FollowerTypes'
<1>1. CASE UNCHANGED <<seen, got, body, upto>>
  BY <1>1 DEF FollowerTypes
<1>2. ASSUME NEW c \in Clients, FollowRespond(c) PROVE FollowerTypes'
  <2>1. pending[c] \subseteq Messages /\ rev \in [Queues -> Nat]
    BY DEF TypeOK
  <2>2. body' \in [Clients -> SUBSET Messages]
    BY <1>2, <2>1 DEF FollowRespond, FollowerTypes
  <2> DEFINE u == [id \in QIds |->
                    IF \E m \in pending[c] : q_id[m[1]] = id
                    THEN rev[(CHOOSE m \in pending[c] : q_id[m[1]] = id)[1]]
                    ELSE seen[c][id]]
  <2>3. u \in [QIds -> Nat]
    <3>1. ASSUME NEW id \in QIds, \E m \in pending[c] : q_id[m[1]] = id
          PROVE  rev[(CHOOSE m \in pending[c] : q_id[m[1]] = id)[1]] \in Nat
      <4>1. PICK n \in pending[c] : n = CHOOSE m \in pending[c] : q_id[m[1]] = id
        BY <3>1
      <4>2. n[1] \in Queues
        BY <2>1, MessageParts
      <4> QED
        BY <4>1, <4>2, <2>1
    <3>2. \A id \in QIds : seen[c][id] \in Nat
      BY DEF FollowerTypes
    <3> QED
      BY <3>1, <3>2
  <2>4. upto' = [upto EXCEPT ![c] = u] /\ UNCHANGED <<seen, got>>
    BY <1>2 DEF FollowRespond
  <2> HIDE DEF u
  <2> QED
    BY <2>2, <2>3, <2>4 DEF FollowerTypes
<1>3. ASSUME NEW c \in Clients, FollowDone(c) PROVE FollowerTypes'
  <2>1. body' = [body EXCEPT ![c] = {}] /\ UNCHANGED upto
    BY <1>3 DEF FollowDone
  <2>2. \/ /\ got' = [got EXCEPT ![c] = @ \union body[c]]
           /\ seen' = [seen EXCEPT ![c] = upto[c]]
        \/ UNCHANGED <<got, seen>>
    BY <1>3 DEF FollowDone
  <2>3. body' \in [Clients -> SUBSET Messages] /\ upto' \in [Clients -> [QIds -> Nat]]
    BY <2>1 DEF FollowerTypes
  <2>4. got' \in [Clients -> SUBSET Messages] /\ seen' \in [Clients -> [QIds -> Nat]]
    BY <2>2 DEF FollowerTypes
  <2> QED
    BY <2>3, <2>4 DEF FollowerTypes
<1> QED
  BY <1>1, <1>2, <1>3 DEF FollowerNext, FollowBegin, FollowPost, followerVars

\* Every step keeps the followers' invariant, as long as no name is reused.
LEMMA FollowStep ==
    ASSUME TypeOK, EngineShape, ~fault, FollowInv, NotReused, NotReused', FollowerNext
    PROVE  FollowInv'
<1>1. Next
  BY FollowerNextIsNext
<1>2. TypeOK'
  BY <1>1, TypeStep
<1>3. FollowerTypes'
  BY FollowerTypesStep DEF FollowInv
<1>4. UnusedShape'
  BY <1>1, UnusedStep DEF FollowInv, EngineShape
<1>a. NamedStore'
  BY <1>1, NamedStep DEF FollowInv
<1>5. SUFFICES ASSUME NEW d \in Clients PROVE FollowShape(d)'
  BY <1>3, <1>4, <1>a DEF FollowInv
<1>6. /\ FollowerTypes /\ UnusedShape /\ FollowShape(d) /\ ClientShape(d)
      /\ StoreExact /\ RevsUsed
  BY DEF FollowInv, EngineShape, PollShape
\* A passive step that does not touch d's history.
<1>7. ASSUME Passive(d), seen'[d] = seen[d], upto'[d] = upto[d], got'[d] = got[d],
             body'[d] = body[d]
      PROVE  FollowShape(d)'
  BY <1>2, <1>6, <1>7, FollowFrame
<1>8. ASSUME NEW c \in Clients, NEW w \in PollRequests, FollowBegin(c, w)
      PROVE  FollowShape(d)'
  <2>1. CASE d = c
    BY <2>1, <1>6, <1>8, FollowBegins
  <2>2. CASE d # c
    BY <2>2, <1>7, <1>8, OtherPassive DEF FollowBegin, followerVars
  <2> QED
    BY <2>1, <2>2
<1>9. ASSUME NEW c \in Clients, FollowRespond(c) PROVE FollowShape(d)'
  <2>1. CASE d = c
    BY <2>1, <1>6, <1>9, FollowResponds
  <2>2. CASE d # c
    <3>1. /\ seen'[d] = seen[d] /\ upto'[d] = upto[d] /\ got'[d] = got[d]
          /\ body'[d] = body[d] /\ PollRespond(c)
      BY <2>2, <1>6, <1>9 DEF FollowRespond, FollowerTypes
    <3> QED
      BY <3>1, <2>2, <1>7, OtherPassive
  <2> QED
    BY <2>1, <2>2
<1>10. ASSUME NEW c \in Clients, FollowDone(c) PROVE FollowShape(d)'
  <2>1. CASE d = c
    BY <2>1, <1>6, <1>10, FollowEnds
  <2>2. CASE d # c
    <3>1. /\ seen'[d] = seen[d] /\ upto'[d] = upto[d] /\ got'[d] = got[d]
          /\ body'[d] = body[d] /\ PollUnbind(c)
      BY <2>2, <1>6, <1>10 DEF FollowDone, FollowerTypes
    <3> QED
      BY <3>1, <2>2, <1>7, OtherPassive
  <2> QED
    BY <2>1, <2>2
<1>11. ASSUME NEW c \in Clients, FollowPost(c) PROVE FollowShape(d)'
  BY <1>11, <1>7, PostPassive DEF FollowPost
<1>12. ASSUME NEW c \in Clients, Unseen(c), UNCHANGED followerVars
       PROVE  FollowShape(d)'
  <2>1. CASE \A id \in QIds : PollBind(c, id) => d # c
    BY <2>1, <1>7, <1>12, UnseenPassive DEF followerVars
  <2>2. ASSUME NEW id \in QIds, PollBind(c, id), d = c PROVE FollowShape(d)'
    BY <2>2, <1>6, <1>12, FollowBinds
  <2> QED
    BY <2>1, <2>2
<1>13. ASSUME Create, UNCHANGED followerVars PROVE FollowShape(d)'
  BY <1>6, <1>13, FollowCreate
<1>14. ASSUME Cleaner, UNCHANGED followerVars PROVE FollowShape(d)'
  BY <1>7, <1>14, CleanerPassive DEF followerVars
<1> QED
  BY <1>8, <1>9, <1>10, <1>11, <1>12, <1>13, <1>14 DEF FollowerNext

\* The invariant of the followers: it holds for as long as no name is given
\* to a second queue, also once freed memory was used.
THEOREM FollowInvariant == FollowerSpec /\ []NotReused => []FollowInv
<1>1. FollowerInit => FollowInv
  <2> SUFFICES ASSUME FollowerInit PROVE FollowInv
    OBVIOUS
  <2> USE DEF FollowerInit, Init
  <2>1. FollowerTypes /\ UnusedShape /\ NamedStore
    BY DEF FollowerTypes, UnusedShape, NamedStore
  <2>2. ASSUME NEW c \in Clients PROVE FollowShape(c)
    <3>1. \A q \in Queues : c \notin Bound(q)
      BY DEF Bound
    <3>2. AsksNext(c) /\ Received(c) /\ Answered(c)
      BY DEF AsksNext, Received, Answered
    <3>3. Behind(c)
      BY ConstantsAssumption DEF Behind
    <3>4. Collected(c)
      BY <3>1 DEF Collected
    <3> QED
      BY <3>2, <3>3, <3>4 DEF FollowShape
  <2> QED
    BY <2>1, <2>2 DEF FollowInv
<1>2. /\ EngineInv /\ FollowInv /\ NotReused /\ NotReused' /\ [FollowerNext]_fvars
      => FollowInv'
  <2> SUFFICES ASSUME EngineInv, FollowInv, NotReused, NotReused', [FollowerNext]_fvars
               PROVE  FollowInv'
    OBVIOUS
  <2>1. CASE UNCHANGED fvars
    <3>1. UNCHANGED <<queue_store, life, q_id, rev, consumers, binders, msg_queue,
                      pc, want, pending, seen, got, body, upto>>
      BY <2>1 DEF fvars, vars, storeVars, msgVars, handlerVars, followerVars
    <3>2. FollowerTypes' /\ UnusedShape' /\ NamedStore'
      BY <3>1 DEF FollowInv, FollowerTypes, UnusedShape, NamedStore
    <3>3. ASSUME NEW c \in Clients PROVE FollowShape(c)'
      <4>1. \A q : Bound(q)' = Bound(q)
        BY <3>1 DEF Bound
      <4>2. AsksNext(c)' /\ Received(c)' /\ Answered(c)' /\ Behind(c)'
        BY <3>1 DEF FollowInv, FollowShape, AsksNext, Received, Answered, Behind
      <4>3. Collected(c)'
        BY <3>1, <4>1 DEF FollowInv, FollowShape, Collected
      <4> QED
        BY <4>2, <4>3 DEF FollowShape
    <3> QED
      BY <3>2, <3>3 DEF FollowInv
  <2>2. CASE FollowerNext
    BY <2>2, FollowerNextIsNext, NextStopsAtFault, FollowStep DEF EngineInv
  <2> QED
    BY <2>1, <2>2
<1> QED
  BY <1>1, <1>2, FollowerEngine, PTL DEF FollowerSpec

\* "without missing messages" (README): as long as no name is given to a
\* second queue, a client has received whatever is still queued up to the
\* revision it is at, whatever posts, joins, other polls and lost answers
\* come between its polls.
THEOREM NoGapCorrect == FollowerSpec /\ []NotReused => []NoGap
<1>1. EngineInv /\ FollowInv => NoGap
  <2> SUFFICES ASSUME EngineInv, FollowInv, NEW c \in Clients, NEW id \in QIds,
                      queue_store[id] # NULL, NEW m \in InQueue(queue_store[id]),
                      m[2] <= seen[c][id]
               PROVE  m \in got[c]
    BY DEF NoGap
  <2>1. m \in msg_queue /\ q_id[m[1]] = id
    BY DEF InQueue, FollowInv, NamedStore
  <2>2. Received(c)
    BY DEF FollowInv, FollowShape
  <2> QED
    BY <2>1, <2>2 DEF Received
<1> QED
  BY <1>1, FollowInvariant, FollowerEngine, PTL

\* Under the same condition an answer never holds a message that its client
\* received before.
THEOREM NoRepeatCorrect == FollowerSpec /\ []NotReused => []NoRepeat
<1>1. FollowInv => NoRepeat
  <2> SUFFICES ASSUME FollowInv, NEW c \in Clients, NEW m \in body[c], m \in got[c]
               PROVE  FALSE
    BY DEF NoRepeat
  <2>1. FollowShape(c)
    BY DEF FollowInv
  <2>2. /\ q_id[m[1]] \in QIds /\ m[2] <= seen[c][q_id[m[1]]]
    BY <2>1 DEF FollowShape, Received
  <2>3. m[2] > seen[c][q_id[m[1]]]
    BY <2>1 DEF FollowShape, Answered
  <2>4. m[2] \in Nat /\ seen[c][q_id[m[1]]] \in Nat
    BY <2>2, MessageParts DEF FollowInv, FollowerTypes
  <2> QED
    BY <2>2, <2>3, <2>4
<1> QED
  BY <1>1, FollowInvariant, PTL

=============================================================================
