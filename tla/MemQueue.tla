------------------------------ MODULE MemQueue ------------------------------
(***************************************************************************)
(* The queue engine of memqueue (memqueue.c): the queue store, queues,     *)
(* messages, the reference counts that keep both alive, the binders that   *)
(* connect long polls to queues, and the consumers registered at a queue.  *)
(*                                                                         *)
(* The server is one OS thread running cooperative lthreads: a request     *)
(* handler loses the processor only where it waits on its condition        *)
(* variable or writes its HTTP response.  Steps that the code runs without *)
(* yielding are either one action, or several actions during which `run`   *)
(* names the handler that still has the processor.                         *)
(*                                                                         *)
(* Time is abstract here: a linked expiry timer may fire at any moment     *)
(* (memqueue_expiry.c is the subject of module Expiry).  Heap objects are  *)
(* never reused: a pointer to a freed queue stays recognisable, and the    *)
(* first use of one sets `fault` and ends the behaviour.  The exception is *)
(* the store that objs_expire makes in an object right after releasing it: *)
(* it is recorded in `late`, and the behaviour goes on.                    *)
(***************************************************************************)
EXTENDS Integers, Sequences, FiniteSets

CONSTANTS
    QIds,           \* queue names, the keys of memqueue_ins.queue_store
    Queues,         \* memqueue_t heap objects, one per successful PUT
    Clients,        \* request handlers (one lthread per connection)
    ConsumerIds,    \* values of the consumer_id parameter
    QueueOptions,   \* option records a PUT may carry
    PollRevs,       \* values of the rev parameter of a poll
    MaxRev,         \* bound: messages created in one queue
    NULL

OptionRecords == [expiry: BOOLEAN, max_size: Int, drop_from_head: BOOLEAN,
                  consumer_expiry: BOOLEAN]

ASSUME ConstantsAssumption ==
    /\ IsFiniteSet(Clients) /\ IsFiniteSet(ConsumerIds)
    /\ QueueOptions \subseteq OptionRecords
    /\ PollRevs \subseteq Int
    /\ MaxRev \in Nat
    /\ NULL \notin QIds \union Queues \union Clients \union ConsumerIds

\* A message is its queue and the revision it got; its payload is immaterial.
Messages == Queues \X (1 .. MaxRev)

PollArgs == [rev: PollRevs, latest: BOOLEAN,
             consumer_id: ConsumerIds \union {NULL}]

VARIABLES
    \* the store and the queues
    queue_store,    \* h_hash_t: queue name -> queue, or NULL
    life,           \* "unused" | "live" | "freed": the queue's memory
    q_id,           \* q->q_id
    opts,           \* expiry > 0, max_size, drop_from_head, consumer_expiry # 0
    rev,            \* q->rev
    ref_count,      \* q->ref_count
    q_timer,        \* queues linked in the memqueue_expiry tree
    base,           \* history: queues whose creator's reference is not released
    consumers,      \* q->consumers: ids registered (each with a linked timer)
    binders,        \* q->memqueue_binders: clients bound to q, head first
    \* the messages
    msg_queue,      \* messages that are in their queue's msg_queue
    msg_new,        \* messages whose `new` flag is 1
    msg_ref,        \* msg->ref_count
    msg_own,        \* messages retained on creation and not released since
    msg_timer,      \* messages linked in the msg_expiry tree
    \* the request handlers
    pc,             \* where each handler is
    run,            \* handler that runs without having yielded, or NULL
    want,           \* poll parameters still to be processed, by queue name
    pending,        \* cli_binder->pending_msgs
    target,         \* the q pointer a POST or DELETE keeps across its response
    fault,          \* freed memory has been used, other than by objs_expire
    late            \* objects objs_expire has written to after it freed them

storeVars   == <<queue_store, life, q_id, opts, q_timer, base>>
msgVars     == <<msg_queue, msg_new, msg_ref, msg_own, msg_timer>>
handlerVars == <<pc, run, want, pending, target>>
vars == <<storeVars, rev, ref_count, consumers, binders, msgVars,
          handlerVars, fault, late>>

\* What an expiry node links.
TimedObjects == ({"msg"} \X Messages) \union ({"queue"} \X Queues)
                    \union ({"consumer"} \X (Queues \X ConsumerIds))

PCs == {"idle", "bind", "wait", "ready", "reply", "release", "post", "delete"}

\* Fields of memory that has never been allocated have no meaning: every
\* object starts from what calloc and the constructors give it.
Init ==
    /\ queue_store = [id \in QIds |-> NULL]
    /\ life = [q \in Queues |-> "unused"]
    /\ q_id = [q \in Queues |-> NULL]
    /\ opts = [q \in Queues |-> NULL]
    /\ rev = [q \in Queues |-> 0]
    /\ ref_count = [q \in Queues |-> 0]
    /\ q_timer = {}
    /\ base = {}
    /\ consumers = [q \in Queues |-> {}]
    /\ binders = [q \in Queues |-> <<>>]
    /\ msg_queue = {} /\ msg_new = {} /\ msg_own = {} /\ msg_timer = {}
    /\ msg_ref = [m \in Messages |-> 0]
    /\ pc = [c \in Clients |-> "idle"]
    /\ run = NULL
    /\ want = [c \in Clients |-> [id \in QIds |-> NULL]]
    /\ pending = [c \in Clients |-> {}]
    /\ target = [c \in Clients |-> NULL]
    /\ fault = FALSE
    /\ late = {}

\* The scheduler picks a handler or the cleaner: nobody has the processor.
Scheduled == ~fault /\ run = NULL

\* Handler c, at pc p, goes on: it has the processor or is given it.
Runs(c, p) == ~fault /\ pc[c] = p /\ run \in {NULL, c}

-----------------------------------------------------------------------------
(* Reference counts *)

\* Mutation: the freed queue is not removed from the store.
memqueue_release_NoRemove(q) ==
    /\ fault' = (life[q] # "live")
    /\ ref_count' = [ref_count EXCEPT ![q] = @ - 1]
    /\ life' = IF ref_count[q] = 1 THEN [life EXCEPT ![q] = "freed"] ELSE life
    /\ UNCHANGED queue_store

\* memqueue_release: the last reference removes the queue from the store and
\* frees it, whoever is still bound to it.
memqueue_release(q) ==
    /\ fault' = (life[q] # "live")
    /\ ref_count' = [ref_count EXCEPT ![q] = @ - 1]
    /\ IF life[q] = "live" /\ ref_count[q] = 1
       THEN /\ life' = [life EXCEPT ![q] = "freed"]
            /\ queue_store' = [queue_store EXCEPT ![q_id[q]] = NULL]
       ELSE UNCHANGED <<life, queue_store>>

\* Mutation: the message is freed one reference early.
memqueue_msg_release_Early(m) ==
    /\ msg_new' = msg_new \ {m}
    /\ msg_ref' = [msg_ref EXCEPT ![m] = @ - 1]
    /\ msg_queue' = IF msg_ref[m] <= 2 THEN msg_queue \ {m} ELSE msg_queue
    /\ memqueue_release(m[1])

\* Mutation: the queue's reference is not dropped with the message's.
memqueue_msg_release_KeepsQueue(m) ==
    /\ msg_new' = msg_new \ {m}
    /\ msg_ref' = [msg_ref EXCEPT ![m] = @ - 1]
    /\ msg_queue' = IF msg_ref[m] = 1 THEN msg_queue \ {m} ELSE msg_queue
    /\ UNCHANGED <<fault, ref_count, life, queue_store>>

\* memqueue_msg_release: drops one reference to the message and the one to
\* its queue that goes with it; the last one unlinks and frees the message.
memqueue_msg_release(m) ==
    /\ msg_new' = msg_new \ {m}
    /\ msg_ref' = [msg_ref EXCEPT ![m] = @ - 1]
    /\ msg_queue' = IF msg_ref[m] = 1 THEN msg_queue \ {m} ELSE msg_queue
    /\ memqueue_release(m[1])

-----------------------------------------------------------------------------
(* Messages *)

InQueue(q) == {m \in msg_queue : m[1] = q}

msgs_in_queue(q) == Cardinality(InQueue(q))

Bound(q) == {c \in Clients : \E i \in 1 .. Len(binders[q]) : binders[q][i] = c}

\* How a new message is retained: until its timer fires (expiry > 0), for
\* ever (expiry = -1), or only by the pollers that have it pending.
Retention == {"timed", "forever", "none"}

\* Mutation: the waiting polls are not signalled.
Woken_NoSignal(B) == pc

\* cli_wakeup of every client in B: a signal reaches only a waiting client.
Woken(B) == [c \in Clients |->
                IF c \in B /\ pc[c] = "wait" THEN "ready" ELSE pc[c]]

\* memqueue_msg_create: the message gets the next revision, is appended and
\* handed to every bound poller.  `dropped` are the messages is_memqueue_full
\* released first, `extra` the references to q the caller adds or drops.
memqueue_msg_create(q, keep, dropped, extra) ==
    LET m   == <<q, rev[q] + 1>>
        B   == Bound(q)
        own == IF keep = "none" THEN 0 ELSE 1
    IN  /\ rev[q] < MaxRev
        /\ rev' = [rev EXCEPT ![q] = @ + 1]
        /\ msg_queue' = (msg_queue \ {d \in dropped : msg_ref[d] = 0}) \union {m}
        /\ msg_new' = (msg_new \ dropped) \union {m}
        /\ msg_ref' = [msg_ref EXCEPT ![m] = own + Cardinality(B)]
        /\ msg_own' = IF keep = "none" THEN msg_own ELSE msg_own \union {m}
        /\ pending' = [c \in Clients |->
                        IF c \in B THEN pending[c] \union {m} ELSE pending[c]]
        /\ ref_count' = [ref_count EXCEPT ![q] =
                            @ + own + Cardinality(B) + extra]

-----------------------------------------------------------------------------
(* PUT: on_queue_create, memqueue_create.  An existing name is refused; the *)
(* handler keeps nothing across its response.                              *)
QueueCreate(id, q, o) ==
    /\ Scheduled
    /\ queue_store[id] = NULL
    /\ life[q] = "unused"
    /\ queue_store' = [queue_store EXCEPT ![id] = q]
    /\ life' = [life EXCEPT ![q] = "live"]
    /\ q_id' = [q_id EXCEPT ![q] = id]
    /\ opts' = [opts EXCEPT ![q] = o]
    /\ q_timer' = IF o.expiry THEN q_timer \union {q} ELSE q_timer
    /\ base' = base \union {q}
    /\ ref_count' = [ref_count EXCEPT ![q] = 1]
    /\ UNCHANGED <<rev, consumers, binders, msgVars, handlerVars, fault, late>>

-----------------------------------------------------------------------------
(* POST: on_msg_post *)

\* is_memqueue_full finds the limit reached.  Joined and expired notices
\* count towards msgs_in_queue but are never refused.
AtLimit(q) == opts[q].max_size > 0 /\ msgs_in_queue(q) >= opts[q].max_size

\* TAILQ_FIRST: revisions grow along the list.
Oldest(q) == {m \in InQueue(q) : \A n \in InQueue(q) : m[2] <= n[2]}

\* The message is added, after the head was dropped when the queue is full
\* and drop_from_head is set: a retain and a release of the head, which
\* removes it only if nobody else holds a reference to it.
MsgPost(c, q, keep) ==
    /\ Scheduled
    /\ pc[c] = "idle"
    /\ AtLimit(q) => opts[q].drop_from_head
    /\ memqueue_msg_create(q, keep, IF AtLimit(q) THEN Oldest(q) ELSE {}, 0)
    /\ msg_timer' = IF keep = "timed" THEN msg_timer \union {<<q, rev[q] + 1>>}
                    ELSE msg_timer
    /\ pc' = [Woken(Bound(q)) EXCEPT ![c] = "post"]
    /\ target' = [target EXCEPT ![c] = q]
    /\ UNCHANGED <<storeVars, consumers, binders, run, want, fault, late>>

\* The queue is full and rejects: MEMQUEUE_FULL.
MsgReject(c, q) ==
    /\ Scheduled
    /\ pc[c] = "idle"
    /\ AtLimit(q) /\ ~opts[q].drop_from_head
    /\ pc' = [pc EXCEPT ![c] = "post"]
    /\ target' = [target EXCEPT ![c] = q]
    /\ UNCHANGED <<storeVars, rev, ref_count, consumers, binders, msgVars,
                   run, want, pending, fault, late>>

\* After the response was written, memqueue_resched reads the queue again.
PostDone(c) ==
    /\ Scheduled
    /\ pc[c] = "post"
    /\ fault' = (life[target[c]] # "live")
    /\ pc' = [pc EXCEPT ![c] = "idle"]
    /\ target' = [target EXCEPT ![c] = NULL]
    /\ UNCHANGED <<storeVars, rev, ref_count, consumers, binders, msgVars,
                   run, want, pending, late>>

-----------------------------------------------------------------------------
(* DELETE: on_queue_delete responds first, then releases the creator's     *)
(* reference.  Nothing records that it was released.                       *)
DeleteRespond(c, q) ==
    /\ Scheduled
    /\ pc[c] = "idle"
    /\ pc' = [pc EXCEPT ![c] = "delete"]
    /\ target' = [target EXCEPT ![c] = q]
    /\ UNCHANGED <<storeVars, rev, ref_count, consumers, binders, msgVars,
                   run, want, pending, fault, late>>

DeleteRelease(c) ==
    /\ Scheduled
    /\ pc[c] = "delete"
    /\ memqueue_release(target[c])
    /\ base' = base \ {target[c]}
    /\ pc' = [pc EXCEPT ![c] = "idle"]
    /\ target' = [target EXCEPT ![c] = NULL]
    /\ UNCHANGED <<q_id, opts, q_timer, rev, consumers, binders, msgVars,
                   run, want, pending, late>>

-----------------------------------------------------------------------------
(* GET: memqueue_poll_queue, over one or several queues *)

\* A consumer_id the queue tracks and does not know yet.
NewConsumer(q, a) ==
    /\ opts[q].consumer_expiry
    /\ a.consumer_id # NULL
    /\ a.consumer_id \notin consumers[q]

\* The loop over the parameters starts; w[id] is NULL when id is not polled.
\* A consumer that will join needs a revision for its notice.
PollBegin(c, w) ==
    /\ Scheduled
    /\ pc[c] = "idle"
    /\ \E id \in QIds : w[id] # NULL
    /\ \A id \in QIds :
            LET q == queue_store[id]
            IN  (w[id] # NULL /\ q # NULL /\ NewConsumer(q, w[id]))
                    => rev[q] < MaxRev
    /\ want' = [want EXCEPT ![c] = w]
    /\ pc' = [pc EXCEPT ![c] = "bind"]
    /\ run' = c
    /\ UNCHANGED <<storeVars, rev, ref_count, consumers, binders, msgVars,
                   pending, target, fault, late>>

\* memqueue_refresh_consumer, unknown consumer: the other pollers are told
\* and the consumer retains the queue.
PollJoin(c, id) ==
    LET q == queue_store[id]
        a == want[c][id]
    IN  /\ Runs(c, "bind")
        /\ a # NULL
        /\ q # NULL
        /\ NewConsumer(q, a)
        /\ consumers' = [consumers EXCEPT ![q] = @ \union {a.consumer_id}]
        /\ memqueue_msg_create(q, "timed", {}, 1)
        /\ msg_timer' = msg_timer \union {<<q, rev[q] + 1>>}
        /\ pc' = Woken(Bound(q))
        /\ UNCHANGED <<storeVars, binders, run, want, target, fault, late>>

\* Mutation: the message after the client's revision is skipped.
Matching_SkipsNext(q, a) ==
    {m \in InQueue(q) : a.rev + 1 < m[2] \/ (a.latest /\ m \in msg_new)}

\* Mutation: the message of the client's own revision is sent again.
Matching_Inclusive(q, a) ==
    {m \in InQueue(q) : a.rev <= m[2] \/ (a.latest /\ m \in msg_new)}

\* The messages cli_binder_enqueue_msgs takes; a revision from the queue's
\* future (a queue created anew under this name) counts as "from the start".
Matching(q, a) ==
    LET from == IF rev[q] < a.rev THEN -1 ELSE a.rev
    IN  {m \in InQueue(q) : from < m[2] \/ (a.latest /\ m \in msg_new)}

\* Mutation: a message that is found is not retained.
PollBind_NoRetain(c, id) ==
    LET q == queue_store[id]
        a == want[c][id]
    IN  /\ Runs(c, "bind")
        /\ a # NULL
        /\ q # NULL
        /\ ~NewConsumer(q, a)
        /\ binders' = [binders EXCEPT ![q] = <<c>> \o @]
        /\ pending' = [pending EXCEPT ![c] = @ \union Matching(q, a)]
        /\ want' = [want EXCEPT ![c][id] = NULL]
        /\ UNCHANGED <<storeVars, rev, ref_count, consumers, msgVars, pc, run,
                       target, fault, late>>

\* memqueue_bind and cli_binder_enqueue_msgs.  The binder does not retain
\* the queue; every message taken retains itself and the queue.
PollBind(c, id) ==
    LET q == queue_store[id]
        a == want[c][id]
        M == Matching(q, a)
    IN  /\ Runs(c, "bind")
        /\ a # NULL
        /\ q # NULL
        /\ ~NewConsumer(q, a)
        /\ binders' = [binders EXCEPT ![q] = <<c>> \o @]
        /\ pending' = [pending EXCEPT ![c] = @ \union M]
        /\ msg_ref' = [m \in Messages |->
                        IF m \in M THEN msg_ref[m] + 1 ELSE msg_ref[m]]
        /\ ref_count' = [ref_count EXCEPT ![q] = @ + Cardinality(M)]
        /\ want' = [want EXCEPT ![c][id] = NULL]
        /\ UNCHANGED <<storeVars, rev, consumers, msg_queue, msg_new, msg_own,
                       msg_timer, pc, run, target, fault, late>>

\* A polled name that is not in the store is skipped.
PollSkip(c, id) ==
    /\ Runs(c, "bind")
    /\ want[c][id] # NULL
    /\ queue_store[id] = NULL
    /\ want' = [want EXCEPT ![c][id] = NULL]
    /\ UNCHANGED <<storeVars, rev, ref_count, consumers, binders, msgVars,
                   pc, run, pending, target, fault, late>>

\* Mutation: the poll waits if any of its queues had no message for it.
PollDecide_LastQueue(c) ==
    /\ Runs(c, "bind")
    /\ \A id \in QIds : want[c][id] = NULL
    /\ \/ /\ \A q \in Queues : c \notin Bound(q)
          /\ pc' = [pc EXCEPT ![c] = "idle"]
          /\ run' = NULL
       \/ /\ \E q \in Queues : c \in Bound(q) /\ \A m \in pending[c] : m[1] # q
          /\ pc' = [pc EXCEPT ![c] = "wait"]
          /\ run' = NULL
       \/ /\ pending[c] # {}
          /\ pc' = [pc EXCEPT ![c] = "ready"]
          /\ UNCHANGED run
    /\ UNCHANGED <<storeVars, rev, ref_count, consumers, binders, msgVars,
                   want, pending, target, fault, late>>

\* The end of the loop: not found, wait for a message, or answer at once.
PollDecide(c) ==
    /\ Runs(c, "bind")
    /\ \A id \in QIds : want[c][id] = NULL
    /\ \/ /\ \A q \in Queues : c \notin Bound(q)
          /\ pc' = [pc EXCEPT ![c] = "idle"]
          /\ run' = NULL
       \/ /\ \E q \in Queues : c \in Bound(q)
          /\ pending[c] = {}
          /\ pc' = [pc EXCEPT ![c] = "wait"]
          /\ run' = NULL
       \/ /\ pending[c] # {}
          /\ pc' = [pc EXCEPT ![c] = "ready"]
          /\ UNCHANGED run
    /\ UNCHANGED <<storeVars, rev, ref_count, consumers, binders, msgVars,
                   want, pending, target, fault, late>>

\* lthread_cond_wait returns because the poll's timeout elapsed.
PollTimeout(c) ==
    /\ Scheduled
    /\ pc[c] = "wait"
    /\ pc' = [pc EXCEPT ![c] = "ready"]
    /\ UNCHANGED <<storeVars, rev, ref_count, consumers, binders, msgVars,
                   run, want, pending, target, fault, late>>

\* Mutation: a poll without messages is not answered.
PollRespond_OnlyMsgs(c) ==
    /\ Runs(c, "ready")
    /\ pending[c] # {}
    /\ fault' = (\E m \in pending[c] : life[m[1]] # "live")
    /\ pc' = [pc EXCEPT ![c] = "reply"]
    /\ run' = NULL
    /\ UNCHANGED <<storeVars, rev, ref_count, consumers, binders, msgVars,
                   want, pending, target, late>>

\* memqueue_respond builds the result from the pending messages, reading
\* their queues, and starts to write it: MEMQUEUE_MSGS or MEMQUEUE_TIMEOUT.
PollRespond(c) ==
    /\ Runs(c, "ready")
    /\ fault' = (\E m \in pending[c] : life[m[1]] # "live")
    /\ pc' = [pc EXCEPT ![c] = "reply"]
    /\ run' = NULL
    /\ UNCHANGED <<storeVars, rev, ref_count, consumers, binders, msgVars,
                   want, pending, target, late>>

\* LIST_REMOVE of client c's binder, wherever it is in the list.
Unlink(s, c) ==
    IF \E i \in 1 .. Len(s) : s[i] = c
    THEN LET i == CHOOSE j \in 1 .. Len(s) : s[j] = c
         IN  SubSeq(s, 1, i - 1) \o SubSeq(s, i + 1, Len(s))
    ELSE s

\* The response is written: memqueue_unbind_all.  Unlinking the first binder
\* of a queue writes the list head inside the queue.
PollUnbind(c) ==
    /\ Scheduled
    /\ pc[c] = "reply"
    /\ fault' = (\E q \in Queues : /\ life[q] # "live"
                                   /\ binders[q] # <<>>
                                   /\ Head(binders[q]) = c)
    /\ binders' = [q \in Queues |-> Unlink(binders[q], c)]
    /\ pc' = [pc EXCEPT ![c] = "release"]
    /\ run' = c
    /\ UNCHANGED <<storeVars, rev, ref_count, consumers, msgVars, want,
                   pending, target, late>>

\* One turn of cli_binder_release_pending_msgs.
PollRelease(c, m) ==
    /\ Runs(c, "release")
    /\ m \in pending[c]
    /\ memqueue_msg_release(m)
    /\ pending' = [pending EXCEPT ![c] = @ \ {m}]
    /\ UNCHANGED <<q_id, opts, q_timer, base, rev, consumers, binders, msg_own,
                   msg_timer, pc, run, want, target, late>>

\* cli_binder_free; the connection is ready for another request.
PollFree(c) ==
    /\ Runs(c, "release")
    /\ pending[c] = {}
    /\ pc' = [pc EXCEPT ![c] = "idle"]
    /\ run' = NULL
    /\ UNCHANGED <<storeVars, rev, ref_count, consumers, binders, msgVars,
                   want, pending, target, fault, late>>

-----------------------------------------------------------------------------
(* The cleaner lthread: objs_expire, one due object at a time *)

\* obj->expiry_node = NULL, after the release: o is written to although it was
\* freed, unless somebody else still retained it.  Nothing is allocated in
\* between, so the store changes nothing that anybody reads.
ClearNode(retained, o) == late' = IF retained THEN late ELSE late \union {o}

\* Mutation: the expired message stays linked in its expiry node.
MsgExpire_KeepsTimer(m) ==
    /\ Scheduled
    /\ m \in msg_timer
    /\ msg_own' = msg_own \ {m}
    /\ memqueue_msg_release(m)
    /\ ClearNode(m \in msg_queue', <<"msg", m>>)
    /\ UNCHANGED <<q_id, opts, q_timer, base, rev, consumers, binders,
                   msg_timer, handlerVars>>

MsgExpire(m) ==
    /\ Scheduled
    /\ m \in msg_timer
    /\ msg_timer' = msg_timer \ {m}
    /\ msg_own' = msg_own \ {m}
    /\ memqueue_msg_release(m)
    /\ ClearNode(m \in msg_queue', <<"msg", m>>)
    /\ UNCHANGED <<q_id, opts, q_timer, base, rev, consumers, binders,
                   handlerVars>>

QueueExpire(q) ==
    /\ Scheduled
    /\ q \in q_timer
    /\ q_timer' = q_timer \ {q}
    /\ base' = base \ {q}
    /\ memqueue_release(q)
    /\ ClearNode(life'[q] = "live", <<"queue", q>>)
    /\ UNCHANGED <<q_id, opts, rev, consumers, binders, msgVars, handlerVars>>

\* consumer_expired: the other pollers are told, the consumer's reference is
\* released (the notice just created holds another one) and the consumer is
\* removed and freed.  A queue that was freed took its consumers' memory with
\* it.
ConsumerExpire(q, k) ==
    /\ Scheduled
    /\ k \in consumers[q]
    /\ consumers' = [consumers EXCEPT ![q] = @ \ {k}]
    /\ memqueue_msg_create(q, "timed", {}, -1)
    /\ msg_timer' = msg_timer \union {<<q, rev[q] + 1>>}
    /\ pc' = Woken(Bound(q))
    /\ fault' = (life[q] # "live")
    /\ ClearNode(FALSE, <<"consumer", <<q, k>>>>)
    /\ UNCHANGED <<storeVars, binders, run, want, target>>

-----------------------------------------------------------------------------
\* The parameters of one poll: distinct names, each with its own arguments.
PollRequests == [QIds -> PollArgs \union {NULL}]

Create == \E id \in QIds, q \in Queues, o \in QueueOptions : QueueCreate(id, q, o)

Post(c) == \E id \in QIds : /\ queue_store[id] # NULL
                            /\ \/ \E keep \in Retention :
                                    MsgPost(c, queue_store[id], keep)
                               \/ MsgReject(c, queue_store[id])

Delete(c) == \E id \in QIds : /\ queue_store[id] # NULL
                              /\ DeleteRespond(c, queue_store[id])

\* The steps of a poll that has the processor until it yields.
PollStep(c) == \/ \E id \in QIds : \/ PollJoin(c, id)
                                   \/ PollBind(c, id)
                                   \/ PollSkip(c, id)
               \/ PollDecide(c)
               \/ PollRespond(c)
               \/ \E m \in pending[c] : PollRelease(c, m)
               \/ PollFree(c)

Handler(c) == \/ Post(c)
              \/ PostDone(c)
              \/ Delete(c)
              \/ DeleteRelease(c)
              \/ \E w \in PollRequests : PollBegin(c, w)
              \/ PollStep(c)
              \/ PollTimeout(c)
              \/ PollUnbind(c)

Cleaner == \/ \E m \in msg_timer : MsgExpire(m)
           \/ \E q \in q_timer : QueueExpire(q)
           \/ \E q \in Queues : \E k \in consumers[q] : ConsumerExpire(q, k)

Next == Create \/ Cleaner \/ \E c \in Clients : Handler(c)

\* The lthread scheduler runs every ready lthread in turn, so a poll that is
\* ready or has the processor goes on.  Nothing is assumed of new requests,
\* of timeouts, of timers, or of peers that never drain their socket.
Fairness == \A c \in Clients : SF_vars(PollStep(c))

Spec == Init /\ [][Next]_vars /\ Fairness

-----------------------------------------------------------------------------
(* Properties *)

\* Types of the state of memqueue.c; a poll only has the processor while it
\* binds, answers or releases.
TypeOK ==
    /\ queue_store \in [QIds -> Queues \union {NULL}]
    /\ life \in [Queues -> {"unused", "live", "freed"}]
    /\ q_id \in [Queues -> QIds \union {NULL}]
    /\ opts \in [Queues -> QueueOptions \union {NULL}]
    /\ rev \in [Queues -> 0 .. MaxRev]
    /\ ref_count \in [Queues -> Int]
    /\ q_timer \subseteq Queues
    /\ base \subseteq Queues
    /\ consumers \in [Queues -> SUBSET ConsumerIds]
    /\ binders \in [Queues -> Seq(Clients)]
    /\ msg_queue \subseteq Messages
    /\ msg_new \subseteq Messages
    /\ msg_ref \in [Messages -> Int]
    /\ msg_own \subseteq Messages
    /\ msg_timer \subseteq msg_own
    /\ pc \in [Clients -> PCs]
    /\ run \in Clients \union {NULL}
    /\ want \in [Clients -> PollRequests]
    /\ pending \in [Clients -> SUBSET Messages]
    /\ target \in [Clients -> Queues \union {NULL}]
    /\ fault \in BOOLEAN
    /\ late \subseteq TimedObjects

\* h_insert on creation and h_remove on the last release keep the store
\* exact: a name leads to a live queue of that name, and every live queue
\* can be found under its name - also while a queue of the same name was
\* freed earlier or is being deleted.
StoreExact ==
    /\ \A id \in QIds : queue_store[id] # NULL =>
            /\ life[queue_store[id]] = "live"
            /\ q_id[queue_store[id]] = id
    /\ \A q \in Queues : life[q] = "live" => /\ q_id[q] \in QIds
                                             /\ queue_store[q_id[q]] = q

Holders(m) == {c \in Clients : m \in pending[c]}

\* msg->ref_count counts exactly the creator's retention and the polls that
\* have the message pending, so memqueue_msg_release frees a message when the
\* last of them lets go, never earlier and never later, and its assertion
\* ref_count >= 0 holds.
MsgRefExact ==
    ~fault => \A m \in Messages :
        msg_ref[m] = (IF m \in msg_own THEN 1 ELSE 0) + Cardinality(Holders(m))

\* A message that a poll still has to send or release is still linked in its
\* queue: neither its timer nor drop_from_head nor another poll removed it.
PendingIsQueued ==
    ~fault => \A c \in Clients : pending[c] \subseteq msg_queue

\* A poll never sleeps on its condition variable with a message already
\* pending: the signal of memqueue_msg_create is not lost between the check
\* of total_msgs and lthread_cond_wait, nor while other polls come and go.
NoLostWakeup == \A c \in Clients : pc[c] = "wait" => pending[c] = {}

\* A poll that has a message pending, or whose wait timed out, gets to write
\* its response: neither other requests nor the cleaner can keep it waiting.
PollIsAnswered ==
    \A c \in Clients :
        (pc[c] = "ready" \/ (pc[c] \in {"bind", "wait"} /\ pending[c] # {}))
            ~> (pc[c] = "reply" \/ fault)

\* Apart from the store recorded in `late`, no handler and no timer uses a
\* queue after it was freed.
NoFault == ~fault

\* The references to a queue the code accounts for: its creator's, its
\* registered consumers', its retained messages' and the pending messages'.
Retained(q) == {m \in msg_own : m[1] = q}
Held(q) == {p \in Clients \X Messages : p[2] \in pending[p[1]] /\ p[2][1] = q}
References(q) == (IF q \in base THEN 1 ELSE 0) + Cardinality(consumers[q])
                 + Cardinality(Retained(q)) + Cardinality(Held(q))

\* q->ref_count is exactly the number of references, so memqueue_release
\* frees a queue with its last reference and its assertion holds.
QueueRefExact == \A q \in Queues : ref_count[q] = References(q)

-----------------------------------------------------------------------------
(* The inductive invariant behind the theorems of MemQueueProofs *)

\* Where a poll is determines what it owns: the processor, the parameters
\* left, its binders (at most one per queue) and its pending messages.
ClientShape(c) ==
    /\ pc[c] \in {"bind", "release"} => run = c
    /\ run = c => pc[c] \in {"bind", "ready", "release"}
    /\ pc[c] # "bind" => \A id \in QIds : want[c][id] = NULL
    /\ target[c] # NULL <=> pc[c] \in {"post", "delete"}
    /\ pending[c] # {} => pc[c] \in {"bind", "ready", "reply", "release"}
    /\ \A m \in pending[c] : c \in Bound(m[1]) \/ pc[c] = "release"
    /\ \A q \in Queues : c \in Bound(q) => pc[c] \in {"bind", "wait", "ready", "reply"}
    /\ \A id \in QIds : (want[c][id] # NULL /\ queue_store[id] # NULL)
            => c \notin Bound(queue_store[id])

BindersDistinct ==
    \A q \in Queues : \A i, j \in 1 .. Len(binders[q]) :
        binders[q][i] = binders[q][j] => i = j

PollShape == BindersDistinct /\ \A c \in Clients : ClientShape(c)

\* Revisions only grow, so the message about to be created is new.
RevsUsed ==
    /\ \A m \in msg_queue : m[2] <= rev[m[1]]
    /\ msg_own \subseteq msg_queue

\* A queue has references exactly while it is allocated.
LiveIsReferenced ==
    \A q \in Queues : IF life[q] = "live" THEN ref_count[q] >= 1
                                          ELSE ref_count[q] = 0

EngineShape ==
    /\ StoreExact
    /\ PollShape
    /\ RevsUsed
    /\ LiveIsReferenced
    /\ MsgRefExact
    /\ PendingIsQueued

\* Holds in every behaviour of the engine until freed memory is used.
EngineInv ==
    /\ TypeOK
    /\ ~fault => EngineShape

=============================================================================
