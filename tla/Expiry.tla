------------------------------- MODULE Expiry -------------------------------
(***************************************************************************)
(* The expiry timers of memqueue (memqueue_expiry.c) and the cleaner       *)
(* lthread that serves them (obj_cleaner).  Messages, queues and consumers *)
(* each have a tree of expiry nodes; a node is a deadline and the list of  *)
(* objects due then.  Deadlines are uint32 milliseconds since the server   *)
(* started.                                                                *)
(*                                                                         *)
(* A tree is the set of its deadlines, and one walk of the cleaner expires *)
(* at least one due node, and any others of them: the abstraction that     *)
(* DeadlineSet states and RBTree implements.                               *)
(***************************************************************************)
EXTENDS Integers, Sequences, FiniteSets

CONSTANTS
    Msgs, Queues, Consumers,    \* objects with an expiry time
    QueueOf,        \* the queue each consumer is registered at
    Period,         \* milliseconds each object lives after its activity
    ClockMod,       \* 2^32: deadlines are kept modulo this
    MaxNow,         \* bound: milliseconds the model runs
    NULL, DANGLING

\* The notices a consumer causes: "joined" when it is new, "expired" later.
Notices == Consumers \X {"joined", "expired"}
Messages == Msgs \union Notices
Rescheduled == Queues \union Consumers
Objs == Messages \union Rescheduled

ASSUME ConstantsAssumption ==
    /\ IsFiniteSet(Consumers)
    /\ Messages \cap Rescheduled = {} /\ Queues \cap Consumers = {}
    /\ QueueOf \in [Consumers -> Queues]
    /\ Period \in [Objs -> Nat \ {0}]
    /\ ClockMod \in Nat \ {0} /\ MaxNow \in Nat
    /\ NULL # DANGLING /\ NULL \notin Nat \union Objs /\ DANGLING \notin Nat

Deadlines == 0 .. ClockMod - 1
Types == {"msg", "queue", "consumer"}
TypeOf(o) == IF o \in Queues THEN "queue"
             ELSE IF o \in Consumers THEN "consumer" ELSE "msg"

VARIABLES
    now,            \* tick_diff_msecs(birth, rdtsc()), before truncation
    tree,           \* type -> deadlines that have an expiry node
    link,           \* object -> deadline of the node whose list it is in
    expiry_node,    \* o->expiry_node of queues and consumers
    gone,           \* objects that expired
    calls,          \* scheduling calls the running lthread still has to make
    pc,             \* the cleaner: waits, or walks the tree of a type
    t_diff,         \* the time the current walk compares with
    hit,            \* the current walk has expired a node
    wake,           \* when the cleaner's wait times out, NULL: never
    signalled,      \* the cleaner was signalled during its wait
    active,         \* history: time of each object's last activity
    joined,         \* history: queues and consumers in a node they found there
    fault           \* a freed expiry node has been used

cleanerVars == <<pc, t_diff, hit, wake>>
vars == <<now, tree, link, expiry_node, gone, calls, cleanerVars, signalled,
          active, joined, fault>>

Init ==
    /\ now = 0
    /\ tree = [ty \in Types |-> {}]
    /\ link = [o \in Objs |-> NULL]
    /\ expiry_node = [o \in Rescheduled |-> NULL]
    /\ gone = {}
    /\ calls = <<>>
    /\ pc = "wait" /\ t_diff = 0 /\ hit = FALSE /\ wake = NULL
    /\ signalled = FALSE
    /\ active = [o \in Objs |-> 0] /\ joined = {}
    /\ fault = FALSE

\* No lthread is in the middle of something: the scheduler picks one.
Yielded == ~fault /\ calls = <<>> /\ pc = "wait"

msecs_now == now % ClockMod

Nodes(tr) == UNION {tr[ty] : ty \in Types}

\* Mutation: deadlines that have passed are left out.
MinTimeout_OnlyFuture(tr, r) ==
    \/ (\A k \in Nodes(tr) : k <= msecs_now) /\ r = 0
    \/ \E k \in Nodes(tr) : /\ k > msecs_now
                            /\ \A j \in Nodes(tr) : j > msecs_now => k <= j
                            /\ r = k - msecs_now

\* sched_get_min_timeout: 0 without nodes, 1 when one is due, otherwise the
\* time to the first deadline.
MinTimeout(tr, r) ==
    \/ Nodes(tr) = {} /\ r = 0
    \/ (\E k \in Nodes(tr) : k <= msecs_now) /\ r = 1
    \/ \E k \in Nodes(tr) : /\ k > msecs_now
                            /\ \A j \in Nodes(tr) : k <= j
                            /\ r = k - msecs_now

\* Mutation: a cleaner that waits for ever is not signalled.
obj_sched_expire_NoFirst(o, tr, ptr) ==
    LET ty  == TypeOf(o)
        key == (now + Period[o]) % ClockMod
    IN  /\ \E r \in 0 .. ClockMod :
            /\ MinTimeout(tr, r)
            /\ signalled' = (signalled \/ (pc = "wait" /\ r > Period[o]))
        /\ tree' = [tr EXCEPT ![ty] = @ \union {key}]
        /\ link' = [link EXCEPT ![o] = key]
        /\ expiry_node' = IF key \notin tr[ty] /\ o \in Rescheduled
                          THEN [ptr EXCEPT ![o] = key] ELSE ptr
        /\ joined' = (joined \ {o}) \union {p \in {o} \cap Rescheduled : key \in tr[ty]}

\* obj_sched_expire, from the trees tr: wakes the cleaner if the new deadline
\* comes before what it waits for.  Only an object that needs a new node
\* gets its expiry_node set; one that joins a node keeps the pointer it had
\* in ptr.
obj_sched_expire(o, tr, ptr) ==
    LET ty  == TypeOf(o)
        key == (now + Period[o]) % ClockMod
    IN  /\ \E r \in 0 .. ClockMod :
            /\ MinTimeout(tr, r)
            /\ signalled' = (signalled \/ (pc = "wait" /\ (r = 0 \/ r > Period[o])))
        /\ tree' = [tr EXCEPT ![ty] = @ \union {key}]
        /\ link' = [link EXCEPT ![o] = key]
        /\ expiry_node' = IF key \notin tr[ty] /\ o \in Rescheduled
                          THEN [ptr EXCEPT ![o] = key] ELSE ptr
        /\ joined' = (joined \ {o}) \union {p \in {o} \cap Rescheduled : key \in tr[ty]}

\* The expiry_node fields after node k of type ty was freed: who still points
\* to it has a dangling pointer.
Freed(ty, k) ==
    [p \in Rescheduled |->
        IF TypeOf(p) = ty /\ expiry_node[p] = k THEN DANGLING ELSE expiry_node[p]]

\* Mutation: the test of expiry_node is inverted.
Resched_Inverted(o) ==
    /\ fault' = (expiry_node[o] = DANGLING)
    /\ UNCHANGED <<tree, link, expiry_node, signalled, joined>>

\* memqueue_resched and consumer_resched.  The object leaves its list, but the
\* node that is tested and freed is the one expiry_node points to.
Resched(o) ==
    LET ty    == TypeOf(o)
        k     == expiry_node[o]
        empty == \A p \in Objs \ {o} : TypeOf(p) = ty => link[p] # k
    IN  /\ fault' = (k = DANGLING)
        /\ IF k \in {NULL, DANGLING}
           THEN UNCHANGED <<tree, link, expiry_node, signalled, joined>>
           ELSE IF empty
           THEN obj_sched_expire(o, [tree EXCEPT ![ty] = @ \ {k}],
                                 [Freed(ty, k) EXCEPT ![o] = NULL])
           ELSE obj_sched_expire(o, tree, expiry_node)

-----------------------------------------------------------------------------
(* The requests that set or restart timers *)

\* A resched for a queue or consumer that has a timer, obj_sched_expire for an
\* object that has none: the next call of the lthread that has the processor.
Call ==
    LET o == Head(calls)
    IN  /\ ~fault
        /\ calls # <<>>
        /\ calls' = Tail(calls)
        /\ active' = [active EXCEPT ![o] = now]
        /\ IF o \in Rescheduled /\ link[o] # NULL
           THEN Resched(o)
           ELSE obj_sched_expire(o, tree, expiry_node) /\ UNCHANGED fault
        /\ UNCHANGED <<now, gone, cleanerVars>>

Fresh(o) == link[o] = NULL /\ o \notin gone

\* memqueue_create and memqueue_msg_create set the object's timer.
Create(o) ==
    /\ Yielded
    /\ o \in Queues \union Msgs
    /\ Fresh(o)
    /\ calls' = <<o>>
    /\ UNCHANGED <<now, tree, link, expiry_node, gone, cleanerVars, signalled,
                   active, joined, fault>>

\* on_msg_post, after its response: activity restarts the queue's timer.
PostDone(q) ==
    /\ Yielded
    /\ link[q] # NULL
    /\ calls' = <<q>>
    /\ UNCHANGED <<now, tree, link, expiry_node, gone, cleanerVars, signalled,
                   active, joined, fault>>

\* Mutation: a poll without consumer_id registers a consumer too.
PollBegin_NoConsumerCheck(q, k) ==
    /\ Yielded
    /\ link[q] # NULL
    /\ k # NULL => QueueOf[k] = q /\ k \notin gone
    /\ calls' = (IF k \in Consumers /\ link[k] # NULL THEN <<k>>
                 ELSE << <<k, "joined">>, k >>) \o <<q>>
    /\ UNCHANGED <<now, tree, link, expiry_node, gone, cleanerVars, signalled,
                   active, joined, fault>>

\* memqueue_poll_queue: the consumer, if one is named, is announced when it
\* is new, its timer is set or restarted, and then the queue's.
PollBegin(q, k) ==
    /\ Yielded
    /\ link[q] # NULL
    /\ k # NULL => QueueOf[k] = q /\ k \notin gone
    /\ calls' = (IF k = NULL THEN <<>>
                 ELSE IF link[k] = NULL THEN << <<k, "joined">>, k >>
                 ELSE <<k>>) \o <<q>>
    /\ UNCHANGED <<now, tree, link, expiry_node, gone, cleanerVars, signalled,
                   active, joined, fault>>

-----------------------------------------------------------------------------
(* obj_cleaner *)

\* The cleaner has the processor and walks the tree of type ty.
Walks(ty) == ~fault /\ calls = <<>> /\ pc = ty

Due(ty) == {k \in tree[ty] : k <= t_diff}

\* lthread_cond_wait returns: signalled or timed out.
CleanerWake ==
    /\ Yielded
    /\ signalled \/ (wake # NULL /\ now >= wake)
    /\ signalled' = FALSE
    /\ pc' = "msg" /\ t_diff' = msecs_now /\ hit' = FALSE /\ wake' = NULL
    /\ UNCHANGED <<now, tree, link, expiry_node, gone, calls, active, joined, fault>>

\* Mutation: expiry_node is not reset when an object expires.
ExpireNode_KeepsPtr(ty, k) ==
    LET O == {o \in Objs : TypeOf(o) = ty /\ link[o] = k}
    IN  /\ Walks(ty)
        /\ k \in Due(ty)
        /\ tree' = [tree EXCEPT ![ty] = @ \ {k}]
        /\ link' = [o \in Objs |-> IF o \in O THEN NULL ELSE link[o]]
        /\ expiry_node' = Freed(ty, k)
        /\ gone' = gone \union O
        /\ calls' = <<>>
        /\ hit' = TRUE
        /\ UNCHANGED <<now, pc, t_diff, wake, signalled, active, joined, fault>>

\* objs_expire at a due node: its objects expire and it is freed.  Consumers
\* leave an "expired" notice each, which is scheduled there and then.
ExpireNode(ty, k) ==
    LET O == {o \in Objs : TypeOf(o) = ty /\ link[o] = k}
    IN  /\ Walks(ty)
        /\ k \in Due(ty)
        /\ tree' = [tree EXCEPT ![ty] = @ \ {k}]
        /\ link' = [o \in Objs |-> IF o \in O THEN NULL ELSE link[o]]
        /\ expiry_node' = [p \in Rescheduled |->
                            IF p \in O THEN NULL ELSE Freed(ty, k)[p]]
        /\ gone' = gone \union O
        /\ \E s \in [1 .. Cardinality(O) -> O] :
            /\ \A o \in O : \E i \in 1 .. Cardinality(O) : s[i] = o
            /\ calls' = IF ty = "consumer"
                        THEN [i \in 1 .. Cardinality(O) |-> <<s[i], "expired">>]
                        ELSE <<>>
        /\ hit' = TRUE
        /\ UNCHANGED <<now, pc, t_diff, wake, signalled, active, joined, fault>>

\* The walk ends, and the one over the next tree begins.
NextWalk(ty, next) ==
    /\ Walks(ty)
    /\ <<ty, next>> \in {<<"msg", "queue">>, <<"queue", "consumer">>}
    /\ hit \/ Due(ty) = {}
    /\ pc' = next /\ t_diff' = msecs_now /\ hit' = FALSE
    /\ UNCHANGED <<now, tree, link, expiry_node, gone, calls, wake, signalled,
                   active, joined, fault>>

\* After the last walk: 1 means go round again at once, anything else is the
\* time to wait, 0 for ever.
CleanerSleep ==
    /\ Walks("consumer")
    /\ hit \/ Due("consumer") = {}
    /\ \E sleep \in 0 .. ClockMod :
        /\ MinTimeout(tree, sleep)
        /\ pc' = IF sleep = 1 THEN "msg" ELSE "wait"
        /\ wake' = IF sleep \in {0, 1} THEN NULL ELSE now + sleep
    /\ t_diff' = msecs_now /\ hit' = FALSE
    /\ UNCHANGED <<now, tree, link, expiry_node, gone, calls, signalled,
                   active, joined, fault>>

Cleaner == \/ CleanerWake
           \/ \E ty \in Types : \/ \E k \in Deadlines : ExpireNode(ty, k)
                                \/ \E next \in Types : NextWalk(ty, next)
           \/ CleanerSleep

Tick ==
    /\ ~fault
    /\ now < MaxNow
    /\ now' = now + 1
    /\ UNCHANGED <<tree, link, expiry_node, gone, calls, cleanerVars,
                   signalled, active, joined, fault>>

Request == \/ \E o \in Objs : Create(o)
           \/ \E q \in Queues : \/ PostDone(q)
                                \/ PollBegin(q, NULL)
                                \/ \E k \in Consumers : PollBegin(q, k)

Next == Request \/ Call \/ Cleaner \/ Tick

\* The lthread that has the processor goes on, and the scheduler gives every
\* ready lthread, the cleaner too, its turn.
Fairness == WF_vars(Call) /\ SF_vars(Cleaner)

Spec == Init /\ [][Next]_vars /\ Fairness

-----------------------------------------------------------------------------
(* Properties *)

\* Types of the timers' state.
TypeOK ==
    /\ now \in 0 .. MaxNow
    /\ tree \in [Types -> SUBSET Deadlines]
    /\ link \in [Objs -> Deadlines \union {NULL}]
    /\ expiry_node \in [Rescheduled -> Deadlines \union {NULL, DANGLING}]
    /\ gone \subseteq Objs
    /\ calls \in Seq(Objs)
    /\ pc \in Types \union {"wait"}
    /\ t_diff \in Deadlines
    /\ hit \in BOOLEAN
    /\ wake \in Nat \union {NULL}
    /\ signalled \in BOOLEAN
    /\ active \in [Objs -> 0 .. MaxNow] /\ joined \subseteq Rescheduled
    /\ fault \in BOOLEAN

\* The server has been up for less than ClockMod ms and no deadline wraps.
NoWrap == MaxNow < ClockMod /\ \A o \in Objs : MaxNow + Period[o] < ClockMod

\* The cleaner never oversleeps: while it waits and nobody has signalled it,
\* every expiry node is due no earlier than the cleaner wakes.  The comparison
\* in obj_sched_expire that decides on the signal, and the special values 0
\* and 1 of sched_get_min_timeout, must be right for this.
SleepCovers ==
    (pc = "wait" /\ ~signalled) =>
        \A k \in Nodes(tree) : wake # NULL /\ wake <= k

\* An object that is due expires, or is given a later deadline.
OverdueExpires ==
    \A o \in Objs :
        (link[o] # NULL /\ link[o] <= now) ~> (link[o] = NULL \/ link[o] > now \/ fault)

\* README, expiry and consumer_expiry: a queue is removed, and a consumer is
\* forgotten, only after that many milliseconds without polls and posts.
InactivityPromised ==
    [][\A o \in Rescheduled : o \in gone' \ gone => now >= active[o] + Period[o]]_vars

\* That holds for every object that was given an expiry node of its own when
\* it was last scheduled, whatever other objects joined that node since.
InactivityRespected ==
    [][\A o \in Rescheduled \ joined :
            o \in gone' \ gone => now >= active[o] + Period[o]]_vars

\* The expiry_node of such an object leads to the node it is linked in: no
\* resched of another object and no walk of the cleaner frees the node under
\* it.  What it frees itself later is the node that it empties.
NodePtrExact == \A o \in Rescheduled \ joined : expiry_node[o] = link[o]

=============================================================================
