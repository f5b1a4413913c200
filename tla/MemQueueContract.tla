-------------------------- MODULE MemQueueContract --------------------------
(***************************************************************************)
(* The clients' side of the engine's ownership rules.  A binder, a POST    *)
(* and a DELETE use their queue across a yield without retaining it, and a *)
(* deleted or expired queue stays visible while messages or consumers keep *)
(* it alive.  memqueue.c is therefore safe only for clients and expiry     *)
(* times that keep the contract below; this module states it, and under it *)
(* the engine's reference counts are exact and no freed queue is used but  *)
(* by a store of objs_expire that nobody can see.                          *)
(***************************************************************************)
EXTENDS MemQueue

\* No request uses q: none bound to it, none writing a response about it.
Quiet(q) == binders[q] = <<>> /\ \A c \in Clients : target[c] # q

\* q has neither expired nor been deleted, and no DELETE of it is under way.
Available(q) == q \in base /\ \A c \in Clients : ~(pc[c] = "delete" /\ target[c] = q)

\* A POST or DELETE is sent only for a queue that is available.
RequestsAvailable ==
    \A c \in Clients :
        (target'[c] # target[c] /\ target'[c] # NULL) => Available(target'[c])

\* A queue is deleted only if it has no expiry and no request is using it.
DeletesAreExclusive ==
    \A c \in Clients :
        (pc[c] # "delete" /\ pc'[c] = "delete")
            => Quiet(target'[c]) /\ ~opts[target'[c]].expiry

\* A poll names no queue that is being, or has been, deleted or expired.
PollsAvailable ==
    \A c \in Clients : \A id \in QIds :
        (pc[c] = "idle" /\ pc'[c] = "bind" /\ want'[c][id] # NULL
            /\ queue_store[id] # NULL) => Available(queue_store[id])

\* The expiry of a queue exceeds the time of every request about it, polls
\* waiting for messages included: its timer never fires during one.
ExpiryOutlastsRequests == \A q \in q_timer \ q_timer' : Quiet(q)

Contract == /\ RequestsAvailable
            /\ DeletesAreExclusive
            /\ PollsAvailable
            /\ ExpiryOutlastsRequests

ContractNext == Next /\ Contract

ContractSpec == Init /\ [][ContractNext]_vars

\* objs_expire stores in a message or queue that its own release has just freed.
\* Nobody else refers to that object any more: a message is in no list and
\* pending for no poll, and a queue is in neither the store nor a timer, and no
\* consumer, message or request is left that would read what was stored, or
\* free the object again.
LateIsUnseen ==
    /\ \A m \in Messages : <<"msg", m>> \in late =>
            m \notin msg_queue \union msg_timer /\ Holders(m) = {}
    /\ \A q \in Queues : <<"queue", q>> \in late =>
            /\ Quiet(q) /\ consumers[q] = {} /\ Retained(q) = {} /\ Held(q) = {}
            /\ q \notin q_timer /\ \A id \in QIds : queue_store[id] # q

\* memqueue_refresh_consumer says it retains the queue "so that when the
\* consumer expires the queue will still be there".  DELETE releases the
\* creator's reference each time it is called, and the queue's timer does so
\* once more, so for clients that do not keep the contract the consumer's
\* reference can be the one they drop.
ConsumerKeepsQueue ==
    \A q \in Queues : consumers[q] # {} => life[q] = "live"

-----------------------------------------------------------------------------
(* The inductive invariant behind the contract's theorems, in MemQueueProofs *)

\* Under the contract whoever uses a queue finds the creator's reference.
UsersAreBased ==
    /\ \A q \in Queues : ~Quiet(q) => q \in base
    /\ q_timer \subseteq base
    /\ \A q \in q_timer : opts[q].expiry
    /\ \A c \in Clients : \A id \in QIds :
        (want[c][id] # NULL /\ queue_store[id] # NULL)
            => Available(queue_store[id])
    /\ \A c \in Clients : pc[c] = "delete" =>
        /\ binders[target[c]] = <<>>
        /\ target[c] \notin q_timer
        /\ \A d \in Clients : target[d] = target[c] => d = c

\* What objs_expire stored in after a release has been freed for good.
LateIsFreed ==
    /\ \A m \in Messages : <<"msg", m>> \in late =>
            m \notin msg_queue /\ m[2] <= rev[m[1]]
    /\ \A q \in Queues : <<"queue", q>> \in late => life[q] = "freed"

ContractInv == EngineInv /\ ~fault /\ QueueRefExact /\ UsersAreBased

=============================================================================
