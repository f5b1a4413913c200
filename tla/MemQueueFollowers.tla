------------------------- MODULE MemQueueFollowers -------------------------
(***************************************************************************)
(* The engine together with clients that use it as the README describes:   *)
(* each poll gives the revision the client is at, and the client takes its *)
(* next revision from the answer.  http_respond ignores the result of the  *)
(* write, so an answer may be lost; the client then polls again from the   *)
(* revision it had.                                                        *)
(***************************************************************************)
EXTENDS MemQueue

VARIABLES
    seen,       \* per client and queue name: the revision it is at
    got,        \* messages the client received
    body,       \* messages in the answer that is being written
    upto,       \* the revisions that answer carries, by queue name
    owed        \* history: messages without an expiry that a poll took and
                \* has yet to answer with

followerVars == <<seen, got, body, upto, owed>>
fvars == <<vars, followerVars>>

FollowerInit ==
    /\ Init
    /\ seen = [c \in Clients |-> [id \in QIds |-> 0]]
    /\ upto = [c \in Clients |-> [id \in QIds |-> 0]]
    /\ got = [c \in Clients |-> {}]
    /\ body = [c \in Clients |-> {}]
    /\ owed = {}

\* A follower polls from the revisions it is at.
FollowBegin(c, w) ==
    /\ \A id \in QIds : w[id] # NULL => w[id].rev = seen[c][id] /\ ~w[id].latest
    /\ PollBegin(c, w)
    /\ UNCHANGED followerVars

\* memqueue_create_result: the pending messages and, for each queue that has
\* one, the revision the queue has when the answer is built.
FollowRespond(c) ==
    /\ PollRespond(c)
    /\ body' = [body EXCEPT ![c] = pending[c]]
    /\ upto' = [upto EXCEPT ![c] = [id \in QIds |->
                    IF \E m \in pending[c] : q_id[m[1]] = id
                    THEN rev[(CHOOSE m \in pending[c] : q_id[m[1]] = id)[1]]
                    ELSE seen[c][id]]]
    /\ owed' = owed \ ({c} \X pending[c])
    /\ UNCHANGED <<seen, got>>

\* The answer is written: the client has it, or it was lost on the way.
FollowDone(c) ==
    /\ PollUnbind(c)
    /\ \/ /\ got' = [got EXCEPT ![c] = @ \union body[c]]
          /\ seen' = [seen EXCEPT ![c] = upto[c]]
       \/ UNCHANGED <<got, seen>>
    /\ body' = [body EXCEPT ![c] = {}]
    /\ UNCHANGED <<upto, owed>>

\* A message that nobody retains but the polls bound to its queue is owed to
\* those of them that are not writing their answer yet.
FollowPost(c) ==
    /\ Post(c)
    /\ owed' = owed \union
            {p \in Clients \X (msg_queue' \ (msg_queue \union msg_own')) :
                p[2] \in pending'[p[1]] /\ pc[p[1]] # "reply"}
    /\ UNCHANGED <<seen, got, body, upto>>

\* The steps a follower does not see.
Unseen(c) == \/ PostDone(c)
             \/ Delete(c)
             \/ DeleteRelease(c)
             \/ \E id \in QIds : PollJoin(c, id) \/ PollBind(c, id) \/ PollSkip(c, id)
             \/ PollDecide(c)
             \/ \E m \in pending[c] : PollRelease(c, m)
             \/ PollFree(c)
             \/ PollTimeout(c)

FollowerNext ==
    \/ \E c \in Clients : \/ \E w \in PollRequests : FollowBegin(c, w)
                          \/ FollowRespond(c)
                          \/ FollowDone(c)
                          \/ FollowPost(c)
    \/ (Create \/ Cleaner \/ \E c \in Clients : Unseen(c)) /\ UNCHANGED followerVars

FollowerSpec == FollowerInit /\ [][FollowerNext]_fvars

-----------------------------------------------------------------------------
(* Properties *)

\* "without missing messages" (README): whatever is still in the queue up to
\* the revision a client is at, the client has received - however posts,
\* joins, other polls and lost answers interleave with its polls, and also
\* for messages that come in while an answer is being written.
NoGap ==
    \A c \in Clients, id \in QIds :
        LET q == queue_store[id]
        IN  q # NULL => {m \in InQueue(q) : m[2] <= seen[c][id]} \subseteq got[c]

\* A client is not sent a message again that it received.
NoRepeat == \A c \in Clients : body[c] \cap got[c] = {}

\* memqueue_msg_create says that a message without expiry "will get consumed
\* by consumers and freed immediately".  It is not freed, by whatever other
\* polls, posts and timeouts, before every poll that took it in time has put
\* it in its answer.  A poll that is writing its answer is still bound and
\* takes the message too, but only to release it.
BriefIsConsumed == fault \/ \A p \in owed : p[2] \in pending[p[1]] \cap msg_queue

=============================================================================
