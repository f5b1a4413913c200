# TLA+ specifications of memqueue

memqueue is an in-memory queue server with an HTTP interface. It runs as one OS
thread of cooperative lthreads: a listener, one lthread per connection, and one
"cleaner" that expires objects. This directory holds TLA+ models of its
components, TLC configurations, and TLAPS proofs.

Paths below are relative to the repository (`src/README.md` is the repository's
README, `memqueue.c` is `src/src/memqueue.c`).

## 1. The system

| component | state | operations | interacts with |
|---|---|---|---|
| queue engine (`memqueue.c`) | `queue_store` (name → queue), queues with `rev`, `ref_count`, message list, binders, consumers | `on_queue_create`, `on_msg_post`, `on_queue_delete`, `on_queue_poll`, `on_multi_queue_poll`, `on_queue_info` | called by the router, calls `http_respond` (a yield) and `memqueue_resched` |
| messages | `ref_count`, `rev`, `new`, expiry | `memqueue_msg_create`, `_retain`, `_release` | every reference to a message is also one to its queue |
| long polls (`cli_binder`) | condition variable, binders, pending messages | bind, search, wait, answer, unbind, release | woken by `memqueue_msg_create`, or by the timeout |
| consumers | id, timer, queue | refresh on each poll, "joined" and "expired" notices | hold a reference to the queue |
| timers (`memqueue_expiry.c`) | three trees of deadlines, lists of objects per deadline, `expiry_node` pointers | `obj_sched_expire`, `*_resched`, `objs_expire`, `sched_get_min_timeout` | the cleaner releases what expires; schedulers signal the cleaner |
| HTTP server (`http_impl.c`, `http_parser.c`, `http_conn.c`) | per connection: receive buffer, header fields, body, response state; the counter `total` | accept, receive header, receive body, route, respond, reset, free | calls the router, is called by handlers to respond |
| router (`router.c`) | list of routes, newest first | register, match | calls the handlers |
| red-black tree (`rbtree.c`) | nodes with parent, two children and a colour | insert, erase, rotations, neighbours | keeps the deadlines of the timers; the cleaner walks it and erases from it on the way |
| hash table (`hash.c`, `queue.h`) | buckets, a list in order of insertion, a cursor | `h_init`, `h_insert`, `h_get`, `h_remove`, `h_next`, `h_free` | is `queue_store`, and each queue's consumers |
| responses (`memqueue.c`) | a tree of JSON objects, per response | `memqueue_respond`, `memqueue_create_result` | use the JSON library, are written by `http_respond` |
| JSON library (`lib/json`, vendored) | reference-counted objects, open-addressing tables, arrays, a text buffer | create, add, get, print, put | called by the responses only |
| argument parser, strings, logging, sockets, console, start-up | | | helpers; see section 8 |

A handler loses the processor in three places only: while it writes its
response (`lthread_writev`), while a poll waits on its condition variable, and
while the connection receives. Everything hard about this program follows:

* pointers are kept across those yields (`q` in a POST, a DELETE, a binder), and
  the object may be freed meanwhile;
* references are counted by hand, for messages and for their queues;
* a signal must not be lost between a poll's search and its wait;
* messages arrive, expire and are dropped while polls write them out;
* names are deleted and reused while clients hold old revisions;
* timers share nodes, their deadlines are 32 bits wide, and the cleaner must
  never sleep past one;
* responses get lost, packets are cut anywhere, peers leave at any point;
* trees, lists and tables are threaded through objects by hand, and the cleaner
  erases from the tree it is walking;
* tables, arrays and buffers grow exactly at their limits while a response is built.

`PROJECT.json` lists these as hazards, each at its line with the properties that
cover it.

What makes each component correct:

* engine: the store is exact; reference counts are exact; nothing freed is used;
* polls: no lost wakeup; a ready poll answers; what it answers with is alive;
* revisions: a client that follows the README misses nothing and gets nothing twice;
* timers: no oversleeping; what is due expires; nothing expires early;
* HTTP: one response per request, in order; a message is its request's body;
* tree: nothing lost, balanced, the walk gets to the first deadline; it is a set;
* hash table: lookups exact despite collisions, traversals complete; it is an
  ordered map;
* responses: exactly what is pending, escaped; every object freed, once.

## 2. Modules

| module | models | |
|---|---|---|
| `MemQueue` | the engine: store, queues, messages, polls, consumers, expiry events | variables carry the C names (`queue_store`, `rev`, `ref_count`, `msg_queue`, …) |
| `MemQueueContract` | what clients must respect for the engine to be memory-safe | `ContractSpec` restricts `MemQueue`'s steps; `ConsumerKeepsQueue` is a comment's promise that only such clients can rely on |
| `MemQueueFollowers` | the engine and clients that poll from the revision of their last answer, answers being lost at will | extends `MemQueue` with the clients' state |
| `Expiry` | the timers and the cleaner, with a clock | |
| `HttpServer` | listener, connections, router | |
| `DeadlineSet` | what the timers need of a tree: a set of deadlines, walks that free due ones | the abstraction `Expiry` is written with |
| `RBTree` | `rbtree.c` and the walk of `objs_expire` over it, round by round | implements `DeadlineSet` |
| `Lists` | the LIST and TAILQ macros of `queue.h`, on pointers | operators |
| `OrderedMap` | a finite map in order of insertion, with a traversal | what `MemQueue` takes a hash table to be |
| `HashTable` | `hash.c`, on the pointers of `Lists` | implements `OrderedMap` |
| `LinkHash` | `linkhash.c`: probing, deletion marks, resizing | operators |
| `JsonText` | `printbuf.c`, escaping and layout of `json_object.c` | operators |
| `Response` | `memqueue_respond`, `memqueue_create_result`, `json_object_put` | built on `LinkHash` and `JsonText` |
| `MC…` | instances for TLC | |
| `MemQueueProofs`, `MemQueueFollowersProofs`, `ExpiryProofs`, `HttpServerProofs`, `HashTableProofs`, `RBTreeShapeProofs`, `RBTreeProofs`, `ResponseProofs` | theorems | section 4 |

### How `MemQueue` corresponds to the code

An action is a stretch of code between two yields, or a piece of one. Where a
stretch is several actions (the loop of `memqueue_poll_queue` over its queues,
the loop that releases pending messages), `run` names the handler that still has
the processor, and nobody else moves.

* `QueueCreate` – `on_queue_create`; an existing name changes nothing.
* `MsgPost`, `MsgReject`, `PostDone` – `on_msg_post` before and after its response.
  `AtLimit` and `Oldest` are `is_memqueue_full`: dropping the head is a retain
  followed by a release, which removes the head only if nobody else retains it.
* `DeleteRespond`, `DeleteRelease` – `on_queue_delete`, which responds first.
* `PollBegin`, `PollJoin`, `PollBind`, `PollSkip`, `PollDecide`, `PollTimeout`,
  `PollRespond`, `PollUnbind`, `PollRelease`, `PollFree` – `memqueue_poll_queue`.
* `MsgExpire`, `QueueExpire`, `ConsumerExpire` – one object in `objs_expire`.

`queue_store` and the consumers of a queue are finite functions here; `HashTable`
shows that `hash.c` gives them that meaning.

A message is the pair of its queue and its revision. `base` and `msg_own` are
histories: which creators' references are not yet released. Heap objects are not
reused, so a pointer to freed memory stays recognisable; the first use of one
sets `fault`, and the behaviour ends there. One use of freed memory is kept apart:
after a release that may free an object, `objs_expire` still stores NULL in the
object's `expiry_node` (`memqueue_expiry.c:218`, `225`, `232`), on every ordinary expiry.
`ClearNode` records the objects this happens to in `late`, and the behaviour goes
on: the cleaner does not yield and nothing is allocated between the free and the store,
and the field lies beyond the words glibc's allocator keeps in a free block (at byte 16 of a consumer
and 80 of a message or queue), so that in the build the store has no effect, provided
that nobody still refers to the object. That is `LateIsUnseen`. `LIST_REMOVE` of a binder that is not the first of its list
writes into the previous binder, not into the queue, and is harmless too.

The test `binder->rev <= q->rev` in `memqueue_msg_create` is always true (a poll
from the future binds with -1) and does not appear. Allocation failures are not
modelled. A poll names each queue at most once.

### How `Expiry` corresponds to the code

A tree is the set of its keys; `link` says in which node's list an object is,
`expiry_node` is the object's pointer, which is *not* the same. `Resched` frees
the node the pointer leads to if that one became empty. `calls` are the
scheduling calls that the lthread on the processor still has to make: a poll
announces a new consumer, sets the consumer's timer and restarts the queue's.
`ExpireNode`, `NextWalk`, `CleanerSleep`, `CleanerWake` are `obj_cleaner`. Which
due nodes one walk along `rb_left` meets depends on the shape of the tree, so a
walk expires at least one due node and any others: this is `DeadlineSet`, and that
the code's tree and walk implement it is checked in `RBTree`. The clock may advance between any two steps, so
`sched_get_min_timeout` and `obj_sched_expire` may read different times in
different calls; within one call it reads one time. The period of a queue counts
from its last activity, in `active`. The history `joined` holds the queues and
consumers that are in a node they found there, whose pointer the code forgets to
set (line 130).

### How `RBTree` corresponds to the code

A node is its key, a deadline. `tree` is the record of the root, the two children,
the parent and the colour of every node; `kid[n]["left"]` is `rb_left`, and the mirrored
halves of the C code are one operator with the side as its argument. One action is
one round of the loop of `rb_insert_color` (`InsertRecolour`, `InsertRotate`) or
`__rb_erase_color` (`EraseRedOther`, `EraseRecolour`, `EraseRotate`), or the code
around it, so that the invariants speak also of the trees in the middle of rebalancing. The walk keeps the C cursor: it
erases a due node, frees it and goes on with a pointer it read before. `rb_last`,
`rb_next` and `rb_prev` are part of `rbtree.c` but memqueue never calls them;
`NeighboursExact`, which compares them with the order of the keys, is proved and no run checks it.

### How `HashTable` corresponds to the code

`items` and `ordered` are the next and back pointers of the two lists an item is
linked into; a back pointer is the cell whose `next` leads to the item, as in
`queue.h`. Freed items have their pointers trashed and may be allocated again, so a
use after free would show. `order_next` is the cursor of `h_next`. The copies of the
keys that `h_remove` and `h_free` lose are not counted.

### How `Response` corresponds to the code

`heap` holds the objects of one response with their reference counts, their tables
(`LinkHash`) or arrays; an action adds the fields of one return code, one pending
message, or puts one object. The answer is printed with `JsonText`: a text is a sequence of tokens,
single characters where escaping looks at them and one token for a name or a number. `printed`
is the `printbuf`: its text, its memory and whether every write stayed inside.
`lh_char_hash` is a constant, chosen so that names collide.

### How `HttpServer` corresponds to the code

What a peer sends is a stream of units: a header, then units of a body. A receive
takes any part of what is there, which covers every way TCP may cut it. `RecvHdr`
is `http_recv_req_hdr`: everything behind the header becomes the beginning of the
body, and `http_parse_req_hdr` parses the header. `http_parse_req_line` is the error
found in the first line, if any. `http_parse_hdr` is what is left of the field that
frames the body: a newline ends a field only if the byte behind it is not white space, and for the
last newline of a header that byte is not part of the header. `Behind` says what it
may be: the first byte of what came with the header, 0 in a fresh buffer, and
anything where an earlier request, or blanks that were moved away, have been in the
buffer. With a blank there the last field is lost; a value
without a space before it is empty. `cnt_len` is what the server then believes, and
`Request` what the peer sent: the properties compare the two. The end of a header is found by `strstr`, so a header
with a NUL never ends, the buffer fills up and the answer is 400; the test for a NUL
in `http_parse_req_hdr` is never reached with one. `http_recv_chunked` leaves its loop in the first round
whatever arrived (`more > 0 && ret == 0`), so `Incomplete` never waits for a
chunked body. `Route` tries the routes newest first; `on_serv_file` always passes
a request on. The engine's handlers appear as the codes they answer with.
Blanks before a header are units of the stream too: `Skipped` is how many of
them the loop at `http_impl.c:184` drops, which compares an index that grows with a
length that shrinks. `http_respond` is called by the handler and again by `http_lt_cli_rd`, and writes
only if `resp.state` is still `HTTP_HDR_BEGIN`.

## 3. Runs

Passing runs:

| run | configuration | shows |
|---|---|---|
| `engine` | one queue, two clients, two messages, a consumer, three kinds of queues | `MsgRefExact`: references to messages are exact; `PendingIsQueued`: pending messages are linked; `NoLostWakeup`; `PollIsAnswered`: a poll with a message, or timed out, gets to answer |
| `mpoll` | two names, two queues, polls over both; a name is deleted and created again | `StoreExact`: a name leads to its live queue; no lost wakeup for polls on several queues |
| `contract` | one name, two successive queues, four kinds of queues, clients that keep the contract | `NoFault`: no use after free but the store of `objs_expire`; `LateIsUnseen`: nobody refers to what that store goes to; `QueueRefExact`: queue references are exact |
| `followers` | two followers, lost answers | `NoGap`, `NoRepeat`; `BriefIsConsumed`: a message without expiry is not freed before every poll that took it in time has answered with it |
| `timers` | two queues, one consumer and its notices, deadlines coincide | `SleepCovers`: the cleaner never oversleeps; `OverdueExpires`: what is due expires; `NodePtrExact` and `InactivityRespected`: an object with a node of its own has an exact `expiry_node` and does not expire early |
| `http` | a connection with two requests of every kind, blanks between them and in front of bodies, Content-Lengths the parser loses, a chunked one, a failed accept, a throttled listener, a peer that closes or resets | `OneAnswerEach`, `PostedIsBody`, `RoutedRight`, `TotalExact`, `RequestAnswered`; `NeverRefused`: a client that sends proper requests gets no 400 |
| `tree` | all trees of up to eight deadlines | `TreeExact`, `RedBlack`, `WalkReachesFirst`, `WalkEnds`, and the refinement `ImplementsDeadlineSet` |
| `hash` | four names in two buckets | `ListsExact`, and the refinement `ImplementsOrderedMap` |
| `response` | every return code; up to four pending messages of three queues | `ResultExact`: the printed answer says what is pending; `FreedOnce`, `SearchesEnd`, `TablesExact`, `BuffersFit` |

Runs that find the code at odds with its documentation (details in the findings
of `PROJECT.json`):

| run | statement | what happens |
|---|---|---|
| `claim_consumer` | a consumer's reference keeps its queue (`memqueue.c:589`) | two DELETEs free the queue under the consumer |
| `claim_inactive` | a queue is removed after inactivity (README:29) | a shared expiry node is never rescheduled |
| `claim_stale` | a message is the body of its POST (README:51) | `chunked` survives into later requests |

### Deviations the models contain and no run exhibits

The passing properties are stated so that these are visible as their conditions:

* `is_memqueue_full` drops the head by a retain and a release, which remove nothing
  from a head that is retained by its expiry or by a poll: such a queue grows beyond
  `max_size` (README:33). `AtLimit` and `Oldest` model this.
* A revision that a client got from a deleted queue is compared with those of the
  queue created anew under the name, and may hide messages of it (README:15).
  `followers` therefore has one queue object.
* A message without expiry that arrives while a poll writes its answer is retained
  for that poll, which only releases it: it is freed unsent (`memqueue.c:152`).
  `BriefIsConsumed` speaks of polls that took the message before they answered.
* A poll restarts the queue's timer once, when it begins. A queue whose expiry is
  shorter than the poll's wait expires under it, although polling is activity
  (README:29). `ExpiryOutlastsRequests` is the part of the contract that excludes it.
* Deadlines wrap after 2^32 ms, 49 days, and then fall due at once: with `ClockMod = 4`
  and one queue `InactivityRespected` is violated. `NoWrap` is the assumption of
  `NeverOversleeps` and `InactivityCorrect`.
* A Content-Length in the last line of a header is lost when the byte behind the header
  is a blank, of the body or left by an earlier request (`http_parser.c:233`), and one
  without a space behind its colon always (`http_parser.c:252`). The part of the body
  that came with the header is then posted (README:51), and the rest taken for the next
  header. `Legible` is the condition of `PostedIsBody` and of `Proper` peers; the run has
  requests that do not satisfy it.
* `http_recv_chunked` never receives: a chunk outside the header's packet is lost.
  `PostedIsBody` speaks of requests with a Content-Length, on connections without a
  chunked request (`NeverChunked`; `claim_stale` shows why).
* A request that arrives in one packet with the one before it disappears with that
  one's body. `PostedIsBody` speaks of peers that have sent nothing more yet, and
  `RequestAnswered` of requests that reach the router.
* The route `/mpoll/?` is not anchored, so a queue whose name begins with mpoll cannot
  be polled (README:55). The run has such a GET, and `RoutedRight` names the exception.
* A reset in the middle of a POST's body leaves `body` NULL and `body_len` as it
  was; `on_msg_post` copies from it. `fault` of `HttpServer` is this, and
  `PostedIsBody` says that only a reset leads there, and that a peer that leaves has
  a prefix of its body posted.
* Three or more blanks that arrive alone are skipped only half; what is left stands
  before the next header, which is then refused with 400. `Proper` requests have fewer.
* Message data is a C string in an answer: what follows a NUL is lost (`ResultExact`).
* A table of `linkhash.c` whose entries are deleted and added for ever runs out of
  empty slots, and the next lookup never returns. memqueue replaces at most two fields
  of an object, and `SearchesEnd` holds for all it builds with tables of three slots
  and more (the code has 16); with two slots it would not.
* `array_list_put_idx` beyond twice its size is off by one; memqueue only appends.
* `MEMQUEUE_MSG_ADDED` falls through to `MEMQUEUE_QUEUE_INFO` (`memqueue.c:252`), so
  the answer to a POST also has the fields of an info, two of them set twice.

### Bounds

* Clients are two: every race of the engine is between two parties, a handler and
  another handler or the cleaner; the two clients are interchangeable, and symmetric
  in `mpoll`, `contract` and `followers`. `engine` checks liveness too, so it has no symmetry.
* `MaxRev` (1–3 messages per queue): two suffice for "the message before and after a
  client's revision" and for a head that is not the last. A poll with a new
  consumer is only started when a revision is left for its notice.
* Two queue objects are needed, and are enough, for the reuse of a name.
* `Expiry`: periods of 2 and 3 ms and 5 ms of clock (`MaxNow`) let a deadline
  coincide with another, be restarted, and pass. `ClockMod` is 10: nothing wraps.
  With three queues a pointer can even dangle; two show the first half of it, a
  resched that does not happen, which `claim_inactive` exhibits.
* `HttpServer`: bodies of two units are the smallest that can be cut in the middle;
  two requests (`MaxRequests`) show what one leaves behind for the next; `MaxFails`
  1 and `MaxTotal` 1 throttle the listener after a failed accept; `MaxHdr` 3 units
  can overflow. Connections share nothing but `total`, so one is enough.
* `RBTree`: eight keys give trees of four levels, in which all cases of removal and
  every direction of rotation happen (each is an action the run fires).
* `HashTable`: four names in two buckets give lists with a first, a middle and a last
  item, and an empty bucket; four items are reused after they are freed.
* `Response`: tables of three slots and arrays of one element, a text buffer of four
  characters, so that all of them grow, several times; four messages of three queues
  give every order in which queues can alternate.

All runs have `CHECK_DEADLOCK FALSE`: a server whose clients have nothing more to
ask simply waits, and the bounds use up what they may ask.

### Fairness

The lthread scheduler is a single loop that resumes every ready lthread in turn.
Hence `SF(PollStep(c))` in `MemQueue` (a poll that is ready repeatedly gets the
processor, however other handlers alternate with it), `WF(Call)` and `SF(Cleaner)`
in `Expiry`, and `WF` of the listener and of each connection in `HttpServer`. In
`RBTree` the running code itself is weakly fair: it does not yield.
Nothing is assumed of clients, of poll timeouts, of timers, or of the end of a
poll's wait. `HttpServer` assumes that a peer takes the answer it is sent (`lthread_writev`
returns) and that handlers other than polls answer; `MemQueue` does not: a poll may write
for ever, and `PollIsAnswered` ends where the write begins.

## 4. Theorems

All are proved for every value of the constants under the named assumptions
(finite sets of clients, consumers and connections, bounds that are naturals,
`NULL` distinct from everything else). Each module's assumptions are evaluated by
TLC in its runs.

**`MemQueueProofs`.** `TypeCorrect`, one lemma per action. The invariant is
`EngineInv`: `TypeOK`, and until `fault`, `EngineShape`. None of the safety properties is inductive by itself.
`MsgRefExact` needs `PendingIsQueued` and `RevsUsed`: the message about to be
created must be new, so that its count starts from nothing. `PendingIsQueued`
needs `MsgRefExact`: a release unlinks a message only with its last reference.
`StoreExact` needs `LiveIsReferenced`. Both need `PollShape`: a poll is bound to a
queue at most once, and has messages pending only of queues it is bound to or while
it releases; otherwise `memqueue_msg_create` could give a poll a message twice.
From it follow `MsgRefCorrect` and `PendingCorrect`. `StoreExact` and
`NoLostWakeup` hold also in the state where the fault happens: `FaultStep` shows that
the step that uses freed memory, after which nothing more happens, writes neither the
store nor a waiting poll. With it `StoreCorrect` and `WakeupCorrect` hold without a
condition.

**`MemQueueProofs`, under the contract.** `memqueue.c` is not memory-safe for every client:
a DELETE twice, or a queue that expires under a poll, frees memory in use. Under
`Contract` (requests name available queues, a DELETE is exclusive and of a queue
without expiry, the expiry of a queue outlasts requests) the invariant
`ContractInv` adds to `EngineInv` that no fault happened, that queue references are
exact, and `UsersAreBased`: whoever uses a queue without a reference of its own
finds the creator's reference still there. `OnlyLateUse` and `QueueRefCorrect`
follow. `LateCorrect` needs one part more, `LateIsFreed`: what is in `late` was
freed. That nobody refers to a freed queue or message is then `ContractInv`. The contract is a finding in itself: it says what clients must do today.

**`ExpiryProofs`.** `TypeCorrect`, and three properties.

* `NeverOversleeps`: if no deadline wraps, the cleaner, while it waits unsignalled,
  wakes no later than the first deadline. The argument is that `MinTimeout` computed
  when it fell asleep bounded all deadlines, and that `obj_sched_expire` signals for
  every earlier one; node removal only raises the minimum.
* `NodePtrCorrect`: a queue or consumer that did not join a node it found has
  `expiry_node` equal to the node it is linked in. This is inductive together with
  the type invariant: a step that links an object either makes a node and sets the
  pointer, or puts the object into `joined`; another object's resched frees only a
  node that has become empty.
* `InactivityCorrect`: such an object is gone only after its period without activity,
  if the clock has not wrapped. It needs `DeadlineExact`: the deadline of the node is
  the last activity plus the period, which in turn needs `NodePtrExact`, because an
  inexact pointer is what makes a resched leave the old deadline. The condition on
  `joined` cannot be dropped: `claim_inactive` is the counterexample.

**`MemQueueFollowersProofs`.** Any number of followers, queues and messages.

* `BriefCorrect`: what a poll owes its client is pending for it, hence queued
  (`MsgRefExact` and `PendingIsQueued` of the engine do the work). No condition.
* `NoGapCorrect`, `NoRepeatCorrect`: in behaviours in which no name is given to a
  second queue (`NotReused`). Revisions start anew with every queue object, so without
  the condition both are false; the README of the repository does not say so, and
  section 3 lists it. The invariant `FollowInv` says of each client: it asks
  from the revision of its last answer (`AsksNext`), which no queue has fallen behind
  (`Behind`); it has received whatever is queued up to there, and nothing beyond
  (`Received`); while it is bound to a queue, what is newer is pending for it
  (`Collected`); and an answer on its way holds what is between the old and the new
  revision (`Answered`). `Passive(d)` covers all steps that do not concern follower
  `d`, so that each action is looked at once. The invariant holds also after a fault.

**`HttpServerProofs`.** Any number of connections, any stream of requests.
`ServerInv` has the types, the counter, what each point of the control of a connection
says about its other fields (`ControlShape`), and that what is on the wire and in the
buffers consists of units of the requests sent, in order (`StreamShape`).

* `TotalCorrect`: `total` counts the connections that exist and the accepts that
  failed; the set of the counted ones changes by one element per step.
* `AnswerCorrect`: `AnswerShape` ties `handled` and `answers` to the control state;
  pending headers have higher numbers than everything answered.
* `RoutedCorrect`: `RouteShape` says that the handler is the one the table gives for the
  request at hand.
* `PostedCorrect`: for a connection without a chunked request (`NeverChunked`, see `claim_stale`)
  and a `Legible` Content-Length. The invariant is
  `BodyShape`: body, buffer and wire together are the last request's body, and a handler
  has less than all of it only if the peer has left or the Content-Length may be lost.
  The byte behind the header is universally quantified: `http_parse_hdr` of a legible request
  does not depend on it.
* `NeverRefusedCorrect`: for a proper peer, whose Content-Lengths are legible, the wire holds one request at a time, and
  what precedes its header is at most the blanks the loop at `http_impl.c:184` can skip.

The assumption on the constants says that `NULL` is neither a connection nor a stream.

**`HashTableProofs`.** Any keys, addresses, buckets and hash function. A list is
described by positions: `Chain` says that the pointers go from the head through the
elements in the order of integer positions, skipping none, and that `prev` is the cell
before; `Linked` says it of all lists of a table at once, and that unlinked elements
point nowhere. Insertion at the head takes the position below the head's, insertion at
the tail the one above all; a removal keeps positions. The positions are existentially
quantified in `HashInv`. They are also the measure by which the recursions of
`LIST_FOREACH` and `Find` end: `Descent` (a set in which every element has a smaller
one is empty, from the well-foundedness of the naturals) shows that a solution of the
recursive equation is the only one, and the proofs exhibit one. From `HashInv` follow
`TypeCorrect`, `ListsCorrect` and `LookupCorrect`.

`Refinement` is that the table implements `OrderedMap`. For it the ordered list is a
sequence: `MapInv` adds to `HashInv` that there is a sequence `L` of the items which
the `next` and back pointers go through (`Held`), and that the cursor of `h_next` is at
one of them. `TAILQ_INSERT_TAIL` appends to `L`, `TAILQ_REMOVE` drops one element of it;
the pairs that the mapping reads off the pointers (`Pairs`, a recursive function) are
those of `L`, in order, and the pairs before the cursor are the ones a traversal has
returned. Each operation is then a step of the map, and all of `h_free` but its
beginning a stutter.

**`RBTreeShapeProofs`, `RBTreeProofs`.** Any finite set of deadlines.
Not even the types of `RBTree` are inductive: `__rb_erase_color` rotates around a sibling
that is there only because the tree is balanced, and colours are balanced only if the
links are a tree. The invariant `IInv` therefore says everything at once, through two
existentially quantified functions, so that a rotation is a local change:

* `sub[n]`, the nodes below `n`: `Shaped` says that the child of `n` on side `d` has
  exactly the members of `sub[n]` on that side, that the root has all nodes, and that
  parent pointers are the inverse of child pointers; `Outside` that all other nodes are
  blank, but for the one being erased;
* `bh[n]`, the black height of `n`: `Balanced` for a red-black tree, `Inserting(x)` when
  `x` may be a red child of a red node or a red root, `Erasing(x, q)` when the side of
  `q` where `x` is lacks a black node.

`Phase` says which of them holds at each point of the control. Left and right are one
proof: `On(d, a, b)` is the order of the deadlines seen from side `d`. Every round is a
lemma that takes such functions for the tree before it and gives them for the tree after
it; a removal of a node with two children is a renaming of the node (`RenameShape`)
and a removal of its successor. The walk of `objs_expire` reads the left child of a node before it
erases the node and goes on with it after the rebalancing. That this loses no deadline
needs `Spine` (all nodes before the cursor are below it) and `Away`
(the rounds of `__rb_erase_color` work outside the subtree of the cursor, or at a red node
in it, and so no rotation puts the cursor below an earlier node); `WalkInv` adds that
a walk that ends without a hit has seen that nothing is due. From `IInv` follow `TypeCorrect`,
`TreeIsExact`, `TreeIsRedBlack`, `WalkIsSafe`, `NeighboursAreExact`, and `Refinement`: each step
of the tree is a step of `DeadlineSet` on what `rb_search` finds, or a stutter; the
temporal formula of `DeadlineSet` has no fairness. The loops of `rb_search`, `rb_last`, `rb_next`
and `rb_prev` are recursive functions; as in `HashTableProofs` the proofs exhibit
a solution of the equation and `Descent` shows that there is no other.

**`ResponseProofs`.** Any names, consumers, message data and hash function, any number
of pending messages, a text buffer and arrays of any size and tables of at least three
slots to begin with; names are distinct from the marks of empty and freed slots. The
invariant has a layer for each library the response is built with.

* Tables. `Tab` describes one by the sequence of its taken slots: the list goes through
  them, each key has one slot, and no empty slot is between the hash of a key and its
  slot (`Slotted`), so that `ProbeIs`, the search, finds it. A table is resized at two
  thirds, so one of three slots and more keeps an empty one (`TablesEnd`). The invariant
  has no freed slots: `json_object_object_add` puts a field it has deleted back into the
  slot that was freed, unless the table is resized in between, which drops all marks.
* Ownership. `HeapOwn` says that every object that is not freed has exactly one owner: a
  container, the list of objects still to be put, or the code (`Roots`, the response and
  a result that is not yet in it), and that containers are older than what they contain.
  Each library call moves one object from one owner to another. When nobody
  owns anything, the oldest object left would have to be in an older one; so everything
  is freed (`AllFreedOnce`).
* Results. `InResult` says that the result is an object of queue objects, which keeps the
  lookups of `memqueue_create_result` inside the result.
* Text. Since containers are older, the recursion of `ToJson` has a solution (`NestedIs`,
  `ToJsonIs`). `PrintedIs`, by induction over the pieces, shows that writing runs of
  characters between escapes gives the same text as escaping one character after the other, and that
  `printbuf_memappend` never writes past its memory (`BuffersStayFit`).
* Content. `PollInv` says that after `done` messages the result has the queues of these
  messages in the order of their first ones, each with the data of its messages so far
  (`Shown`), and that the response has the fields that are no longer in `todo`
  (`RootShown`). `ExtendedIs` is the step: a message either goes to the queue object that is
  there or begins a new one. At the end the text of these objects is `AnswerText`
  (`ResultsStayExact`).

## 5. Only model-checked

* Liveness (`PollIsAnswered`, `OverdueExpires`, `RequestAnswered`, `WalkEnds`): the
  prover has no rules for fairness.
* The three statements of section 3 that the code violates: their runs are
  counterexamples.

All invariants that a passing run checks, and both refinements, are also proved. The
runs keep their place beside the theorems: they evaluate the assumptions on the
constants, show that the actions can happen, and are what the mutations of the code are
tried on. The conditions of `InactivityCorrect`, `NeverOversleeps`, `NoGapCorrect`
and `NoRepeatCorrect` are explained in section 4.

## 6. Plan

1. A poll that names a queue twice: `pending` becomes a bag, and with it the proofs of
   `MsgRefExact`.
2. Composition: `HttpServer`'s handler step replaced by `MemQueue`'s actions.

## 7. Reading a counterexample

`tlc -config MCClaimConsumer.cfg MCMemQueue` (and likewise for the others) prints the
trace. `pc` and `run` tell which handler acts; `fault` marks the use of freed memory.

## 8. Not modelled

* `http_bd.c`: never started. `log.c`, `sock_easy.c`, `main.c`: output and start-up.
* `json_tokener.c` (the JSON parser) and the object types memqueue never creates:
  never called. `common/rbtree.c` is a copy of `src/rbtree.c`.
* `http_str.c` and the character level of `http_parser.c`, `args_parser.c`:
  formatting and parsing of single fields. The units of `HttpServer`'s streams are
  whole headers; of their text only what decides about errors and about the field that
  frames the body is kept. A request path is the class of paths its routes tell apart.
* `http_sendfile`: `on_serv_file` returns before it would be called.
* `rb_first`, `rb_replace_node`: never called.
* Allocation failures, a multi-poll with a queue named twice or with more than the 32
  queues of `queue_args`, the signal handling of the process.
