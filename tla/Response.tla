------------------------------ MODULE Response ------------------------------
(***************************************************************************)
(* How a handler's answer is put together (memqueue_respond and            *)
(* memqueue_create_result in memqueue.c) from objects of the JSON library  *)
(* (json_object.c, arraylist.c) and how they are freed again.  Every JSON  *)
(* object has a reference count, which starts at 1 and belongs to the      *)
(* container it is added to.                                               *)
(*                                                                         *)
(* The heap is the sequence of the objects created so far; a pointer is a  *)
(* position in it.  All of this runs without a yield until the response is *)
(* written.                                                                *)
(***************************************************************************)
EXTENDS Naturals, Sequences, LinkHash, JsonText

CONSTANTS
    QIds,           \* names of queues
    Fields,         \* names of a response's fields
    ConsumersOf,    \* name -> consumer ids of the queue, in order
    MsgData,        \* the data of the first, second, ... pending message
    DefHashEntries, \* JSON_OBJECT_DEF_HASH_ENTRIES
    DefArraySize,   \* ARRAY_LIST_DEFAULT_SIZE
    MaxPending      \* bound: messages a poll has pending

\* s is a sequence.
IsSeq(s) == s \in Seq({s[i] : i \in DOMAIN s})

ASSUME ConstantsAssumption ==
    /\ lh_char_hash \in [QIds \union Fields -> Nat]
    /\ {"version", "ret", "error", "results", "ret_desc", "rev", "msgs_in_queue",
        "messages", "consumers"} \subseteq Fields
    /\ LH_EMPTY # LH_FREED /\ {LH_EMPTY, LH_FREED} \cap (QIds \union Fields) = {}
    /\ NULL \notin Nat
    /\ DOMAIN ConsumersOf = QIds
    /\ \A q \in QIds : IsSeq(ConsumersOf[q]) /\ \A i \in DOMAIN ConsumersOf[q] : ConsumersOf[q][i] # "NUL"
    /\ DefHashEntries \in Nat /\ DefHashEntries > 2    \* 2 slots may fill up
    /\ DefArraySize \in Nat \ {0}
    /\ PrintbufSize \in Nat \ {0}
    /\ MaxPending \in Nat /\ DOMAIN MsgData = 1 .. MaxPending
    /\ \A i \in 1 .. MaxPending : IsSeq(MsgData[i])

VARIABLES
    heap,           \* JSON objects created since the handler began
    todo,           \* fields of the response still to be added
    pending,        \* queues of the poll's pending messages, in order
    included,       \* queues whose consumers the poll asked for
    done,           \* pending messages in the result so far
    results,        \* the result object, NULL: not begun
    puts,           \* objects whose json_object_put is still to be called
    pc,             \* "idle", "build", "put"
    printed         \* history: the printbuf of the response that was written

request == <<pending, included>>
vars == <<heap, todo, request, done, results, puts, pc, printed>>

Init ==
    /\ heap = <<>> /\ todo = <<>> /\ pending = <<>> /\ included = {}
    /\ done = 0 /\ results = NULL /\ puts = <<>> /\ pc = "idle" /\ printed = printbuf_new

-----------------------------------------------------------------------------
(* json_object.c and arraylist.c *)

json_object_new(h, type) ==
    Append(h, [type |-> type, ref |-> 1, val |-> NULL,
               tab |-> lh_table_new(DefHashEntries),
               size |-> DefArraySize, array |-> <<>>])

\* What is copied of a string is what the answer says.
NewString(h, s) ==
    [json_object_new(h, "string") EXCEPT ![Len(h) + 1].val = CString(s)]
NewInt(h, x) == [json_object_new(h, "int") EXCEPT ![Len(h) + 1].val = x]

NewObject(h) == json_object_new(h, "object")
NewArray(h) == json_object_new(h, "array")

json_object_object_get(h, o, k) ==
    LET n == lh_table_lookup_entry(h[o].tab, k)
    IN  IF n = NULL THEN NULL ELSE h[o].tab.v[n]

\* Mutation: an existing field is not deleted first.
Add_NoDelete(h, o, k, x) == [h EXCEPT ![o].tab = lh_table_insert(@, k, x)]

\* json_object_object_add: a field that exists is deleted first.
Add(h, o, k, x) ==
    LET n == lh_table_lookup_entry(h[o].tab, k)
        t == IF n = NULL THEN h[o].tab ELSE lh_table_delete_entry(h[o].tab, n)
    IN  [h EXCEPT ![o].tab = lh_table_insert(t, k, x)]

\* The value of that field, which the deletion puts.
Replaced(h, o, k) ==
    LET x == json_object_object_get(h, o, k) IN IF x = NULL THEN <<>> ELSE <<x>>

\* json_object_array_add: array_list_put_idx at the end, behind an expansion
\* if the index is outside.
json_object_array_add(h, a, x) ==
    [h EXCEPT ![a].array = Append(@, x),
              ![a].size = IF Len(h[a].array) < @ THEN @ ELSE 2 * @]

-----------------------------------------------------------------------------
(* memqueue_respond *)

\* The fields each return code adds, in order; MEMQUEUE_MSG_ADDED falls
\* through into MEMQUEUE_QUEUE_INFO.  EXISTS, TIMEOUT and FULL are answered
\* like NOT_FOUND, CREATED and DELETED like OK.
RetFields ==
    LET info == <<"ret_desc", "rev", "msgs_in_queue">>
    IN  [NOT_FOUND |-> <<"error">>, MSGS |-> <<"results">>,
         MSG_ADDED |-> <<"ret_desc", "rev">> \o info, QUEUE_INFO |-> info,
         OK |-> <<>>]

Respond(ret) ==
    /\ pc = "idle"
    /\ pc' = "build"
    /\ heap' = NewObject(<<>>)
    /\ todo' = <<"version", "ret">> \o RetFields[ret]
    /\ IF ret = "MSGS"
       THEN /\ pending' \in UNION {[1 .. n -> QIds] : n \in 1 .. MaxPending}
            /\ included' \in SUBSET QIds
       ELSE pending' = <<>> /\ included' = {}
    /\ done' = 0 /\ results' = NULL /\ puts' = <<>> /\ printed' = printbuf_new

Building == pc = "build" /\ puts = <<>>

\* A string or an int is created and added.
AddField ==
    LET k == Head(todo)
    IN  /\ Building
        /\ todo # <<>> /\ k # "results"
        /\ heap' = Add(IF k \in {"rev", "msgs_in_queue"} THEN NewInt(heap, k)
                                                          ELSE NewString(heap, <<k>>),
                        1, k, Len(heap) + 1)
        /\ puts' = Replaced(heap, 1, k)
        /\ todo' = Tail(todo)
        /\ UNCHANGED <<request, done, results, pc, printed>>

\* memqueue_create_result begins.
NewResults ==
    /\ Building
    /\ todo # <<>> /\ Head(todo) = "results" /\ results = NULL
    /\ heap' = NewObject(heap)
    /\ results' = Len(heap) + 1
    /\ UNCHANGED <<todo, request, done, puts, pc, printed>>

\* The consumers of queue q become an array of strings at position a.
WithConsumers(h, q) ==
    LET a    == Len(h) + 1
        ids  == ConsumersOf[q]
        from[i \in 0 .. Len(ids)] ==
            IF i = 0 THEN NewArray(h)
            ELSE LET g == NewString(from[i - 1], <<ids[i]>>)
                 IN  json_object_array_add(g, a, Len(g))
    IN  from[Len(ids)]

\* A queue's object: messages, rev, and its consumers if they are asked for.
NewQueueObject(h, q) ==
    LET o  == Len(h) + 1
        h1 == NewArray(NewObject(h))
        h2 == Add(h1, o, "messages", o + 1)
        h3 == Add(NewInt(h2, "rev"), o, "rev", o + 2)
        h4 == Add(h3, results, q, o)
    IN  IF q \in included THEN Add(WithConsumers(h4, q), o, "consumers", o + 3)
                          ELSE h4

\* Mutation: every message begins a new object for its queue.
AddPending_AlwaysNew ==
    LET q  == pending[done + 1]
        o  == Len(heap) + 1
        h1 == NewQueueObject(heap, q)
        h2 == NewString(h1, MsgData[done + 1])
    IN  /\ Building
        /\ results # NULL /\ done < Len(pending)
        /\ heap' = json_object_array_add(h2, o + 1, Len(h2))
        /\ puts' = Replaced(heap, results, q)
        /\ done' = done + 1
        /\ UNCHANGED <<todo, request, results, pc, printed>>

\* Mutation: the loop goes on by two messages in a round.
AddPending_Skips ==
    LET q  == pending[done + 1]
        o  == json_object_object_get(heap, results, q)
        h1 == IF o = NULL THEN NewQueueObject(heap, q) ELSE heap
        a  == IF o = NULL THEN Len(heap) + 2
              ELSE json_object_object_get(heap, o, "messages")
        h2 == NewString(h1, MsgData[done + 1])
    IN  /\ Building
        /\ results # NULL /\ done < Len(pending)
        /\ heap' = json_object_array_add(h2, a, Len(h2))
        /\ done' = done + 2
        /\ UNCHANGED <<todo, request, results, puts, pc, printed>>

\* One round of the loop over pending messages: the object of the message's
\* queue is looked up or created, and the message is added to its array.
AddPending ==
    LET q  == pending[done + 1]
        o  == json_object_object_get(heap, results, q)
        h1 == IF o = NULL THEN NewQueueObject(heap, q) ELSE heap
        a  == IF o = NULL THEN Len(heap) + 2
              ELSE json_object_object_get(heap, o, "messages")
        h2 == NewString(h1, MsgData[done + 1])
    IN  /\ Building
        /\ results # NULL /\ done < Len(pending)
        /\ heap' = json_object_array_add(h2, a, Len(h2))
        /\ done' = done + 1
        /\ UNCHANGED <<todo, request, results, puts, pc, printed>>

AddResults ==
    /\ Building
    /\ todo # <<>> /\ results # NULL /\ done = Len(pending)
    /\ heap' = Add(heap, 1, "results", results)
    /\ puts' = Replaced(heap, 1, "results")
    /\ todo' = Tail(todo)
    /\ UNCHANGED <<request, done, results, pc, printed>>

\* How object o is written, with what json has for the objects in it: the
\* fields of an object in the order of its list, the elements of an array in
\* order.
Node(h, json, o) ==
    CASE h[o].type = "string" -> StringText(h[o].val)
      [] h[o].type = "int" -> Plain(h[o].val)
      [] h[o].type = "array" ->
            ArrayText([i \in DOMAIN h[o].array |-> json[h[o].array[i]]])
      [] h[o].type = "object" ->
            LET t == h[o].tab
                L == Listed(t)
            IN  ObjectText([i \in DOMAIN L |-> << <<t.k[L[i]]>>, json[t.v[L[i]]]>>])

\* json_object_to_json_string of the response.
ToJson(h) == LET json[o \in DOMAIN h] == Node(h, json, o) IN json[1]

\* The response is written, and then freed.
Send ==
    /\ Building
    /\ todo = <<>>
    /\ printed' = Printed(ToJson(heap))
    /\ pc' = "put" /\ puts' = <<1>>
    /\ UNCHANGED <<heap, todo, request, done, results>>

-----------------------------------------------------------------------------
(* json_object_put *)

\* The values that the deletion of an object puts in turn: lh_table_free and
\* array_list_free.
Contents(o) ==
    CASE heap[o].type \in {"string", "int"} -> <<>>
      [] heap[o].type = "array" -> heap[o].array
      [] heap[o].type = "object" ->
            LET L == Listed(heap[o].tab) IN [i \in DOMAIN L |-> heap[o].tab.v[L[i]]]

\* Mutation: a replaced or freed container forgets its contents.
Put_Shallow ==
    LET o == Head(puts)
    IN  /\ puts # <<>>
        /\ heap' = [heap EXCEPT ![o].ref = @ - 1]
        /\ puts' = Tail(puts)
        /\ UNCHANGED <<todo, request, done, results, pc, printed>>

\* json_object_put of one object; at 0 it is deleted with what it contains.
Put ==
    LET o == Head(puts)
    IN  /\ puts # <<>>
        /\ heap' = [heap EXCEPT ![o].ref = @ - 1]
        /\ puts' = (IF heap[o].ref = 1 THEN Contents(o) ELSE <<>>) \o Tail(puts)
        /\ UNCHANGED <<todo, request, done, results, pc, printed>>

Finish ==
    /\ pc = "put" /\ puts = <<>>
    /\ pc' = "idle"
    /\ UNCHANGED <<heap, todo, request, done, results, puts, printed>>

Next == \/ \E ret \in DOMAIN RetFields : Respond(ret)
        \/ AddField \/ NewResults \/ AddPending \/ AddResults \/ Send
        \/ Put \/ Finish

Spec == Init /\ [][Next]_vars

-----------------------------------------------------------------------------
(* Properties *)

\* Types of the response's state.
TypeOK ==
    /\ \A o \in DOMAIN heap : /\ heap[o].type \in {"object", "array", "string", "int"}
                              /\ heap[o].ref \in Nat
    /\ \A i \in DOMAIN todo : todo[i] \in Fields
    /\ \A i \in DOMAIN pending : pending[i] \in QIds
    /\ included \subseteq QIds /\ done \in 0 .. Len(pending)
    /\ results \in DOMAIN heap \union {NULL}
    /\ \A i \in DOMAIN puts : puts[i] \in DOMAIN heap
    /\ pc \in {"idle", "build", "put"}

\* Every table keeps an empty slot, at any number of queues in one answer:
\* otherwise the next lookup of a queue or a field would never return, and
\* the server with it.
SearchesEnd == \A o \in DOMAIN heap : HasEmpty(heap[o].tab)

\* The tables stay consistent through collisions, replaced fields (the
\* fall-through of MEMQUEUE_MSG_ADDED adds two fields twice) and resizes.
TablesExact == pc = "build" => \A o \in DOMAIN heap : Consistent(heap[o].tab)

\* After the response every object created for it has been freed, once: no
\* count is left over, and none falls below 0.
FreedOnce ==
    /\ \A i \in DOMAIN puts : heap[puts[i]].ref > 0
    /\ pc = "idle" => \A o \in DOMAIN heap : heap[o].ref = 0

\* Nothing is written behind the memory of an array or of the buffer the
\* response is printed to, both of which grow exactly at their limits.
BuffersFit ==
    /\ \A o \in DOMAIN heap : Len(heap[o].array) <= heap[o].size
    /\ printed.fits

\* The queues of the pending messages P, each once, and the data of those of
\* queue q, in their order.  What follows a NUL in the data is lost.
QueuesOf(P) ==
    Joined([i \in 1 .. Len(P) |-> IF \A j \in 1 .. i - 1 : P[j] # P[i] THEN <<P[i]>> ELSE <<>>])
DataOf(P, q) ==
    Joined([i \in 1 .. Len(P) |-> IF P[i] = q THEN <<CString(MsgData[i])>> ELSE <<>>])

\* The text of strings, of a queue and of the whole answer.
Strings(S) == ArrayText([i \in 1 .. Len(S) |-> StringText(S[i])])
QueueText(q) ==
    ObjectText(<< << <<"messages">>, Strings(DataOf(pending, q))>>, << <<"rev">>, Plain("rev")>> >>
               \o IF q \in included
                  THEN << << <<"consumers">>,
                             Strings([i \in DOMAIN ConsumersOf[q] |-> <<ConsumersOf[q][i]>>])>> >>
                  ELSE <<>>)
AnswerText ==
    LET Q == QueuesOf(pending)
    IN  ObjectText(<< << <<"version">>, StringText(<<"version">>)>>, << <<"ret">>, StringText(<<"ret">>)>>,
                      << <<"results">>, ObjectText([i \in 1 .. Len(Q) |-> << <<Q[i]>>, QueueText(Q[i])>>])>> >>)

\* What a poll's answer has to say: every queue that has messages for the
\* poll once, with the data of all of these messages in their order, and
\* with its consumers exactly if the poll asked for them.  Data is escaped
\* character by character.
ResultExact == pc = "put" /\ pending # <<>> => printed.buf = Reference(AnswerText)

=============================================================================
