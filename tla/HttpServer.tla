----------------------------- MODULE HttpServer -----------------------------
(***************************************************************************)
(* The HTTP server of memqueue (http_impl.c, http_parser.c, router.c): the *)
(* listener, and one lthread per connection that receives a request, routes *)
(* it to a handler of memqueue.c, has the handler answer it, and goes on   *)
(* with the next request of the same connection.                           *)
(*                                                                         *)
(* What a peer sends is a stream of units <<n, i>>: the header of its n-th *)
(* request is unit <<n, 0>>, the body units <<n, 1>>, <<n, 2>>, ..., and a *)
(* blank before a header is the unit Blank, shorter than any other.        *)
(* A receive returns any non-empty part of what is in the socket, so units *)
(* of a body, and of the next request, may arrive with a header.  What a   *)
(* handler does before it answers is the subject of module MemQueue.       *)
(***************************************************************************)
EXTENDS Integers, Sequences, FiniteSets

CONSTANTS
    Conns,          \* connections peers may open
    Kinds,          \* the requests a peer may send
    MaxTotal,       \* 2000: connections from which on the listener sleeps
    MaxHdr,         \* HTTP_MAX_HDR_LEN, in units
    MaxRequests,    \* bound: requests sent on one connection
    MaxFails,       \* bound: accepts that fail
    NULL

Methods == {"GET", "PUT", "POST", "DELETE", "HEAD"}

\* Request paths, as the routes tell them apart: /, /<queue_name>, /mpoll, and
\* a queue name that begins with mpoll.
Paths == {"root", "queue", "mpoll", "mpoll_prefix"}

\* What is wrong with a header: nothing; its first line ends too early; an
\* unknown method or protocol; a host name that is too long; a NUL in it.
Forms == {"ok", "line", "method", "proto", "host", "nul"}

\* Requests.  `len`, `chunked`: the size of the body, and whether it is the
\* Transfer-Encoding or the Content-Length that frames it; `last`: that field is
\* the last one; `space`: there is a space behind its colon; `lead`: the body
\* begins with white space; `blanks`: what the peer sends before the header.
KindRecords == [method: Methods, path: Paths, len: Nat, chunked: BOOLEAN,
                last: BOOLEAN, space: BOOLEAN, lead: BOOLEAN,
                form: Forms, blanks: Nat]

ASSUME ConstantsAssumption ==
    /\ IsFiniteSet(Conns)
    /\ Kinds \subseteq KindRecords
    /\ MaxTotal \in Nat /\ MaxHdr \in Nat \ {0}
    /\ MaxRequests \in Nat /\ MaxFails \in Nat
    /\ "failed" \notin Conns /\ NULL \notin Conns \union {"failed"}
    /\ NULL \notin Seq(Nat \X Nat)

VARIABLES
    \* the peers and the network
    conn,           \* "none" | "backlog" | "open" | "closed"
    peer,           \* "up" | "fin": will send no more | "reset"
    sent,           \* the requests the peer has sent
    early,          \* history: it sent one before the last was answered
    stream,         \* units in the socket, not yet received
    \* the listener
    listener,       \* accepted while it sleeps: a connection, "failed", or NULL
    total,          \* the connection counter
    fails,          \* history: accepts that did not lead to a connection
    \* the connection's lthread and its http_cli_t
    pc,             \* where the lthread is
    hdr,            \* units received while the end of a header is looked for
    no,             \* number of the request being handled
    cnt_len,        \* req.hdr.cnt_len
    chunked,        \* req.hdr.chunked
    body,           \* req.body, NULL after a failed receive
    body_len,       \* req.body_len
    cb,             \* the route's handler
    err,            \* what http_handle_cli_rd or the router returned
    respcode,       \* resp.respcode
    resp_state,     \* resp.state
    \* histories
    handled,        \* numbers of the requests that reached the router
    answers,        \* <<number, code>> of every response written
    fault           \* a handler has read through a NULL body

netVars   == <<conn, peer, sent, early, stream>>
lsnVars   == <<listener, total, fails>>
reqVars   == <<hdr, no, cnt_len, chunked, body, body_len>>
respVars  == <<err, respcode, resp_state, answers>>
vars == <<netVars, lsnVars, pc, reqVars, cb, respVars, handled, fault>>

PCs == {"off", "hdr", "body", "route", "handler", "write", "done"}

Init ==
    /\ conn = [c \in Conns |-> "none"]
    /\ peer = [c \in Conns |-> "up"]
    /\ sent = [c \in Conns |-> <<>>]
    /\ early = [c \in Conns |-> FALSE]
    /\ stream = [c \in Conns |-> <<>>]
    /\ listener = NULL /\ total = 0 /\ fails = 0
    /\ pc = [c \in Conns |-> "off"]
    /\ hdr = [c \in Conns |-> <<>>]
    /\ no = [c \in Conns |-> 0]
    /\ cnt_len = [c \in Conns |-> 0]
    /\ chunked = [c \in Conns |-> FALSE]
    /\ body = [c \in Conns |-> NULL]
    /\ body_len = [c \in Conns |-> 0]
    /\ cb = [c \in Conns |-> NULL]
    /\ err = [c \in Conns |-> 0]
    /\ respcode = [c \in Conns |-> 0]
    /\ resp_state = [c \in Conns |-> "HTTP_HDR_BEGIN"]
    /\ handled = [c \in Conns |-> <<>>]
    /\ answers = [c \in Conns |-> <<>>]
    /\ fault = FALSE

\* The n-th request, as the peer sent it.
Request(c, n) == sent[c][n]

\* The units of request n of kind r: blanks, its header and its body.
Blank == <<0, 1>>
Units(n, r) == [i \in 1 .. r.blanks |-> Blank]
                \o [i \in 1 .. r.len + 1 |-> <<n, i - 1>>]
BodyUnits(n, r) == [i \in 1 .. r.len |-> <<n, i>>]

-----------------------------------------------------------------------------
(* Peers *)

Connect(c) ==
    /\ ~fault /\ conn[c] = "none"
    /\ conn' = [conn EXCEPT ![c] = "backlog"]
    /\ UNCHANGED <<peer, sent, early, stream, lsnVars, pc, reqVars, cb, respVars,
                   handled, fault>>

\* Peers may send a request before the last one is answered.
SendRequest(c, r) ==
    /\ ~fault /\ conn[c] \in {"backlog", "open"}
    /\ peer[c] = "up"
    /\ Len(sent[c]) < MaxRequests
    /\ sent' = [sent EXCEPT ![c] = Append(@, r)]
    /\ early' = [early EXCEPT ![c] = @ \/ Len(answers[c]) < Len(sent[c])]
    /\ stream' = [stream EXCEPT ![c] = @ \o Units(Len(sent[c]) + 1, r)]
    /\ UNCHANGED <<conn, peer, lsnVars, pc, reqVars, cb, respVars, handled, fault>>

\* The peer stops, having sent only the first k units of what is under way.
PeerClose(c, k) ==
    /\ ~fault /\ conn[c] \in {"backlog", "open"}
    /\ peer[c] = "up"
    /\ peer' = [peer EXCEPT ![c] = "fin"]
    /\ stream' = [stream EXCEPT ![c] = SubSeq(@, 1, k)]
    /\ UNCHANGED <<conn, sent, early, lsnVars, pc, reqVars, cb, respVars, handled, fault>>

PeerReset(c) ==
    /\ ~fault /\ conn[c] \in {"backlog", "open"}
    /\ peer[c] # "reset"
    /\ peer' = [peer EXCEPT ![c] = "reset"]
    /\ stream' = [stream EXCEPT ![c] = <<>>]
    /\ UNCHANGED <<conn, sent, early, lsnVars, pc, reqVars, cb, respVars, handled, fault>>

Peer(c) == \/ Connect(c)
           \/ \E r \in Kinds : SendRequest(c, r)
           \/ \E k \in 0 .. Len(stream[c]) : PeerClose(c, k)
           \/ PeerReset(c)

-----------------------------------------------------------------------------
(* The listener *)

\* Mutation: the new connection is not counted.
http_cli_new_NoCount(x) ==
    /\ UNCHANGED total
    /\ \/ /\ x \in Conns
          /\ conn' = [conn EXCEPT ![x] = "open"]
          /\ pc' = [pc EXCEPT ![x] = "hdr"]
          /\ UNCHANGED fails
       \/ /\ x \notin Conns
          /\ fails' = fails + 1
          /\ UNCHANGED <<conn, pc>>

\* http_listener counts the accepted connection and http_cli_new starts its
\* lthread.  A failed accept, or lthread_create, is counted all the same.
http_cli_new(x) ==
    /\ total' = total + 1
    /\ \/ /\ x \in Conns
          /\ conn' = [conn EXCEPT ![x] = "open"]
          /\ pc' = [pc EXCEPT ![x] = "hdr"]
          /\ UNCHANGED fails
       \/ /\ x \in Conns /\ fails < MaxFails
          /\ conn' = [conn EXCEPT ![x] = "closed"]
          /\ fails' = fails + 1
          /\ UNCHANGED pc
       \/ /\ x \notin Conns
          /\ fails' = fails + 1
          /\ UNCHANGED <<conn, pc>>

\* lthread_accept returns; with too many connections the listener sleeps
\* before it goes on.
Accept(x) ==
    /\ ~fault /\ listener = NULL
    /\ IF x \in Conns THEN conn[x] = "backlog" ELSE fails < MaxFails
    /\ IF total >= MaxTotal
       THEN listener' = x /\ UNCHANGED <<conn, total, fails, pc>>
       ELSE http_cli_new(x) /\ UNCHANGED listener
    /\ UNCHANGED <<peer, sent, early, stream, reqVars, cb, respVars, handled, fault>>

ListenerWake ==
    /\ ~fault /\ listener # NULL
    /\ http_cli_new(listener)
    /\ listener' = NULL
    /\ UNCHANGED <<peer, sent, early, stream, reqVars, cb, respVars, handled, fault>>

Listener == (\E x \in Conns \union {"failed"} : Accept(x)) \/ ListenerWake

-----------------------------------------------------------------------------
(* Receiving a request: http_handle_cli_rd *)

Take(c, k) == SubSeq(stream[c], 1, k)
Leave(c, k) == SubSeq(stream[c], k + 1, Len(stream[c]))

\* The receive finds the peer gone.
Ended(c) == stream[c] = <<>> /\ peer[c] # "up"

\* The lthread of c, at p, has the processor.
Runs(c, p) == ~fault /\ conn[c] = "open" /\ pc[c] = p

\* Mutation: a closed connection is still counted.
http_cli_free_NoCount(c) ==
    /\ UNCHANGED total
    /\ conn' = [conn EXCEPT ![c] = "closed"]
    /\ pc' = [pc EXCEPT ![c] = "off"]
    /\ stream' = [stream EXCEPT ![c] = <<>>]

\* http_cli_free: the connection is counted out and closed.
http_cli_free(c) ==
    /\ total' = total - 1
    /\ conn' = [conn EXCEPT ![c] = "closed"]
    /\ pc' = [pc EXCEPT ![c] = "off"]
    /\ stream' = [stream EXCEPT ![c] = <<>>]

\* http_set_respcode: the first code that was set stays.
http_set_respcode(c, code) == IF respcode[c] = 0 THEN code ELSE respcode[c]

\* http_respond: the first response of a request is written, a second one is
\* not.
http_respond(c, code) ==
    IF resp_state[c] = "HTTP_HDR_BEGIN"
    THEN /\ respcode' = [respcode EXCEPT ![c] = http_set_respcode(c, code)]
         /\ pc' = [pc EXCEPT ![c] = "write"]
    ELSE /\ pc' = [pc EXCEPT ![c] = "done"]
         /\ UNCHANGED respcode

\* http_handle_cli_req_err: these of the client's mistakes are answered with
\* 400; the caller then gives the connection up.
http_handle_cli_req_err(c, e) ==
    /\ e \in {"INV_REQ_LINE", "INV_METHOD", "INV_PROTO", "INV_HOST", "MAX_HDR_EXC"}
    /\ http_respond(c, 400)
    /\ err' = [err EXCEPT ![c] = -1]

\* Mutation: the body is taken to be complete one unit early.
Incomplete_OneShort(m, ch, have, len) == m = "POST" /\ ~ch /\ have + 1 < len

\* What http_recvbody still waits for.  http_recv_chunked never receives:
\* its loop ends at once, whatever has arrived.
Incomplete(m, ch, have, len) == m = "POST" /\ ~ch /\ have < len

\* Blanks that packet p begins with.
Leading(p) == CHOOSE n \in 0 .. Len(p) : /\ \A i \in 1 .. n : p[i] = Blank
                                         /\ n < Len(p) => p[n + 1] # Blank

\* Mutation: the loop ends where the index has reached the length.
Skipped_Less(p) == IF Leading(p) < Len(p) THEN Leading(p) ELSE (Len(p) + 1) \div 2

\* How many of them are dropped: the index of the loop grows and the length
\* it is compared with shrinks, so in a packet of nothing but blanks it ends
\* just behind the middle.
Skipped(p) == IF Leading(p) < Len(p) THEN Leading(p) ELSE Len(p) \div 2 + 1

\* The header buffer once k more units have been received; blanks are dropped
\* as long as there is nothing in it.
Buffer(c, k) ==
    IF hdr[c] = <<>> THEN SubSeq(Take(c, k), Skipped(Take(c, k)) + 1, k)
                     ELSE hdr[c] \o Take(c, k)

\* Where in buffer b the first header ends.  The search is a strstr, to which
\* the buffer ends at a NUL.
HdrEnds(c, b) ==
    {i \in 1 .. Len(b) : /\ b[i][2] = 0
                         /\ Request(c, b[i][1]).form # "nul"
                         /\ \A j \in 1 .. i - 1 : b[j][2] # 0}

\* http_recv_hdr: the end of a header is not there yet.
RecvHdrMore(c, k) ==
    LET buf == Buffer(c, k)
    IN  /\ Runs(c, "hdr")
        /\ HdrEnds(c, buf) = {}
        /\ stream' = [stream EXCEPT ![c] = Leave(c, k)]
        /\ hdr' = [hdr EXCEPT ![c] = buf]
        /\ no' = [no EXCEPT ![c] = 0]
        /\ cnt_len' = [cnt_len EXCEPT ![c] = 0]
        /\ IF Len(buf) >= MaxHdr
           THEN http_handle_cli_req_err(c, "MAX_HDR_EXC")
           ELSE UNCHANGED <<pc, err, respcode>>
        /\ UNCHANGED <<conn, peer, sent, early, lsnVars, chunked, body, body_len,
                       cb, resp_state, answers, handled, fault>>

\* http_parse_req_line: what it finds wrong with the first line of header r.
\* Text in front of a header is taken for its method.
http_parse_req_line(r, atStart) == CASE ~atStart            -> "INV_METHOD"
                                     [] r.form = "method"   -> "INV_METHOD"
                                     [] r.form = "line"     -> "INV_REQ_LINE"
                                     [] r.form = "proto"    -> "INV_PROTO"
                                     [] OTHER               -> "ok"

\* http_parse_hdr, and what http_parse_req_hdr then takes from the table.  A
\* line is inserted where its end is not followed by white space, which would
\* continue it: with a blank behind the header the last line never is.  A
\* value begins behind the first space, so without one it is empty.
http_parse_hdr(r, blank) ==
    [cnt_len |-> IF r.chunked \/ ~r.space \/ (r.last /\ blank) THEN 0 ELSE r.len,
     chunked |-> r.chunked /\ ~(r.last /\ blank)]

\* Unit u of c's stream begins with white space.
StartsBlank(c, u) == u = Blank \/ (u[2] = 1 /\ Request(c, u[1]).lead)

\* Whether the byte behind the header that ends at b[end] is a blank.  Where
\* nothing was received behind it, that byte is whatever is in the buffer: 0
\* at first, but a byte of an earlier request, or one that was there before
\* leading blanks were dropped, later on.
Behind(c, b, end) ==
    IF end < Len(b) THEN {StartsBlank(c, b[end + 1])}
    ELSE IF handled[c] # <<>> \/ Request(c, b[end][1]).blanks > 0 THEN BOOLEAN
    ELSE {FALSE}

\* http_parse_req_hdr, for the header at b[end], and what http_handle_cli_rd
\* makes of its result.
http_parse_req_hdr(c, b, end, blank) ==
    LET r    == Request(c, b[end][1])
        line == http_parse_req_line(r, end = 1)
        h    == http_parse_hdr(r, blank)
    IN  IF line # "ok"
        THEN /\ http_handle_cli_req_err(c, line)
             /\ cnt_len' = [cnt_len EXCEPT ![c] = 0]
             /\ UNCHANGED chunked
        ELSE /\ cnt_len' = [cnt_len EXCEPT ![c] = h.cnt_len]
             /\ chunked' = [chunked EXCEPT ![c] = chunked[c] \/ h.chunked]
             /\ IF r.form = "host"
                THEN http_handle_cli_req_err(c, "INV_HOST")
                ELSE /\ pc' = [pc EXCEPT ![c] =
                             IF Incomplete(r.method, chunked[c] \/ h.chunked,
                                           Len(b) - end, h.cnt_len)
                             THEN "body" ELSE "route"]
                     /\ UNCHANGED <<err, respcode>>

\* http_recv_hdr has a header, which is parsed; what came after it is the
\* beginning of the body.
RecvHdr(c, k) ==
    LET buf == Buffer(c, k)
    IN  /\ Runs(c, "hdr")
        /\ stream' = [stream EXCEPT ![c] = Leave(c, k)]
        /\ hdr' = [hdr EXCEPT ![c] = buf]
        /\ \E end \in HdrEnds(c, buf) :
            /\ no' = [no EXCEPT ![c] = buf[end][1]]
            /\ body' = [body EXCEPT ![c] = SubSeq(buf, end + 1, Len(buf))]
            /\ body_len' = [body_len EXCEPT ![c] = Len(buf) - end]
            /\ \E blank \in Behind(c, buf, end) : http_parse_req_hdr(c, buf, end, blank)
        /\ UNCHANGED <<conn, peer, sent, early, lsnVars, cb, resp_state, answers,
                       handled, fault>>

\* HTTP_ERR_CLI_CLOSED: the connection is given up without a response.
RecvHdrFail(c) ==
    /\ Runs(c, "hdr")
    /\ Ended(c)
    /\ http_cli_free(c)
    /\ UNCHANGED <<peer, sent, early, listener, fails, reqVars, cb, respVars, handled, fault>>

\* One receive of http_recv_exact, which may get more than the body.
RecvBody(c, k) ==
    /\ Runs(c, "body")
    /\ stream' = [stream EXCEPT ![c] = Leave(c, k)]
    /\ body' = [body EXCEPT ![c] = @ \o Take(c, k)]
    /\ body_len' = [body_len EXCEPT ![c] = @ + k]
    /\ pc' = [pc EXCEPT ![c] =
                IF Incomplete(Request(c, no[c]).method, chunked[c],
                              body_len[c] + k, cnt_len[c])
                THEN "body" ELSE "route"]
    /\ UNCHANGED <<conn, peer, sent, early, lsnVars, hdr, no, cnt_len, chunked, cb,
                   respVars, handled, fault>>

\* The peer has gone: what has arrived is the body, or, after an error, there
\* is none, and body_len keeps its value.  http_handle_cli_rd ignores both.
RecvBodyEnd(c) ==
    /\ Runs(c, "body")
    /\ Ended(c)
    /\ body' = IF peer[c] = "reset" THEN [body EXCEPT ![c] = NULL] ELSE body
    /\ pc' = [pc EXCEPT ![c] = "route"]
    /\ UNCHANGED <<netVars, lsnVars, hdr, no, cnt_len, chunked, body_len, cb, respVars,
                   handled, fault>>

-----------------------------------------------------------------------------
(* Routing and answering *)

\* Mutation: the routes in the order they were registered.
Routes_OldestFirst ==
          << <<"GET",    {"queue", "mpoll", "mpoll_prefix"}, "on_serv_file">>,
             <<"GET",    {"queue", "mpoll", "mpoll_prefix"}, "on_queue_poll">>,
             <<"GET",    {"mpoll", "mpoll_prefix"}, "on_multi_queue_poll">>,
             <<"PUT",    {"queue", "mpoll", "mpoll_prefix"}, "on_queue_create">>,
             <<"POST",   {"root", "queue", "mpoll", "mpoll_prefix"}, "on_msg_post">>,
             <<"DELETE", {"root", "queue", "mpoll", "mpoll_prefix"}, "on_queue_delete">>,
             <<"HEAD",   {"root", "queue", "mpoll", "mpoll_prefix"}, "on_queue_info">> >>

\* memqueue_init's routes; each one is put before the ones registered so far.
Routes == << <<"HEAD",   {"root", "queue", "mpoll", "mpoll_prefix"}, "on_queue_info">>,
             <<"DELETE", {"root", "queue", "mpoll", "mpoll_prefix"}, "on_queue_delete">>,
             <<"POST",   {"root", "queue", "mpoll", "mpoll_prefix"}, "on_msg_post">>,
             <<"PUT",    {"queue", "mpoll", "mpoll_prefix"}, "on_queue_create">>,
             <<"GET",    {"mpoll", "mpoll_prefix"}, "on_multi_queue_poll">>,
             <<"GET",    {"queue", "mpoll", "mpoll_prefix"}, "on_queue_poll">>,
             <<"GET",    {"queue", "mpoll", "mpoll_prefix"}, "on_serv_file">> >>

Callbacks == {Routes[i][3] : i \in 1 .. Len(Routes)}

\* The routes that match and whose handler does not pass the request on.
Takes(r) == {i \in 1 .. Len(Routes) : /\ Routes[i][1] = r.method
                                      /\ r.path \in Routes[i][2]
                                      /\ Routes[i][3] # "on_serv_file"}

\* http_route_handle_request: the first such route, or 404 and the end of the
\* connection.
Route(c) ==
    LET T == Takes(Request(c, no[c]))
    IN  /\ Runs(c, "route")
        /\ handled' = [handled EXCEPT ![c] = Append(@, no[c])]
        /\ IF T = {}
           THEN /\ respcode' = [respcode EXCEPT ![c] = http_set_respcode(c, 404)]
                /\ err' = [err EXCEPT ![c] = -1]
                /\ pc' = [pc EXCEPT ![c] = "done"]
                /\ UNCHANGED cb
           ELSE /\ \E i \in T : /\ \A j \in T : i <= j
                                /\ cb' = [cb EXCEPT ![c] = Routes[i][3]]
                /\ pc' = [pc EXCEPT ![c] = "handler"]
                /\ UNCHANGED <<respcode, err>>
        /\ UNCHANGED <<netVars, lsnVars, reqVars, resp_state, answers, fault>>

\* The codes of memqueue_ret each handler answers with.
Codes(h) == CASE h = "on_queue_create" -> {200}
              [] h \in {"on_queue_poll", "on_multi_queue_poll"} -> {200, 404, 408}
              [] OTHER -> {200, 404}

\* The handler has an answer and passes it to http_respond.  on_msg_post
\* copied body_len bytes of the body first, if it found the queue.
HandlerRespond(c, code) ==
    /\ Runs(c, "handler")
    /\ code \in Codes(cb[c])
    /\ fault' = (cb[c] = "on_msg_post" /\ code = 200
                    /\ body[c] = NULL /\ body_len[c] > 0)
    /\ http_respond(c, code)
    /\ UNCHANGED <<netVars, lsnVars, reqVars, cb, err, resp_state, answers, handled>>

\* The response http_cli_resp_hdr_create puts together, as far as it matters.
Response(c) == <<no[c], respcode[c]>>

\* Mutation: the response is not marked as sent.
Written_NoState(c) ==
    /\ Runs(c, "write")
    /\ answers' = [answers EXCEPT ![c] = Append(@, Response(c))]
    /\ Len(answers[c]) <= MaxRequests
    /\ pc' = [pc EXCEPT ![c] = "done"]
    /\ UNCHANGED <<netVars, lsnVars, reqVars, cb, err, respcode, resp_state,
                   handled, fault>>

\* lthread_writev returns, whether or not the peer was still there.
Written(c) ==
    /\ Runs(c, "write")
    /\ resp_state' = [resp_state EXCEPT ![c] = "HTTP_BODY_SENT"]
    /\ answers' = [answers EXCEPT ![c] = Append(@, Response(c))]
    /\ pc' = [pc EXCEPT ![c] = "done"]
    /\ UNCHANGED <<netVars, lsnVars, reqVars, cb, err, respcode, handled, fault>>

\* Back in http_lt_cli_rd: its http_respond writes what nobody has answered.
RespondLast(c) ==
    /\ Runs(c, "done")
    /\ resp_state[c] = "HTTP_HDR_BEGIN"
    /\ http_respond(c, 204)
    /\ UNCHANGED <<netVars, lsnVars, reqVars, cb, err, resp_state, answers,
                   handled, fault>>

\* Mutation: the next request starts with the last one's response state.
http_cli_reset_KeepsState(c) ==
    /\ Runs(c, "done")
    /\ resp_state[c] # "HTTP_HDR_BEGIN" /\ err[c] # -1
    /\ respcode' = [respcode EXCEPT ![c] = 0]
    /\ body' = [body EXCEPT ![c] = NULL]
    /\ hdr' = [hdr EXCEPT ![c] = <<>>]
    /\ cb' = [cb EXCEPT ![c] = NULL]
    /\ pc' = [pc EXCEPT ![c] = "hdr"]
    /\ UNCHANGED <<netVars, lsnVars, no, cnt_len, chunked, body_len, err, resp_state,
                   answers, handled, fault>>

\* http_cli_reset and http_cli_init, before the next request.  The chunked
\* flag is left alone.
http_cli_reset(c) ==
    /\ Runs(c, "done")
    /\ resp_state[c] # "HTTP_HDR_BEGIN" /\ err[c] # -1
    /\ resp_state' = [resp_state EXCEPT ![c] = "HTTP_HDR_BEGIN"]
    /\ respcode' = [respcode EXCEPT ![c] = 0]
    /\ body' = [body EXCEPT ![c] = NULL]
    /\ hdr' = [hdr EXCEPT ![c] = <<>>]
    /\ cb' = [cb EXCEPT ![c] = NULL]
    /\ pc' = [pc EXCEPT ![c] = "hdr"]
    /\ UNCHANGED <<netVars, lsnVars, no, cnt_len, chunked, body_len, err, answers,
                   handled, fault>>

GiveUp(c) ==
    /\ Runs(c, "done")
    /\ resp_state[c] # "HTTP_HDR_BEGIN" /\ err[c] = -1
    /\ http_cli_free(c)
    /\ UNCHANGED <<peer, sent, early, listener, fails, reqVars, cb, respVars, handled, fault>>

\* http_lt_cli_rd, step by step.
Serve(c) == \/ \E k \in 1 .. Len(stream[c]) :
                    \/ /\ k <= MaxHdr - Len(hdr[c])
                       /\ RecvHdrMore(c, k) \/ RecvHdr(c, k)
                    \/ RecvBody(c, k)
            \/ RecvHdrFail(c)
            \/ RecvBodyEnd(c)
            \/ Route(c)
            \/ \E code \in {200, 404, 408} : HandlerRespond(c, code)
            \/ Written(c)
            \/ RespondLast(c)
            \/ http_cli_reset(c)
            \/ GiveUp(c)

Next == Listener \/ \E c \in Conns : Peer(c) \/ Serve(c)

\* A poll may wait for a message as long as it likes.
Polls(c) == pc[c] = "handler" /\ cb[c] \in {"on_queue_poll", "on_multi_queue_poll"}

\* The scheduler serves every ready lthread, and peers take the answers they
\* are sent.  Nothing is assumed of what peers send or of when polls end.
Fairness == /\ WF_vars(Listener)
            /\ \A c \in Conns : WF_vars(~Polls(c) /\ Serve(c))

Spec == Init /\ [][Next]_vars /\ Fairness

-----------------------------------------------------------------------------
(* Properties *)

\* Types of the server's state; the connection counter never drops below 0.
TypeOK ==
    /\ conn \in [Conns -> {"none", "backlog", "open", "closed"}]
    /\ peer \in [Conns -> {"up", "fin", "reset"}]
    /\ sent \in [Conns -> Seq(Kinds)] /\ early \in [Conns -> BOOLEAN]
    /\ stream \in [Conns -> Seq(Nat \X Nat)]
    /\ listener \in Conns \union {"failed", NULL}
    /\ total \in Nat /\ fails \in 0 .. MaxFails
    /\ pc \in [Conns -> PCs]
    /\ hdr \in [Conns -> Seq(Nat \X Nat)]
    /\ no \in [Conns -> Nat] /\ cnt_len \in [Conns -> Nat]
    /\ chunked \in [Conns -> BOOLEAN]
    /\ body \in [Conns -> Seq(Nat \X Nat) \union {NULL}]
    /\ body_len \in [Conns -> Nat]
    /\ cb \in [Conns -> Callbacks \union {NULL}]
    /\ err \in [Conns -> {0, -1}]
    /\ respcode \in [Conns -> {0, 200, 204, 400, 404, 408}]
    /\ resp_state \in [Conns -> {"HTTP_HDR_BEGIN", "HTTP_BODY_SENT"}]
    /\ handled \in [Conns -> Seq(Nat)]
    /\ answers \in [Conns -> Seq(Nat \X Nat)]
    /\ fault \in BOOLEAN

\* `total`, which throttles the listener, is the number of open connections,
\* however they ended, plus the accepts that failed and are never taken back.
TotalExact == total = Cardinality({c \in Conns : conn[c] = "open"}) + fails

\* The two places that answer a request, its handler and http_lt_cli_rd,
\* never both write and never both stay silent: no request gets a second
\* response, and when the server turns to the next request of a connection,
\* it has written one to each request it routed, in their order.
OneAnswerEach ==
    \A c \in Conns :
        /\ \A i, j \in 1 .. Len(answers[c]) :
                answers[c][i][1] = answers[c][j][1] => i = j
        /\ (conn[c] = "open" /\ pc[c] = "hdr") =>
                handled[c] = [i \in 1 .. Len(answers[c]) |-> answers[c][i][1]]

\* The server finds the length of the body, whatever follows the header: the
\* Content-Length is not the last field and has a space behind its colon.
Legible(r) == r.space /\ ~r.last

\* on_msg_post is about to post the last request of the peer, which has a
\* Content-Length.
Posting(c) == /\ pc[c] = "handler" /\ cb[c] = "on_msg_post"
              /\ ~Request(c, no[c]).chunked /\ no[c] = Len(sent[c])

\* It gets the whole body; or the part that a peer which left had sent; or
\* nothing, after a reset.
GetsBody(c) ==
    LET b == BodyUnits(no[c], Request(c, no[c]))
    IN  \/ body[c] = b /\ body_len[c] = Len(b)
        \/ /\ peer[c] # "up"
           /\ \E k \in 0 .. Len(b) : body[c] = SubSeq(b, 1, k) /\ body_len[c] = k
        \/ peer[c] = "reset" /\ body[c] = NULL

\* No request of the peer was chunked.  One that is leaves a flag behind that
\* http_cli_reset does not clear.
NeverChunked(c) == \A i \in 1 .. Len(sent[c]) : ~sent[c][i].chunked

\* README, POST: the message that on_msg_post gets is the body of the request,
\* all of it and nothing else, however the network cut it up, provided that
\* the request has a legible Content-Length, no request of the connection was
\* chunked and the peer has sent nothing after it.  The result of
\* http_recvbody is ignored, so a peer that leaves in the middle of the body
\* has the first part of it posted, and one that resets the connection may
\* leave no body at all; nothing else does either.
PostedIsBody ==
    \A c \in Conns :
        (Posting(c) /\ Legible(Request(c, no[c])) /\ NeverChunked(c)) => GetsBody(c)

\* README, POST: "Message `data` must be included in the HTTP POST body", here
\* of any request with a legible Content-Length, whatever was sent before it
\* on the connection.  Not so: after a chunked request the server waits for no
\* body any more, and posts what has arrived with the header.
PostedAsSent ==
    \A c \in Conns : (Posting(c) /\ Legible(Request(c, no[c]))) => GetsBody(c)

\* The peer waits for its answers, sends correct headers, bodies with POSTs
\* and a legible Content-Length only, and no more than a CRLF before a header.
Proper(c) ==
    /\ ~early[c]
    /\ \A i \in 1 .. Len(sent[c]) :
        LET r == sent[c][i]
        IN  /\ r.form = "ok" /\ ~r.chunked /\ r.blanks <= 2
            /\ r.len > 0 => r.method = "POST" /\ Legible(r)

\* Such a peer is never refused: whatever packets its headers, bodies and
\* the blank line between them arrive in, and whatever is left in the buffer
\* behind a header, no residue of an earlier packet or request is taken for
\* the beginning of a header.
NeverRefused == \A c \in Conns : Proper(c) => respcode[c] # 400

\* README: GET /mpoll polls many queues and GET /<queue_name> polls one, PUT
\* creates, POST posts, DELETE deletes, although several routes match.  The
\* exception is a GET of a queue whose name begins with mpoll, which is taken
\* for a multi-queue poll: the pattern of that route is not anchored.
RoutedRight ==
    \A c \in Conns : pc[c] = "handler" =>
        LET r == Request(c, no[c])
        IN  (r.method = "GET" => r.path # "mpoll_prefix") =>
            cb[c] = CASE r.method = "PUT"    -> "on_queue_create"
                      [] r.method = "POST"   -> "on_msg_post"
                      [] r.method = "DELETE" -> "on_queue_delete"
                      [] r.method = "HEAD"   -> "on_queue_info"
                      [] r.method = "GET" /\ r.path = "mpoll" -> "on_multi_queue_poll"
                      [] OTHER -> "on_queue_poll"

\* Every request that reaches the router is answered in the end, unless it is
\* a poll that waits: http_cli_reset leaves nothing behind that would keep a
\* later request from its answer, and a peer that leaves does not either.
RequestAnswered ==
    \A c \in Conns : \A n \in 1 .. MaxRequests :
        (\E i \in 1 .. Len(handled[c]) : handled[c][i] = n)
            ~> \/ \E i \in 1 .. Len(answers[c]) : answers[c][i][1] = n
               \/ Polls(c)
               \/ fault

=============================================================================
