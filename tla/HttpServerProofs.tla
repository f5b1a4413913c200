-------------------------- MODULE HttpServerProofs --------------------------
(***************************************************************************)
(* Theorems about the HTTP server, for every set of connections, every set *)
(* of requests peers may send, and every limit and bound.                  *)
(***************************************************************************)
EXTENDS HttpServer, FiniteSetTheorems, SequenceTheorems, WellFoundedInduction,
        TLAPS

\* Every non-empty set of natural numbers has a least element.
LEMMA LeastNat ==
    ASSUME NEW S \in SUBSET Nat, S # {}
    PROVE  \E n \in S : \A m \in S : n <= m
<1>1. \A x, y \in Nat : x < y => <<x, y>> \in OpToRel(<, Nat)
  BY DEF OpToRel
<1>2. PICK R : /\ IsWellFoundedOn(R, Nat)
               /\ \A x, y \in Nat : x < y => <<x, y>> \in R
  BY <1>1, NatLessThanWellFounded
<1>3. IsWellFoundedOn(R, Nat) /\ S \subseteq Nat
  BY <1>2
<1>4. \E n \in S : \A y \in S : ~(<<y, n>> \in R)
  BY <1>3, WFMin, Zenon
<1>5. PICK n \in S : \A m \in S : ~(m < n)
  BY <1>2, <1>3, <1>4
<1> QED
  BY <1>3, <1>5

\* Leading counts the blanks a packet begins with: the CHOOSE has a witness.
LEMMA LeadingFacts ==
    ASSUME NEW p \in Seq(Nat \X Nat)
    PROVE  /\ Leading(p) \in 0 .. Len(p)
           /\ \A i \in 1 .. Leading(p) : p[i] = Blank
           /\ Leading(p) < Len(p) => p[Leading(p) + 1] # Blank
<1> DEFINE S == {i \in 1 .. Len(p) : p[i] # Blank}
           P(n) == /\ \A i \in 1 .. n : p[i] = Blank
                   /\ n < Len(p) => p[n + 1] # Blank
<1>1. \E n \in 0 .. Len(p) : P(n)
  <2>1. CASE S = {}
    <3>1. P(Len(p))
      BY <2>1
    <3> QED
      BY <3>1
  <2>2. CASE S # {}
    <3>1. PICK m \in S : \A i \in S : m <= i
      BY <2>2, LeastNat, S \in SUBSET Nat
    <3>2. m - 1 \in 0 .. Len(p) /\ P(m - 1)
      BY <3>1
    <3> QED
      BY <3>2
  <2> QED
    BY <2>1, <2>2
<1>2. Leading(p) = CHOOSE n \in 0 .. Len(p) : P(n)
  BY DEF Leading
<1> QED
  BY <1>1, <1>2

\* What is dropped from a packet is a part of it: the loop of http_recv_hdr
\* stays within what it has received.
LEMMA SkippedFacts ==
    ASSUME NEW p \in Seq(Nat \X Nat), Len(p) > 0
    PROVE  Skipped(p) \in 0 .. Len(p)
<1>1. Leading(p) \in 0 .. Len(p)
  BY LeadingFacts
<1>2. Len(p) \div 2 + 1 \in 0 .. Len(p)
  <2>1. Len(p) \in Nat
    OBVIOUS
  <2> QED
    BY <2>1
<1> QED
  BY <1>1, <1>2 DEF Skipped

\* Sequence a is s followed by t, said element by element.
IsJoin(a, s, t) ==
    /\ Len(a) = Len(s) + Len(t)
    /\ \A i \in 1 .. Len(s) : a[i] = s[i]
    /\ \A i \in 1 .. Len(t) : a[Len(s) + i] = t[i]

\* Joining two sequences.
LEMMA JoinFacts ==
    ASSUME NEW U, NEW s \in Seq(U), NEW t \in Seq(U)
    PROVE  s \o t \in Seq(U) /\ IsJoin(s \o t, s, t)
BY DEF IsJoin

\* A sequence is its first k elements followed by the others.
LEMMA CutFacts ==
    ASSUME NEW U, NEW s \in Seq(U), NEW k \in 0 .. Len(s)
    PROVE  /\ SubSeq(s, 1, k) \in Seq(U) /\ Len(SubSeq(s, 1, k)) = k
           /\ SubSeq(s, k + 1, Len(s)) \in Seq(U)
           /\ Len(SubSeq(s, k + 1, Len(s))) = Len(s) - k
           /\ IsJoin(s, SubSeq(s, 1, k), SubSeq(s, k + 1, Len(s)))
<1>1. PICK p, r : p = SubSeq(s, 1, k) /\ r = SubSeq(s, k + 1, Len(s))
  OBVIOUS
<1>2. p \in Seq(U) /\ Len(p) = k /\ \A i \in 1 .. k : p[i] = s[i]
  BY <1>1
<1>3. r \in Seq(U) /\ Len(r) = Len(s) - k /\ \A i \in 1 .. Len(s) - k : r[i] = s[k + i]
  BY <1>1
<1>4. IsJoin(s, p, r)
  BY <1>2, <1>3 DEF IsJoin
<1> QED
  BY <1>1, <1>2, <1>3, <1>4

\* t is what the first d elements of `all` are followed by, and after t
\* nothing but r comes.
Follows(all, d, t, r) ==
    /\ d + Len(t) + Len(r) = Len(all)
    /\ \A i \in 1 .. Len(t) : t[i] = all[i + d]
    /\ \A i \in 1 .. Len(r) : r[i] = all[d + Len(t) + i]

\* A receive of p into an empty buffer, the first elements x of it dropped.
LEMMA DropFacts ==
    ASSUME NEW U, NEW all \in Seq(U), NEW p \in Seq(U), NEW r \in Seq(U),
           NEW x \in Seq(U), NEW b \in Seq(U),
           IsJoin(all, p, r), IsJoin(p, x, b)
    PROVE  Follows(all, Len(x), b, r)
<1>1. Len(x) + Len(b) + Len(r) = Len(all)
  BY DEF IsJoin
<1>2. ASSUME NEW i \in 1 .. Len(b) PROVE b[i] = all[i + Len(x)]
  <2>1. b[i] = p[Len(x) + i] /\ Len(x) + i \in 1 .. Len(p) /\ i + Len(x) = Len(x) + i
    BY DEF IsJoin
  <2> QED
    BY <2>1 DEF IsJoin
<1>3. ASSUME NEW i \in 1 .. Len(r) PROVE r[i] = all[Len(x) + Len(b) + i]
  BY DEF IsJoin
<1> QED
  BY <1>1, <1>2, <1>3 DEF Follows

\* A receive of p into a buffer that holds h.
LEMMA AddFacts ==
    ASSUME NEW U, NEW all \in Seq(U), NEW h \in Seq(U), NEW s \in Seq(U),
           NEW p \in Seq(U), NEW r \in Seq(U), NEW b \in Seq(U),
           IsJoin(all, h, s), IsJoin(s, p, r), IsJoin(b, h, p)
    PROVE  Follows(all, 0, b, r)
<1>1. 0 + Len(b) + Len(r) = Len(all)
  BY DEF IsJoin
<1>2. ASSUME NEW i \in 1 .. Len(b) PROVE b[i] = all[i + 0]
  <2>1. CASE i <= Len(h)
    <3>1. b[i] = h[i] /\ all[i] = h[i] /\ i + 0 = i
      BY <2>1 DEF IsJoin
    <3> QED
      BY <3>1
  <2>2. CASE i > Len(h)
    <3>1. PICK j \in 1 .. Len(p) : i = Len(h) + j
      <4>1. i - Len(h) \in 1 .. Len(p) /\ i = Len(h) + (i - Len(h))
        BY <2>2 DEF IsJoin
      <4> QED
        BY <4>1
    <3>2. b[i] = p[j] /\ p[j] = s[j] /\ j \in 1 .. Len(s)
      BY <3>1 DEF IsJoin
    <3>3. all[i] = s[j] /\ i + 0 = i
      BY <3>1, <3>2 DEF IsJoin
    <3> QED
      BY <3>2, <3>3
  <2> QED
    BY <2>1, <2>2
<1>3. ASSUME NEW i \in 1 .. Len(r) PROVE r[i] = all[0 + Len(b) + i]
  <2>1. r[i] = s[Len(p) + i] /\ Len(p) + i \in 1 .. Len(s)
    BY DEF IsJoin
  <2>2. s[Len(p) + i] = all[Len(h) + (Len(p) + i)]
    BY <2>1 DEF IsJoin
  <2>3. Len(h) + (Len(p) + i) = 0 + Len(b) + i
    BY DEF IsJoin
  <2> QED
    BY <2>1, <2>2, <2>3
<1> QED
  BY <1>1, <1>2, <1>3 DEF Follows

\* What a receive of k units makes of the header buffer and of the socket:
\* both are parts of what was there, in its order, and what is missing was
\* dropped from the front of an empty buffer.
LEMMA BufferFacts ==
    ASSUME TypeOK, NEW c \in Conns, NEW k \in 1 .. Len(stream[c])
    PROVE  /\ Take(c, k) \in Seq(Nat \X Nat) /\ Len(Take(c, k)) = k
           /\ Leave(c, k) \in Seq(Nat \X Nat)
           /\ IsJoin(stream[c], Take(c, k), Leave(c, k))
           /\ Buffer(c, k) \in Seq(Nat \X Nat)
           /\ \E d \in Nat : Follows(hdr[c] \o stream[c], d, Buffer(c, k), Leave(c, k))
<1> DEFINE Q == Seq(Nat \X Nat)
<1>1. stream[c] \in Q /\ hdr[c] \in Q
  BY DEF TypeOK
<1>2. PICK s \in Q, h \in Q : s = stream[c] /\ h = hdr[c]
  BY <1>1
<1>3. k \in 0 .. Len(s) /\ k > 0
  BY <1>2
<1>4. PICK p \in Q, r \in Q : /\ p = Take(c, k) /\ r = Leave(c, k)
                              /\ Len(p) = k /\ IsJoin(s, p, r)
  <2>1. /\ SubSeq(s, 1, k) \in Q /\ Len(SubSeq(s, 1, k)) = k
        /\ SubSeq(s, k + 1, Len(s)) \in Q
        /\ IsJoin(s, SubSeq(s, 1, k), SubSeq(s, k + 1, Len(s)))
    BY <1>3, CutFacts
  <2> QED
    BY <1>2, <2>1 DEF Take, Leave
<1>5. PICK all \in Q : all = h \o s /\ IsJoin(all, h, s)
  BY JoinFacts
<1>6. Buffer(c, k) \in Q /\ \E d \in Nat : Follows(all, d, Buffer(c, k), r)
  <2>1. CASE h = <<>>
    <3>1. PICK e \in 0 .. Len(p) : e = Skipped(p)
      BY <1>3, <1>4, SkippedFacts
    <3>2. PICK x \in Q, b \in Q : /\ b = SubSeq(p, e + 1, Len(p))
                                  /\ IsJoin(p, x, b)
      BY CutFacts
    <3>3. Buffer(c, k) = b
      BY <1>2, <1>4, <2>1, <3>1, <3>2 DEF Buffer
    <3>4. all = s
      BY <1>5, <2>1
    <3>5. Follows(all, Len(x), b, r) /\ Len(x) \in Nat
      <4>1. IsJoin(all, p, r) /\ IsJoin(p, x, b)
        BY <1>4, <3>2, <3>4
      <4> QED
        BY <4>1, DropFacts
    <3> QED
      BY <3>3, <3>5
  <2>2. CASE h # <<>>
    <3>1. PICK b \in Q : b = h \o p /\ IsJoin(b, h, p)
      BY JoinFacts
    <3>2. Buffer(c, k) = b
      BY <1>2, <1>4, <2>2, <3>1 DEF Buffer
    <3>3. Follows(all, 0, b, r)
      BY <1>4, <1>5, <3>1, AddFacts
    <3> QED
      BY <3>2, <3>3
  <2> QED
    BY <2>1, <2>2
<1> QED
  BY <1>2, <1>4, <1>5, <1>6

-----------------------------------------------------------------------------
(* Invariants of one connection *)

\* A connection that waits behind the listener has not been opened, and an
\* accept that failed is still to be counted.
ListenerShape ==
    /\ listener \in Conns => conn[listener] = "backlog"
    /\ listener = "failed" => fails < MaxFails

\* Where the lthread of a connection is: only an open connection has one; a
\* new one has not done anything; what it has read is a request of its peer.
\* Only an answered request, or one that is given up, gets to "done", and a
\* body is waited for only if its length was found in the header.
ControlShape(c) ==
    /\ conn[c] = "open" <=> pc[c] # "off"
    /\ conn[c] \in {"none", "backlog"} =>
            /\ hdr[c] = <<>> /\ answers[c] = <<>> /\ handled[c] = <<>>
            /\ err[c] = 0 /\ resp_state[c] = "HTTP_HDR_BEGIN" /\ respcode[c] = 0
            /\ ~chunked[c]
    /\ conn[c] = "none" => sent[c] = <<>>
    /\ pc[c] \notin {"off", "done"} => resp_state[c] = "HTTP_HDR_BEGIN"
    /\ pc[c] \in {"hdr", "body", "route", "handler"} => err[c] = 0
    /\ (pc[c] = "done" /\ resp_state[c] = "HTTP_HDR_BEGIN") => err[c] = -1
    /\ pc[c] \in {"body", "route", "handler"} =>
            no[c] \in 1 .. Len(sent[c]) /\ Request(c, no[c]).form = "ok"
    /\ pc[c] = "body" => body[c] # NULL /\ cnt_len[c] = Request(c, no[c]).len

\* What the peer has sent and the server has not yet taken for a request or
\* a part of one.
Pending(c) == IF pc[c] = "hdr" THEN hdr[c] \o stream[c] ELSE stream[c]

\* u is a unit of one of the requests q.
IsUnit(q, u) == /\ u[1] \in 0 .. Len(q)
                /\ u[1] = 0 => u = Blank
                /\ u[1] # 0 => u[2] <= q[u[1]].len

\* s holds units of the requests q, and their headers in order.
Sound(q, s) ==
    /\ \A i \in 1 .. Len(s) : IsUnit(q, s[i])
    /\ \A i, j \in 1 .. Len(s) :
            (i < j /\ s[i][2] = 0 /\ s[j][2] = 0) => s[i][1] < s[j][1]

StreamShape(c) == Sound(sent[c], Pending(c))

ServerInv == /\ TypeOK /\ TotalExact /\ ListenerShape
             /\ \A c \in Conns : ControlShape(c) /\ StreamShape(c)

-----------------------------------------------------------------------------
(* Steps, seen from one connection *)

\* Nothing happens to connection d.
Same(d) ==
    /\ conn'[d] = conn[d] /\ peer'[d] = peer[d] /\ sent'[d] = sent[d]
    /\ early'[d] = early[d] /\ stream'[d] = stream[d] /\ pc'[d] = pc[d]
    /\ hdr'[d] = hdr[d] /\ no'[d] = no[d] /\ cnt_len'[d] = cnt_len[d]
    /\ chunked'[d] = chunked[d]
    /\ body'[d] = body[d] /\ body_len'[d] = body_len[d] /\ cb'[d] = cb[d]
    /\ err'[d] = err[d] /\ respcode'[d] = respcode[d]
    /\ resp_state'[d] = resp_state[d] /\ handled'[d] = handled[d]
    /\ answers'[d] = answers[d]

\* The listener has accepted connection d and starts its lthread, or cannot.
Opened(d) ==
    /\ conn[d] = "backlog"
    /\ \/ conn'[d] = "open" /\ pc'[d] = "hdr"
       \/ conn'[d] = "closed" /\ pc'[d] = pc[d]
    /\ UNCHANGED <<peer, sent, early, stream, reqVars, cb, respVars, handled>>

\* A step of the server is, for each connection, nothing, a start, a step of
\* its peer or a step of its lthread.
LEMMA Frame ==
    ASSUME TypeOK, ListenerShape, [Next]_vars, NEW d \in Conns
    PROVE  Same(d) \/ Opened(d) \/ Peer(d) \/ Serve(d)
<1>1. CASE UNCHANGED vars
  <2>1. /\ UNCHANGED <<conn, peer, sent, early, stream, pc, hdr, no, cnt_len>>
        /\ UNCHANGED <<chunked, body, body_len, cb, err, respcode, resp_state,
                       handled, answers>>
    BY <1>1, Zenon DEF vars, netVars, lsnVars, reqVars, respVars
  <2> QED
    BY <2>1, Zenon DEF Same
<1>a. ASSUME UNCHANGED <<peer, sent, early, stream, reqVars, cb, respVars, handled>>,
             conn'[d] = conn[d], pc'[d] = pc[d]
      PROVE  Same(d)
  BY <1>a, Zenon DEF Same, reqVars, respVars
<1>b. ASSUME UNCHANGED <<peer, sent, early, stream, reqVars, cb, respVars, handled>>,
             NEW x, http_cli_new(x), x \in Conns => conn[x] = "backlog"
      PROVE  Same(d) \/ Opened(d)
  <2>1. DOMAIN conn = Conns /\ DOMAIN pc = Conns
    BY DEF TypeOK
  <2>2. CASE x = d
    <3>1. \/ conn'[d] = "open" /\ pc'[d] = "hdr"
          \/ conn'[d] = "closed" /\ pc'[d] = pc[d]
      BY <1>b, <2>1, <2>2 DEF http_cli_new
    <3> QED
      BY <1>b, <2>2, <3>1 DEF Opened
  <2>3. CASE x # d
    <3>1. conn'[d] = conn[d] /\ pc'[d] = pc[d]
      BY <1>b, <2>1, <2>3 DEF http_cli_new
    <3> QED
      BY <1>a, <1>b, <3>1
  <2> QED
    BY <2>2, <2>3
<1>2. ASSUME NEW x \in Conns \union {"failed"}, Accept(x)
      PROVE  Same(d) \/ Opened(d)
  <2>1. UNCHANGED <<peer, sent, early, stream, reqVars, cb, respVars, handled>>
    BY <1>2 DEF Accept
  <2>2. \/ conn' = conn /\ pc' = pc
        \/ http_cli_new(x) /\ (x \in Conns => conn[x] = "backlog")
    BY <1>2 DEF Accept
  <2> QED
    BY <1>a, <1>b, <2>1, <2>2
<1>3. CASE ListenerWake
  <2>1. /\ UNCHANGED <<peer, sent, early, stream, reqVars, cb, respVars, handled>>
        /\ http_cli_new(listener) /\ (listener \in Conns => conn[listener] = "backlog")
    BY <1>3 DEF ListenerWake, ListenerShape
  <2> QED
    BY <1>b, <2>1
<1>4. ASSUME NEW c \in Conns, c # d, Peer(c)
      PROVE  Same(d)
  <2>1. CASE Connect(c)
    BY <1>4, <2>1 DEF Connect, Same, TypeOK, lsnVars, reqVars, respVars
  <2>2. ASSUME NEW r \in Kinds, SendRequest(c, r) PROVE Same(d)
    BY <1>4, <2>2 DEF SendRequest, Same, TypeOK, lsnVars, reqVars, respVars
  <2>3. ASSUME NEW k \in 0 .. Len(stream[c]), PeerClose(c, k) PROVE Same(d)
    BY <1>4, <2>3 DEF PeerClose, Same, TypeOK, lsnVars, reqVars, respVars
  <2>4. CASE PeerReset(c)
    BY <1>4, <2>4 DEF PeerReset, Same, TypeOK, lsnVars, reqVars, respVars
  <2> QED
    BY <1>4, <2>1, <2>2, <2>3, <2>4 DEF Peer
<1>5. ASSUME NEW c \in Conns, c # d, Serve(c)
      PROVE  Same(d)
  <2>1. ASSUME NEW k, RecvHdrMore(c, k) PROVE Same(d)
    <3>1. (\E v : pc' = [pc EXCEPT ![c] = v]) \/ pc' = pc
      BY <2>1, Zenon DEF RecvHdrMore, http_handle_cli_req_err, http_respond
    <3>2. /\ (\E v : err' = [err EXCEPT ![c] = v]) \/ err' = err
          /\ (\E v : respcode' = [respcode EXCEPT ![c] = v]) \/ respcode' = respcode
      BY <2>1, Zenon DEF RecvHdrMore, http_handle_cli_req_err, http_respond
    <3>3. /\ UNCHANGED <<conn, peer, sent, early, chunked, body, body_len, cb,
                         resp_state, answers, handled>>
          /\ \E v : stream' = [stream EXCEPT ![c] = v]
          /\ \E v : hdr' = [hdr EXCEPT ![c] = v]
          /\ \E v : no' = [no EXCEPT ![c] = v]
          /\ \E v : cnt_len' = [cnt_len EXCEPT ![c] = v]
      BY <2>1 DEF RecvHdrMore
    <3> QED
      BY <1>5, <3>1, <3>2, <3>3 DEF Same, TypeOK
  <2>2. ASSUME NEW k, RecvHdr(c, k) PROVE Same(d)
    <3>1. /\ \E v : no' = [no EXCEPT ![c] = v]
          /\ \E v : body' = [body EXCEPT ![c] = v]
          /\ \E v : body_len' = [body_len EXCEPT ![c] = v]
      BY <2>2 DEF RecvHdr
    <3>2. /\ (\E v : chunked' = [chunked EXCEPT ![c] = v]) \/ chunked' = chunked
          /\ \E v : cnt_len' = [cnt_len EXCEPT ![c] = v]
      BY <2>2, Zenon DEF RecvHdr, http_parse_req_hdr
    <3>3. (\E v : pc' = [pc EXCEPT ![c] = v])
      BY <2>2, Zenon DEF RecvHdr, http_parse_req_hdr, http_handle_cli_req_err, http_respond
    <3>4. /\ (\E v : err' = [err EXCEPT ![c] = v]) \/ err' = err
          /\ (\E v : respcode' = [respcode EXCEPT ![c] = v]) \/ respcode' = respcode
      BY <2>2, Zenon DEF RecvHdr, http_parse_req_hdr, http_handle_cli_req_err, http_respond
    <3>5. /\ UNCHANGED <<conn, peer, sent, early, cb, resp_state, answers, handled>>
          /\ \E v : stream' = [stream EXCEPT ![c] = v]
          /\ \E v : hdr' = [hdr EXCEPT ![c] = v]
      BY <2>2 DEF RecvHdr
    <3> QED
      BY <1>5, <3>1, <3>2, <3>3, <3>4, <3>5 DEF Same, TypeOK
  <2>3. ASSUME NEW k, RecvBody(c, k) PROVE Same(d)
    BY <1>5, <2>3 DEF RecvBody, Same, TypeOK, lsnVars, respVars
  <2>4. CASE RecvHdrFail(c)
    BY <1>5, <2>4 DEF RecvHdrFail, http_cli_free, Same, TypeOK, reqVars, respVars
  <2>5. CASE RecvBodyEnd(c)
    BY <1>5, <2>5 DEF RecvBodyEnd, Same, TypeOK, netVars, lsnVars, respVars
  <2>6. CASE Route(c)
    <3>1. /\ UNCHANGED <<netVars, lsnVars, reqVars, resp_state, answers>>
          /\ \E v : handled' = [handled EXCEPT ![c] = v]
          /\ \E v : pc' = [pc EXCEPT ![c] = v]
          /\ (\E v : cb' = [cb EXCEPT ![c] = v]) \/ cb' = cb
      BY <2>6, Zenon DEF Route
    <3>2. /\ (\E v : err' = [err EXCEPT ![c] = v]) \/ err' = err
          /\ (\E v : respcode' = [respcode EXCEPT ![c] = v]) \/ respcode' = respcode
      BY <2>6, Zenon DEF Route
    <3> QED
      BY <1>5, <3>1, <3>2 DEF Same, TypeOK, netVars, reqVars
  <2>7. ASSUME NEW code, HandlerRespond(c, code) PROVE Same(d)
    BY <1>5, <2>7 DEF HandlerRespond, http_respond, Same, TypeOK, netVars, lsnVars,
                      reqVars
  <2>8. CASE Written(c)
    BY <1>5, <2>8 DEF Written, Same, TypeOK, netVars, lsnVars, reqVars
  <2>9. CASE RespondLast(c)
    BY <1>5, <2>9 DEF RespondLast, http_respond, Same, TypeOK, netVars, lsnVars,
                      reqVars
  <2>10. CASE http_cli_reset(c)
    BY <1>5, <2>10 DEF http_cli_reset, Same, TypeOK, netVars, lsnVars
  <2>11. CASE GiveUp(c)
    BY <1>5, <2>11 DEF GiveUp, http_cli_free, Same, TypeOK, reqVars, respVars
  <2> QED
    BY <1>5, <2>1, <2>2, <2>3, <2>4, <2>5, <2>6, <2>7, <2>8, <2>9, <2>10, <2>11
       DEF Serve
<1> QED
  BY <1>1, <1>2, <1>3, <1>4, <1>5 DEF Next, Listener

-----------------------------------------------------------------------------
(* Streams *)

\* t is a contiguous part of `all`.
Part(t, all) == \E d \in Nat : /\ d + Len(t) <= Len(all)
                               /\ \A i \in 1 .. Len(t) : t[i] = all[i + d]

\* After a receive, the buffer, the rest, and both together are parts of what
\* was there.
LEMMA FollowsParts ==
    ASSUME NEW U, NEW all \in Seq(U), NEW b \in Seq(U), NEW r \in Seq(U),
           NEW d \in Nat, Follows(all, d, b, r)
    PROVE  Part(b, all) /\ Part(r, all) /\ Part(b \o r, all)
<1>1. /\ d + Len(b) + Len(r) = Len(all)
      /\ \A i \in 1 .. Len(b) : b[i] = all[i + d]
      /\ \A i \in 1 .. Len(r) : r[i] = all[d + Len(b) + i]
  BY DEF Follows
<1>2. Part(b, all)
  <2>1. d + Len(b) <= Len(all)
    BY <1>1
  <2> QED
    BY <1>1, <2>1 DEF Part
<1>3. Part(r, all)
  <2>1. d + Len(b) \in Nat /\ d + Len(b) + Len(r) <= Len(all)
    BY <1>1
  <2>2. \A i \in 1 .. Len(r) : r[i] = all[i + (d + Len(b))]
    BY <1>1
  <2> QED
    BY <2>1, <2>2 DEF Part
<1>4. Part(b \o r, all)
  <2>1. PICK t : t = b \o r
    OBVIOUS
  <2>2. t \in Seq(U) /\ IsJoin(t, b, r)
    BY <2>1, JoinFacts
  <2>3. ASSUME NEW i \in 1 .. Len(t) PROVE t[i] = all[i + d]
    <3>1. CASE i <= Len(b)
      BY <1>1, <2>2, <3>1 DEF IsJoin
    <3>2. CASE i > Len(b)
      <4>1. PICK j \in 1 .. Len(r) : i = Len(b) + j
        <5>1. i - Len(b) \in 1 .. Len(r) /\ i = Len(b) + (i - Len(b))
          BY <2>2, <3>2 DEF IsJoin
        <5> QED
          BY <5>1
      <4>2. t[i] = r[j] /\ r[j] = all[d + Len(b) + j] /\ d + Len(b) + j = i + d
        BY <1>1, <2>2, <4>1 DEF IsJoin
      <4> QED
        BY <4>2
    <3> QED
      BY <2>2, <3>1, <3>2
  <2>4. d + Len(t) <= Len(all)
    BY <1>1, <2>2 DEF IsJoin
  <2> QED
    BY <2>1, <2>3, <2>4 DEF Part
<1> QED
  BY <1>2, <1>3, <1>4

\* Parts of a sound stream are sound.
LEMMA PartSound ==
    ASSUME NEW q, NEW all \in Seq(Nat \X Nat), NEW t \in Seq(Nat \X Nat),
           Part(t, all), Sound(q, all)
    PROVE  Sound(q, t)
<1>1. PICK d \in Nat : /\ d + Len(t) <= Len(all)
                       /\ \A i \in 1 .. Len(t) : t[i] = all[i + d]
  BY DEF Part
<1>2. \A i \in 1 .. Len(t) : i + d \in 1 .. Len(all)
  BY <1>1
<1>3. \A i \in 1 .. Len(t) : IsUnit(q, t[i])
  BY <1>1, <1>2 DEF Sound
<1>4. ASSUME NEW i \in 1 .. Len(t), NEW j \in 1 .. Len(t),
             i < j, t[i][2] = 0, t[j][2] = 0
      PROVE  t[i][1] < t[j][1]
  <2>1. i + d < j + d
    BY <1>4
  <2>2. /\ t[i] = all[i + d] /\ t[j] = all[j + d]
        /\ i + d \in 1 .. Len(all) /\ j + d \in 1 .. Len(all)
    BY <1>1, <1>2
  <2> QED
    BY <1>4, <2>1, <2>2 DEF Sound
<1> QED
  BY <1>3, <1>4 DEF Sound

\* The first part of a join, the second part of one, and nothing at all, are
\* parts.
LEMMA JoinParts ==
    ASSUME NEW U, NEW all \in Seq(U), NEW s \in Seq(U), NEW t \in Seq(U),
           IsJoin(all, s, t)
    PROVE  Part(s, all) /\ Part(t, all) /\ Part(<<>>, all)
<1>1. Part(s, all)
  <2>1. 0 + Len(s) <= Len(all) /\ \A i \in 1 .. Len(s) : s[i] = all[i + 0]
    BY DEF IsJoin
  <2> QED
    BY <2>1 DEF Part
<1>2. Part(t, all)
  <2>1. Len(s) + Len(t) <= Len(all) /\ \A i \in 1 .. Len(t) : t[i] = all[i + Len(s)]
    BY DEF IsJoin
  <2> QED
    BY <2>1 DEF Part
<1>3. Part(<<>>, all)
  <2>1. 0 + Len(<<>>) <= Len(all) /\ \A i \in 1 .. Len(<<>>) : <<>>[i] = all[i + 0]
    OBVIOUS
  <2> QED
    BY <2>1 DEF Part
<1> QED
  BY <1>1, <1>2, <1>3

\* The units of a request, by index.
UnitAt(n, r, i) == IF i <= r.blanks THEN Blank ELSE <<n, i - r.blanks - 1>>

\* The units a request is sent as, one by one.
LEMMA UnitsFacts ==
    ASSUME NEW n \in Nat, NEW r \in KindRecords
    PROVE  /\ Units(n, r) \in Seq(Nat \X Nat)
           /\ Len(Units(n, r)) = r.blanks + r.len + 1
           /\ \A i \in 1 .. r.blanks + r.len + 1 : Units(n, r)[i] = UnitAt(n, r, i)
<1>1. PICK x \in Nat, y \in Nat : x = r.blanks /\ y = r.len
  BY DEF KindRecords
<1>2. PICK B, H : /\ B = [i \in 1 .. x |-> Blank]
                  /\ H = [i \in 1 .. y + 1 |-> <<n, i - 1>>]
  OBVIOUS
<1>3. B \in Seq(Nat \X Nat) /\ Len(B) = x
  <2>1. Blank \in Nat \X Nat
    BY DEF Blank
  <2> QED
    BY <1>2, <2>1
<1>4. H \in Seq(Nat \X Nat) /\ Len(H) = y + 1
  <2>1. \A i \in 1 .. y + 1 : <<n, i - 1>> \in Nat \X Nat
    OBVIOUS
  <2> QED
    BY <1>2, <2>1
<1>5. PICK u : u = Units(n, r)
  OBVIOUS
<1>6. u \in Seq(Nat \X Nat) /\ IsJoin(u, B, H)
  BY <1>1, <1>2, <1>3, <1>4, <1>5, JoinFacts DEF Units
<1>7. Len(u) = x + y + 1
  BY <1>3, <1>4, <1>6 DEF IsJoin
<1>8. ASSUME NEW i \in 1 .. x + y + 1 PROVE u[i] = UnitAt(n, r, i)
  <2>1. CASE i <= x
    <3>1. i \in 1 .. x /\ u[i] = B[i]
      BY <1>3, <1>6, <2>1 DEF IsJoin
    <3> QED
      BY <1>1, <1>2, <2>1, <3>1 DEF UnitAt
  <2>2. CASE i > x
    <3>1. PICK j \in 1 .. y + 1 : i = x + j /\ j = i - x
      <4>1. i - x \in 1 .. y + 1 /\ i = x + (i - x)
        BY <2>2
      <4> QED
        BY <4>1
    <3>2. u[i] = H[j] /\ H[j] = <<n, j - 1>>
      BY <1>2, <1>3, <1>4, <1>6, <3>1 DEF IsJoin
    <3>3. ~(i <= x) /\ i - x - 1 = j - 1
      BY <2>2, <3>1
    <3>4. UnitAt(n, r, i) = <<n, i - x - 1>>
      BY <1>1, <3>3 DEF UnitAt
    <3> QED
      BY <3>2, <3>3, <3>4
  <2> QED
    BY <2>1, <2>2
<1> QED
  BY <1>1, <1>5, <1>6, <1>7, <1>8

\* Each of them is a unit of the request, and only one is a header.
LEMMA UnitAtFacts ==
    ASSUME NEW n \in Nat \ {0}, NEW r \in KindRecords,
           NEW i \in 1 .. r.blanks + r.len + 1, NEW u, u = UnitAt(n, r, i)
    PROVE  /\ u[1] = 0 => u = Blank
           /\ u[1] # 0 => u[1] = n /\ u[2] <= r.len
           /\ u[1] \in {0, n} /\ u[2] \in Nat
           /\ u[2] = 0 => u[1] = n /\ i = r.blanks + 1
<1>1. PICK x \in Nat, y \in Nat : x = r.blanks /\ y = r.len
  BY DEF KindRecords
<1>2. i \in 1 .. x + y + 1
  BY <1>1
<1>3. CASE i <= x
  BY <1>1, <1>3 DEF UnitAt, Blank
<1>4. CASE i > x
  <2>1. ~(i <= x) /\ i - x - 1 \in 0 .. y
    BY <1>2, <1>4
  <2>2. u = <<n, i - x - 1>>
    BY <1>1, <2>1 DEF UnitAt
  <2>3. u[1] = n /\ u[2] = i - x - 1
    BY <2>2
  <2> QED
    BY <1>1, <1>2, <2>1, <2>3
<1> QED
  BY <1>2, <1>3, <1>4

\* An index of a join is one of its first part or one of its second.
LEMMA JoinIndex ==
    ASSUME NEW U, NEW a \in Seq(U), NEW s \in Seq(U), NEW t \in Seq(U),
           IsJoin(a, s, t), NEW i \in 1 .. Len(a)
    PROVE  \/ i \in 1 .. Len(s) /\ a[i] = s[i]
           \/ \E j \in 1 .. Len(t) : i = Len(s) + j /\ a[i] = t[j]
<1>1. CASE i <= Len(s)
  BY <1>1 DEF IsJoin
<1>2. CASE i > Len(s)
  <2>1. i - Len(s) \in 1 .. Len(t) /\ i = Len(s) + (i - Len(s))
    BY <1>2 DEF IsJoin
  <2>2. PICK j \in 1 .. Len(t) : i = Len(s) + j
    BY <2>1
  <2> QED
    BY <2>2 DEF IsJoin
<1> QED
  BY <1>1, <1>2

\* Appending the units of one more request keeps a stream sound.
LEMMA SendSound ==
    ASSUME NEW q \in Seq(KindRecords), NEW r \in KindRecords, NEW n \in Nat \ {0},
           n = Len(q) + 1, NEW s \in Seq(Nat \X Nat), Sound(q, s),
           NEW t \in Seq(Nat \X Nat), IsJoin(t, s, Units(n, r))
    PROVE  Sound(Append(q, r), t)
<1>1. PICK Q \in Seq(KindRecords) :
            /\ Q = Append(q, r) /\ Len(Q) = n /\ Q[n] = r
            /\ \A i \in 1 .. Len(q) : Q[i] = q[i]
  <2>1. /\ Append(q, r) \in Seq(KindRecords) /\ Len(Append(q, r)) = n
        /\ Append(q, r)[n] = r
        /\ \A i \in 1 .. Len(q) : Append(q, r)[i] = q[i]
    OBVIOUS
  <2> QED
    BY <2>1
<1>2. PICK x \in Nat, y \in Nat : x = r.blanks /\ y = r.len
  BY DEF KindRecords
<1>3. PICK u \in Seq(Nat \X Nat) : u = Units(n, r)
  BY UnitsFacts
<1>4. Len(u) = x + y + 1 /\ \A i \in 1 .. x + y + 1 : u[i] = UnitAt(n, r, i)
  BY <1>2, <1>3, UnitsFacts
<1>5. ASSUME NEW i \in 1 .. Len(s)
      PROVE  IsUnit(Q, s[i]) /\ s[i][1] < n
  <2>1. IsUnit(q, s[i]) /\ s[i] \in Nat \X Nat
    BY DEF Sound
  <2> QED
    BY <1>1, <2>1 DEF IsUnit
<1>6. ASSUME NEW i \in 1 .. Len(u)
      PROVE  IsUnit(Q, u[i]) /\ (u[i][2] = 0 => u[i][1] = n /\ i = x + 1)
  <2>1. i \in 1 .. x + y + 1 /\ i \in 1 .. r.blanks + r.len + 1
    BY <1>2, <1>4
  <2>2. PICK w : w = u[i] /\ w = UnitAt(n, r, i)
    BY <1>4, <2>1
  <2>3. /\ w[1] = 0 => w = Blank
        /\ w[1] # 0 => w[1] = n /\ w[2] <= r.len
        /\ w[1] \in {0, n}
        /\ w[2] = 0 => w[1] = n /\ i = r.blanks + 1
    BY <2>1, <2>2, UnitAtFacts
  <2> QED
    BY <1>1, <1>2, <2>2, <2>3 DEF IsUnit
<1>7. ASSUME NEW i \in 1 .. Len(t)
      PROVE  \/ i \in 1 .. Len(s) /\ t[i] = s[i]
             \/ \E j \in 1 .. Len(u) : i = Len(s) + j /\ t[i] = u[j]
  BY <1>3, JoinIndex
<1>8. \A i \in 1 .. Len(t) : IsUnit(Q, t[i])
  BY <1>5, <1>6, <1>7
<1>9. ASSUME NEW i \in 1 .. Len(t), NEW j \in 1 .. Len(t),
             i < j, t[i][2] = 0, t[j][2] = 0
      PROVE  t[i][1] < t[j][1]
  <2>1. CASE j \in 1 .. Len(s) /\ t[j] = s[j]
    <3>1. i \in 1 .. Len(s) /\ t[i] = s[i]
      <4>1. ASSUME NEW m \in 1 .. Len(u), i = Len(s) + m PROVE FALSE
        BY <1>9, <2>1, <4>1
      <4> QED
        BY <1>7, <4>1
    <3> QED
      BY <1>9, <2>1, <3>1 DEF Sound
  <2>2. ASSUME NEW l \in 1 .. Len(u), j = Len(s) + l, t[j] = u[l]
        PROVE  t[i][1] < t[j][1]
    <3>1. t[j][1] = n /\ l = x + 1
      BY <1>6, <1>9, <2>2
    <3>2. i \in 1 .. Len(s) /\ t[i] = s[i]
      <4>1. ASSUME NEW m \in 1 .. Len(u), i = Len(s) + m, t[i] = u[m] PROVE FALSE
        <5>1. m = x + 1
          BY <1>6, <1>9, <4>1
        <5> QED
          BY <1>9, <2>2, <3>1, <4>1, <5>1
      <4> QED
        BY <1>7, <4>1
    <3> QED
      BY <1>5, <3>1, <3>2
  <2> QED
    BY <1>7, <2>1, <2>2
<1> QED
  BY <1>1, <1>8, <1>9 DEF Sound

-----------------------------------------------------------------------------
(* A header is received *)

\* Pending units are a sequence.
LEMMA PendingType ==
    ASSUME TypeOK, NEW c \in Conns
    PROVE  /\ stream[c] \in Seq(Nat \X Nat) /\ hdr[c] \in Seq(Nat \X Nat)
           /\ Pending(c) \in Seq(Nat \X Nat) /\ hdr[c] \o stream[c] \in Seq(Nat \X Nat)
<1>1. stream[c] \in Seq(Nat \X Nat) /\ hdr[c] \in Seq(Nat \X Nat)
  BY DEF TypeOK
<1>2. hdr[c] \o stream[c] \in Seq(Nat \X Nat)
  BY <1>1, JoinFacts
<1> QED
  BY <1>1, <1>2 DEF Pending

\* A receive keeps what is pending sound.
LEMMA BufferSound ==
    ASSUME TypeOK, NEW c \in Conns, StreamShape(c), pc[c] = "hdr",
           NEW k \in 1 .. Len(stream[c])
    PROVE  /\ Sound(sent[c], Buffer(c, k)) /\ Sound(sent[c], Leave(c, k))
           /\ Sound(sent[c], Buffer(c, k) \o Leave(c, k))
<1>1. PICK all \in Seq(Nat \X Nat) : all = hdr[c] \o stream[c]
  BY PendingType
<1>2. PICK b \in Seq(Nat \X Nat), r \in Seq(Nat \X Nat), d \in Nat :
            b = Buffer(c, k) /\ r = Leave(c, k) /\ Follows(all, d, b, r)
  BY <1>1, BufferFacts
<1>3. b \o r \in Seq(Nat \X Nat)
  BY JoinFacts
<1>4. Part(b, all) /\ Part(r, all) /\ Part(b \o r, all)
  BY <1>2, FollowsParts
<1>5. Sound(sent[c], all)
  BY <1>1 DEF StreamShape, Pending
<1> QED
  BY <1>2, <1>3, <1>4, <1>5, PartSound

\* Every request a peer has sent is a record with the fields of one.
LEMMA RequestType ==
    ASSUME TypeOK, NEW c \in Conns
    PROVE  /\ sent[c] \in Seq(Kinds) /\ sent[c] \in Seq(KindRecords) /\ Len(sent[c]) \in Nat
           /\ \A n \in 1 .. Len(sent[c]) : sent[c][n] \in Kinds /\ sent[c][n] \in KindRecords
<1>1. sent[c] \in Seq(Kinds)
  BY DEF TypeOK
<1>2. Kinds \subseteq KindRecords
  BY ConstantsAssumption
<1> QED
  BY <1>1, <1>2

\* The header of request r is accepted, with `have` units after it, where
\* http_parse_hdr has found the length `len` and the flag `ch`; and the request
\* is refused.
Accepted(c, r, have, len, ch) ==
    /\ (Legible(r) /\ ~r.chunked) => len = r.len
    /\ pc' = [pc EXCEPT ![c] =
                IF Incomplete(r.method, chunked[c] \/ ch, have, len)
                THEN "body" ELSE "route"]
    /\ err' = err /\ respcode' = respcode
Refused(c) ==
    /\ pc' = [pc EXCEPT ![c] = "write"]
    /\ err' = [err EXCEPT ![c] = -1]
    /\ respcode' = [respcode EXCEPT ![c] = http_set_respcode(c, 400)]
Parsed(c, r, atStart, have, len, ch) ==
    /\ ch => r.chunked
    /\ cnt_len' = [cnt_len EXCEPT ![c] = len]
    /\ chunked' = [chunked EXCEPT ![c] = chunked[c] \/ ch]
    /\ \/ atStart /\ r.form = "ok" /\ Accepted(c, r, have, len, ch)
       \/ ~(atStart /\ r.form = "ok") /\ Refused(c)

\* Buffer b holds the header of request n at `end`, the first one in it, and
\* what the lthread of c makes of that.
Found(c, b, end, n) ==
    /\ b[end][1] = n /\ b[end][2] = 0 /\ \A j \in 1 .. end - 1 : b[j][2] # 0
    /\ no' = [no EXCEPT ![c] = n]
    /\ body' = [body EXCEPT ![c] = SubSeq(b, end + 1, Len(b))]
    /\ body_len' = [body_len EXCEPT ![c] = Len(b) - end]
    /\ \E len \in {0, sent[c][n].len}, ch \in BOOLEAN :
            Parsed(c, sent[c][n], end = 1, Len(b) - end, len, ch)

\* RecvHdr, once its LETs are resolved.
LEMMA RecvHdrFacts ==
    ASSUME TypeOK, NEW c \in Conns, ControlShape(c), StreamShape(c),
           NEW k \in 1 .. Len(stream[c]), RecvHdr(c, k)
    PROVE  \E end \in 1 .. Len(Buffer(c, k)), n \in 1 .. Len(sent[c]) :
            Found(c, Buffer(c, k), end, n)
<1>1. PICK b \in Seq(Nat \X Nat) : b = Buffer(c, k)
  BY BufferFacts
<1>2. pc[c] = "hdr" /\ resp_state[c] = "HTTP_HDR_BEGIN"
  BY DEF RecvHdr, Runs, ControlShape
<1>3. Sound(sent[c], b)
  BY <1>1, <1>2, BufferSound
<1>4. PICK end \in HdrEnds(c, b) :
            /\ no' = [no EXCEPT ![c] = b[end][1]]
            /\ body' = [body EXCEPT ![c] = SubSeq(b, end + 1, Len(b))]
            /\ body_len' = [body_len EXCEPT ![c] = Len(b) - end]
            /\ \E blank \in Behind(c, b, end) : http_parse_req_hdr(c, b, end, blank)
  BY <1>1, Zenon DEF RecvHdr
<1>a. PICK blank \in Behind(c, b, end) : http_parse_req_hdr(c, b, end, blank)
  BY <1>4, Zenon
<1>5. end \in 1 .. Len(b) /\ b[end][2] = 0 /\ \A j \in 1 .. end - 1 : b[j][2] # 0
  BY <1>4 DEF HdrEnds
<1>6. IsUnit(sent[c], b[end]) /\ b[end] \in Nat \X Nat
  BY <1>3, <1>5 DEF Sound
<1>7. PICK n \in 1 .. Len(sent[c]) : n = b[end][1]
  <2>1. b[end] # Blank
    BY <1>5 DEF Blank
  <2> QED
    BY <1>6, <2>1 DEF IsUnit
<1>8. /\ no' = [no EXCEPT ![c] = n]
      /\ body' = [body EXCEPT ![c] = SubSeq(b, end + 1, Len(b))]
      /\ body_len' = [body_len EXCEPT ![c] = Len(b) - end]
  BY <1>4, <1>7
<1>9. PICK r : r = sent[c][n]
  OBVIOUS
<1>10. PICK h, line : /\ h = http_parse_hdr(r, blank)
                      /\ line = http_parse_req_line(r, end = 1)
  OBVIOUS
<1>11. IF line # "ok"
       THEN /\ http_handle_cli_req_err(c, line)
            /\ cnt_len' = [cnt_len EXCEPT ![c] = 0]
            /\ chunked' = chunked
       ELSE /\ cnt_len' = [cnt_len EXCEPT ![c] = h.cnt_len]
            /\ chunked' = [chunked EXCEPT ![c] = chunked[c] \/ h.chunked]
            /\ IF r.form = "host"
               THEN http_handle_cli_req_err(c, "INV_HOST")
               ELSE /\ pc' = [pc EXCEPT ![c] =
                            IF Incomplete(r.method, chunked[c] \/ h.chunked,
                                          Len(b) - end, h.cnt_len)
                            THEN "body" ELSE "route"]
                    /\ err' = err /\ respcode' = respcode
  <2>1. r = Request(c, b[end][1])
    BY <1>7, <1>9 DEF Request
  <2> QED
    BY <1>a, <1>10, <2>1, Zenon DEF http_parse_req_hdr
<1>12. /\ h.cnt_len \in {0, r.len} /\ ((Legible(r) /\ ~r.chunked) => h.cnt_len = r.len)
       /\ h.chunked \in BOOLEAN /\ (h.chunked => r.chunked)
  <2>1. /\ h.cnt_len = IF r.chunked \/ ~r.space \/ (r.last /\ blank) THEN 0 ELSE r.len
        /\ h.chunked = (r.chunked /\ ~(r.last /\ blank))
    BY <1>10 DEF http_parse_hdr
  <2>2. h.cnt_len \in {0, r.len}
    BY <2>1
  <2>3. ASSUME Legible(r), ~r.chunked PROVE h.cnt_len = r.len
    <3>1. r.space /\ ~r.last
      BY <2>3 DEF Legible
    <3>2. ~(r.chunked \/ ~r.space \/ (r.last /\ blank))
      BY <2>3, <3>1, Zenon
    <3> QED
      BY <2>1, <3>2
  <2>4. h.chunked \in BOOLEAN /\ (h.chunked => r.chunked)
    BY <2>1, Zenon
  <2> QED
    BY <2>2, <2>3, <2>4
<1>13. ASSUME NEW e, http_handle_cli_req_err(c, e) PROVE Refused(c)
  BY <1>2, <1>13 DEF http_handle_cli_req_err, http_respond, Refused
<1>14. \E l \in {0, r.len}, g \in BOOLEAN : Parsed(c, r, end = 1, Len(b) - end, l, g)
  <2>0. r.form # "nul" /\ r.form \in Forms
    <3>1. r.form # "nul"
      BY <1>4, <1>7, <1>9 DEF HdrEnds, Request
    <3>2. r \in KindRecords
      BY <1>9, RequestType
    <3> QED
      BY <3>1, <3>2 DEF KindRecords
  <2>1. CASE line # "ok"
    <3>1. ~(end = 1 /\ r.form = "ok")
      BY <1>10, <2>1 DEF http_parse_req_line
    <3>2. Refused(c)
      BY <1>11, <1>13, <2>1
    <3>3. cnt_len' = [cnt_len EXCEPT ![c] = 0] /\ chunked' = chunked
      BY <1>11, <2>1
    <3>4. chunked \in [Conns -> BOOLEAN]
      BY DEF TypeOK
    <3>5. chunked' = [chunked EXCEPT ![c] = chunked[c] \/ FALSE]
      BY <3>3, <3>4
    <3>6. Parsed(c, r, end = 1, Len(b) - end, 0, FALSE)
      BY <3>1, <3>2, <3>3, <3>5, Zenon DEF Parsed
    <3>7. 0 \in {0, r.len} /\ FALSE \in BOOLEAN
      OBVIOUS
    <3> QED
      BY <3>6, <3>7, Zenon
  <2>2. CASE line = "ok"
    <3>1. /\ cnt_len' = [cnt_len EXCEPT ![c] = h.cnt_len]
          /\ chunked' = [chunked EXCEPT ![c] = chunked[c] \/ h.chunked]
      BY <1>11, <2>2, Zenon
    <3>2. CASE r.form = "host"
      <4>1. Refused(c)
        BY <1>11, <1>13, <2>2, <3>2, Zenon
      <4>2. ~(end = 1 /\ r.form = "ok")
        BY <3>2
      <4>3. Parsed(c, r, end = 1, Len(b) - end, h.cnt_len, h.chunked)
        BY <1>12, <3>1, <4>1, <4>2, Zenon DEF Parsed
      <4> QED
        BY <1>12, <4>3, Zenon
    <3>3. CASE r.form # "host"
      <4>1. end = 1 /\ r.form = "ok"
        BY <1>10, <2>0, <2>2, <3>3 DEF http_parse_req_line, Forms
      <4>2. Accepted(c, r, Len(b) - end, h.cnt_len, h.chunked)
        BY <1>11, <1>12, <2>2, <3>3, Zenon DEF Accepted
      <4>3. Parsed(c, r, end = 1, Len(b) - end, h.cnt_len, h.chunked)
        BY <1>12, <3>1, <4>1, <4>2, Zenon DEF Parsed
      <4> QED
        BY <1>12, <4>3, Zenon
    <3> QED
      BY <3>2, <3>3
  <2> QED
    BY <2>1, <2>2
<1>15. b[end][1] = n /\ \E l \in {0, sent[c][n].len}, g \in BOOLEAN :
                Parsed(c, sent[c][n], end = 1, Len(b) - end, l, g)
  BY <1>7, <1>9, <1>14, Zenon
<1>16. Found(c, b, end, n)
  BY <1>5, <1>8, <1>15, Zenon DEF Found
<1> QED
  BY <1>1, <1>5, <1>16, Zenon

\* RecvHdrMore: the buffer is kept, or the request is refused.
LEMMA RecvHdrMoreFacts ==
    ASSUME TypeOK, NEW c \in Conns, ControlShape(c), NEW k, RecvHdrMore(c, k)
    PROVE  \/ pc' = pc /\ err' = err /\ respcode' = respcode
           \/ /\ Len(Buffer(c, k)) >= MaxHdr
              /\ Refused(c)
<1>1. resp_state[c] = "HTTP_HDR_BEGIN"
  BY DEF RecvHdrMore, Runs, ControlShape
<1> QED
  BY <1>1 DEF RecvHdrMore, http_handle_cli_req_err, http_respond, Refused

-----------------------------------------------------------------------------
(* Types and the connection counter *)

\* Open connections are counted in Nat, and one more or one less of them
\* changes the count by one.
LEMMA OpenCount ==
    ASSUME NEW f, NEW g, NEW c \in Conns,
           \A d \in Conns : d # c => (g[d] = "open" <=> f[d] = "open")
    PROVE  /\ Cardinality({d \in Conns : f[d] = "open"}) \in Nat
           /\ (g[c] = "open" <=> f[c] = "open") =>
                    Cardinality({d \in Conns : g[d] = "open"})
                        = Cardinality({d \in Conns : f[d] = "open"})
           /\ (g[c] = "open" /\ f[c] # "open") =>
                    Cardinality({d \in Conns : g[d] = "open"})
                        = Cardinality({d \in Conns : f[d] = "open"}) + 1
           /\ (g[c] # "open" /\ f[c] = "open") =>
                    Cardinality({d \in Conns : g[d] = "open"})
                        = Cardinality({d \in Conns : f[d] = "open"}) - 1
<1>1. PICK F, G : F = {d \in Conns : f[d] = "open"} /\ G = {d \in Conns : g[d] = "open"}
  OBVIOUS
<1>2. IsFiniteSet(F) /\ Cardinality(F) \in Nat
  BY <1>1, FS_Subset, FS_CardinalityType, ConstantsAssumption
<1>3. CASE g[c] = "open" <=> f[c] = "open"
  <2>1. F = G
    BY <1>1, <1>3
  <2> QED
    BY <1>1, <1>2, <1>3, <2>1
<1>4. CASE g[c] = "open" /\ f[c] # "open"
  <2>1. G = F \union {c} /\ c \notin F
    BY <1>1, <1>4
  <2>2. Cardinality(G) = Cardinality(F) + 1
    BY <1>2, <2>1, FS_AddElement
  <2> QED
    BY <1>1, <1>2, <1>4, <2>2
<1>5. CASE g[c] # "open" /\ f[c] = "open"
  <2>1. G = F \ {c} /\ c \in F
    BY <1>1, <1>5
  <2>2. Cardinality(G) = Cardinality(F) - 1
    BY <1>2, <2>1, FS_RemoveElement
  <2> QED
    BY <1>1, <1>2, <1>5, <2>2
<1> QED
  BY <1>3, <1>4, <1>5

\* The steps that open or close a connection, or count an accept that failed,
\* are counted, and only those.
LEMMA TotalStep ==
    ASSUME TypeOK, TotalExact, ListenerShape, \A c \in Conns : ControlShape(c),
           [Next]_vars
    PROVE  TotalExact' /\ total' \in Nat
<1> DEFINE Open(f) == Cardinality({d \in Conns : f[d] = "open"})
<1>0. /\ conn \in [Conns -> {"none", "backlog", "open", "closed"}]
      /\ total \in Nat /\ fails \in Nat
  BY DEF TypeOK
<1>1. ASSUME conn' = conn, total' = total, fails' = fails
      PROVE  TotalExact' /\ total' \in Nat
  BY <1>0, <1>1 DEF TotalExact
<1>2. ASSUME NEW x, http_cli_new(x), x \in Conns => conn[x] = "backlog"
      PROVE  TotalExact' /\ total' \in Nat
  <2>0. total' = total + 1
    BY <1>2 DEF http_cli_new
  <2>1. CASE x \in Conns /\ conn' = [conn EXCEPT ![x] = "open"] /\ fails' = fails
    <3>1. /\ x \in Conns
          /\ \A d \in Conns : d # x => (conn'[d] = "open" <=> conn[d] = "open")
          /\ conn'[x] = "open" /\ conn[x] # "open"
      BY <1>0, <1>2, <2>1
    <3>2. Open(conn') = Open(conn) + 1 /\ Open(conn) \in Nat
      BY <3>1, OpenCount
    <3> QED
      BY <1>0, <2>0, <2>1, <3>2 DEF TotalExact
  <2>2. CASE x \in Conns /\ conn' = [conn EXCEPT ![x] = "closed"] /\ fails' = fails + 1
    <3>1. /\ \A d \in Conns : d # x => (conn'[d] = "open" <=> conn[d] = "open")
          /\ conn'[x] = "open" <=> conn[x] = "open"
      BY <1>0, <1>2, <2>2
    <3>2. Open(conn') = Open(conn) /\ Open(conn) \in Nat
      BY <2>2, <3>1, OpenCount
    <3> QED
      BY <1>0, <2>0, <2>2, <3>2 DEF TotalExact
  <2>3. CASE x \notin Conns /\ conn' = conn /\ fails' = fails + 1
    <3>1. Cardinality({d \in Conns : conn[d] = "open"}) \in Nat
      BY FS_Subset, FS_CardinalityType, ConstantsAssumption
    <3> QED
      BY <1>0, <2>0, <2>3, <3>1 DEF TotalExact
  <2> QED
    BY <1>2, <2>1, <2>2, <2>3 DEF http_cli_new
<1>3. ASSUME NEW c \in Conns, http_cli_free(c), conn[c] = "open", fails' = fails
      PROVE  TotalExact' /\ total' \in Nat
  <2>1. conn' = [conn EXCEPT ![c] = "closed"] /\ total' = total - 1
    BY <1>3 DEF http_cli_free
  <2>2. /\ \A d \in Conns : d # c => (conn'[d] = "open" <=> conn[d] = "open")
        /\ conn'[c] # "open"
    BY <1>0, <2>1
  <2>3. Open(conn') = Open(conn) - 1 /\ Open(conn) \in Nat /\ Open(conn') \in Nat
    <3>1. Open(conn') = Open(conn) - 1 /\ Open(conn) \in Nat
      <4>1. PICK f, g : f = conn /\ g = conn'
        OBVIOUS
      <4>2. /\ \A d \in Conns : d # c => (g[d] = "open" <=> f[d] = "open")
            /\ g[c] # "open" /\ f[c] = "open"
        BY <1>3, <2>2, <4>1
      <4>3. /\ Cardinality({d \in Conns : f[d] = "open"}) \in Nat
            /\ Cardinality({d \in Conns : g[d] = "open"})
                        = Cardinality({d \in Conns : f[d] = "open"}) - 1
        BY <4>2, OpenCount
      <4> QED
        BY <4>1, <4>3
    <3>2. Open(conn') \in Nat
      BY FS_Subset, FS_CardinalityType, ConstantsAssumption
    <3> QED
      BY <3>1, <3>2
  <2> QED
    BY <1>0, <1>3, <2>1, <2>3 DEF TotalExact
<1>4. ASSUME NEW c \in Conns, Peer(c) PROVE TotalExact' /\ total' \in Nat
  <2>1. CASE Connect(c)
    <3>1. /\ \A d \in Conns : d # c => (conn'[d] = "open" <=> conn[d] = "open")
          /\ conn'[c] = "open" <=> conn[c] = "open"
      BY <1>0, <2>1 DEF Connect
    <3>2. Open(conn') = Open(conn) /\ Open(conn) \in Nat
      BY <3>1, OpenCount
    <3>3. total' = total /\ fails' = fails
      BY <2>1 DEF Connect, lsnVars
    <3> QED
      BY <1>0, <3>2, <3>3 DEF TotalExact
  <2>2. CASE ~Connect(c)
    <3>1. conn' = conn /\ total' = total /\ fails' = fails
      BY <1>4, <2>2 DEF Peer, SendRequest, PeerClose, PeerReset, lsnVars
    <3> QED
      BY <1>1, <3>1
  <2> QED
    BY <2>1, <2>2
<1>5. ASSUME NEW c \in Conns, Serve(c) PROVE TotalExact' /\ total' \in Nat
  <2>1. CASE RecvHdrFail(c) \/ GiveUp(c)
    BY <1>3, <2>1 DEF RecvHdrFail, GiveUp, Runs
  <2>2. CASE ~RecvHdrFail(c) /\ ~GiveUp(c)
    <3>1. conn' = conn /\ total' = total /\ fails' = fails
      BY <1>5, <2>2
         DEF Serve, RecvHdrMore, RecvHdr, RecvBody, RecvBodyEnd, Route, HandlerRespond,
             Written, RespondLast, http_cli_reset, netVars, lsnVars
    <3> QED
      BY <1>1, <3>1
  <2> QED
    BY <2>1, <2>2
<1>6. ASSUME NEW x \in Conns \union {"failed"}, Accept(x)
      PROVE  TotalExact' /\ total' \in Nat
  <2>1. CASE total >= MaxTotal
    BY <1>1, <1>6, <2>1 DEF Accept
  <2>2. CASE ~(total >= MaxTotal)
    <3>1. http_cli_new(x) /\ (x \in Conns => conn[x] = "backlog")
      BY <1>6, <2>2 DEF Accept
    <3> QED
      BY <1>2, <3>1
  <2> QED
    BY <2>1, <2>2
<1>7. CASE ListenerWake
  BY <1>2, <1>7 DEF ListenerWake, ListenerShape
<1>8. CASE UNCHANGED vars
  BY <1>1, <1>8 DEF vars, netVars, lsnVars
<1> QED
  BY <1>4, <1>5, <1>6, <1>7, <1>8 DEF Next, Listener

\* Updates of single fields keep their types.
LEMMA PutType ==
    ASSUME NEW S, NEW f \in [Conns -> S], NEW c \in Conns, NEW v \in S
    PROVE  [f EXCEPT ![c] = v] \in [Conns -> S]
OBVIOUS

\* Updates of the response code, the error and the place keep their types.
LEMMA RespType ==
    ASSUME TypeOK, NEW c \in Conns, NEW code \in {200, 204, 400, 404, 408}
    PROVE  /\ [respcode EXCEPT ![c] = http_set_respcode(c, code)]
                    \in [Conns -> {0, 200, 204, 400, 404, 408}]
           /\ [err EXCEPT ![c] = -1] \in [Conns -> {0, -1}]
           /\ \A p \in PCs : [pc EXCEPT ![c] = p] \in [Conns -> PCs]
<1>1. /\ respcode \in [Conns -> {0, 200, 204, 400, 404, 408}]
      /\ err \in [Conns -> {0, -1}] /\ pc \in [Conns -> PCs]
  BY DEF TypeOK
<1>2. http_set_respcode(c, code) \in {0, 200, 204, 400, 404, 408}
  BY <1>1 DEF http_set_respcode
<1> QED
  BY <1>1, <1>2

\* So does http_respond.
LEMMA RespondType ==
    ASSUME TypeOK, NEW c \in Conns, NEW code \in {200, 204, 400, 404, 408},
           http_respond(c, code)
    PROVE  /\ pc' \in [Conns -> PCs]
           /\ respcode' \in [Conns -> {0, 200, 204, 400, 404, 408}]
<1>1. /\ respcode \in [Conns -> {0, 200, 204, 400, 404, 408}]
      /\ "write" \in PCs /\ "done" \in PCs
  BY DEF TypeOK, PCs
<1> QED
  BY <1>1, RespType DEF http_respond

\* And so does http_cli_new.
LEMMA NewType ==
    ASSUME TypeOK, NEW x, http_cli_new(x), x \notin Conns => fails < MaxFails
    PROVE  /\ conn' \in [Conns -> {"none", "backlog", "open", "closed"}]
           /\ pc' \in [Conns -> PCs] /\ fails' \in 0 .. MaxFails
<1>1. /\ conn \in [Conns -> {"none", "backlog", "open", "closed"}]
      /\ pc \in [Conns -> PCs] /\ fails \in 0 .. MaxFails /\ MaxFails \in Nat
  BY ConstantsAssumption DEF TypeOK
<1> QED
  BY <1>1 DEF http_cli_new, PCs

\* A step keeps the types; that total is a number is TotalStep.
LEMMA TypeStep ==
    ASSUME ServerInv, [Next]_vars
    PROVE  TypeOK'
<1>0. TypeOK /\ TotalExact /\ ListenerShape /\ \A c \in Conns : ControlShape(c) /\ StreamShape(c)
  BY DEF ServerInv
<1>1. total' \in Nat
  BY <1>0, TotalStep
<1>2. <<>> \in Seq(Nat \X Nat) /\ {"off", "hdr", "body", "route", "handler", "write", "done"} = PCs
  BY DEF PCs
<1>3. ASSUME NEW c \in Conns, Peer(c) PROVE TypeOK'
  <2>1. CASE Connect(c)
    BY <1>0, <2>1 DEF Connect, TypeOK, lsnVars, reqVars, respVars
  <2>2. ASSUME NEW r \in Kinds, SendRequest(c, r) PROVE TypeOK'
    <3>1. r \in KindRecords /\ Len(sent[c]) + 1 \in Nat /\ sent[c] \in Seq(Kinds)
      BY <1>0, RequestType, ConstantsAssumption
    <3>2. Units(Len(sent[c]) + 1, r) \in Seq(Nat \X Nat)
      BY <3>1, UnitsFacts
    <3>3. stream[c] \o Units(Len(sent[c]) + 1, r) \in Seq(Nat \X Nat)
      BY <1>0, <3>2, PendingType, JoinFacts
    <3>4. stream' \in [Conns -> Seq(Nat \X Nat)]
      BY <1>0, <2>2, <3>3 DEF SendRequest, TypeOK
    <3>5. sent' \in [Conns -> Seq(Kinds)] /\ early' \in [Conns -> BOOLEAN]
      <4>1. sent \in [Conns -> Seq(Kinds)] /\ early \in [Conns -> BOOLEAN]
        BY <1>0 DEF TypeOK
      <4>2. Append(sent[c], r) \in Seq(Kinds)
        BY <3>1
      <4>3. sent' = [sent EXCEPT ![c] = Append(sent[c], r)]
        BY <2>2 DEF SendRequest
      <4>4. PICK v \in BOOLEAN : v = (early[c] \/ Len(answers[c]) < Len(sent[c]))
        OBVIOUS
      <4>5. early' = [early EXCEPT ![c] = v]
        BY <2>2, <4>4, Zenon DEF SendRequest
      <4> QED
        BY <4>1, <4>2, <4>3, <4>5, PutType
    <3>6. UNCHANGED <<conn, peer, listener, total, fails, pc, hdr, no, cnt_len, chunked, body,
                      body_len, cb, err, respcode, resp_state, answers, handled, fault>>
      BY <2>2 DEF SendRequest, lsnVars, reqVars, respVars
    <3> QED
      BY <1>0, <3>4, <3>5, <3>6 DEF TypeOK
  <2>3. ASSUME NEW k \in 0 .. Len(stream[c]), PeerClose(c, k) PROVE TypeOK'
    <3>1. SubSeq(stream[c], 1, k) \in Seq(Nat \X Nat)
      BY <1>0, PendingType, CutFacts
    <3> QED
      BY <1>0, <2>3, <3>1 DEF PeerClose, TypeOK, lsnVars, reqVars, respVars
  <2>4. CASE PeerReset(c)
    BY <1>0, <1>2, <2>4 DEF PeerReset, TypeOK, lsnVars, reqVars, respVars
  <2> QED
    BY <1>3, <2>1, <2>2, <2>3, <2>4 DEF Peer
<1>4. ASSUME NEW c \in Conns, Serve(c) PROVE TypeOK'
  <2>0. ControlShape(c) /\ StreamShape(c)
    BY <1>0
  <2>1. ASSUME NEW k \in 1 .. Len(stream[c]), RecvHdrMore(c, k) PROVE TypeOK'
    <3>1. Buffer(c, k) \in Seq(Nat \X Nat) /\ Leave(c, k) \in Seq(Nat \X Nat)
      BY <1>0, BufferFacts
    <3>2. /\ stream' \in [Conns -> Seq(Nat \X Nat)] /\ hdr' \in [Conns -> Seq(Nat \X Nat)]
          /\ no' \in [Conns -> Nat] /\ cnt_len' \in [Conns -> Nat]
          /\ UNCHANGED <<conn, peer, sent, early, listener, total, fails, chunked, body,
                         body_len, cb, resp_state, answers, handled, fault>>
      BY <1>0, <2>1, <3>1 DEF RecvHdrMore, TypeOK, lsnVars
    <3>3. /\ pc' \in [Conns -> PCs] /\ err' \in [Conns -> {0, -1}]
          /\ respcode' \in [Conns -> {0, 200, 204, 400, 404, 408}]
      <4>1. \/ pc' = pc /\ err' = err /\ respcode' = respcode
            \/ Refused(c)
        BY <1>0, <2>0, <2>1, RecvHdrMoreFacts
      <4>2. CASE pc' = pc /\ err' = err /\ respcode' = respcode
        BY <1>0, <4>2 DEF TypeOK
      <4>3. CASE Refused(c)
        BY <1>0, <1>2, <4>3, RespType DEF Refused
      <4> QED
        BY <4>1, <4>2, <4>3
    <3> QED
      BY <1>0, <3>2, <3>3 DEF TypeOK
  <2>2. ASSUME NEW k \in 1 .. Len(stream[c]), RecvHdr(c, k) PROVE TypeOK'
    <3>1. PICK b \in Seq(Nat \X Nat) : b = Buffer(c, k) /\ Leave(c, k) \in Seq(Nat \X Nat)
      BY <1>0, BufferFacts
    <3>2. /\ stream' \in [Conns -> Seq(Nat \X Nat)] /\ hdr' \in [Conns -> Seq(Nat \X Nat)]
          /\ UNCHANGED <<conn, peer, sent, early, listener, total, fails, cb, resp_state,
                         answers, handled, fault>>
      BY <1>0, <2>2, <3>1 DEF RecvHdr, TypeOK, lsnVars
    <3>3. PICK end \in 1 .. Len(b), n \in 1 .. Len(sent[c]) : Found(c, b, end, n)
      BY <1>0, <2>0, <2>2, <3>1, RecvHdrFacts
    <3>4. SubSeq(b, end + 1, Len(b)) \in Seq(Nat \X Nat) /\ Len(b) - end \in Nat /\ n \in Nat
      <4>1. end \in 0 .. Len(b)
        OBVIOUS
      <4>2. n \in Nat
        BY <1>0, RequestType
      <4> QED
        BY <4>1, <4>2, CutFacts
    <3>5. /\ no' \in [Conns -> Nat] /\ body' \in [Conns -> Seq(Nat \X Nat) \union {NULL}]
          /\ body_len' \in [Conns -> Nat]
      BY <1>0, <3>3, <3>4 DEF TypeOK, Found
    <3>6. /\ pc' \in [Conns -> PCs] /\ err' \in [Conns -> {0, -1}]
          /\ respcode' \in [Conns -> {0, 200, 204, 400, 404, 408}]
          /\ chunked' \in [Conns -> BOOLEAN] /\ cnt_len' \in [Conns -> Nat]
      <4>0. PICK len \in {0, sent[c][n].len}, ch \in BOOLEAN :
                Parsed(c, sent[c][n], end = 1, Len(b) - end, len, ch)
        BY <3>3 DEF Found
      <4>1. Accepted(c, sent[c][n], Len(b) - end, len, ch) \/ Refused(c)
        BY <4>0 DEF Parsed
      <4>a. chunked' \in [Conns -> BOOLEAN]
        <5>1. PICK v \in BOOLEAN : v = (chunked[c] \/ ch)
          OBVIOUS
        <5>2. chunked' = [chunked EXCEPT ![c] = v]
          BY <4>0, <5>1, Zenon DEF Parsed
        <5> QED
          BY <1>0, <5>2, PutType DEF TypeOK
      <4>b. cnt_len' \in [Conns -> Nat]
        <5>1. len \in Nat
          <6>1. PICK r \in KindRecords : r = sent[c][n]
            BY <1>0, RequestType
          <6>2. r.len \in Nat
            BY DEF KindRecords
          <6> QED
            BY <6>1, <6>2
        <5>2. cnt_len' = [cnt_len EXCEPT ![c] = len]
          BY <4>0 DEF Parsed
        <5> QED
          BY <1>0, <5>1, <5>2, PutType DEF TypeOK
      <4>2. CASE Accepted(c, sent[c][n], Len(b) - end, len, ch)
        <5>1. pc' \in [Conns -> PCs]
          BY <1>0, <1>2, <4>2 DEF Accepted, TypeOK
        <5> QED
          BY <1>0, <4>2, <4>a, <4>b, <5>1 DEF Accepted, TypeOK
      <4>3. CASE Refused(c)
        <5>1. /\ pc' \in [Conns -> PCs] /\ err' \in [Conns -> {0, -1}]
              /\ respcode' \in [Conns -> {0, 200, 204, 400, 404, 408}]
          <6>1. /\ [respcode EXCEPT ![c] = http_set_respcode(c, 400)]
                        \in [Conns -> {0, 200, 204, 400, 404, 408}]
                /\ [err EXCEPT ![c] = -1] \in [Conns -> {0, -1}]
                /\ \A p \in PCs : [pc EXCEPT ![c] = p] \in [Conns -> PCs]
            BY <1>0, RespType
          <6>2. "write" \in PCs /\ "done" \in PCs
            BY DEF PCs
          <6> QED
            BY <6>1, <6>2, <4>3 DEF Refused
        <5> QED
          BY <4>a, <4>b, <5>1
      <4> QED
        BY <4>1, <4>2, <4>3
    <3> QED
      BY <1>0, <3>2, <3>5, <3>6 DEF TypeOK
  <2>3. ASSUME NEW k \in 1 .. Len(stream[c]), RecvBody(c, k) PROVE TypeOK'
    <3>1. /\ Take(c, k) \in Seq(Nat \X Nat) /\ Leave(c, k) \in Seq(Nat \X Nat)
          /\ k \in Nat
      <4>1. stream[c] \in Seq(Nat \X Nat)
        BY <1>0, PendingType
      <4>2. k \in Nat
        BY <4>1
      <4> QED
        BY <1>0, <4>2, BufferFacts
    <3>2. body[c] \in Seq(Nat \X Nat)
      BY <1>0, <2>0, <2>3 DEF ControlShape, RecvBody, Runs, TypeOK
    <3>3. body[c] \o Take(c, k) \in Seq(Nat \X Nat)
      BY <3>1, <3>2, JoinFacts
    <3>4. /\ stream' \in [Conns -> Seq(Nat \X Nat)]
          /\ body' \in [Conns -> Seq(Nat \X Nat) \union {NULL}]
          /\ body_len' \in [Conns -> Nat]
      <4>1. /\ stream' = [stream EXCEPT ![c] = Leave(c, k)]
            /\ body' = [body EXCEPT ![c] = body[c] \o Take(c, k)]
            /\ body_len' = [body_len EXCEPT ![c] = body_len[c] + k]
        BY <1>0, <2>3 DEF RecvBody, TypeOK
      <4>2. /\ stream \in [Conns -> Seq(Nat \X Nat)]
            /\ body \in [Conns -> Seq(Nat \X Nat) \union {NULL}]
            /\ body_len \in [Conns -> Nat]
        BY <1>0 DEF TypeOK
      <4>3. body_len[c] + k \in Nat
        BY <3>1, <4>2
      <4> QED
        BY <3>1, <3>3, <4>1, <4>2, <4>3, PutType
    <3>5. /\ pc' \in [Conns -> PCs]
          /\ UNCHANGED <<conn, peer, sent, early, listener, total, fails, hdr, no, cnt_len,
                         chunked, cb, err, respcode, resp_state, answers, handled, fault>>
      BY <1>0, <2>3 DEF RecvBody, TypeOK, PCs, lsnVars, respVars
    <3> QED
      BY <1>0, <3>4, <3>5 DEF TypeOK
  <2>4. CASE RecvHdrFail(c) \/ GiveUp(c)
    <3>1. http_cli_free(c)
      BY <2>4 DEF RecvHdrFail, GiveUp
    <3>2. /\ conn' \in [Conns -> {"none", "backlog", "open", "closed"}]
          /\ pc' \in [Conns -> PCs] /\ stream' \in [Conns -> Seq(Nat \X Nat)]
      BY <1>0, <1>2, <3>1 DEF http_cli_free, TypeOK
    <3>3. UNCHANGED <<peer, sent, early, listener, fails, reqVars, cb, respVars, handled,
                      fault>>
      BY <2>4 DEF RecvHdrFail, GiveUp
    <3> QED
      BY <1>0, <1>1, <3>2, <3>3 DEF TypeOK, reqVars, respVars
  <2>5. CASE RecvBodyEnd(c)
    BY <1>0, <2>5 DEF RecvBodyEnd, TypeOK, PCs, netVars, lsnVars, respVars
  <2>6. CASE Route(c)
    <3>1. \A i \in Takes(Request(c, no[c])) : Routes[i][3] \in Callbacks
      BY DEF Takes, Callbacks
    <3>2. /\ cb' \in [Conns -> Callbacks \union {NULL}]
          /\ pc' \in [Conns -> PCs] /\ err' \in [Conns -> {0, -1}]
          /\ respcode' \in [Conns -> {0, 200, 204, 400, 404, 408}]
      <4>1. CASE Takes(Request(c, no[c])) = {}
        <5>1. /\ pc' \in [Conns -> PCs] /\ err' \in [Conns -> {0, -1}]
              /\ respcode' \in [Conns -> {0, 200, 204, 400, 404, 408}]
          <6>1. /\ [respcode EXCEPT ![c] = http_set_respcode(c, 404)]
                        \in [Conns -> {0, 200, 204, 400, 404, 408}]
                /\ [err EXCEPT ![c] = -1] \in [Conns -> {0, -1}]
                /\ \A p \in PCs : [pc EXCEPT ![c] = p] \in [Conns -> PCs]
            BY <1>0, RespType
          <6>2. "write" \in PCs /\ "done" \in PCs
            BY DEF PCs
          <6> QED
            BY <6>1, <6>2, <2>6, <4>1 DEF Route
        <5>2. cb' = cb
          BY <2>6, <4>1 DEF Route
        <5> QED
          BY <1>0, <5>1, <5>2 DEF TypeOK
      <4>2. CASE Takes(Request(c, no[c])) # {}
        <5>1. PICK h \in Callbacks : cb' = [cb EXCEPT ![c] = h]
          BY <2>6, <3>1, <4>2 DEF Route
        <5>2. /\ pc' = [pc EXCEPT ![c] = "handler"] /\ respcode' = respcode /\ err' = err
          BY <2>6, <4>2 DEF Route
        <5> QED
          BY <1>0, <1>2, <5>1, <5>2 DEF TypeOK
      <4> QED
        BY <4>1, <4>2
    <3>4. /\ handled' \in [Conns -> Seq(Nat)]
          /\ UNCHANGED <<conn, peer, sent, early, stream, listener, total, fails, hdr, no,
                         cnt_len, chunked, body, body_len, resp_state, answers, fault>>
      BY <1>0, <2>6 DEF Route, TypeOK, netVars, lsnVars, reqVars
    <3> QED
      BY <1>0, <3>2, <3>4 DEF TypeOK
  <2>7. ASSUME NEW code \in {200, 404, 408}, HandlerRespond(c, code) PROVE TypeOK'
    <3>1. fault' \in BOOLEAN
      BY <2>7, Zenon DEF HandlerRespond
    <3>2. pc' \in [Conns -> PCs] /\ respcode' \in [Conns -> {0, 200, 204, 400, 404, 408}]
      BY <1>0, <2>7, RespondType DEF HandlerRespond
    <3>3. UNCHANGED <<netVars, lsnVars, reqVars, cb, err, resp_state, answers, handled>>
      BY <2>7 DEF HandlerRespond
    <3> QED
      BY <1>0, <3>1, <3>2, <3>3 DEF TypeOK, netVars, lsnVars, reqVars
  <2>8. CASE Written(c)
    <3>1. Append(answers[c], Response(c)) \in Seq(Nat \X Nat)
      <4>1. Response(c) \in Nat \X Nat /\ answers[c] \in Seq(Nat \X Nat)
        <5>1. /\ no[c] \in Nat /\ respcode[c] \in {0, 200, 204, 400, 404, 408}
              /\ answers[c] \in Seq(Nat \X Nat)
          BY <1>0 DEF TypeOK
        <5>2. respcode[c] \in Nat
          BY <5>1
        <5> QED
          BY <5>1, <5>2 DEF Response
      <4> QED
        BY <4>1
    <3> QED
      BY <1>0, <2>8, <3>1 DEF Written, TypeOK, PCs, netVars, lsnVars, reqVars
  <2>9. CASE RespondLast(c)
    <3>1. pc' \in [Conns -> PCs] /\ respcode' \in [Conns -> {0, 200, 204, 400, 404, 408}]
      BY <1>0, <2>9, RespondType DEF RespondLast
    <3>2. UNCHANGED <<netVars, lsnVars, reqVars, cb, err, resp_state, answers, handled, fault>>
      BY <2>9 DEF RespondLast
    <3> QED
      BY <1>0, <3>1, <3>2 DEF TypeOK, netVars, lsnVars, reqVars
  <2>10. CASE http_cli_reset(c)
    BY <1>0, <1>2, <2>10 DEF http_cli_reset, TypeOK, netVars, lsnVars
  <2> QED
    BY <1>4, <2>1, <2>2, <2>3, <2>4, <2>5, <2>6, <2>7, <2>8, <2>9, <2>10 DEF Serve
<1>5. ASSUME NEW x \in Conns \union {"failed"}, Accept(x) PROVE TypeOK'
  <2>1. UNCHANGED <<peer, sent, early, stream, reqVars, cb, respVars, handled, fault>>
    BY <1>5 DEF Accept
  <2>2. CASE total >= MaxTotal
    <3>1. listener' = x /\ UNCHANGED <<conn, fails, pc>>
      BY <1>5, <2>2 DEF Accept
    <3> QED
      BY <1>0, <1>1, <2>1, <3>1 DEF TypeOK, reqVars, respVars
  <2>3. CASE ~(total >= MaxTotal)
    <3>1. http_cli_new(x) /\ listener' = listener /\ (x \notin Conns => fails < MaxFails)
      BY <1>5, <2>3 DEF Accept
    <3>2. /\ conn' \in [Conns -> {"none", "backlog", "open", "closed"}]
          /\ pc' \in [Conns -> PCs] /\ fails' \in 0 .. MaxFails
      BY <1>0, <3>1, NewType
    <3> QED
      BY <1>0, <1>1, <2>1, <3>1, <3>2 DEF TypeOK, reqVars, respVars
  <2> QED
    BY <2>2, <2>3
<1>6. CASE ListenerWake
  <2>1. /\ UNCHANGED <<peer, sent, early, stream, reqVars, cb, respVars, handled, fault>>
        /\ listener' = NULL /\ http_cli_new(listener)
    BY <1>6 DEF ListenerWake
  <2>2. listener \notin Conns => fails < MaxFails
    BY <1>0, <1>6 DEF ListenerWake, ListenerShape, TypeOK
  <2>3. /\ conn' \in [Conns -> {"none", "backlog", "open", "closed"}]
        /\ pc' \in [Conns -> PCs] /\ fails' \in 0 .. MaxFails
    BY <1>0, <2>1, <2>2, NewType
  <2> QED
    BY <1>0, <1>1, <2>1, <2>3 DEF TypeOK, reqVars, respVars
<1>7. CASE UNCHANGED vars
  BY <1>0, <1>7 DEF TypeOK, vars, netVars, lsnVars, reqVars, respVars
<1> QED
  BY <1>3, <1>4, <1>5, <1>6, <1>7 DEF Next, Listener

\* The connection the listener holds stays in the backlog.
LEMMA ListenerStep ==
    ASSUME ServerInv, [Next]_vars
    PROVE  ListenerShape'
<1>0. TypeOK /\ ListenerShape /\ \A c \in Conns : ControlShape(c)
  BY DEF ServerInv
<1>1. ASSUME NEW c \in Conns, Peer(c) PROVE ListenerShape'
  <2>1. /\ listener' = listener /\ fails' = fails
        /\ conn' = conn \/ (conn[c] = "none" /\ conn' = [conn EXCEPT ![c] = "backlog"])
    BY <1>1 DEF Peer, Connect, SendRequest, PeerClose, PeerReset, lsnVars
  <2>2. conn \in [Conns -> {"none", "backlog", "open", "closed"}]
    BY <1>0 DEF TypeOK
  <2> QED
    BY <1>0, <2>1, <2>2 DEF ListenerShape
<1>2. ASSUME NEW c \in Conns, Serve(c) PROVE ListenerShape'
  <2>1. CASE RecvHdrFail(c) \/ GiveUp(c)
    BY <1>0, <2>1 DEF RecvHdrFail, GiveUp, http_cli_free, Runs, ListenerShape, TypeOK
  <2>2. CASE ~RecvHdrFail(c) /\ ~GiveUp(c)
    <3>1. conn' = conn /\ listener' = listener /\ fails' = fails
      BY <1>2, <2>2
         DEF Serve, RecvHdrMore, RecvHdr, RecvBody, RecvBodyEnd, Route, HandlerRespond,
             Written, RespondLast, http_cli_reset, netVars, lsnVars
    <3> QED
      BY <1>0, <3>1 DEF ListenerShape
  <2> QED
    BY <2>1, <2>2
<1>3. ASSUME NEW x \in Conns \union {"failed"}, Accept(x) PROVE ListenerShape'
  <2>1. CASE total >= MaxTotal
    <3>1. listener' = x /\ conn' = conn /\ fails' = fails
      BY <1>3, <2>1 DEF Accept
    <3>2. IF x \in Conns THEN conn[x] = "backlog" ELSE fails < MaxFails
      BY <1>3 DEF Accept
    <3> QED
      BY <3>1, <3>2, ConstantsAssumption DEF ListenerShape
  <2>2. CASE ~(total >= MaxTotal)
    <3>1. listener' = NULL
      BY <1>3, <2>2 DEF Accept
    <3> QED
      BY <3>1, ConstantsAssumption DEF ListenerShape
  <2> QED
    BY <2>1, <2>2
<1>4. CASE ListenerWake
  BY <1>0, <1>4, ConstantsAssumption DEF ListenerWake, ListenerShape
<1>5. CASE UNCHANGED vars
  BY <1>0, <1>5 DEF ListenerShape, vars, netVars, lsnVars
<1> QED
  BY <1>1, <1>2, <1>3, <1>4, <1>5 DEF Next, Listener

-----------------------------------------------------------------------------
(* Where the lthread is, and what is pending *)

\* One more request leaves the others as they are.
LEMMA SendFacts ==
    ASSUME TypeOK, NEW c \in Conns, NEW r \in Kinds, SendRequest(c, r)
    PROVE  /\ sent'[c] = Append(sent[c], r) /\ Len(sent'[c]) = Len(sent[c]) + 1
           /\ sent'[c][Len(sent[c]) + 1] = r
           /\ \A i \in 1 .. Len(sent[c]) : sent'[c][i] = sent[c][i]
           /\ stream'[c] = stream[c] \o Units(Len(sent[c]) + 1, r)
           /\ Units(Len(sent[c]) + 1, r) \in Seq(Nat \X Nat)
           /\ r \in KindRecords
<1>1. sent[c] \in Seq(Kinds) /\ r \in KindRecords
  BY RequestType, ConstantsAssumption
<1>2. sent'[c] = Append(sent[c], r)
  BY DEF SendRequest, TypeOK
<1>3. stream'[c] = stream[c] \o Units(Len(sent[c]) + 1, r)
  <2>1. DOMAIN stream = Conns
    BY DEF TypeOK
  <2>2. stream' = [stream EXCEPT ![c] = stream[c] \o Units(Len(sent[c]) + 1, r)]
    BY DEF SendRequest
  <2> QED
    BY <2>1, <2>2
<1>4. Units(Len(sent[c]) + 1, r) \in Seq(Nat \X Nat)
  BY <1>1, UnitsFacts
<1> QED
  BY <1>1, <1>2, <1>3, <1>4

\* A step keeps ControlShape.
LEMMA ControlStep ==
    ASSUME ServerInv, [Next]_vars, NEW c \in Conns
    PROVE  ControlShape(c)'
<1>0. TypeOK /\ ListenerShape /\ ControlShape(c) /\ StreamShape(c)
  BY DEF ServerInv
<1>1. CASE Same(c)
  BY <1>0, <1>1 DEF Same, ControlShape, Request
<1>2. CASE Opened(c)
  BY <1>0, <1>2 DEF Opened, ControlShape, Request, reqVars, respVars, TypeOK
<1>3. CASE Peer(c)
  <2>1. CASE Connect(c)
    BY <1>0, <2>1 DEF Connect, ControlShape, Request, TypeOK, lsnVars, reqVars, respVars
  <2>2. ASSUME NEW r \in Kinds, SendRequest(c, r) PROVE ControlShape(c)'
    <3>1. /\ Len(sent'[c]) = Len(sent[c]) + 1 /\ Len(sent[c]) \in Nat
          /\ \A i \in 1 .. Len(sent[c]) : sent'[c][i] = sent[c][i]
      BY <1>0, <2>2, SendFacts, RequestType
    <3>2. /\ conn[c] # "none"
          /\ UNCHANGED <<conn, pc, hdr, answers, handled, err, resp_state, respcode,
                         chunked, no, cnt_len, body>>
      BY <2>2 DEF SendRequest, reqVars, respVars
    <3>3. pc[c] \in {"body", "route", "handler"} =>
                /\ no'[c] \in 1 .. Len(sent'[c]) /\ sent'[c][no'[c]].form = "ok"
                /\ sent'[c][no'[c]] = sent[c][no[c]]
      BY <1>0, <3>1, <3>2 DEF ControlShape, Request
    <3> QED
      BY <1>0, <3>2, <3>3 DEF ControlShape, Request
  <2>3. CASE PeerReset(c) \/ \E k \in 0 .. Len(stream[c]) : PeerClose(c, k)
    BY <1>0, <2>3 DEF PeerClose, PeerReset, ControlShape, Request, reqVars, respVars
  <2> QED
    BY <1>3, <2>1, <2>2, <2>3 DEF Peer
<1>4. CASE Serve(c)
  <2>1. ASSUME NEW k \in 1 .. Len(stream[c]), RecvHdrMore(c, k) PROVE ControlShape(c)'
    <3>1. /\ conn[c] = "open" /\ pc[c] = "hdr"
          /\ UNCHANGED <<conn, sent, body, resp_state, answers, handled, chunked>>
      BY <2>1 DEF RecvHdrMore, Runs
    <3>2. \/ pc'[c] = "hdr" /\ err'[c] = err[c]
          \/ pc'[c] = "write"
      <4>1. (pc' = pc /\ err' = err) \/ Refused(c)
        BY <1>0, <2>1, RecvHdrMoreFacts
      <4> QED
        BY <1>0, <3>1, <4>1 DEF Refused, TypeOK
    <3> QED
      BY <1>0, <3>1, <3>2 DEF ControlShape
  <2>2. ASSUME NEW k \in 1 .. Len(stream[c]), RecvHdr(c, k) PROVE ControlShape(c)'
    <3>1. /\ conn[c] = "open" /\ pc[c] = "hdr"
          /\ UNCHANGED <<conn, sent, resp_state, answers, handled>>
      BY <2>2 DEF RecvHdr, Runs
    <3>2. PICK b \in Seq(Nat \X Nat) : b = Buffer(c, k)
      BY <1>0, BufferFacts
    <3>3. PICK end \in 1 .. Len(b), n \in 1 .. Len(sent[c]) : Found(c, b, end, n)
      BY <1>0, <2>2, <3>2, RecvHdrFacts
    <3>4. SubSeq(b, end + 1, Len(b)) \in Seq(Nat \X Nat)
      <4>1. end \in 0 .. Len(b)
        OBVIOUS
      <4> QED
        BY <4>1, CutFacts
    <3>5. no'[c] = n /\ body'[c] \in Seq(Nat \X Nat)
      BY <1>0, <3>3, <3>4 DEF Found, TypeOK
    <3>6. body'[c] # NULL
      BY <3>5, ConstantsAssumption
    <3>7. PICK len \in {0, sent[c][n].len}, ch \in BOOLEAN :
                Parsed(c, sent[c][n], end = 1, Len(b) - end, len, ch)
      BY <3>3 DEF Found
    <3>8. \/ pc'[c] \in {"body", "route"} /\ err'[c] = err[c] /\ sent[c][n].form = "ok"
          \/ pc'[c] = "write"
      BY <1>0, <3>7 DEF Parsed, Accepted, Refused, TypeOK
    <3>9. pc'[c] = "body" => cnt_len'[c] = sent[c][n].len
      <4>1. cnt_len'[c] = len
        BY <1>0, <3>7 DEF Parsed, TypeOK
      <4>2. SUFFICES ASSUME pc'[c] = "body" PROVE len # 0
        BY <4>1
      <4>3. Accepted(c, sent[c][n], Len(b) - end, len, ch)
        BY <1>0, <3>7, <4>2 DEF Parsed, Refused, TypeOK
      <4>4. Incomplete(sent[c][n].method, chunked[c] \/ ch, Len(b) - end, len)
        <5>1. pc' = [pc EXCEPT ![c] =
                        IF Incomplete(sent[c][n].method, chunked[c] \/ ch, Len(b) - end, len)
                        THEN "body" ELSE "route"]
          BY <4>3, Zenon DEF Accepted
        <5>2. DOMAIN pc = Conns
          BY <1>0 DEF TypeOK
        <5>3. pc'[c] = IF Incomplete(sent[c][n].method, chunked[c] \/ ch, Len(b) - end, len)
                       THEN "body" ELSE "route"
          BY <5>1, <5>2, Zenon
        <5> QED
          BY <4>2, <5>3
      <4>5. Len(b) - end < len
        BY <4>4 DEF Incomplete
      <4>6. Len(b) - end \in Nat
        OBVIOUS
      <4> QED
        BY <4>5, <4>6
    <3> QED
      BY <1>0, <3>1, <3>5, <3>6, <3>8, <3>9 DEF ControlShape, Request
  <2>3. ASSUME NEW k \in 1 .. Len(stream[c]), RecvBody(c, k) PROVE ControlShape(c)'
    <3>1. /\ conn[c] = "open" /\ pc[c] = "body" /\ pc'[c] \in {"body", "route"}
          /\ UNCHANGED <<conn, sent, resp_state, answers, handled, err, no, cnt_len>>
      BY <1>0, <2>3 DEF RecvBody, Runs, respVars, TypeOK
    <3>2. body'[c] # NULL
      <4>0. body \in [Conns -> Seq(Nat \X Nat) \union {NULL}]
        BY <1>0 DEF TypeOK
      <4>1. body[c] \in Seq(Nat \X Nat) /\ Take(c, k) \in Seq(Nat \X Nat)
        <5>1. body[c] # NULL
          BY <1>0, <3>1 DEF ControlShape
        <5> QED
          BY <1>0, <4>0, <5>1, BufferFacts
      <4>2. body'[c] = body[c] \o Take(c, k)
        <5>1. body' = [body EXCEPT ![c] = body[c] \o Take(c, k)]
          BY <2>3 DEF RecvBody
        <5> QED
          BY <4>0, <5>1
      <4>3. body'[c] \in Seq(Nat \X Nat)
        BY <4>1, <4>2, JoinFacts
      <4> QED
        BY <4>3, ConstantsAssumption
    <3> QED
      BY <1>0, <3>1, <3>2 DEF ControlShape, Request
  <2>4. CASE RecvHdrFail(c) \/ GiveUp(c)
    <3>1. conn'[c] = "closed" /\ pc'[c] = "off"
      BY <1>0, <2>4 DEF RecvHdrFail, GiveUp, http_cli_free, TypeOK
    <3> QED
      BY <3>1 DEF ControlShape
  <2>5. CASE RecvBodyEnd(c)
    BY <1>0, <2>5 DEF RecvBodyEnd, Runs, ControlShape, Request, TypeOK, netVars, respVars
  <2>6. CASE Route(c)
    <3>1. /\ conn[c] = "open" /\ pc[c] = "route"
          /\ UNCHANGED <<conn, sent, no, resp_state, body>>
          /\ \/ pc'[c] = "handler" /\ err'[c] = err[c]
             \/ pc'[c] = "done" /\ err'[c] = -1
      BY <1>0, <2>6 DEF Route, Runs, TypeOK, netVars, reqVars
    <3> QED
      BY <1>0, <3>1 DEF ControlShape, Request
  <2>7. ASSUME NEW code, HandlerRespond(c, code) PROVE ControlShape(c)'
    <3>1. /\ conn[c] = "open" /\ pc[c] = "handler" /\ UNCHANGED <<conn, resp_state>>
      BY <2>7 DEF HandlerRespond, Runs, netVars
    <3>2. resp_state[c] = "HTTP_HDR_BEGIN"
      BY <1>0, <3>1 DEF ControlShape
    <3>3. pc'[c] = "write"
      BY <1>0, <2>7, <3>2 DEF HandlerRespond, http_respond, TypeOK
    <3> QED
      BY <3>1, <3>2, <3>3 DEF ControlShape
  <2>8. CASE Written(c)
    <3>1. /\ conn[c] = "open" /\ conn' = conn /\ pc'[c] = "done"
          /\ resp_state'[c] = "HTTP_BODY_SENT"
      BY <1>0, <2>8 DEF Written, Runs, TypeOK, netVars
    <3> QED
      BY <3>1 DEF ControlShape
  <2>9. CASE RespondLast(c)
    <3>1. /\ conn[c] = "open" /\ UNCHANGED <<conn, resp_state>>
          /\ resp_state[c] = "HTTP_HDR_BEGIN" /\ pc'[c] = "write"
      BY <1>0, <2>9 DEF RespondLast, http_respond, Runs, TypeOK, netVars
    <3> QED
      BY <3>1 DEF ControlShape
  <2>10. CASE http_cli_reset(c)
    <3>1. /\ conn[c] = "open" /\ conn' = conn /\ err' = err /\ err[c] # -1
          /\ pc'[c] = "hdr" /\ resp_state'[c] = "HTTP_HDR_BEGIN"
      BY <1>0, <2>10 DEF http_cli_reset, Runs, TypeOK, netVars
    <3>2. err[c] = 0
      BY <1>0, <3>1 DEF TypeOK
    <3> QED
      BY <3>1, <3>2 DEF ControlShape
  <2> QED
    BY <1>4, <2>1, <2>2, <2>3, <2>4, <2>5, <2>6, <2>7, <2>8, <2>9, <2>10 DEF Serve
<1> QED
  BY <1>0, <1>1, <1>2, <1>3, <1>4, Frame

\* A sequence is a part of itself, and of itself with something before it.
LEMMA PartSelf ==
    ASSUME NEW U, NEW s \in Seq(U), NEW h \in Seq(U)
    PROVE  Part(s, s) /\ Part(s, h \o s) /\ Part(h, h \o s) /\ Part(<<>>, s)
<1>1. 0 + Len(s) <= Len(s) /\ \A i \in 1 .. Len(s) : s[i] = s[i + 0]
  OBVIOUS
<1>2. Part(s, s)
  BY <1>1 DEF Part
<1>3. 0 + Len(<<>>) <= Len(s) /\ \A i \in 1 .. Len(<<>>) : <<>>[i] = s[i + 0]
  OBVIOUS
<1>4. Part(<<>>, s)
  BY <1>3 DEF Part
<1> QED
  BY <1>2, <1>4, JoinFacts, JoinParts

\* When the peer breaks off, what is left pending is a part of what was.
LEMMA PartCut ==
    ASSUME NEW U, NEW h \in Seq(U), NEW s \in Seq(U), NEW k \in 0 .. Len(s)
    PROVE  Part(h \o SubSeq(s, 1, k), h \o s) /\ Part(SubSeq(s, 1, k), s)
<1>1. PICK p \in Seq(U), r \in Seq(U) : p = SubSeq(s, 1, k) /\ IsJoin(s, p, r)
  BY CutFacts
<1>2. PICK all \in Seq(U), b \in Seq(U) :
            all = h \o s /\ b = h \o p /\ IsJoin(all, h, s) /\ IsJoin(b, h, p)
  BY JoinFacts
<1>3. Follows(all, 0, b, r)
  BY <1>1, <1>2, AddFacts
<1>4. Part(b, all)
  BY <1>3, FollowsParts
<1>5. Part(p, s)
  BY <1>1, JoinParts
<1> QED
  BY <1>1, <1>2, <1>4, <1>5

\* Joining three sequences.
LEMMA JoinThree ==
    ASSUME NEW U, NEW h \in Seq(U), NEW s \in Seq(U), NEW u \in Seq(U)
    PROVE  IsJoin(h \o (s \o u), h \o s, u)
<1>1. PICK p \in Seq(U), t \in Seq(U), a \in Seq(U) :
            /\ p = h \o s /\ t = s \o u /\ a = h \o t
            /\ IsJoin(p, h, s) /\ IsJoin(t, s, u) /\ IsJoin(a, h, t)
  BY JoinFacts
<1>2. Follows(a, 0, p, u)
  BY <1>1, AddFacts
<1>3. Len(a) = Len(p) + Len(u)
  BY <1>2 DEF Follows
<1>4. \A i \in 1 .. Len(p) : i + 0 = i
  OBVIOUS
<1>5. \A i \in 1 .. Len(u) : 0 + Len(p) + i = Len(p) + i
  OBVIOUS
<1>6. IsJoin(a, p, u)
  BY <1>2, <1>3, <1>4, <1>5 DEF Follows, IsJoin
<1> QED
  BY <1>1, <1>6

\* Only a new request adds to what is pending; every other step leaves a part
\* of it.
LEMMA PendingStep ==
    ASSUME ServerInv, [Next]_vars, NEW c \in Conns
    PROVE  /\ \/ /\ \E r \in Kinds : SendRequest(c, r)
                                  /\ IsJoin(Pending(c)', Pending(c), Units(Len(sent[c]) + 1, r))
              \/ sent'[c] = sent[c] /\ Part(Pending(c)', Pending(c))
<1>0. TypeOK /\ ListenerShape /\ ControlShape(c) /\ StreamShape(c)
  BY DEF ServerInv
<1> DEFINE Q == Seq(Nat \X Nat)
<1>a. /\ stream[c] \in Q /\ hdr[c] \in Q /\ Pending(c) \in Q /\ hdr[c] \o stream[c] \in Q
      /\ <<>> \in Q
  BY <1>0, PendingType
<1>b. /\ Part(stream[c], stream[c]) /\ Part(stream[c], hdr[c] \o stream[c])
      /\ Part(hdr[c], hdr[c] \o stream[c]) /\ Part(<<>>, stream[c])
      /\ Part(<<>>, hdr[c] \o stream[c]) /\ Part(Pending(c), Pending(c))
      /\ <<>> \o stream[c] = stream[c] /\ hdr[c] \o <<>> = hdr[c]
  <2>1. /\ Part(stream[c], stream[c]) /\ Part(stream[c], hdr[c] \o stream[c])
        /\ Part(hdr[c], hdr[c] \o stream[c]) /\ Part(<<>>, stream[c])
    BY <1>a, PartSelf
  <2>2. Part(<<>>, hdr[c] \o stream[c])
    BY <1>a, PartSelf
  <2>3. Part(Pending(c), Pending(c))
    BY <1>a, PartSelf
  <2>4. <<>> \o stream[c] = stream[c] /\ hdr[c] \o <<>> = hdr[c]
    BY <1>a, ConcatEmptySeq
  <2> QED
    BY <2>1, <2>2, <2>3, <2>4
<1>1. CASE Same(c)
  <2>1. Pending(c)' = Pending(c) /\ sent'[c] = sent[c]
    BY <1>1 DEF Same, Pending
  <2> QED
    BY <1>b, <2>1
<1>2. CASE Opened(c)
  <2>1. /\ pc[c] # "hdr" /\ hdr[c] = <<>> /\ hdr' = hdr /\ stream' = stream /\ sent' = sent
    BY <1>0, <1>2 DEF Opened, ControlShape, reqVars
  <2>2. Pending(c)' = stream[c] /\ Pending(c) = stream[c]
    BY <1>b, <2>1 DEF Pending
  <2> QED
    BY <1>b, <2>1, <2>2
<1>3. CASE Peer(c)
  <2>1. CASE Connect(c)
    <3>1. Pending(c)' = Pending(c) /\ sent' = sent
      BY <2>1 DEF Connect, Pending, reqVars
    <3> QED
      BY <1>b, <3>1
  <2>2. ASSUME NEW r \in Kinds, SendRequest(c, r)
        PROVE  IsJoin(Pending(c)', Pending(c), Units(Len(sent[c]) + 1, r))
    <3>1. PICK u \in Q : u = Units(Len(sent[c]) + 1, r) /\ stream'[c] = stream[c] \o u
      BY <1>0, <2>2, SendFacts
    <3>2. pc' = pc /\ hdr' = hdr
      BY <2>2 DEF SendRequest, reqVars
    <3>3. CASE pc[c] = "hdr"
      <4>1. Pending(c)' = hdr[c] \o (stream[c] \o u) /\ Pending(c) = hdr[c] \o stream[c]
        BY <3>1, <3>2, <3>3 DEF Pending
      <4> QED
        BY <1>a, <3>1, <4>1, JoinThree
    <3>4. CASE pc[c] # "hdr"
      <4>1. Pending(c)' = stream[c] \o u /\ Pending(c) = stream[c]
        BY <3>1, <3>2, <3>4 DEF Pending
      <4> QED
        BY <1>a, <3>1, <4>1, JoinFacts
    <3> QED
      BY <3>3, <3>4
  <2>3. ASSUME NEW k \in 0 .. Len(stream[c]), PeerClose(c, k)
        PROVE  sent'[c] = sent[c] /\ Part(Pending(c)', Pending(c))
    <3>1. /\ Part(hdr[c] \o SubSeq(stream[c], 1, k), hdr[c] \o stream[c])
          /\ Part(SubSeq(stream[c], 1, k), stream[c])
      BY <1>a, PartCut
    <3>2. pc' = pc /\ hdr' = hdr /\ sent' = sent
      BY <2>3 DEF PeerClose, reqVars
    <3>3. stream'[c] = SubSeq(stream[c], 1, k)
      BY <1>0, <2>3 DEF PeerClose, TypeOK
    <3> QED
      BY <3>1, <3>2, <3>3 DEF Pending
  <2>4. CASE PeerReset(c)
    <3>1. pc' = pc /\ hdr' = hdr /\ sent' = sent
      BY <2>4 DEF PeerReset, reqVars
    <3>2. stream'[c] = <<>>
      BY <1>0, <2>4 DEF PeerReset, TypeOK
    <3> QED
      BY <1>b, <3>1, <3>2 DEF Pending
  <2> QED
    BY <1>3, <2>1, <2>2, <2>3, <2>4 DEF Peer
<1>4. CASE Serve(c)
  <2>1. ASSUME NEW k \in 1 .. Len(stream[c]), RecvHdrMore(c, k) \/ RecvHdr(c, k)
        PROVE  sent'[c] = sent[c] /\ Part(Pending(c)', Pending(c))
    <3>1. /\ pc[c] = "hdr" /\ sent' = sent
          /\ stream'[c] = Leave(c, k) /\ hdr'[c] = Buffer(c, k)
      BY <1>0, <2>1 DEF RecvHdrMore, RecvHdr, Runs, TypeOK
    <3>2. PICK all \in Q, b \in Q, r \in Q, d \in Nat :
            /\ all = hdr[c] \o stream[c] /\ b = Buffer(c, k) /\ r = Leave(c, k)
            /\ Follows(all, d, b, r)
      BY <1>0, <1>a, BufferFacts
    <3>3. Part(r, all) /\ Part(b \o r, all)
      BY <3>2, FollowsParts
    <3>4. Pending(c) = all /\ Pending(c)' \in {r, b \o r}
      BY <3>1, <3>2 DEF Pending
    <3> QED
      BY <3>1, <3>3, <3>4
  <2>2. ASSUME NEW k \in 1 .. Len(stream[c]), RecvBody(c, k)
        PROVE  sent'[c] = sent[c] /\ Part(Pending(c)', Pending(c))
    <3>1. IsJoin(stream[c], Take(c, k), Leave(c, k)) /\ Take(c, k) \in Q /\ Leave(c, k) \in Q
      BY <1>0, BufferFacts
    <3>2. Part(Leave(c, k), stream[c])
      BY <1>a, <3>1, JoinParts
    <3>3. /\ pc[c] = "body" /\ pc'[c] # "hdr" /\ sent' = sent /\ stream'[c] = Leave(c, k)
      BY <1>0, <2>2 DEF RecvBody, Runs, TypeOK
    <3> QED
      BY <3>2, <3>3 DEF Pending
  <2>3. CASE RecvHdrFail(c) \/ GiveUp(c)
    <3>1. pc'[c] = "off" /\ stream'[c] = <<>> /\ sent' = sent
      BY <1>0, <2>3 DEF RecvHdrFail, GiveUp, http_cli_free, TypeOK
    <3> QED
      BY <1>b, <3>1 DEF Pending
  <2>4. CASE RecvBodyEnd(c) \/ Route(c) \/ (\E code : HandlerRespond(c, code)) \/ Written(c)
                \/ RespondLast(c)
    <3>1. pc[c] # "hdr" /\ pc'[c] # "hdr" /\ sent' = sent /\ stream' = stream
      BY <1>0, <2>4
         DEF RecvBodyEnd, Route, HandlerRespond, Written, RespondLast, http_respond, Runs,
             TypeOK, netVars
    <3> QED
      BY <1>b, <3>1 DEF Pending
  <2>5. CASE http_cli_reset(c)
    <3>1. pc[c] # "hdr" /\ hdr'[c] = <<>> /\ sent' = sent /\ stream' = stream
      BY <1>0, <2>5 DEF http_cli_reset, Runs, TypeOK, netVars
    <3> QED
      BY <1>b, <3>1 DEF Pending
  <2> QED
    BY <1>4, <2>1, <2>2, <2>3, <2>4, <2>5 DEF Serve
<1> QED
  BY <1>0, <1>1, <1>2, <1>3, <1>4, Frame

\* So are the units pending after a step.
LEMMA PendingTypeNext ==
    ASSUME TypeOK', NEW c \in Conns PROVE Pending(c)' \in Seq(Nat \X Nat)
<1>1. stream'[c] \in Seq(Nat \X Nat) /\ hdr'[c] \in Seq(Nat \X Nat)
  BY DEF TypeOK
<1>2. hdr'[c] \o stream'[c] \in Seq(Nat \X Nat)
  BY <1>1, JoinFacts
<1> QED
  BY <1>1, <1>2 DEF Pending

\* A step keeps what is pending sound.
LEMMA StreamStep ==
    ASSUME ServerInv, [Next]_vars, NEW c \in Conns
    PROVE  StreamShape(c)'
<1>0. TypeOK /\ TypeOK' /\ StreamShape(c)
  BY TypeStep DEF ServerInv
<1>1. Pending(c) \in Seq(Nat \X Nat)
  BY <1>0, PendingType
<1>2. Pending(c)' \in Seq(Nat \X Nat)
  BY <1>0, PendingTypeNext
<1>3. ASSUME NEW r \in Kinds, SendRequest(c, r),
             IsJoin(Pending(c)', Pending(c), Units(Len(sent[c]) + 1, r))
      PROVE  StreamShape(c)'
  <2>1. /\ sent'[c] = Append(sent[c], r) /\ r \in KindRecords
        /\ sent[c] \in Seq(KindRecords) /\ Len(sent[c]) + 1 \in Nat \ {0}
    <3>1. sent[c] \in Seq(KindRecords) /\ Len(sent[c]) \in Nat
      BY <1>0, RequestType
    <3>2. Len(sent[c]) + 1 \in Nat \ {0}
      BY <3>1
    <3> QED
      BY <1>0, <1>3, <3>1, <3>2, SendFacts
  <2>2. PICK p \in Seq(Nat \X Nat), t \in Seq(Nat \X Nat), n \in Nat \ {0} :
            p = Pending(c) /\ t = Pending(c)' /\ n = Len(sent[c]) + 1
    BY <1>1, <1>2, <2>1
  <2>3. Sound(sent[c], p)
    BY <1>0, <2>2 DEF StreamShape
  <2>4. Sound(Append(sent[c], r), t)
    BY <1>3, <2>1, <2>2, <2>3, SendSound
  <2> QED
    BY <2>1, <2>2, <2>4 DEF StreamShape
<1>4. ASSUME sent'[c] = sent[c], Part(Pending(c)', Pending(c))
      PROVE  StreamShape(c)'
  <2>1. Sound(sent[c], Pending(c)')
    BY <1>0, <1>1, <1>2, <1>4, PartSound DEF StreamShape
  <2> QED
    BY <1>4, <2>1 DEF StreamShape
<1> QED
  BY <1>3, <1>4, PendingStep

\* The invariant holds at the start ...
LEMMA ServerInit ==
    ASSUME Init PROVE ServerInv
<1>1. TypeOK
  <2>1. <<>> \in Seq(Kinds) /\ <<>> \in Seq(Nat \X Nat) /\ <<>> \in Seq(Nat)
    OBVIOUS
  <2>2. 0 \in 0 .. MaxFails
    BY ConstantsAssumption
  <2>3. "off" \in PCs
    BY DEF PCs
  <2>4. /\ conn \in [Conns -> {"none", "backlog", "open", "closed"}]
        /\ peer \in [Conns -> {"up", "fin", "reset"}]
        /\ sent \in [Conns -> Seq(Kinds)] /\ early \in [Conns -> BOOLEAN]
        /\ stream \in [Conns -> Seq(Nat \X Nat)]
        /\ listener \in Conns \union {"failed", NULL}
        /\ total \in Nat /\ fails \in 0 .. MaxFails
        /\ pc \in [Conns -> PCs]
        /\ hdr \in [Conns -> Seq(Nat \X Nat)]
    BY <2>1, <2>2, <2>3 DEF Init
  <2>5. /\ no \in [Conns -> Nat] /\ cnt_len \in [Conns -> Nat]
        /\ chunked \in [Conns -> BOOLEAN]
        /\ body \in [Conns -> Seq(Nat \X Nat) \union {NULL}]
        /\ body_len \in [Conns -> Nat]
        /\ cb \in [Conns -> Callbacks \union {NULL}]
        /\ err \in [Conns -> {0, -1}]
        /\ respcode \in [Conns -> {0, 200, 204, 400, 404, 408}]
    BY DEF Init
  <2>6. /\ resp_state \in [Conns -> {"HTTP_HDR_BEGIN", "HTTP_BODY_SENT"}]
        /\ handled \in [Conns -> Seq(Nat)] /\ answers \in [Conns -> Seq(Nat \X Nat)]
        /\ fault \in BOOLEAN
    BY <2>1 DEF Init
  <2> QED
    BY <2>4, <2>5, <2>6 DEF TypeOK
<1>2. TotalExact
  <2>1. {c \in Conns : conn[c] = "open"} = {}
    BY DEF Init
  <2>2. Cardinality({c \in Conns : conn[c] = "open"}) = 0
    BY <2>1, FS_EmptySet
  <2> QED
    BY <2>2 DEF Init, TotalExact
<1>3. ListenerShape
  BY ConstantsAssumption DEF Init, ListenerShape
<1>4. \A c \in Conns : ControlShape(c)
  BY DEF Init, ControlShape
<1>5. \A c \in Conns : StreamShape(c)
  BY DEF Init, StreamShape, Pending, Sound
<1> QED
  BY <1>1, <1>2, <1>3, <1>4, <1>5 DEF ServerInv

\* ... and is kept by every step.
LEMMA ServerNext ==
    ASSUME ServerInv, [Next]_vars PROVE ServerInv'
<1>1. TotalExact'
  BY TotalStep DEF ServerInv
<1>2. TypeOK' /\ ListenerShape' /\ \A c \in Conns : ControlShape(c)' /\ StreamShape(c)'
  BY TypeStep, ListenerStep, ControlStep, StreamStep
<1> QED
  BY <1>1, <1>2 DEF ServerInv

\* ServerInv holds in every state.
THEOREM ServerInvariant == Spec => []ServerInv
<1>1. Init => ServerInv
  BY ServerInit
<1>2. ServerInv /\ [Next]_vars => ServerInv'
  BY ServerNext
<1> QED
  BY <1>1, <1>2, PTL DEF Spec

\* The state of the server has its types in every reachable state; in
\* particular http_cli_free never takes the connection counter below 0.
THEOREM TypeCorrect == Spec => []TypeOK
<1>1. ServerInv => TypeOK
  BY DEF ServerInv
<1> QED
  BY <1>1, ServerInvariant, PTL

\* The counter that throttles http_listener is the number of open connections
\* plus the accepts that failed: every way a connection can end takes it back
\* once, however many connections are open and however their steps interleave.
THEOREM TotalCorrect == Spec => []TotalExact
<1>1. ServerInv => TotalExact
  BY DEF ServerInv
<1> QED
  BY <1>1, ServerInvariant, PTL

-----------------------------------------------------------------------------
(* One answer to each request *)

\* Every header in s has a number above n.
Above(s, n) == \A i \in 1 .. Len(s) : s[i][2] = 0 => n < s[i][1]

\* The lthread has a request, and nothing has been written for it.
Unanswered(c) ==
    \/ pc[c] \in {"body", "route", "handler", "write"}
    \/ pc[c] = "done" /\ resp_state[c] = "HTTP_HDR_BEGIN"

\* The numbers of the answered requests, in the order of the answers.
Numbers(c) == [i \in 1 .. Len(answers[c]) |-> answers[c][i][1]]

\* As long as the connection is not given up, the headers that are pending
\* are of later requests than the ones answered and the one at hand, which
\* makes the next answer different from all others.  What has been routed is
\* what has been answered, and the request the handler has.
AnswerShape(c) ==
    /\ no[c] \in 0 .. Len(sent[c])
    /\ \A i \in 1 .. Len(answers[c]) : answers[c][i][1] \in 0 .. Len(sent[c])
    /\ \A i, j \in 1 .. Len(answers[c]) : answers[c][i][1] = answers[c][j][1] => i = j
    /\ Unanswered(c) => \A i \in 1 .. Len(answers[c]) : answers[c][i][1] # no[c]
    /\ (err[c] = 0 /\ Unanswered(c)) => no[c] > 0 /\ Above(Pending(c), no[c])
    /\ err[c] = 0 => \A i \in 1 .. Len(answers[c]) :
                        answers[c][i][1] > 0 /\ Above(Pending(c), answers[c][i][1])
    /\ (pc[c] \in {"hdr", "body", "route"} \/ (pc[c] = "done" /\ err[c] = 0))
            => handled[c] = Numbers(c)
    /\ (pc[c] = "handler" \/ (pc[c] = "write" /\ err[c] = 0))
            => handled[c] = Append(Numbers(c), no[c])

AnswerInv == ServerInv /\ \A c \in Conns : AnswerShape(c)

\* A stream is above a number if its parts are.
LEMMA AboveJoin ==
    ASSUME NEW n, NEW p \in Seq(Nat \X Nat), NEW u \in Seq(Nat \X Nat),
           NEW t \in Seq(Nat \X Nat), IsJoin(t, p, u), Above(p, n), Above(u, n)
    PROVE  Above(t, n)
<1>1. ASSUME NEW i \in 1 .. Len(t), t[i][2] = 0 PROVE n < t[i][1]
  <2>1. \/ i \in 1 .. Len(p) /\ t[i] = p[i]
        \/ \E j \in 1 .. Len(u) : i = Len(p) + j /\ t[i] = u[j]
    BY JoinIndex
  <2> QED
    BY <1>1, <2>1 DEF Above
<1> QED
  BY <1>1 DEF Above

\* What is pending stays above every number the peer has used.
LEMMA AboveStep ==
    ASSUME ServerInv, [Next]_vars, NEW c \in Conns, NEW n \in 0 .. Len(sent[c]),
           Above(Pending(c), n)
    PROVE  Above(Pending(c)', n)
<1>0. TypeOK /\ TypeOK' /\ Len(sent[c]) \in Nat
  BY TypeStep, RequestType DEF ServerInv
<1>1. PICK p \in Seq(Nat \X Nat) : p = Pending(c)
  BY <1>0, PendingType
<1>2. PICK t \in Seq(Nat \X Nat) : t = Pending(c)'
  BY <1>0, PendingTypeNext
<1>3. n \in Nat
  BY <1>0
<1>4. ASSUME NEW r \in Kinds, SendRequest(c, r),
             IsJoin(t, p, Units(Len(sent[c]) + 1, r))
      PROVE  Above(t, n)
  <2>1. PICK m \in Nat \ {0} : m = Len(sent[c]) + 1 /\ n < m
    BY <1>0
  <2>2. r \in KindRecords
    BY ConstantsAssumption
  <2>3. PICK u \in Seq(Nat \X Nat) : u = Units(m, r)
    BY <2>2, UnitsFacts
  <2>4. ASSUME NEW i \in 1 .. Len(u), u[i][2] = 0 PROVE n < u[i][1]
    <3>1. Len(u) = r.blanks + r.len + 1
      BY <2>2, <2>3, UnitsFacts
    <3>2. i \in 1 .. r.blanks + r.len + 1 /\ u[i] = UnitAt(m, r, i)
      BY <2>2, <2>3, <3>1, UnitsFacts
    <3>3. u[i][1] = m
      BY <2>2, <2>4, <3>2, UnitAtFacts
    <3> QED
      BY <2>1, <3>3
  <2>5. Above(u, n)
    BY <2>4 DEF Above
  <2>6. IsJoin(t, p, u) /\ Above(p, n)
    BY <1>1, <1>4, <2>1, <2>3
  <2> QED
    BY <2>5, <2>6, AboveJoin
<1>5. ASSUME Part(t, p) PROVE Above(t, n)
  <2>1. PICK d \in Nat : /\ d + Len(t) <= Len(p)
                         /\ \A i \in 1 .. Len(t) : t[i] = p[i + d]
    BY <1>5 DEF Part
  <2>2. \A i \in 1 .. Len(t) : i + d \in 1 .. Len(p)
    BY <2>1
  <2> QED
    BY <1>1, <2>1, <2>2 DEF Above
<1> QED
  BY <1>1, <1>2, <1>4, <1>5, PendingStep

\* The request a receive finds is later than all answered ones, and what is
\* left in the socket is later than that.
LEMMA FoundAbove ==
    ASSUME ServerInv, NEW c \in Conns, NEW k \in 1 .. Len(stream[c]), pc[c] = "hdr",
           NEW end \in 1 .. Len(Buffer(c, k)), Buffer(c, k)[end][2] = 0
    PROVE  /\ Above(Leave(c, k), Buffer(c, k)[end][1])
           /\ \A n \in Nat : Above(Pending(c), n) => n < Buffer(c, k)[end][1]
<1>0. TypeOK /\ StreamShape(c)
  BY DEF ServerInv
<1>1. PICK all \in Seq(Nat \X Nat) : all = hdr[c] \o stream[c]
  BY <1>0, PendingType
<1>2. PICK b \in Seq(Nat \X Nat), r \in Seq(Nat \X Nat), d \in Nat :
            b = Buffer(c, k) /\ r = Leave(c, k) /\ Follows(all, d, b, r)
  BY <1>0, <1>1, BufferFacts
<1>3. Sound(sent[c], all) /\ Pending(c) = all
  BY <1>0, <1>1 DEF StreamShape, Pending
<1>4. end \in 1 .. Len(b) /\ b[end][2] = 0
  BY <1>2
<1>5. end + d \in 1 .. Len(all) /\ b[end] = all[end + d]
  <2>1. d + Len(b) + Len(r) = Len(all) /\ \A i \in 1 .. Len(b) : b[i] = all[i + d]
    BY <1>2 DEF Follows
  <2>2. Len(b) \in Nat /\ Len(r) \in Nat
    OBVIOUS
  <2>3. end + d \in 1 .. Len(all)
    BY <1>4, <2>1, <2>2
  <2> QED
    BY <1>4, <2>1, <2>3
<1>6. ASSUME NEW i \in 1 .. Len(r), r[i][2] = 0 PROVE b[end][1] < r[i][1]
  <2>1. PICK j \in 1 .. Len(all) : j = d + Len(b) + i /\ r[i] = all[j]
    <3>1. /\ d + Len(b) + Len(r) = Len(all)
          /\ r[i] = all[d + Len(b) + i]
      BY <1>2 DEF Follows
    <3>2. Len(b) \in Nat /\ Len(r) \in Nat
      OBVIOUS
    <3>3. d + Len(b) + i \in 1 .. Len(all)
      BY <3>1, <3>2
    <3> QED
      BY <3>1, <3>3
  <2>2. end + d < j
    BY <1>4, <2>1
  <2> QED
    BY <1>3, <1>4, <1>5, <1>6, <2>1, <2>2 DEF Sound
<1>7. \A n \in Nat : Above(all, n) => n < b[end][1]
  BY <1>4, <1>5 DEF Above
<1> QED
  BY <1>2, <1>3, <1>6, <1>7 DEF Above

\* Appending an answer appends its number.
LEMMA NumbersAppend ==
    ASSUME NEW a \in Seq(Nat \X Nat), NEW u \in Nat \X Nat
    PROVE  [i \in 1 .. Len(Append(a, u)) |-> Append(a, u)[i][1]]
                = Append([i \in 1 .. Len(a) |-> a[i][1]], u[1])
<1>1. PICK s : s = [i \in 1 .. Len(a) |-> a[i][1]]
  OBVIOUS
<1>2. \A i \in 1 .. Len(a) : a[i][1] \in Nat
  OBVIOUS
<1>3. s \in Seq(Nat) /\ Len(s) = Len(a) /\ \A i \in 1 .. Len(a) : s[i] = a[i][1]
  BY <1>1, <1>2
<1>4. PICK t : t = Append(a, u)
  OBVIOUS
<1>5. /\ t \in Seq(Nat \X Nat) /\ Len(t) = Len(a) + 1 /\ t[Len(a) + 1] = u
      /\ \A i \in 1 .. Len(a) : t[i] = a[i]
  BY <1>4
<1>6. PICK v : v = Append(s, u[1])
  OBVIOUS
<1>7. /\ v = [i \in 1 .. Len(a) + 1 |-> v[i]] /\ v[Len(a) + 1] = u[1]
      /\ \A i \in 1 .. Len(a) : v[i] = s[i]
  BY <1>3, <1>6
<1>8. \A i \in 1 .. Len(a) + 1 : t[i][1] = v[i]
  <2> TAKE i \in 1 .. Len(a) + 1
  <2>1. CASE i = Len(a) + 1
    BY <1>5, <1>7, <2>1
  <2>2. CASE i \in 1 .. Len(a)
    BY <1>3, <1>5, <1>7, <2>2
  <2> QED
    BY <2>1, <2>2
<1>9. [i \in 1 .. Len(t) |-> t[i][1]] = v
  BY <1>5, <1>7, <1>8
<1> QED
  BY <1>1, <1>4, <1>6, <1>9

\* A step keeps AnswerShape.
LEMMA AnswerStep ==
    ASSUME AnswerInv, [Next]_vars, NEW c \in Conns
    PROVE  AnswerShape(c)'
<1>0. /\ ServerInv /\ TypeOK /\ ControlShape(c) /\ StreamShape(c) /\ ListenerShape
      /\ AnswerShape(c)
  BY DEF AnswerInv, ServerInv
<1>a. \A n \in 0 .. Len(sent[c]) : Above(Pending(c), n) => Above(Pending(c)', n)
  BY <1>0, AboveStep
<1>b. Len(sent[c]) \in Nat /\ answers[c] \in Seq(Nat \X Nat) /\ err[c] \in {0, -1}
  BY <1>0, RequestType DEF TypeOK
<1>1. ASSUME answers'[c] = answers[c], handled'[c] = handled[c], no'[c] = no[c],
             err'[c] = err[c], resp_state'[c] = resp_state[c], pc'[c] = pc[c],
             Len(sent'[c]) \in Nat, Len(sent[c]) <= Len(sent'[c])
      PROVE  AnswerShape(c)'
  <2>1. no'[c] \in 0 .. Len(sent'[c])
    BY <1>0, <1>1, <1>b DEF AnswerShape
  <2>2. \A i \in 1 .. Len(answers'[c]) : answers'[c][i][1] \in 0 .. Len(sent'[c])
    <3>1. PICK a, m, n : a = answers[c] /\ m = Len(sent[c]) /\ n = Len(sent'[c])
      OBVIOUS
    <3>2. /\ m \in Nat /\ n \in Nat /\ m <= n
          /\ \A i \in 1 .. Len(a) : a[i][1] \in 0 .. m
      BY <1>0, <1>1, <1>b, <3>1 DEF AnswerShape
    <3>3. \A i \in 1 .. Len(a) : a[i][1] \in 0 .. n
      BY <3>2
    <3> QED
      BY <1>1, <3>1, <3>3
  <2> QED
    BY <1>0, <1>1, <1>a, <2>1, <2>2 DEF AnswerShape, Unanswered, Numbers
<1>2. CASE Same(c)
  BY <1>1, <1>2, <1>b DEF Same
<1>3. CASE Opened(c)
  <2>1. /\ answers[c] = <<>> /\ handled[c] = <<>> /\ pc[c] = "off"
        /\ pc'[c] \in {"hdr", "off"}
        /\ UNCHANGED <<answers, handled, no, err, resp_state, sent>>
    BY <1>0, <1>3 DEF Opened, ControlShape, reqVars, respVars
  <2>2. Numbers(c)' = <<>> /\ Len(answers[c]) = 0
    BY <2>1 DEF Numbers
  <2> QED
    BY <1>0, <2>1, <2>2 DEF AnswerShape, Unanswered
<1>4. CASE Peer(c)
  <2>1. UNCHANGED <<answers, handled, no, err, resp_state, pc>>
    BY <1>4 DEF Peer, Connect, SendRequest, PeerClose, PeerReset, reqVars, respVars
  <2>2. Len(sent'[c]) \in Nat /\ Len(sent[c]) <= Len(sent'[c])
    <3>1. CASE \E r \in Kinds : SendRequest(c, r)
      <4>1. PICK r \in Kinds : SendRequest(c, r)
        BY <3>1
      <4>2. sent[c] \in Seq(Kinds) /\ sent'[c] = Append(sent[c], r)
        BY <1>0, <4>1 DEF SendRequest, TypeOK
      <4> QED
        BY <4>2
    <3>2. CASE ~\E r \in Kinds : SendRequest(c, r)
      BY <1>4, <1>b, <3>2 DEF Peer, Connect, PeerClose, PeerReset
    <3> QED
      BY <3>1, <3>2
  <2> QED
    BY <1>1, <2>1, <2>2
<1>5. CASE Serve(c)
  <2>1. ASSUME NEW k \in 1 .. Len(stream[c]), RecvHdrMore(c, k) PROVE AnswerShape(c)'
    <3>1. /\ UNCHANGED <<answers, handled, resp_state, sent>>
          /\ no'[c] = 0 /\ pc[c] = "hdr" /\ err[c] = 0
      BY <1>0, <2>1 DEF RecvHdrMore, Runs, ControlShape, TypeOK
    <3>2. \/ pc'[c] = "hdr" /\ err'[c] = 0
          \/ pc'[c] = "write" /\ err'[c] = -1
      <4>1. (pc' = pc /\ err' = err) \/ Refused(c)
        BY <1>0, <2>1, RecvHdrMoreFacts
      <4> QED
        BY <1>0, <3>1, <4>1 DEF Refused, TypeOK
    <3>3. \A i \in 1 .. Len(answers[c]) : answers[c][i][1] # 0
      BY <1>0, <3>1 DEF AnswerShape
    <3>4. 0 \in 0 .. Len(sent[c])
      BY <1>b
    <3>5. \A i \in 1 .. Len(answers[c]) : Above(Pending(c)', answers[c][i][1])
      BY <1>0, <1>a, <3>1 DEF AnswerShape
    <3>6. CASE pc'[c] = "hdr" /\ err'[c] = 0
      <4>1. ~Unanswered(c)' /\ Numbers(c)' = handled'[c]
        BY <1>0, <3>1, <3>6 DEF AnswerShape, Unanswered, Numbers
      <4> QED
        BY <1>0, <3>1, <3>3, <3>4, <3>5, <3>6, <4>1 DEF AnswerShape
    <3>7. CASE pc'[c] = "write" /\ err'[c] = -1
      BY <1>0, <3>1, <3>3, <3>4, <3>7 DEF AnswerShape
    <3> QED
      BY <3>2, <3>6, <3>7
  <2>2. ASSUME NEW k \in 1 .. Len(stream[c]), RecvHdr(c, k) PROVE AnswerShape(c)'
    <3>1. /\ UNCHANGED <<answers, handled, resp_state, sent>>
          /\ pc[c] = "hdr" /\ err[c] = 0 /\ stream'[c] = Leave(c, k)
      BY <1>0, <2>2 DEF RecvHdr, Runs, ControlShape, TypeOK
    <3>2. PICK b \in Seq(Nat \X Nat) : b = Buffer(c, k)
      BY <1>0, BufferFacts
    <3>3. PICK end \in 1 .. Len(b), n \in 1 .. Len(sent[c]) : Found(c, b, end, n)
      BY <1>0, <2>2, <3>2, RecvHdrFacts
    <3>4. no'[c] = n /\ b[end][1] = n /\ b[end][2] = 0
      BY <1>0, <3>3 DEF Found, TypeOK
    <3>5. \/ pc'[c] \in {"body", "route"} /\ err'[c] = 0
          \/ pc'[c] = "write" /\ err'[c] = -1
      <4>0. PICK len \in {0, sent[c][n].len}, ch \in BOOLEAN :
                Parsed(c, sent[c][n], end = 1, Len(b) - end, len, ch)
        BY <3>3 DEF Found
      <4>1. Accepted(c, sent[c][n], Len(b) - end, len, ch) \/ Refused(c)
        BY <4>0 DEF Parsed
      <4>2. pc \in [Conns -> PCs] /\ err \in [Conns -> {0, -1}]
        BY <1>0 DEF TypeOK
      <4>3. CASE Refused(c)
        BY <4>2, <4>3 DEF Refused
      <4>4. CASE Accepted(c, sent[c][n], Len(b) - end, len, ch)
        <5>1. err' = err /\ \E p \in {"body", "route"} : pc' = [pc EXCEPT ![c] = p]
          BY <4>4 DEF Accepted
        <5> QED
          BY <3>1, <4>2, <5>1
      <4> QED
        BY <4>1, <4>3, <4>4
    <3>6. Above(Leave(c, k), n) /\ \A m \in Nat : Above(Pending(c), m) => m < n
      <4>1. end \in 1 .. Len(Buffer(c, k)) /\ Buffer(c, k)[end][2] = 0
        BY <3>2, <3>4
      <4>2. /\ Above(Leave(c, k), Buffer(c, k)[end][1])
            /\ \A m \in Nat : Above(Pending(c), m) => m < Buffer(c, k)[end][1]
        BY <1>0, <3>1, <4>1, FoundAbove
      <4> QED
        BY <3>2, <3>4, <4>2
    <3>7. Pending(c)' = Leave(c, k)
      BY <3>1, <3>5 DEF Pending
    <3>8. \A i \in 1 .. Len(answers[c]) : answers[c][i][1] # n
      <4> TAKE i \in 1 .. Len(answers[c])
      <4>1. answers[c][i][1] \in Nat /\ Above(Pending(c), answers[c][i][1])
        <5>1. PICK l \in Nat : l = Len(sent[c])
          BY <1>b
        <5>2. answers[c][i][1] \in 0 .. l
          BY <1>0, <5>1 DEF AnswerShape
        <5>3. Above(Pending(c), answers[c][i][1])
          BY <1>0, <3>1 DEF AnswerShape
        <5> QED
          BY <5>1, <5>2, <5>3
      <4>2. answers[c][i][1] < n
        BY <3>6, <4>1
      <4>3. n \in Nat
        BY <1>b
      <4> QED
        BY <4>1, <4>2, <4>3
    <3>9. n \in 0 .. Len(sent[c]) /\ n > 0
      BY <1>b
    <3>10. \A i \in 1 .. Len(answers[c]) : Above(Pending(c)', answers[c][i][1])
      BY <1>0, <1>a, <3>1 DEF AnswerShape
    <3> HIDE DEF Above
    <3>11. Above(Pending(c)', n)
      BY <3>6, <3>7
    <3> QED
      BY <1>0, <3>1, <3>4, <3>5, <3>8, <3>9, <3>10, <3>11
         DEF AnswerShape, Unanswered, Numbers
  <2>3. CASE (\E k \in 1 .. Len(stream[c]) : RecvBody(c, k)) \/ RecvBodyEnd(c)
    <3>1. /\ UNCHANGED <<answers, handled, no, err, resp_state, sent>>
          /\ pc[c] = "body" /\ pc'[c] \in {"body", "route"}
      BY <1>0, <2>3 DEF RecvBody, RecvBodyEnd, Runs, TypeOK, netVars, respVars
    <3> QED
      BY <1>0, <1>a, <3>1 DEF AnswerShape, Unanswered, Numbers
  <2>4. CASE RecvHdrFail(c) \/ GiveUp(c)
    <3>1. /\ UNCHANGED <<answers, handled, no, err, resp_state, sent>> /\ pc'[c] = "off"
      BY <1>0, <2>4 DEF RecvHdrFail, GiveUp, http_cli_free, TypeOK, reqVars, respVars
    <3> QED
      BY <1>0, <1>a, <3>1 DEF AnswerShape, Unanswered, Numbers
  <2>5. CASE Route(c)
    <3>1. /\ UNCHANGED <<answers, no, resp_state, sent>> /\ pc[c] = "route"
          /\ handled'[c] = Append(handled[c], no[c])
          /\ \/ pc'[c] = "handler" /\ err'[c] = err[c]
             \/ pc'[c] = "done" /\ err'[c] = -1
      BY <1>0, <2>5 DEF Route, Runs, TypeOK, netVars, reqVars
    <3>2. resp_state[c] = "HTTP_HDR_BEGIN"
      BY <1>0, <3>1 DEF ControlShape
    <3> QED
      BY <1>0, <1>a, <3>1, <3>2 DEF AnswerShape, Unanswered, Numbers
  <2>6. ASSUME NEW code, HandlerRespond(c, code) PROVE AnswerShape(c)'
    <3>1. /\ UNCHANGED <<answers, handled, no, err, resp_state, sent>> /\ pc[c] = "handler"
      BY <2>6 DEF HandlerRespond, Runs, netVars, reqVars
    <3>2. pc'[c] = "write"
      BY <1>0, <2>6, <3>1 DEF HandlerRespond, http_respond, TypeOK, ControlShape
    <3> QED
      BY <1>0, <1>a, <3>1, <3>2 DEF AnswerShape, Unanswered, Numbers
  <2>7. CASE Written(c)
    <3>1. /\ UNCHANGED <<handled, no, err, sent>> /\ pc[c] = "write" /\ pc'[c] = "done"
          /\ resp_state'[c] = "HTTP_BODY_SENT"
          /\ answers'[c] = Append(answers[c], Response(c))
      BY <1>0, <2>7 DEF Written, Runs, TypeOK, netVars, reqVars
    <3>2. PICK u \in Nat \X Nat : u = Response(c) /\ u[1] = no[c]
      <4>1. no[c] \in Nat /\ respcode[c] \in {0, 200, 204, 400, 404, 408}
        BY <1>0 DEF TypeOK
      <4>2. respcode[c] \in Nat
        BY <4>1
      <4>3. PICK m \in Nat, k \in Nat : m = no[c] /\ k = respcode[c]
        BY <4>1, <4>2
      <4>4. <<m, k>> \in Nat \X Nat /\ <<m, k>>[1] = m
        OBVIOUS
      <4>5. Response(c) = <<m, k>>
        BY <4>3 DEF Response
      <4> QED
        BY <4>3, <4>4, <4>5
    <3>3. Numbers(c)' = Append(Numbers(c), no[c])
      BY <1>b, <3>1, <3>2, NumbersAppend DEF Numbers
    <3>4. PICK a \in Seq(Nat \X Nat), t \in Seq(Nat \X Nat) :
                /\ a = answers[c] /\ t = answers'[c] /\ Len(t) = Len(a) + 1
                /\ t[Len(a) + 1] = u /\ \A i \in 1 .. Len(a) : t[i] = a[i]
      <4>0. PICK a \in Seq(Nat \X Nat) : a = answers[c]
        BY <1>b
      <4>1. PICK t : a = answers[c] /\ t = Append(a, u)
        BY <4>0
      <4>2. /\ t \in Seq(Nat \X Nat) /\ Len(t) = Len(a) + 1
            /\ t[Len(a) + 1] = u /\ \A i \in 1 .. Len(a) : t[i] = a[i]
        BY <4>1
      <4> QED
        BY <3>1, <3>2, <4>1, <4>2
    <3>5. \A i \in 1 .. Len(t) : \/ i = Len(a) + 1 /\ t[i][1] = no[c]
                                 \/ i \in 1 .. Len(a) /\ t[i][1] = a[i][1]
      <4> TAKE i \in 1 .. Len(t)
      <4>1. CASE i = Len(a) + 1
        BY <3>2, <3>4, <4>1
      <4>2. CASE i \in 1 .. Len(a)
        BY <3>4, <4>2
      <4> QED
        BY <3>4, <4>1, <4>2
    <3>6. \A i \in 1 .. Len(a) : a[i][1] # no[c]
      BY <1>0, <3>1, <3>4 DEF AnswerShape, Unanswered
    <3>7. \A i, j \in 1 .. Len(t) : t[i][1] = t[j][1] => i = j
      <4>1. \A i, j \in 1 .. Len(a) : a[i][1] = a[j][1] => i = j
        BY <1>0, <3>4 DEF AnswerShape
      <4> QED
        BY <3>5, <3>6, <4>1
    <3>8. \A i \in 1 .. Len(t) : t[i][1] \in 0 .. Len(sent[c])
      BY <1>0, <3>4, <3>5 DEF AnswerShape
    <3>9. err[c] = 0 => \A i \in 1 .. Len(t) : t[i][1] > 0 /\ Above(Pending(c), t[i][1])
      <4>1. err[c] = 0 => no[c] > 0 /\ Above(Pending(c), no[c])
        BY <1>0, <3>1 DEF AnswerShape, Unanswered
      <4>2. err[c] = 0 => \A i \in 1 .. Len(a) : a[i][1] > 0 /\ Above(Pending(c), a[i][1])
        BY <1>0, <3>4 DEF AnswerShape
      <4> QED
        BY <3>5, <4>1, <4>2
    <3>10. err[c] = 0 => \A i \in 1 .. Len(t) : t[i][1] > 0 /\ Above(Pending(c)', t[i][1])
      BY <1>a, <3>8, <3>9
    <3>11. err[c] = 0 => handled[c] = Append(Numbers(c), no[c])
      BY <1>0, <3>1 DEF AnswerShape
    <3> QED
      BY <1>0, <3>1, <3>3, <3>4, <3>7, <3>8, <3>10, <3>11 DEF AnswerShape, Unanswered
  <2>8. CASE RespondLast(c)
    <3>1. /\ UNCHANGED <<answers, handled, no, err, resp_state, sent>> /\ pc[c] = "done"
          /\ resp_state[c] = "HTTP_HDR_BEGIN" /\ pc'[c] = "write"
      BY <1>0, <2>8 DEF RespondLast, http_respond, Runs, TypeOK, netVars, reqVars
    <3>2. err[c] = -1
      BY <1>0, <3>1 DEF ControlShape
    <3> QED
      BY <1>0, <1>a, <3>1, <3>2 DEF AnswerShape, Unanswered, Numbers
  <2>9. CASE http_cli_reset(c)
    <3>1. /\ UNCHANGED <<answers, handled, no, err, sent>> /\ pc[c] = "done"
          /\ err[c] # -1 /\ pc'[c] = "hdr"
      BY <1>0, <2>9 DEF http_cli_reset, Runs, TypeOK, netVars
    <3>2. err[c] = 0
      BY <1>b, <3>1
    <3> QED
      BY <1>0, <1>a, <3>1, <3>2 DEF AnswerShape, Unanswered, Numbers
  <2> QED
    BY <1>5, <2>1, <2>2, <2>3, <2>4, <2>5, <2>6, <2>7, <2>8, <2>9 DEF Serve
<1> QED
  BY <1>0, <1>2, <1>3, <1>4, <1>5, Frame

\* AnswerInv holds in every state: no request has more than one answer.
THEOREM AnswerInvariant == Spec => []AnswerInv
<1>1. Init => AnswerInv
  <2> SUFFICES ASSUME Init PROVE AnswerInv
    OBVIOUS
  <2>1. ServerInv
    BY ServerInit
  <2>2. ASSUME NEW c \in Conns PROVE AnswerShape(c)
    <3>1. /\ no[c] = 0 /\ answers[c] = <<>> /\ sent[c] = <<>> /\ pc[c] = "off"
      BY DEF Init
    <3> QED
      BY <3>1 DEF AnswerShape, Unanswered
  <2> QED
    BY <2>1, <2>2 DEF AnswerInv
<1>2. AnswerInv /\ [Next]_vars => AnswerInv'
  <2> SUFFICES ASSUME AnswerInv, [Next]_vars PROVE AnswerInv'
    OBVIOUS
  <2>1. ServerInv'
    BY ServerNext DEF AnswerInv
  <2>2. \A c \in Conns : AnswerShape(c)'
    BY AnswerStep
  <2> QED
    BY <2>1, <2>2 DEF AnswerInv
<1> QED
  BY <1>1, <1>2, PTL DEF Spec

\* Handler and http_lt_cli_rd never both write an answer to a request nor
\* both leave it out, whatever is pipelined, cut up, refused or broken off:
\* answers are distinct, and between requests each routed request has one.
THEOREM AnswerCorrect == Spec => []OneAnswerEach
<1>1. AnswerInv => OneAnswerEach
  BY DEF AnswerInv, AnswerShape, OneAnswerEach, Numbers
<1> QED
  BY <1>1, AnswerInvariant, PTL

-----------------------------------------------------------------------------
(* Routing *)

\* The handler that request r gets.
Routed(r) ==
    CASE r.method = "PUT"    -> "on_queue_create"
      [] r.method = "POST"   -> "on_msg_post"
      [] r.method = "DELETE" -> "on_queue_delete"
      [] r.method = "HEAD"   -> "on_queue_info"
      [] r.method = "GET" /\ r.path \in {"mpoll", "mpoll_prefix"} -> "on_multi_queue_poll"
      [] OTHER -> "on_queue_poll"

\* The routing table, one entry at a time.
LEMMA RoutesFacts ==
    /\ Len(Routes) = 7
    /\ Routes[1] = <<"HEAD", {"root", "queue", "mpoll", "mpoll_prefix"}, "on_queue_info">>
    /\ Routes[2] = <<"DELETE", {"root", "queue", "mpoll", "mpoll_prefix"}, "on_queue_delete">>
    /\ Routes[3] = <<"POST", {"root", "queue", "mpoll", "mpoll_prefix"}, "on_msg_post">>
    /\ Routes[4] = <<"PUT", {"queue", "mpoll", "mpoll_prefix"}, "on_queue_create">>
    /\ Routes[5] = <<"GET", {"mpoll", "mpoll_prefix"}, "on_multi_queue_poll">>
    /\ Routes[6] = <<"GET", {"queue", "mpoll", "mpoll_prefix"}, "on_queue_poll">>
    /\ Routes[7] = <<"GET", {"queue", "mpoll", "mpoll_prefix"}, "on_serv_file">>
BY DEF Routes

\* Of the routes that match a request, the first one is that handler's.
LEMMA FirstRoute ==
    ASSUME NEW r \in KindRecords, NEW i \in Takes(r), \A j \in Takes(r) : i <= j
    PROVE  Routes[i][3] = Routed(r)
<1>1. r.method \in {"GET", "PUT", "POST", "DELETE", "HEAD"}
  BY DEF KindRecords, Methods
<1>2. /\ i \in 1 .. 7 /\ Routes[i][1] = r.method /\ r.path \in Routes[i][2]
      /\ Routes[i][3] # "on_serv_file"
  BY RoutesFacts DEF Takes
<1>3. CASE r.method # "GET"
  <2>1. i \in {1, 2, 3, 4}
    BY <1>2, <1>3, RoutesFacts
  <2> QED
    BY <1>1, <1>2, <1>3, <2>1, RoutesFacts DEF Routed
<1>4. CASE r.method = "GET" /\ r.path \in {"mpoll", "mpoll_prefix"}
  <2>1. 5 \in Takes(r)
    BY <1>4, RoutesFacts DEF Takes
  <2>2. i <= 5
    BY <2>1
  <2>3. i = 5
    BY <1>2, <1>4, <2>2, RoutesFacts
  <2> QED
    BY <1>4, <2>3, RoutesFacts DEF Routed
<1>5. CASE r.method = "GET" /\ r.path \notin {"mpoll", "mpoll_prefix"}
  <2>1. i = 6
    BY <1>2, <1>5, RoutesFacts
  <2> QED
    BY <1>5, <2>1, RoutesFacts DEF Routed
<1> QED
  BY <1>3, <1>4, <1>5

\* The request a handler has is the one that was routed to it.
RouteShape == \A c \in Conns : pc[c] = "handler" => cb[c] = Routed(sent[c][no[c]])

\* A step of the server leaves it that.
LEMMA RouteStep ==
    ASSUME ServerInv, RouteShape, [Next]_vars, NEW c \in Conns,
           pc'[c] = "handler"
    PROVE  cb'[c] = Routed(sent'[c][no'[c]])
<1>0. TypeOK /\ ListenerShape /\ ControlShape(c) /\ StreamShape(c)
  BY DEF ServerInv
<1>1. ASSUME pc[c] = "handler", cb'[c] = cb[c], no'[c] = no[c],
             sent'[c][no[c]] = sent[c][no[c]]
      PROVE  cb'[c] = Routed(sent'[c][no'[c]])
  BY <1>1 DEF RouteShape
<1>2. CASE Same(c)
  BY <1>1, <1>2 DEF Same
<1>3. CASE Opened(c)
  BY <1>0, <1>3 DEF Opened, ControlShape
<1>4. CASE Peer(c)
  <2>1. UNCHANGED <<pc, cb, no>>
    BY <1>4 DEF Peer, Connect, SendRequest, PeerClose, PeerReset, reqVars
  <2>2. sent'[c][no[c]] = sent[c][no[c]]
    <3>1. no[c] \in 1 .. Len(sent[c])
      BY <1>0, <2>1 DEF ControlShape
    <3>2. CASE \E r \in Kinds : SendRequest(c, r)
      <4>1. PICK r \in Kinds : SendRequest(c, r)
        BY <3>2
      <4>2. \A i \in 1 .. Len(sent[c]) : sent'[c][i] = sent[c][i]
        BY <1>0, <4>1, SendFacts
      <4> QED
        BY <3>1, <4>2
    <3>3. CASE ~\E r \in Kinds : SendRequest(c, r)
      BY <1>4, <3>3 DEF Peer, Connect, PeerClose, PeerReset
    <3> QED
      BY <3>2, <3>3
  <2> QED
    BY <1>1, <2>1, <2>2
<1>5. CASE Route(c)
  <2>1. /\ UNCHANGED <<sent, no>> /\ pc[c] = "route"
        /\ pc \in [Conns -> PCs] /\ cb \in [Conns -> Callbacks \union {NULL}]
    BY <1>0, <1>5 DEF Route, Runs, netVars, reqVars, TypeOK
  <2>2. PICK r \in KindRecords : r = sent[c][no[c]] /\ r \in Kinds
    BY <1>0, <2>1, RequestType DEF ControlShape
  <2>3. PICK i \in Takes(r) : /\ \A j \in Takes(r) : i <= j
                              /\ cb' = [cb EXCEPT ![c] = Routes[i][3]]
    BY <1>5, <2>1, <2>2 DEF Route, Request
  <2>4. Routes[i][3] = Routed(r)
    BY <2>2, <2>3, FirstRoute
  <2> QED
    BY <2>1, <2>2, <2>3, <2>4
<1>6. CASE Serve(c) /\ ~Route(c)
  <2>1. pc \in [Conns -> PCs]
    BY <1>0 DEF TypeOK
  <2>2. \A k \in 1 .. Len(stream[c]) : ~RecvHdrMore(c, k)
    <3> SUFFICES ASSUME NEW k \in 1 .. Len(stream[c]), RecvHdrMore(c, k) PROVE FALSE
      OBVIOUS
    <3>1. (pc' = pc /\ pc[c] = "hdr") \/ Refused(c)
      BY <1>0, RecvHdrMoreFacts DEF RecvHdrMore, Runs
    <3> QED
      BY <2>1, <3>1 DEF Refused
  <2>3. \A k \in 1 .. Len(stream[c]) : ~RecvHdr(c, k)
    <3> SUFFICES ASSUME NEW k \in 1 .. Len(stream[c]), RecvHdr(c, k) PROVE FALSE
      OBVIOUS
    <3>1. PICK b \in Seq(Nat \X Nat) : b = Buffer(c, k)
      BY <1>0, BufferFacts
    <3>2. PICK end \in 1 .. Len(b), n \in 1 .. Len(sent[c]) : Found(c, b, end, n)
      BY <1>0, <3>1, RecvHdrFacts
    <3>3. \E p \in {"body", "route", "write"} : pc' = [pc EXCEPT ![c] = p]
      BY <3>2 DEF Found, Parsed, Accepted, Refused
    <3> QED
      BY <2>1, <3>3
  <2>4. \A k \in 1 .. Len(stream[c]) : ~RecvBody(c, k)
    BY <2>1 DEF RecvBody
  <2>5. ~RecvHdrFail(c) /\ ~RecvBodyEnd(c) /\ ~GiveUp(c)
    BY <2>1 DEF RecvHdrFail, RecvBodyEnd, GiveUp, http_cli_free
  <2>6. ~RespondLast(c) /\ ~Written(c) /\ ~http_cli_reset(c)
    BY <2>1 DEF RespondLast, Written, http_cli_reset, http_respond
  <2>7. \A code : ~HandlerRespond(c, code)
    BY <2>1 DEF HandlerRespond, http_respond
  <2> QED
    BY <1>6, <2>2, <2>3, <2>4, <2>5, <2>6, <2>7 DEF Serve
<1> QED
  BY <1>0, <1>2, <1>3, <1>4, <1>5, <1>6, Frame

\* The same in every state.
THEOREM RouteInvariant == Spec => []RouteShape
<1>1. Init => RouteShape
  BY DEF Init, RouteShape
<1>2. ServerInv /\ RouteShape /\ [Next]_vars => RouteShape'
  BY RouteStep DEF RouteShape
<1> QED
  BY <1>1, <1>2, ServerInvariant, PTL DEF Spec

\* http_route_handle_request gives each request the handler the README names,
\* although several routes match, and the request stays that one while the
\* handler has it, whatever else is pipelined behind it; but for the polls of
\* queues whose names begin with mpoll.
THEOREM RoutedCorrect == Spec => []RoutedRight
<1>1. ServerInv /\ RouteShape => RoutedRight
  <2> SUFFICES ASSUME ServerInv, RouteShape, NEW c \in Conns, pc[c] = "handler",
                      NEW r, r = sent[c][no[c]]
               PROVE  cb[c] = Routed(r)
    BY DEF RoutedRight, Request, Routed
  <2> QED
    BY DEF RouteShape
<1> QED
  BY <1>1, ServerInvariant, RouteInvariant, PTL

-----------------------------------------------------------------------------
(* What is posted *)

\* Once the header of request n is in s, or a unit of its body, nothing but
\* its body follows.
Chained(s, n) == \A i, j \in 1 .. Len(s) :
                    (i < j /\ s[i][1] = n) => s[j] = <<n, s[i][2] + (j - i)>>

\* s is the body of request n from behind its d-th unit on, or a part of that.
Run(s, n, d) == \A i \in 1 .. Len(s) : s[i] = <<n, d + i>>

\* The last request of the peer is at hand, and so far its body is complete;
\* the lthread is still receiving it, or the peer has sent no more of it, or
\* it is one that nobody asks for or whose length may have been overlooked.
Holds(c) ==
    LET r == Request(c, no[c])
    IN  /\ body[c] \in Seq(Nat \X Nat) /\ body_len[c] = Len(body[c])
        /\ body_len[c] <= r.len
        /\ Run(body[c], no[c], 0)
        /\ Run(stream[c], no[c], body_len[c])
        /\ \/ pc[c] = "body" \/ body_len[c] = r.len
           \/ peer[c] # "up" \/ r.method # "POST" \/ ~Legible(r)

\* Its body was lost when the peer reset the connection.
Lost(c) == pc[c] # "body" /\ body[c] = NULL /\ peer[c] = "reset"

AtLast(c) == pc[c] \in {"body", "route", "handler"} /\ no[c] = Len(sent[c])

BodyShape(c) ==
    /\ ~chunked[c]
    /\ Chained(Pending(c), Len(sent[c]))
    /\ AtLast(c) => Lost(c) \/ Holds(c)

BodyInv == ServerInv /\ \A c \in Conns : NeverChunked(c) => BodyShape(c)

\* A part of a chained stream is chained.
LEMMA PartChained ==
    ASSUME NEW n \in Nat, NEW all \in Seq(Nat \X Nat), NEW t \in Seq(Nat \X Nat),
           Part(t, all), Chained(all, n)
    PROVE  Chained(t, n)
<1>1. PICK d \in Nat : /\ d + Len(t) <= Len(all)
                       /\ \A i \in 1 .. Len(t) : t[i] = all[i + d]
  BY DEF Part
<1>a. \A i \in 1 .. Len(t) : i + d \in 1 .. Len(all)
  BY <1>1
<1>2. ASSUME NEW i \in 1 .. Len(t), NEW j \in 1 .. Len(t), i < j, t[i][1] = n
      PROVE  t[j] = <<n, t[i][2] + (j - i)>>
  <2>1. PICK a \in 1 .. Len(all), b \in 1 .. Len(all) :
                a = i + d /\ b = j + d /\ a < b /\ b - a = j - i
    <3>1. i < j
      BY <1>2
    <3>2. i + d \in 1 .. Len(all) /\ j + d \in 1 .. Len(all)
      BY <1>a
    <3>3. i + d < j + d /\ (j + d) - (i + d) = j - i
      BY <3>1
    <3> QED
      BY <3>2, <3>3
  <2>2. t[i] = all[a] /\ t[j] = all[b]
    BY <1>1, <2>1
  <2>3. all[b] = <<n, all[a][2] + (b - a)>>
    <3>1. all[a][1] = n
      BY <1>2, <2>2
    <3> QED
      BY <2>1, <3>1 DEF Chained
  <2> QED
    BY <2>1, <2>2, <2>3
<1> QED
  BY <1>2 DEF Chained

\* So is a stream to which the units of a new request are added.
LEMMA SendChained ==
    ASSUME NEW q, NEW r \in KindRecords, NEW n \in Nat \ {0}, Len(q) \in Nat,
           n = Len(q) + 1, NEW s \in Seq(Nat \X Nat), Sound(q, s),
           NEW t \in Seq(Nat \X Nat), IsJoin(t, s, Units(n, r))
    PROVE  Chained(t, n)
<1>1. PICK x \in Nat, y \in Nat : x = r.blanks /\ y = r.len
  BY DEF KindRecords
<1>2. PICK u \in Seq(Nat \X Nat) :
            /\ u = Units(n, r) /\ Len(u) = x + y + 1
            /\ \A i \in 1 .. x + y + 1 : u[i] = UnitAt(n, r, i)
  BY <1>1, UnitsFacts
<1>3. \A i \in 1 .. Len(s) : s[i][1] # n
  BY DEF Sound, IsUnit
<1>4. ASSUME NEW i \in 1 .. Len(t), NEW j \in 1 .. Len(t), i < j, t[i][1] = n
      PROVE  t[j] = <<n, t[i][2] + (j - i)>>
  <2>1. IsJoin(t, s, u)
    BY <1>2
  <2>2. PICK a \in 1 .. Len(u) : i = Len(s) + a /\ t[i] = u[a]
    <3>1. \/ i \in 1 .. Len(s) /\ t[i] = s[i]
          \/ \E a \in 1 .. Len(u) : i = Len(s) + a /\ t[i] = u[a]
      BY <2>1, JoinIndex
    <3>2. ~(i \in 1 .. Len(s) /\ t[i] = s[i])
      BY <1>3, <1>4
    <3> QED
      BY <3>1, <3>2
  <2>3. PICK b \in 1 .. Len(u) : j = Len(s) + b /\ t[j] = u[b]
    <3>1. ~(j \in 1 .. Len(s))
      BY <1>4, <2>2
    <3> QED
      BY <2>1, <3>1, JoinIndex
  <2>4. a < b /\ b - a = j - i
    BY <1>4, <2>2, <2>3
  <2>5. ~(a <= x)
    <3> SUFFICES ASSUME a <= x PROVE FALSE
      OBVIOUS
    <3>1. u[a] = Blank
      BY <1>1, <1>2 DEF UnitAt
    <3> QED
      BY <1>4, <2>2, <3>1 DEF Blank
  <2>6. ~(b <= x)
    BY <2>4, <2>5
  <2>7. u[a] = <<n, a - x - 1>> /\ u[b] = <<n, b - x - 1>>
    BY <1>1, <1>2, <2>5, <2>6 DEF UnitAt
  <2>8. u[a][2] = a - x - 1 /\ b - x - 1 = (a - x - 1) + (j - i)
    BY <2>4, <2>7
  <2> QED
    BY <2>2, <2>3, <2>7, <2>8
<1> QED
  BY <1>4 DEF Chained

\* Cutting a run in two, and putting it together again.
LEMMA RunCut ==
    ASSUME NEW s \in Seq(Nat \X Nat), NEW p \in Seq(Nat \X Nat), NEW t \in Seq(Nat \X Nat),
           NEW n, NEW d \in Nat, IsJoin(s, p, t), Run(s, n, d)
    PROVE  Run(p, n, d) /\ Run(t, n, d + Len(p))
<1>0. /\ Len(s) = Len(p) + Len(t) /\ Len(p) \in Nat /\ Len(t) \in Nat
      /\ \A i \in 1 .. Len(p) : s[i] = p[i]
      /\ \A i \in 1 .. Len(t) : s[Len(p) + i] = t[i]
  BY DEF IsJoin
<1>1. ASSUME NEW i \in 1 .. Len(p) PROVE p[i] = <<n, d + i>>
  <2>1. i \in 1 .. Len(s) /\ p[i] = s[i]
    BY <1>0
  <2> QED
    BY <2>1 DEF Run
<1>2. ASSUME NEW i \in 1 .. Len(t) PROVE t[i] = <<n, d + Len(p) + i>>
  <2>0. Len(s) = Len(p) + Len(t) /\ Len(p) \in Nat /\ Len(t) \in Nat
    BY <1>0
  <2>1. Len(p) + i \in 1 .. Len(s) /\ t[i] = s[Len(p) + i]
    <3>1. Len(p) + i \in 1 .. Len(s)
      BY <2>0
    <3> QED
      BY <1>0, <3>1
  <2>2. d + (Len(p) + i) = d + Len(p) + i
    OBVIOUS
  <2> QED
    BY <2>1, <2>2 DEF Run
<1> QED
  BY <1>1, <1>2 DEF Run

\* A run continued by the rest of the body is a run.
LEMMA RunJoin ==
    ASSUME NEW s \in Seq(Nat \X Nat), NEW p \in Seq(Nat \X Nat), NEW t \in Seq(Nat \X Nat),
           NEW n, IsJoin(s, p, t), Run(p, n, 0), Run(t, n, Len(p))
    PROVE  Run(s, n, 0)
<1>1. ASSUME NEW i \in 1 .. Len(s) PROVE s[i] = <<n, 0 + i>>
  <2>1. CASE i \in 1 .. Len(p) /\ s[i] = p[i]
    BY <2>1 DEF Run
  <2>2. ASSUME NEW j \in 1 .. Len(t), i = Len(p) + j, s[i] = t[j]
        PROVE  s[i] = <<n, 0 + i>>
    <3>1. t[j] = <<n, Len(p) + j>> /\ Len(p) + j = 0 + i
      BY <2>2 DEF Run
    <3> QED
      BY <2>2, <3>1
  <2> QED
    BY <2>1, <2>2, JoinIndex
<1> QED
  BY <1>1 DEF Run

\* The i-th of y elements that come after d + x others.
LEMMA BehindFacts ==
    ASSUME NEW d \in Nat, NEW x \in Nat, NEW y \in Nat, NEW i \in 1 .. y, x >= 1
    PROVE  /\ d + x + i \in 1 .. d + x + y /\ 1 + d < d + x + i
           /\ (d + x + i) - d - 1 = (x - 1) + i
OBVIOUS

\* Buffer b begins with the header of request n; e is what comes after it.
Begins(b, n) == Len(b) >= 1 /\ b[1] = <<n, 0>>
IsTail(e, b) == Len(e) = Len(b) - 1 /\ \A i \in 1 .. Len(e) : e[i] = b[i + 1]

\* The tail as SubSeq has it.
LEMMA TailFacts ==
    ASSUME NEW b \in Seq(Nat \X Nat), Len(b) >= 1
    PROVE  /\ SubSeq(b, 1 + 1, Len(b)) \in Seq(Nat \X Nat)
           /\ IsTail(SubSeq(b, 1 + 1, Len(b)), b)
<1>1. 1 \in 0 .. Len(b)
  OBVIOUS
<1>2. PICK e \in Seq(Nat \X Nat), h \in Seq(Nat \X Nat) :
            /\ e = SubSeq(b, 1 + 1, Len(b)) /\ Len(h) = 1 /\ Len(e) = Len(b) - 1
            /\ IsJoin(b, h, e)
  BY <1>1, CutFacts
<1>3. \A i \in 1 .. Len(e) : b[Len(h) + i] = e[i]
  BY <1>2 DEF IsJoin
<1>4. \A i \in 1 .. Len(e) : Len(h) + i = i + 1
  BY <1>2
<1> QED
  BY <1>2, <1>3, <1>4 DEF IsTail

\* A buffer that begins with the header of the last request is followed by
\* its body, in the buffer and in the socket.
LEMMA HeaderRun ==
    ASSUME NEW all \in Seq(Nat \X Nat), NEW b \in Seq(Nat \X Nat),
           NEW t \in Seq(Nat \X Nat), NEW d \in Nat, NEW n \in Nat,
           Follows(all, d, b, t), Chained(all, n), Begins(b, n),
           NEW e \in Seq(Nat \X Nat), IsTail(e, b)
    PROVE  Run(e, n, 0) /\ Run(t, n, Len(e))
<1>1. Len(e) = Len(b) - 1 /\ \A i \in 1 .. Len(e) : e[i] = b[i + 1]
  BY DEF IsTail
<1>0. Len(b) >= 1 /\ b[1] = <<n, 0>>
  BY DEF Begins
<1>2. /\ d + Len(b) + Len(t) = Len(all)
      /\ \A i \in 1 .. Len(b) : b[i] = all[i + d]
      /\ \A i \in 1 .. Len(t) : t[i] = all[d + Len(b) + i]
  BY DEF Follows
<1>a. d + Len(b) + Len(t) = Len(all)
  BY <1>2
<1>b. Len(b) \in Nat /\ Len(t) \in Nat /\ Len(all) \in Nat
  OBVIOUS
<1>3. 1 + d \in 1 .. Len(all) /\ all[1 + d] = <<n, 0>>
  <2>1. 1 \in 1 .. Len(b)
    BY <1>0
  <2>2. <<n, 0>> = all[1 + d]
    BY <1>0, <1>2, <2>1
  <2>3. 1 + d \in 1 .. Len(all)
    BY <1>0, <1>a, <1>b
  <2> QED
    BY <2>2, <2>3
<1>4. \A j \in 1 .. Len(all) : 1 + d < j => all[j] = <<n, j - d - 1>>
  <2> SUFFICES ASSUME NEW j \in 1 .. Len(all), 1 + d < j
               PROVE  all[j] = <<n, j - d - 1>>
    OBVIOUS
  <2>1. all[1 + d][1] = n /\ all[1 + d][2] = 0
    BY <1>3
  <2>2. all[j] = <<n, all[1 + d][2] + (j - (1 + d))>>
    BY <1>3, <2>1 DEF Chained
  <2>3. 0 + (j - (1 + d)) = j - d - 1
    OBVIOUS
  <2> QED
    BY <2>1, <2>2, <2>3
<1>5. ASSUME NEW i \in 1 .. Len(e) PROVE e[i] = <<n, 0 + i>>
  <2>1. /\ i + 1 \in 1 .. Len(b) /\ i + 1 + d \in 1 .. Len(all) /\ 1 + d < i + 1 + d
        /\ (i + 1 + d) - d - 1 = 0 + i
    BY <1>1, <1>2
  <2>2. e[i] = all[i + 1 + d]
    BY <1>1, <1>2, <2>1
  <2> QED
    BY <1>4, <2>1, <2>2
<1>6. ASSUME NEW i \in 1 .. Len(t) PROVE t[i] = <<n, Len(e) + i>>
  <2>1. /\ d + Len(b) + i \in 1 .. Len(all) /\ 1 + d < d + Len(b) + i
        /\ (d + Len(b) + i) - d - 1 = Len(e) + i
    <3>1. Len(e) = Len(b) - 1
      BY <1>1
    <3>2. PICK x \in Nat, y \in Nat : x = Len(b) /\ y = Len(t)
      BY <1>b
    <3>3. i \in 1 .. y /\ x >= 1 /\ d + x + y = Len(all)
      BY <1>0, <1>a, <3>2
    <3>4. /\ d + x + i \in 1 .. Len(all) /\ 1 + d < d + x + i
          /\ (d + x + i) - d - 1 = (x - 1) + i
      BY <3>3, BehindFacts
    <3> QED
      BY <3>1, <3>2, <3>4
  <2> QED
    BY <1>2, <1>4, <2>1
<1> QED
  BY <1>1, <1>5, <1>6 DEF Run

\* What was never chunked was not chunked before either.
LEMMA ChunkedBefore ==
    ASSUME ServerInv, [Next]_vars, NEW c \in Conns, NeverChunked(c)'
    PROVE  NeverChunked(c)
<1>0. TypeOK /\ ListenerShape /\ ControlShape(c) /\ Len(sent[c]) \in Nat
  BY RequestType DEF ServerInv
<1>1. CASE sent'[c] = sent[c]
  BY <1>1 DEF NeverChunked
<1>2. ASSUME NEW r \in Kinds, SendRequest(c, r) PROVE NeverChunked(c)
  <2>1. /\ Len(sent'[c]) = Len(sent[c]) + 1
        /\ \A i \in 1 .. Len(sent[c]) : sent'[c][i] = sent[c][i]
    BY <1>0, <1>2, SendFacts
  <2>2. \A i \in 1 .. Len(sent[c]) : i \in 1 .. Len(sent'[c])
    BY <1>0, <2>1
  <2> QED
    BY <2>1, <2>2 DEF NeverChunked
<1>3. CASE Same(c) \/ Opened(c)
  BY <1>1, <1>3 DEF Same, Opened
<1>4. CASE Peer(c)
  BY <1>1, <1>2, <1>4 DEF Peer, Connect, PeerClose, PeerReset
<1>5. CASE Serve(c)
  <2>1. sent' = sent
    BY <1>5 DEF Serve, RecvHdr, RecvHdrMore, RecvBody, RecvHdrFail, RecvBodyEnd, Route,
                HandlerRespond, Written, RespondLast, http_cli_reset, GiveUp, netVars
  <2> QED
    BY <1>1, <2>1
<1> QED
  BY <1>0, <1>3, <1>4, <1>5, Frame

\* The chunked flag stays clear.
LEMMA ChunkedStep ==
    ASSUME ServerInv, [Next]_vars, NEW c \in Conns, NeverChunked(c), ~chunked[c]
    PROVE  ~chunked'[c]
<1>0. TypeOK /\ ListenerShape /\ ControlShape(c) /\ StreamShape(c)
  BY DEF ServerInv
<1>1. CASE Same(c) \/ Opened(c)
  BY <1>1 DEF Same, Opened, reqVars
<1>2. CASE Peer(c)
  BY <1>2 DEF Peer, Connect, SendRequest, PeerClose, PeerReset, reqVars
<1>3. ASSUME NEW k \in 1 .. Len(stream[c]), RecvHdr(c, k) PROVE ~chunked'[c]
  <2>1. PICK b \in Seq(Nat \X Nat) : b = Buffer(c, k)
    BY <1>0, BufferFacts
  <2>2. PICK end \in 1 .. Len(b), n \in 1 .. Len(sent[c]) : Found(c, b, end, n)
    BY <1>0, <1>3, <2>1, RecvHdrFacts
  <2>3. ~sent[c][n].chunked
    BY DEF NeverChunked
  <2>4. chunked \in [Conns -> BOOLEAN]
    BY <1>0 DEF TypeOK
  <2>5. PICK ch \in BOOLEAN : /\ ch => sent[c][n].chunked
                              /\ chunked' = [chunked EXCEPT ![c] = chunked[c] \/ ch]
    BY <2>2, Zenon DEF Found, Parsed
  <2> QED
    BY <2>3, <2>4, <2>5, Zenon
<1>4. CASE Serve(c) /\ ~\E k \in 1 .. Len(stream[c]) : RecvHdr(c, k)
  <2>1. chunked' = chunked
    BY <1>4 DEF Serve, RecvHdrMore, RecvBody, RecvHdrFail, RecvBodyEnd, Route,
                HandlerRespond, Written, RespondLast, http_cli_reset, GiveUp, reqVars
  <2> QED
    BY <2>1
<1> QED
  BY <1>0, <1>1, <1>2, <1>3, <1>4, Frame

\* What is pending stays chained.
LEMMA ChainedStep ==
    ASSUME ServerInv, [Next]_vars, NEW c \in Conns, Chained(Pending(c), Len(sent[c]))
    PROVE  Chained(Pending(c)', Len(sent'[c]))
<1>0. TypeOK /\ TypeOK' /\ StreamShape(c) /\ Len(sent[c]) \in Nat
  BY TypeStep, RequestType DEF ServerInv
<1>1. PICK p \in Seq(Nat \X Nat) : p = Pending(c)
  BY <1>0, PendingType
<1>2. PICK t \in Seq(Nat \X Nat) : t = Pending(c)'
  BY <1>0, PendingTypeNext
<1>3. ASSUME NEW r \in Kinds, SendRequest(c, r),
             IsJoin(t, p, Units(Len(sent[c]) + 1, r))
      PROVE  Chained(t, Len(sent'[c]))
  <2>1. PICK n \in Nat \ {0} : n = Len(sent[c]) + 1 /\ n = Len(sent'[c])
    <3>1. Len(sent'[c]) = Len(sent[c]) + 1
      BY <1>0, <1>3, SendFacts
    <3> QED
      BY <1>0, <3>1
  <2>2. r \in KindRecords
    BY ConstantsAssumption
  <2>3. Sound(sent[c], p) /\ IsJoin(t, p, Units(n, r))
    BY <1>0, <1>1, <1>3, <2>1 DEF StreamShape
  <2>4. Chained(t, n)
    BY <1>0, <2>1, <2>2, <2>3, SendChained
  <2> QED
    BY <2>1, <2>4
<1>4. ASSUME Part(t, p), sent'[c] = sent[c] PROVE Chained(t, Len(sent'[c]))
  <2>1. Chained(t, Len(sent[c]))
    BY <1>0, <1>1, <1>4, PartChained
  <2> QED
    BY <1>4, <2>1
<1> QED
  BY <1>1, <1>2, <1>3, <1>4, PendingStep

\* The header of the last request has been accepted.
LEMMA HoldsHeader ==
    ASSUME ServerInv, NEW c \in Conns, NeverChunked(c), BodyShape(c), ~chunked'[c],
           NEW k \in 1 .. Len(stream[c]), RecvHdr(c, k),
           pc'[c] \in {"body", "route", "handler"}, no'[c] = Len(sent'[c])
    PROVE  Holds(c)'
<1>0. TypeOK /\ ControlShape(c) /\ StreamShape(c)
  BY DEF ServerInv
<1>1. /\ sent' = sent /\ peer' = peer /\ pc[c] = "hdr" /\ ~chunked[c]
      /\ stream'[c] = Leave(c, k)
  BY <1>0 DEF RecvHdr, Runs, TypeOK, BodyShape
<1>2. PICK all \in Seq(Nat \X Nat) : all = hdr[c] \o stream[c]
  BY <1>0, PendingType
<1>3. PICK b \in Seq(Nat \X Nat), t \in Seq(Nat \X Nat), d \in Nat :
            b = Buffer(c, k) /\ t = Leave(c, k) /\ Follows(all, d, b, t)
  BY <1>0, <1>2, BufferFacts
<1>4. PICK end \in 1 .. Len(b), n \in 1 .. Len(sent[c]) : Found(c, b, end, n)
  BY <1>0, <1>3, RecvHdrFacts
<1>5. /\ pc \in [Conns -> PCs] /\ no \in [Conns -> Nat]
      /\ body \in [Conns -> Seq(Nat \X Nat) \union {NULL}] /\ body_len \in [Conns -> Nat]
  BY <1>0 DEF TypeOK
<1>a. PICK len \in {0, sent[c][n].len}, ch \in BOOLEAN :
            Parsed(c, sent[c][n], end = 1, Len(b) - end, len, ch)
  BY <1>4 DEF Found
<1>6. end = 1 /\ Accepted(c, sent[c][n], Len(b) - 1, len, ch) /\ b[1][1] = n /\ b[1][2] = 0
  <2>1. ~Refused(c)
    BY <1>5 DEF Refused
  <2>2. end = 1 /\ Accepted(c, sent[c][n], Len(b) - end, len, ch)
    BY <1>a, <2>1 DEF Parsed
  <2> QED
    BY <1>4, <2>2 DEF Found
<1>7. n = Len(sent[c]) /\ no'[c] = n
  BY <1>1, <1>4, <1>5 DEF Found
<1>8. PICK e \in Seq(Nat \X Nat) : e = SubSeq(b, 1 + 1, Len(b)) /\ IsTail(e, b)
  <2>1. 1 \in 1 .. Len(b)
    BY <1>6
  <2>2. Len(b) >= 1
    BY <2>1
  <2> QED
    BY <2>2, TailFacts
<1>9. body'[c] = e /\ body_len'[c] = Len(b) - 1
  BY <1>4, <1>5, <1>6, <1>8 DEF Found
<1>10. /\ Len(e) = Len(b) - 1 /\ Run(e, n, 0) /\ Run(t, n, Len(e))
       /\ \A i \in 1 .. Len(e) : e[i] = b[i + 1]
  <2>1. Chained(all, n)
    BY <1>1, <1>2, <1>7 DEF BodyShape, Pending
  <2>2. Len(b) >= 1 /\ n \in Nat
    <3>1. 1 \in 1 .. Len(b)
      BY <1>6
    <3>2. Len(sent[c]) \in Nat
      BY <1>0, RequestType
    <3> QED
      BY <3>1, <3>2
  <2>3. b[1] = <<n, 0>>
    <3>1. 1 \in 1 .. Len(b)
      BY <1>6
    <3>2. PICK u \in Nat \X Nat : u = b[1]
      BY <3>1
    <3>3. u = <<u[1], u[2]>>
      OBVIOUS
    <3> QED
      BY <1>6, <3>2, <3>3
  <2>4. PICK m \in Nat : m = n /\ Chained(all, m) /\ Begins(b, m)
    BY <2>1, <2>2, <2>3 DEF Begins
  <2>5. Run(e, m, 0) /\ Run(t, m, Len(e))
    BY <1>3, <1>8, <2>4, HeaderRun
  <2>6. Len(e) = Len(b) - 1 /\ \A i \in 1 .. Len(e) : e[i] = b[i + 1]
    BY <1>8 DEF IsTail
  <2> QED
    BY <2>4, <2>5, <2>6
<1>11. PICK r \in KindRecords : r = sent[c][n]
  BY <1>0, RequestType
<1>12. Len(e) <= r.len
  <2>1. CASE Len(e) = 0
    BY <2>1, <1>11 DEF KindRecords
  <2>2. CASE Len(e) # 0
    <3>1. PICK m \in 1 .. Len(e) : m = Len(e)
      BY <2>2
    <3>2. e[m] = <<n, m>> /\ e[m] = b[m + 1] /\ m + 1 \in 1 .. Len(b)
      <4>1. e[m] = <<n, 0 + m>> /\ e[m] = b[m + 1]
        BY <1>10 DEF Run
      <4>2. 0 + m = m
        OBVIOUS
      <4>3. Len(e) = Len(b) - 1 /\ Len(b) \in Nat
        BY <1>10
      <4>4. m + 1 \in 1 .. Len(b)
        BY <4>3
      <4> QED
        BY <4>1, <4>2, <4>4
    <3>3. Sound(sent[c], b)
      BY <1>0, <1>1, <1>3, BufferSound
    <3>4. IsUnit(sent[c], e[m])
      BY <3>2, <3>3 DEF Sound
    <3>5. e[m][1] = n /\ e[m][2] = m /\ n # 0
      BY <3>2
    <3> QED
      BY <1>11, <3>1, <3>4, <3>5 DEF IsUnit
  <2> QED
    BY <2>1, <2>2
<1>13. pc'[c] = "body" \/ Len(e) = r.len \/ r.method # "POST" \/ ~Legible(r)
  <2>1. pc'[c] = IF Incomplete(r.method, chunked[c] \/ ch, Len(b) - 1, len)
                 THEN "body" ELSE "route"
    <3>1. pc' = [pc EXCEPT ![c] =
                    IF Incomplete(r.method, chunked[c] \/ ch, Len(b) - 1, len)
                    THEN "body" ELSE "route"]
      BY <1>6, <1>11, Zenon DEF Accepted
    <3>2. DOMAIN pc = Conns
      BY <1>5
    <3> QED
      BY <3>1, <3>2, Zenon
  <2>2. ~ch
    <3>1. chunked' = [chunked EXCEPT ![c] = chunked[c] \/ ch]
      BY <1>a DEF Parsed
    <3>2. DOMAIN chunked = Conns
      BY <1>0 DEF TypeOK
    <3>3. chunked'[c] = (chunked[c] \/ ch)
      BY <3>1, <3>2, Zenon
    <3> QED
      BY <3>3
  <2>a. r.len \in Nat
    BY DEF KindRecords
  <2>3. r.len \in Nat /\ Len(e) \in Nat
    BY <2>a
  <2>4. CASE pc'[c] # "body" /\ r.method = "POST" /\ Legible(r)
    <3>0. len = r.len
      <4>1. ~r.chunked
        BY <1>11 DEF NeverChunked
      <4> QED
        BY <1>6, <1>11, <2>4, <4>1 DEF Accepted
    <3>1. ~(Len(b) - 1 < r.len)
      BY <1>1, <2>1, <2>2, <2>4, <3>0 DEF Incomplete
    <3>2. ~(Len(e) < r.len)
      BY <1>10, <3>1
    <3> QED
      BY <1>12, <2>3, <3>2
  <2> QED
    BY <2>4
<1>14. sent'[c][no'[c]] = r /\ body_len'[c] = Len(e) /\ stream'[c] = t
  BY <1>1, <1>3, <1>7, <1>9, <1>10, <1>11
<1> QED
  BY <1>7, <1>9, <1>10, <1>12, <1>13, <1>14 DEF Holds, Request

\* More of the body has been received.
LEMMA HoldsBody ==
    ASSUME ServerInv, NEW c \in Conns, BodyShape(c),
           NEW k \in 1 .. Len(stream[c]), RecvBody(c, k), no'[c] = Len(sent'[c])
    PROVE  Holds(c)'
<1>0. TypeOK /\ ControlShape(c) /\ StreamShape(c)
  BY DEF ServerInv
<1>1. /\ sent' = sent /\ peer' = peer /\ no' = no /\ pc[c] = "body" /\ ~chunked[c]
      /\ stream'[c] = Leave(c, k) /\ body_len'[c] = body_len[c] + k
      /\ body'[c] = body[c] \o Take(c, k)
  <2>1. /\ DOMAIN stream = Conns /\ DOMAIN body_len = Conns /\ DOMAIN body = Conns
        /\ sent' = sent /\ peer' = peer /\ no' = no /\ pc[c] = "body"
    BY <1>0 DEF RecvBody, Runs, TypeOK
  <2>2. /\ stream' = [stream EXCEPT ![c] = Leave(c, k)]
        /\ body_len' = [body_len EXCEPT ![c] = body_len[c] + k]
        /\ body' = [body EXCEPT ![c] = body[c] \o Take(c, k)]
    BY DEF RecvBody
  <2>3. ~chunked[c]
    BY DEF BodyShape
  <2> QED
    BY <2>1, <2>2, <2>3
<1>2. Holds(c)
  BY <1>1 DEF BodyShape, AtLast, Lost
<1>3. PICK n \in 1 .. Len(sent[c]), r \in KindRecords : n = no[c] /\ r = sent[c][n]
  BY <1>0, <1>1, RequestType DEF ControlShape
<1>4. PICK s \in Seq(Nat \X Nat), p \in Seq(Nat \X Nat), t \in Seq(Nat \X Nat) :
            /\ s = stream[c] /\ p = Take(c, k) /\ t = Leave(c, k)
            /\ Len(p) = k /\ IsJoin(s, p, t)
  BY <1>0, BufferFacts, PendingType
<1>5. PICK v \in Seq(Nat \X Nat) :
            /\ v = body[c] /\ body_len[c] = Len(v) /\ Len(v) <= r.len
            /\ Run(v, n, 0) /\ Run(s, n, Len(v))
  BY <1>2, <1>3, <1>4 DEF Holds, Request
<1>6. PICK w \in Seq(Nat \X Nat) : w = v \o p /\ IsJoin(w, v, p)
  BY JoinFacts
<1>7. Len(v) \in Nat /\ k \in Nat /\ Len(w) = Len(v) + k /\ k \in 1 .. Len(s)
  BY <1>4, <1>6 DEF IsJoin
<1>8. Run(p, n, Len(v)) /\ Run(t, n, Len(v) + k)
  BY <1>4, <1>5, <1>7, RunCut
<1>9. Run(w, n, 0)
  BY <1>5, <1>6, <1>8, RunJoin
<1>10. Len(w) <= r.len
  <2>1. s[k] = <<n, Len(v) + k>>
    BY <1>5, <1>7 DEF Run
  <2>2. IsUnit(sent[c], s[k])
    BY <1>0, <1>1, <1>4, <1>7 DEF StreamShape, Sound, Pending
  <2>3. s[k][1] = n /\ s[k][2] = Len(v) + k /\ n # 0
    BY <2>1
  <2> QED
    BY <1>3, <1>7, <2>2, <2>3 DEF IsUnit
<1>11. pc'[c] = "body" \/ Len(w) = r.len \/ r.method # "POST"
  <2>1. pc'[c] = IF Incomplete(r.method, chunked[c], Len(w), r.len)
                 THEN "body" ELSE "route"
    <3>1. pc \in [Conns -> PCs]
      BY <1>0 DEF TypeOK
    <3>2. cnt_len[c] = r.len
      BY <1>0, <1>1, <1>3 DEF ControlShape, Request
    <3> QED
      BY <1>3, <1>5, <1>7, <3>1, <3>2 DEF RecvBody, Request
  <2>2. r.len \in Nat /\ Len(w) \in Nat
    BY DEF KindRecords
  <2>3. CASE pc'[c] # "body" /\ r.method = "POST"
    <3>1. ~(Len(w) < r.len)
      BY <1>1, <2>1, <2>3 DEF Incomplete
    <3> QED
      BY <1>10, <2>2, <3>1
  <2> QED
    BY <2>3
<1>12. /\ sent'[c][no'[c]] = r /\ no'[c] = n /\ body'[c] = w /\ body_len'[c] = Len(w)
       /\ stream'[c] = t
  BY <1>1, <1>3, <1>4, <1>5, <1>6, <1>7
<1>13. Run(t, n, Len(w))
  BY <1>7, <1>8
<1> QED
  BY <1>9, <1>10, <1>11, <1>12, <1>13 DEF Holds, Request

\* Where the steps that do not receive a request leave the lthread.
LEMMA Leaves ==
    ASSUME TypeOK, NEW c \in Conns,
           \/ RecvHdrFail(c) \/ Written(c) \/ RespondLast(c) \/ http_cli_reset(c)
           \/ GiveUp(c) \/ \E code : HandlerRespond(c, code)
           \/ \E k \in 1 .. Len(stream[c]) : RecvHdrMore(c, k)
    PROVE  pc'[c] \notin {"body", "route", "handler"}
<1>1. pc \in [Conns -> PCs]
  BY DEF TypeOK
<1>2. ASSUME NEW code, http_respond(c, code) PROVE pc'[c] \in {"write", "done"}
  BY <1>1, <1>2 DEF http_respond
<1>3. CASE RecvHdrFail(c) \/ GiveUp(c)
  BY <1>1, <1>3 DEF RecvHdrFail, GiveUp, http_cli_free
<1>4. CASE Written(c) \/ http_cli_reset(c)
  BY <1>1, <1>4 DEF Written, http_cli_reset
<1>5. CASE RespondLast(c) \/ \E code : HandlerRespond(c, code)
  BY <1>2, <1>5 DEF RespondLast, HandlerRespond
<1>6. ASSUME NEW k \in 1 .. Len(stream[c]), RecvHdrMore(c, k)
      PROVE  pc'[c] \notin {"body", "route", "handler"}
  <2>1. (pc' = pc /\ pc[c] = "hdr") \/ http_respond(c, 400)
    BY <1>6 DEF RecvHdrMore, Runs, http_handle_cli_req_err
  <2> QED
    BY <1>2, <2>1
<1> QED
  BY <1>3, <1>4, <1>5, <1>6

\* A peer that breaks off leaves a part of the run that is in the socket.
LEMMA HoldsBroken ==
    ASSUME ServerInv, NEW c \in Conns, Holds(c), AtLast(c),
           PeerReset(c) \/ \E k \in 0 .. Len(stream[c]) : PeerClose(c, k)
    PROVE  Holds(c)'
<1>0. TypeOK
  BY DEF ServerInv
<1>1. /\ UNCHANGED <<sent, body, body_len, no, pc>> /\ peer'[c] # "up"
      /\ stream'[c] = <<>> \/ \E k \in 0 .. Len(stream[c]) : stream'[c] = SubSeq(stream[c], 1, k)
  BY <1>0 DEF PeerReset, PeerClose, reqVars, TypeOK
<1>2. PICK s \in Seq(Nat \X Nat), n, d \in Nat :
            s = stream[c] /\ n = no[c] /\ d = body_len[c] /\ Run(s, n, d)
  BY <1>0, PendingType DEF Holds, TypeOK
<1>3. Run(stream'[c], n, d)
  <2>1. CASE stream'[c] = <<>>
    BY <2>1 DEF Run
  <2>2. ASSUME NEW k \in 0 .. Len(s), stream'[c] = SubSeq(s, 1, k)
        PROVE  Run(stream'[c], n, d)
    <3>1. PICK p \in Seq(Nat \X Nat), t \in Seq(Nat \X Nat) :
                p = SubSeq(s, 1, k) /\ IsJoin(s, p, t)
      BY CutFacts
    <3>2. Run(p, n, d)
      BY <1>2, <3>1, RunCut
    <3> QED
      BY <2>2, <3>1, <3>2
  <2> QED
    BY <1>1, <1>2, <2>1, <2>2
<1> QED
  BY <1>1, <1>2, <1>3 DEF Holds, Request

\* A step leaves the lthread with what the peer's last request has for it.
LEMMA HoldsStep ==
    ASSUME ServerInv, [Next]_vars, NEW c \in Conns, NeverChunked(c), BodyShape(c),
           AtLast(c)'
    PROVE  (Lost(c) \/ Holds(c))'
<1>0. TypeOK /\ ListenerShape /\ ControlShape(c) /\ StreamShape(c) /\ ~chunked[c]
  BY DEF ServerInv, BodyShape
<1>a. pc \in [Conns -> PCs] /\ no \in [Conns -> Nat] /\ Len(sent[c]) \in Nat
  BY <1>0, RequestType DEF TypeOK
<1>1. CASE Same(c)
  BY <1>1 DEF Same, BodyShape, AtLast, Lost, Holds, Request
<1>2. CASE Opened(c)
  <2>1. pc'[c] \in {"hdr", "off"}
    BY <1>0, <1>2 DEF Opened, ControlShape
  <2> QED
    BY <2>1 DEF AtLast
<1>3. CASE Connect(c)
  <2>1. pc'[c] = "off"
    BY <1>0, <1>3 DEF Connect, ControlShape
  <2> QED
    BY <2>1 DEF AtLast
<1>4. ASSUME NEW r \in Kinds, SendRequest(c, r) PROVE FALSE
  <2>1. Len(sent'[c]) = Len(sent[c]) + 1 /\ UNCHANGED <<pc, no>>
    BY <1>0, <1>4, SendFacts DEF SendRequest, reqVars
  <2>2. no[c] \in 1 .. Len(sent[c])
    BY <1>0, <2>1 DEF AtLast, ControlShape
  <2> QED
    BY <1>a, <2>1, <2>2 DEF AtLast
<1>5. CASE PeerReset(c) \/ \E k \in 0 .. Len(stream[c]) : PeerClose(c, k)
  <2>1. UNCHANGED <<sent, no, pc, body>> /\ peer[c] # "reset"
    BY <1>5 DEF PeerReset, PeerClose, reqVars
  <2>2. AtLast(c) /\ ~Lost(c)
    BY <2>1 DEF AtLast, Lost
  <2>3. Holds(c)
    BY <2>2 DEF BodyShape
  <2> QED
    BY <1>5, <2>2, <2>3, HoldsBroken
<1>6. ASSUME NEW k \in 1 .. Len(stream[c]), RecvHdr(c, k) PROVE Holds(c)'
  <2>1. ~chunked'[c]
    BY <1>0, ChunkedStep
  <2> QED
    BY <1>6, <2>1, HoldsHeader DEF AtLast
<1>7. ASSUME NEW k \in 1 .. Len(stream[c]), RecvBody(c, k) PROVE Holds(c)'
  BY <1>7, HoldsBody DEF AtLast
<1>8. CASE RecvBodyEnd(c)
  <2>1. /\ UNCHANGED <<sent, peer, stream, no, body_len>> /\ pc[c] = "body"
        /\ peer[c] # "up" /\ pc'[c] = "route"
        /\ \/ peer[c] = "reset" /\ body'[c] = NULL
           \/ body'[c] = body[c]
    BY <1>0, <1>8 DEF RecvBodyEnd, Runs, Ended, netVars, TypeOK
  <2>2. Holds(c)
    BY <2>1 DEF AtLast, BodyShape, Lost
  <2>3. CASE peer[c] = "reset" /\ body'[c] = NULL
    BY <2>1, <2>3 DEF Lost
  <2>4. CASE body'[c] = body[c]
    BY <2>1, <2>2, <2>4 DEF Holds, Request
  <2> QED
    BY <2>1, <2>3, <2>4
<1>9. CASE Route(c)
  <2>1. /\ UNCHANGED <<sent, peer, stream, no, body, body_len>> /\ pc[c] = "route"
    BY <1>9 DEF Route, Runs, netVars, reqVars
  <2>2. pc'[c] # "body"
    BY <1>a, <1>9 DEF Route
  <2>3. Lost(c) \/ Holds(c)
    BY <2>1 DEF AtLast, BodyShape
  <2> QED
    BY <2>1, <2>2, <2>3 DEF Lost, Holds, Request
<1>10. pc'[c] \in {"body", "route", "handler"}
  BY DEF AtLast
<1>11. CASE Peer(c)
  BY <1>3, <1>4, <1>5, <1>11 DEF Peer
<1>12. CASE Serve(c)
  BY <1>0, <1>6, <1>7, <1>8, <1>9, <1>10, <1>12, Leaves DEF Serve
<1> QED
  BY <1>0, <1>1, <1>2, <1>11, <1>12, Frame

\* Where the peer has sent no chunked request, the body at hand, and what is still
\* in the socket behind it, make up the body of the peer's last request, and a
\* handler gets less than all of it only where the peer has left or where
\* http_parse_hdr may have overlooked the Content-Length.
THEOREM BodyInvariant == Spec => []BodyInv
<1>1. Init => BodyInv
  <2> SUFFICES ASSUME Init PROVE BodyInv
    OBVIOUS
  <2>1. ServerInv
    BY ServerInit
  <2>2. ASSUME NEW c \in Conns PROVE BodyShape(c)
    <3>1. /\ ~chunked[c] /\ pc[c] = "off" /\ stream[c] = <<>>
      BY DEF Init
    <3>2. Pending(c) = <<>>
      BY <3>1 DEF Pending
    <3> QED
      BY <3>1, <3>2 DEF BodyShape, AtLast, Chained
  <2> QED
    BY <2>1, <2>2 DEF BodyInv
<1>2. BodyInv /\ [Next]_vars => BodyInv'
  <2> SUFFICES ASSUME BodyInv, [Next]_vars PROVE BodyInv'
    OBVIOUS
  <2>1. ServerInv /\ ServerInv'
    BY ServerNext DEF BodyInv
  <2>2. ASSUME NEW c \in Conns, NeverChunked(c)' PROVE BodyShape(c)'
    <3>1. NeverChunked(c) /\ BodyShape(c)
      BY <2>1, <2>2, ChunkedBefore DEF BodyInv
    <3>2. ~chunked'[c]
      BY <2>1, <3>1, ChunkedStep DEF BodyShape
    <3>3. Chained(Pending(c)', Len(sent'[c]))
      BY <2>1, <3>1, ChainedStep DEF BodyShape
    <3>4. AtLast(c)' => (Lost(c) \/ Holds(c))'
      BY <2>1, <3>1, HoldsStep
    <3> QED
      BY <3>2, <3>3, <3>4 DEF BodyShape
  <2> QED
    BY <2>1, <2>2 DEF BodyInv
<1> QED
  BY <1>1, <1>2, PTL DEF Spec

\* A run from the beginning is the first part of the body, or all of it.
LEMMA RunBody ==
    ASSUME NEW v \in Seq(Nat \X Nat), NEW n \in Nat, NEW r \in KindRecords,
           Run(v, n, 0), Len(v) <= r.len
    PROVE  /\ Len(BodyUnits(n, r)) = r.len /\ Len(v) \in 0 .. r.len
           /\ v = SubSeq(BodyUnits(n, r), 1, Len(v))
           /\ Len(v) = r.len => v = BodyUnits(n, r)
<1>1. PICK y \in Nat : y = r.len
  BY DEF KindRecords
<1>2. PICK b : b = [i \in 1 .. y |-> <<n, i>>] /\ b = BodyUnits(n, r)
  BY <1>1 DEF BodyUnits
<1>3. b \in Seq(Nat \X Nat) /\ Len(b) = y /\ \A i \in 1 .. y : b[i] = <<n, i>>
  <2>1. \A i \in 1 .. y : <<n, i>> \in Nat \X Nat
    OBVIOUS
  <2> QED
    BY <1>2, <2>1
<1>4. Len(v) \in 0 .. y
  BY <1>1
<1>5. PICK p \in Seq(Nat \X Nat) : /\ p = SubSeq(b, 1, Len(v)) /\ Len(p) = Len(v)
                                   /\ \A i \in 1 .. Len(p) : p[i] = b[i]
  <2>1. Len(v) \in 0 .. Len(b)
    BY <1>3, <1>4
  <2>2. PICK p \in Seq(Nat \X Nat), t \in Seq(Nat \X Nat) :
            p = SubSeq(b, 1, Len(v)) /\ Len(p) = Len(v) /\ IsJoin(b, p, t)
    BY <1>3, <2>1, CutFacts
  <2>3. \A i \in 1 .. Len(p) : p[i] = b[i]
    BY <2>2 DEF IsJoin
  <2> QED
    BY <2>2, <2>3
<1>6. \A i \in 1 .. Len(v) : v[i] = <<n, i>>
  <2>1. \A i \in 1 .. Len(v) : v[i] = <<n, 0 + i>>
    BY DEF Run
  <2>2. \A i \in 1 .. Len(v) : 0 + i = i
    OBVIOUS
  <2> QED
    BY <2>1, <2>2
<1>7. v = [i \in 1 .. Len(v) |-> v[i]] /\ p = [i \in 1 .. Len(p) |-> p[i]]
      /\ b = [i \in 1 .. y |-> b[i]]
  BY <1>2, <1>3
<1>8. \A i \in 1 .. Len(v) : i \in 1 .. y
  BY <1>4
<1>9. v = p
  <2>1. Len(p) = Len(v) /\ \A i \in 1 .. Len(v) : p[i] = v[i]
    BY <1>3, <1>5, <1>6, <1>8
  <2>2. p = [i \in 1 .. Len(v) |-> v[i]]
    BY <1>7, <2>1
  <2> QED
    BY <1>7, <2>2
<1>10. Len(v) = y => v = b
  BY <1>3, <1>6, <1>7
<1> QED
  BY <1>1, <1>2, <1>3, <1>4, <1>5, <1>9, <1>10

\* What on_msg_post posts is the body of the request, however the network cut
\* it up, if its Content-Length is legible to http_parse_hdr and no request of
\* the connection was chunked, whatever byte lies behind the header; a shorter
\* one, or none, only if the peer left in the middle of it.
THEOREM PostedCorrect == Spec => []PostedIsBody
<1>1. BodyInv /\ RouteShape => PostedIsBody
  <2> SUFFICES ASSUME BodyInv, RouteShape, NEW c \in Conns, Posting(c),
                      Legible(Request(c, no[c])), NeverChunked(c)
               PROVE  GetsBody(c)
    BY DEF PostedIsBody
  <2>0. pc[c] = "handler" /\ cb[c] = "on_msg_post" /\ no[c] = Len(sent[c])
    BY DEF Posting
  <2>1. TypeOK /\ ControlShape(c) /\ BodyShape(c) /\ AtLast(c)
    BY <2>0 DEF BodyInv, ServerInv, AtLast
  <2>2. PICK r \in KindRecords, n \in Nat : n = no[c] /\ r = Request(c, n)
    BY <2>0, <2>1, RequestType DEF ControlShape, Request
  <2>3. r.method = "POST"
    <3>1. Routed(r) = "on_msg_post"
      BY <2>0, <2>2 DEF RouteShape, Request
    <3> QED
      BY <3>1 DEF Routed
  <2>4. CASE Lost(c)
    BY <2>4 DEF Lost, GetsBody
  <2>5. CASE Holds(c)
    <3>1. PICK v \in Seq(Nat \X Nat) :
                /\ v = body[c] /\ body_len[c] = Len(v) /\ Len(v) <= r.len
                /\ Run(v, n, 0) /\ (Len(v) = r.len \/ peer[c] # "up")
      BY <2>0, <2>2, <2>3, <2>5 DEF Holds
    <3>2. /\ Len(BodyUnits(n, r)) = r.len /\ Len(v) \in 0 .. r.len
          /\ v = SubSeq(BodyUnits(n, r), 1, Len(v))
          /\ Len(v) = r.len => v = BodyUnits(n, r)
      BY <3>1, RunBody
    <3> QED
      BY <2>2, <3>1, <3>2 DEF GetsBody
  <2> QED
    BY <2>1, <2>4, <2>5 DEF BodyShape
<1> QED
  BY <1>1, BodyInvariant, RouteInvariant, PTL

-----------------------------------------------------------------------------
(* Peers that do as they should *)

\* s holds units of request n, of kind r, from behind the j-th on.
Rest(s, n, r, j) == /\ j + Len(s) <= r.blanks + 1 + r.len
                    /\ \A i \in 1 .. Len(s) : s[i] = UnitAt(n, r, i + j)

\* All that the peer has sent is answered; its last request is in the socket,
\* from some blank or its header on; its body is being received; it has been
\* received.  A proper peer waits for its answers, so there is one at a time.
Quiet(c) == Len(answers[c]) = Len(sent[c]) /\ stream[c] = <<>>
Last(c) == Len(sent[c]) > 0 /\ Len(answers[c]) = Len(sent[c]) - 1
Waiting(c) ==
    /\ Last(c)
    /\ \E j \in 0 .. Request(c, Len(sent[c])).blanks :
            Rest(stream[c], Len(sent[c]), Request(c, Len(sent[c])), j)
Reading(c) ==
    /\ Last(c) /\ no[c] = Len(sent[c])
    /\ Request(c, no[c]).method = "POST"
    /\ body_len[c] + Len(stream[c]) <= Request(c, no[c]).len
Handling(c) == Last(c) /\ stream[c] = <<>>

\* The lthread's place agrees with what the peer has sent, and nothing of a
\* packet of blanks is left in the header buffer.
ProperShape(c) ==
    /\ ~chunked[c]
    /\ pc[c] \in {"off", "hdr"} => hdr[c] = <<>>
    /\ (pc[c] \in {"off", "hdr"} \/ (pc[c] = "done" /\ resp_state[c] # "HTTP_HDR_BEGIN"))
            => Quiet(c) \/ Waiting(c)
    /\ pc[c] = "body" => Reading(c)
    /\ (pc[c] \in {"route", "handler", "write"}
            \/ (pc[c] = "done" /\ resp_state[c] = "HTTP_HDR_BEGIN")) => Handling(c)

ProperInv ==
    /\ ServerInv
    /\ \A c \in Conns : Proper(c) => /\ respcode[c] # 400
                                     /\ conn[c] # "closed" => ProperShape(c)

\* Cutting what is left of a request in two.
LEMMA RestCut ==
    ASSUME NEW s \in Seq(Nat \X Nat), NEW p \in Seq(Nat \X Nat), NEW t \in Seq(Nat \X Nat),
           NEW n, NEW r \in KindRecords, NEW j \in Nat, IsJoin(s, p, t), Rest(s, n, r, j)
    PROVE  Rest(p, n, r, j) /\ Rest(t, n, r, j + Len(p))
<1>0. /\ Len(s) = Len(p) + Len(t)
      /\ \A i \in 1 .. Len(p) : s[i] = p[i]
      /\ \A i \in 1 .. Len(t) : s[Len(p) + i] = t[i]
  BY DEF IsJoin
<1>1. PICK x \in Nat, y \in Nat : x = r.blanks /\ y = r.len
  BY DEF KindRecords
<1>2. PICK a \in Nat, b \in Nat : a = Len(p) /\ b = Len(t) /\ a + b = Len(s)
  <2>1. Len(p) \in Nat /\ Len(t) \in Nat
    BY LenProperties
  <2> QED
    BY <1>0, <2>1
<1>3. j + Len(s) <= x + 1 + y /\ \A i \in 1 .. Len(s) : s[i] = UnitAt(n, r, i + j)
  BY <1>1 DEF Rest
<1>4. j + a <= x + 1 + y /\ j + a + b <= x + 1 + y
  BY <1>2, <1>3
<1>5. ASSUME NEW i \in 1 .. a PROVE p[i] = UnitAt(n, r, i + j)
  <2>1. i \in 1 .. Len(s)
    BY <1>2
  <2> QED
    BY <1>0, <1>2, <1>3, <2>1
<1>6. ASSUME NEW i \in 1 .. b PROVE t[i] = UnitAt(n, r, i + (j + a))
  <2>0. a + b = Len(s)
    BY <1>2
  <2>1. a + i \in 1 .. a + b /\ (a + i) + j = i + (j + a)
    OBVIOUS
  <2>2. t[i] = s[a + i]
    BY <1>0, <1>2
  <2> QED
    BY <1>3, <2>0, <2>1, <2>2
<1> QED
  BY <1>1, <1>2, <1>4, <1>5, <1>6 DEF Rest

\* In a packet that holds a header, all blanks before it are dropped; in one
\* of no more than a CRLF, all of it is.
LEMMA SkipsAll ==
    ASSUME NEW p \in Seq(Nat \X Nat), NEW n \in Nat \ {0}, NEW r \in KindRecords,
           NEW j \in 0 .. r.blanks, r.blanks <= 2, Rest(p, n, r, j), Len(p) > 0
    PROVE  \/ j + Len(p) <= r.blanks /\ Skipped(p) = Len(p)
           \/ j + Len(p) > r.blanks /\ Skipped(p) = r.blanks - j
<1>1. PICK x \in Nat, l \in Nat, m \in Nat : x = r.blanks /\ l = Leading(p) /\ m = Len(p)
  <2>1. r.blanks \in Nat
    BY DEF KindRecords
  <2>2. Leading(p) \in 0 .. Len(p)
    BY LeadingFacts
  <2>3. Len(p) \in Nat
    OBVIOUS
  <2>4. Leading(p) \in Nat
    BY <2>2, <2>3
  <2> QED
    BY <2>1, <2>3, <2>4
<1>2. /\ l \in 0 .. m /\ \A i \in 1 .. l : p[i] = Blank
      /\ l < m => p[l + 1] # Blank
  BY <1>1, LeadingFacts
<1>3. j \in 0 .. x /\ x <= 2 /\ m > 0
  BY <1>1
<1>4. \A i \in 1 .. m : p[i] = IF i + j <= x THEN Blank ELSE <<n, (i + j) - x - 1>>
  BY <1>1 DEF Rest, UnitAt
<1>5. \A i \in 1 .. m : p[i] = Blank <=> i + j <= x
  <2> TAKE i \in 1 .. m
  <2>1. CASE i + j <= x
    BY <1>4, <2>1
  <2>2. CASE ~(i + j <= x)
    <3>1. p[i] = <<n, (i + j) - x - 1>>
      BY <1>4, <2>2
    <3>2. p[i][1] = n /\ n # 0
      BY <3>1
    <3> QED
      BY <2>2, <3>2 DEF Blank
  <2> QED
    BY <2>1, <2>2
<1>6. CASE j + m <= x
  <2>1. l = m
    <3> SUFFICES ASSUME l < m PROVE FALSE
      BY <1>2
    <3>1. l + 1 \in 1 .. m /\ (l + 1) + j <= x
      BY <1>3, <1>6
    <3> QED
      BY <1>2, <1>5, <3>1
  <2>2. m \div 2 + 1 = m
    <3>1. m \in {1, 2}
      BY <1>3, <1>6
    <3> QED
      BY <3>1
  <2>3. Skipped(p) = m
    BY <1>1, <2>1, <2>2 DEF Skipped
  <2> QED
    BY <1>1, <1>6, <2>3
<1>7. CASE j + m > x
  <2>1. ~(l < x - j)
    <3> SUFFICES ASSUME l < x - j PROVE FALSE
      OBVIOUS
    <3>1. l + 1 \in 1 .. m /\ (l + 1) + j <= x /\ l < m
      BY <1>3, <1>7
    <3> QED
      BY <1>2, <1>5, <3>1
  <2>2. ~(l > x - j)
    <3> SUFFICES ASSUME l > x - j PROVE FALSE
      OBVIOUS
    <3>1. l \in 1 .. l /\ l \in 1 .. m /\ ~(l + j <= x)
      BY <1>2, <1>3
    <3> QED
      BY <1>2, <1>5, <3>1
  <2>3. l = x - j /\ l < m
    BY <1>3, <1>7, <2>1, <2>2
  <2>4. Skipped(p) = x - j
    BY <1>1, <2>3 DEF Skipped
  <2> QED
    BY <1>1, <1>7, <2>4
<1> QED
  BY <1>3, <1>6, <1>7

\* So the buffer a proper request is received into is empty, or begins with
\* the header.
LEMMA ProperBuffer ==
    ASSUME TypeOK, NEW c \in Conns, NEW k \in 1 .. Len(stream[c]), hdr[c] = <<>>,
           NEW n \in Nat \ {0}, NEW r \in KindRecords, NEW j \in 0 .. r.blanks,
           r.blanks <= 2, Rest(stream[c], n, r, j)
    PROVE  \/ /\ Buffer(c, k) = <<>> /\ j + k \in 0 .. r.blanks
              /\ Rest(Leave(c, k), n, r, j + k)
           \/ /\ Begins(Buffer(c, k), n)
              /\ Len(Buffer(c, k)) - 1 + Len(Leave(c, k)) <= r.len
<1> DEFINE Q == Seq(Nat \X Nat)
<1>1. PICK s \in Q, p \in Q, t \in Q :
            /\ s = stream[c] /\ p = Take(c, k) /\ t = Leave(c, k)
            /\ Len(p) = k /\ IsJoin(s, p, t)
  BY BufferFacts, PendingType
<1>2. PICK x \in Nat, y \in Nat : x = r.blanks /\ y = r.len
  BY DEF KindRecords
<1>3. /\ j \in Nat /\ j \in 0 .. x /\ k \in Nat /\ k \in 1 .. Len(s) /\ x <= 2
      /\ Rest(s, n, r, j)
  BY <1>1, <1>2
<1>4. Rest(p, n, r, j) /\ Rest(t, n, r, j + k)
  BY <1>1, <1>3, RestCut
<1>5. Len(p) > 0
  BY <1>1, <1>3
<1>6. \/ j + k <= x /\ Skipped(p) = k
      \/ j + k > x /\ Skipped(p) = x - j
  BY <1>1, <1>2, <1>4, <1>5, SkipsAll
<1>7. Buffer(c, k) = SubSeq(p, Skipped(p) + 1, Len(p))
  BY <1>1 DEF Buffer
<1>8. CASE j + k <= x /\ Skipped(p) = k
  <2>1. SubSeq(p, k + 1, Len(p)) = <<>>
    BY <1>1, <1>3
  <2>2. j + k \in 0 .. x
    BY <1>3, <1>8
  <2> QED
    BY <1>1, <1>2, <1>4, <1>7, <1>8, <2>1, <2>2
<1>9. CASE j + k > x /\ Skipped(p) = x - j
  <2>1. PICK e \in Nat : e = x - j /\ e \in 0 .. Len(p) /\ e < k
    <3>1. x - j \in Nat /\ x - j < k
      BY <1>3, <1>9
    <3>2. x - j \in 0 .. k
      BY <1>3, <3>1
    <3> QED
      BY <1>1, <3>1, <3>2
  <2>2. PICK b \in Q, h \in Q : /\ b = SubSeq(p, e + 1, Len(p)) /\ Len(h) = e
                                /\ Len(b) = Len(p) - e /\ IsJoin(p, h, b)
    BY <2>1, CutFacts
  <2>3. Len(b) = k - e /\ Len(b) >= 1
    BY <1>1, <1>3, <2>1, <2>2
  <2>4. Rest(b, n, r, j + e) /\ j + e = x
    <3>1. Rest(b, n, r, j + Len(h))
      BY <1>3, <1>4, <2>2, RestCut
    <3>2. j + e = x
      BY <1>3, <2>1
    <3> QED
      BY <2>2, <3>1, <3>2
  <2>5. b[1] = <<n, 0>>
    <3>1. 1 \in 1 .. Len(b)
      BY <2>3
    <3>2. b[1] = UnitAt(n, r, 1 + x)
      BY <2>4, <3>1 DEF Rest
    <3>3. ~(1 + x <= x) /\ (1 + x) - x - 1 = 0
      BY <1>2
    <3> QED
      BY <1>2, <3>2, <3>3 DEF UnitAt
  <2>6. Len(b) - 1 + Len(t) <= y
    <3>1. (j + k) + Len(t) <= x + 1 + y
      BY <1>2, <1>4 DEF Rest
    <3>2. Len(t) \in Nat
      OBVIOUS
    <3> QED
      BY <1>3, <2>1, <2>3, <3>1, <3>2
  <2> QED
    BY <1>1, <1>2, <1>7, <1>9, <2>1, <2>2, <2>3, <2>5, <2>6 DEF Begins
<1> QED
  BY <1>6, <1>8, <1>9

\* A peer that is proper was so before, and has sent its latest request when
\* all others were answered.
LEMMA ProperBefore ==
    ASSUME ServerInv, [Next]_vars, NEW c \in Conns, Proper(c)'
    PROVE  /\ Proper(c)
           /\ (\E r \in Kinds : SendRequest(c, r)) => ~(Len(answers[c]) < Len(sent[c]))
<1>0. TypeOK /\ ListenerShape
  BY DEF ServerInv
<1>1. ASSUME NEW r \in Kinds, SendRequest(c, r)
      PROVE  Proper(c) /\ ~(Len(answers[c]) < Len(sent[c]))
  <2>1. early' = [early EXCEPT ![c] = early[c] \/ Len(answers[c]) < Len(sent[c])]
    BY <1>1 DEF SendRequest
  <2>2. DOMAIN early = Conns
    BY <1>0 DEF TypeOK
  <2>3. early'[c] = (early[c] \/ Len(answers[c]) < Len(sent[c]))
    BY <2>1, <2>2, Zenon
  <2>4. /\ Len(sent'[c]) = Len(sent[c]) + 1 /\ Len(sent[c]) \in Nat
        /\ \A i \in 1 .. Len(sent[c]) : sent'[c][i] = sent[c][i]
    BY <1>0, <1>1, SendFacts, RequestType
  <2>5. \A i \in 1 .. Len(sent[c]) : i \in 1 .. Len(sent'[c])
    BY <2>4
  <2> QED
    BY <2>3, <2>4, <2>5 DEF Proper
<1>2. ASSUME early'[c] = early[c], sent'[c] = sent[c] PROVE Proper(c)
  <2>1. ~early'[c] /\ \A i \in 1 .. Len(sent'[c]) :
            LET r == sent'[c][i]
            IN  /\ r.form = "ok" /\ ~r.chunked /\ r.blanks <= 2
                /\ r.len > 0 => r.method = "POST" /\ Legible(r)
    BY DEF Proper
  <2> QED
    BY <1>2, <2>1, Zenon DEF Proper
<1>3. Same(c) \/ Opened(c) => Proper(c)
  BY <1>2 DEF Same, Opened
<1>4. Peer(c) => Proper(c)
  BY <1>1, <1>2 DEF Peer, Connect, PeerClose, PeerReset
<1>5. ASSUME Serve(c) PROVE Proper(c)
  <2>1. early' = early /\ sent' = sent
    BY <1>5 DEF Serve, RecvHdrMore, RecvHdr, RecvBody, RecvHdrFail, RecvBodyEnd, Route,
                HandlerRespond, Written, RespondLast, http_cli_reset, GiveUp, netVars
  <2>2. early'[c] = early[c] /\ sent'[c] = sent[c]
    BY <2>1, Zenon
  <2> QED
    BY <1>2, <2>2, Zenon
<1>6. (\E r \in Kinds : SendRequest(c, r)) => ~(Len(answers[c]) < Len(sent[c]))
  BY <1>1
<1> QED
  BY <1>0, <1>3, <1>4, <1>5, <1>6, Frame

\* Once the body is complete nothing is left in the socket.
LEMMA NothingLeft ==
    ASSUME NEW t \in Seq(Nat \X Nat), NEW have \in Nat, NEW len \in Nat,
           have + Len(t) <= len, ~(have < len)
    PROVE  t = <<>>
<1>1. Len(t) = 0
  OBVIOUS
<1> QED
  BY <1>1

\* Steps of the peer.
LEMMA ProperPeer ==
    ASSUME ServerInv, NEW c \in Conns, [Next]_vars, Proper(c)', Peer(c), ProperShape(c)
    PROVE  ProperShape(c)'
<1>0. TypeOK /\ ControlShape(c)
  BY DEF ServerInv
<1>a. /\ Len(sent[c]) \in Nat /\ Len(answers[c]) \in Nat /\ sent[c] \in Seq(Kinds)
      /\ stream[c] \in Seq(Nat \X Nat)
  <2>1. answers[c] \in Seq(Nat \X Nat)
    BY <1>0 DEF TypeOK
  <2> QED
    BY <1>0, <2>1, RequestType, PendingType
<1>1. CASE Connect(c)
  <2>1. UNCHANGED <<sent, answers, stream, pc, hdr, no, chunked, body_len, resp_state>>
    BY <1>1 DEF Connect, reqVars, respVars
  <2> QED
    BY <2>1 DEF ProperShape, Quiet, Waiting, Reading, Handling, Last, Request
<1>2. ASSUME NEW r \in Kinds, SendRequest(c, r) PROVE ProperShape(c)'
  <2>1. UNCHANGED <<answers, pc, hdr, no, chunked, body_len, resp_state>>
    BY <1>2 DEF SendRequest, reqVars, respVars
  <2>2. ~Last(c)
    <3>1. ~(Len(answers[c]) < Len(sent[c]))
      BY <1>2, ProperBefore
    <3> QED
      BY <1>a, <3>1 DEF Last
  <2>3. /\ pc[c] \notin {"body", "route", "handler", "write"}
        /\ ~(pc[c] = "done" /\ resp_state[c] = "HTTP_HDR_BEGIN")
        /\ Quiet(c) \/ pc[c] \notin {"off", "hdr", "done"}
    BY <2>2 DEF ProperShape, Waiting, Reading, Handling
  <2>4. pc[c] \in PCs
    BY <1>0 DEF TypeOK
  <2>5. Quiet(c)
    BY <2>3, <2>4 DEF PCs
  <2>6. PICK n \in Nat \ {0}, s \in Seq(Nat \X Nat) :
            /\ n = Len(sent[c]) + 1 /\ n = Len(sent'[c]) /\ sent'[c][n] = r
            /\ s = Units(n, r) /\ stream'[c] = s /\ Len(answers'[c]) = n - 1
    <3>1. /\ Len(sent'[c]) = Len(sent[c]) + 1 /\ sent'[c][Len(sent[c]) + 1] = r
          /\ stream'[c] = stream[c] \o Units(Len(sent[c]) + 1, r)
          /\ Units(Len(sent[c]) + 1, r) \in Seq(Nat \X Nat)
      BY <1>0, <1>2, SendFacts
    <3>2. stream'[c] = Units(Len(sent[c]) + 1, r)
      BY <2>5, <3>1, ConcatEmptySeq DEF Quiet
    <3>3. Len(answers'[c]) = (Len(sent[c]) + 1) - 1 /\ Len(sent[c]) + 1 \in Nat \ {0}
      BY <1>a, <2>1, <2>5 DEF Quiet
    <3> QED
      BY <3>1, <3>2, <3>3
  <2>7. r \in KindRecords
    BY ConstantsAssumption
  <2>8. PICK x \in Nat, y \in Nat : x = r.blanks /\ y = r.len
    BY <2>7 DEF KindRecords
  <2>9. Rest(s, n, r, 0)
    <3>1. Len(s) = x + y + 1 /\ \A i \in 1 .. x + y + 1 : s[i] = UnitAt(n, r, i)
      <4>1. n \in Nat
        OBVIOUS
      <4>2. /\ Len(Units(n, r)) = r.blanks + r.len + 1
            /\ \A i \in 1 .. r.blanks + r.len + 1 : Units(n, r)[i] = UnitAt(n, r, i)
        BY <2>7, <4>1, UnitsFacts
      <4>3. s = Units(n, r)
        BY <2>6
      <4> QED
        BY <2>8, <4>2, <4>3
    <3>2. 0 + Len(s) <= x + 1 + y
      BY <3>1
    <3>3. \A i \in 1 .. Len(s) : i + 0 = i
      OBVIOUS
    <3> QED
      BY <2>8, <3>1, <3>2, <3>3 DEF Rest
  <2>10. Waiting(c)'
    <3>0. n > 0 /\ n = Len(sent'[c]) /\ Len(answers'[c]) = n - 1
      BY <2>6
    <3>1. Last(c)'
      BY <3>0 DEF Last
    <3>2. 0 \in 0 .. r.blanks
      BY <2>8
    <3> QED
      BY <2>6, <2>9, <3>1, <3>2 DEF Waiting, Request
  <2> QED
    BY <2>1, <2>3, <2>10 DEF ProperShape
<1>3. CASE PeerReset(c) \/ \E k \in 0 .. Len(stream[c]) : PeerClose(c, k)
  <2>1. /\ UNCHANGED <<sent, answers, pc, hdr, no, chunked, body_len, resp_state>>
        /\ stream'[c] = <<>> \/ \E k \in 0 .. Len(stream[c]) : stream'[c] = SubSeq(stream[c], 1, k)
    BY <1>0, <1>3 DEF PeerReset, PeerClose, reqVars, respVars, TypeOK
  <2>2. PICK s \in Seq(Nat \X Nat), p \in Seq(Nat \X Nat), t \in Seq(Nat \X Nat) :
            s = stream[c] /\ p = stream'[c] /\ IsJoin(s, p, t)
    <3>1. PICK k \in 0 .. Len(stream[c]) : stream'[c] = SubSeq(stream[c], 1, k)
      <4>1. 0 \in 0 .. Len(stream[c]) /\ SubSeq(stream[c], 1, 0) = <<>>
        BY <1>a
      <4> QED
        BY <2>1, <4>1
    <3>2. /\ SubSeq(stream[c], 1, k) \in Seq(Nat \X Nat)
          /\ SubSeq(stream[c], k + 1, Len(stream[c])) \in Seq(Nat \X Nat)
          /\ IsJoin(stream[c], SubSeq(stream[c], 1, k),
                            SubSeq(stream[c], k + 1, Len(stream[c])))
      BY <1>a, CutFacts
    <3> QED
      BY <1>a, <3>1, <3>2
  <2>3. Len(s) = Len(p) + Len(t) /\ Len(p) \in Nat /\ Len(t) \in Nat /\ Len(s) \in Nat
    BY <2>2 DEF IsJoin
  <2>4. s = <<>> => p = <<>>
    <3>1. s = <<>> => Len(p) = 0
      BY <2>3
    <3> QED
      BY <3>1
  <2>5. ASSUME Waiting(c) PROVE Waiting(c)'
    <3>1. PICK r, n : n = Len(sent[c]) /\ r = sent[c][n]
      OBVIOUS
    <3>2. r \in KindRecords
      <4>1. n \in 1 .. Len(sent[c])
        BY <1>a, <2>5, <3>1 DEF Waiting, Last
      <4> QED
        BY <1>0, <3>1, <4>1, RequestType
    <3>3. PICK j \in 0 .. r.blanks : Rest(s, n, r, j)
      BY <2>2, <2>5, <3>1 DEF Waiting, Request
    <3>4. j \in Nat
      BY <3>2 DEF KindRecords
    <3>5. Rest(p, n, r, j)
      BY <2>2, <3>2, <3>3, <3>4, RestCut
    <3>6. Last(c)'
      BY <2>1, <2>5 DEF Waiting, Last
    <3> QED
      BY <2>1, <2>2, <3>1, <3>5, <3>6 DEF Waiting, Request
  <2>6. ASSUME Reading(c) PROVE Reading(c)'
    <3>1. PICK l, m \in Nat : /\ l = sent[c][no[c]].len /\ m = body_len[c]
                              /\ l \in Nat /\ m + Len(s) <= l
      <4>1. no[c] \in 1 .. Len(sent[c]) /\ body_len[c] \in Nat
        BY <1>0, <1>a, <2>6 DEF Reading, Last, TypeOK
      <4>2. sent[c][no[c]] \in KindRecords
        BY <1>0, <4>1, RequestType
      <4>3. sent[c][no[c]].len \in Nat
        BY <4>2 DEF KindRecords
      <4> QED
        BY <2>2, <2>6, <4>1, <4>3 DEF Reading, Request
    <3>2. m + Len(p) <= l
      BY <2>3, <3>1
    <3> QED
      BY <2>1, <2>2, <2>6, <3>1, <3>2 DEF Reading, Last, Request
  <2>7. Handling(c) => Handling(c)'
    BY <2>1, <2>2, <2>4 DEF Handling, Last
  <2>8. Quiet(c) => Quiet(c)'
    BY <2>1, <2>2, <2>4 DEF Quiet
  <2> QED
    BY <2>1, <2>5, <2>6, <2>7, <2>8 DEF ProperShape
<1> QED
  BY <1>1, <1>2, <1>3 DEF Peer

\* A receive while the end of a header is looked for.
LEMMA ProperHeader ==
    ASSUME ServerInv, NEW c \in Conns, Proper(c), ProperShape(c), respcode[c] # 400,
           NEW k \in 1 .. Len(stream[c]), RecvHdrMore(c, k) \/ RecvHdr(c, k)
    PROVE  respcode'[c] # 400 /\ ProperShape(c)'
<1>0. TypeOK /\ ControlShape(c) /\ StreamShape(c)
  BY DEF ServerInv
<1>1. /\ pc[c] = "hdr" /\ UNCHANGED <<sent, answers, resp_state>>
      /\ stream'[c] = Leave(c, k) /\ hdr'[c] = Buffer(c, k)
  BY <1>0 DEF RecvHdrMore, RecvHdr, Runs, TypeOK
<1>2. hdr[c] = <<>> /\ ~chunked[c] /\ Waiting(c)
  <2>1. stream[c] # <<>>
    OBVIOUS
  <2> QED
    BY <1>1, <2>1 DEF ProperShape, Quiet
<1>3. PICK n \in Nat \ {0}, r \in KindRecords :
            n = Len(sent[c]) /\ n \in 1 .. Len(sent[c]) /\ r = sent[c][n]
  <2>1. Len(sent[c]) \in Nat \ {0} /\ Len(sent[c]) \in 1 .. Len(sent[c])
    BY <1>0, <1>2, RequestType DEF Waiting, Last
  <2> QED
    BY <1>0, <2>1, RequestType
<1>4. /\ r.form = "ok" /\ ~r.chunked /\ r.blanks <= 2 /\ r.blanks \in Nat /\ r.len \in Nat
      /\ r.method # "POST" => r.len = 0
      /\ r.len > 0 => Legible(r)
  BY <1>3 DEF Proper, KindRecords
<1>5. PICK j \in 0 .. r.blanks : Rest(stream[c], n, r, j)
  BY <1>2, <1>3 DEF Waiting, Request
<1>6. PICK b \in Seq(Nat \X Nat), t \in Seq(Nat \X Nat) : b = Buffer(c, k) /\ t = Leave(c, k)
  BY <1>0, BufferFacts
<1>7. \/ b = <<>> /\ j + k \in 0 .. r.blanks /\ Rest(t, n, r, j + k)
      \/ Begins(b, n) /\ Len(b) - 1 + Len(t) <= r.len
  <2>1. TypeOK /\ hdr[c] = <<>> /\ r.blanks <= 2 /\ Rest(stream[c], n, r, j)
    BY <1>0, <1>2, <1>4, <1>5
  <2>2. \/ /\ Buffer(c, k) = <<>> /\ j + k \in 0 .. r.blanks
           /\ Rest(Leave(c, k), n, r, j + k)
        \/ /\ Begins(Buffer(c, k), n)
           /\ Len(Buffer(c, k)) - 1 + Len(Leave(c, k)) <= r.len
    BY <2>1, ProperBuffer
  <2> QED
    BY <1>6, <2>2
<1>8. Last(c)'
  BY <1>1, <1>2 DEF Waiting, Last
<1>9. CASE b = <<>> /\ j + k \in 0 .. r.blanks /\ Rest(t, n, r, j + k)
  <2>1. ~RecvHdr(c, k)
    <3> SUFFICES ASSUME RecvHdr(c, k) PROVE FALSE
      OBVIOUS
    <3>1. HdrEnds(c, b) # {}
      BY <1>6 DEF RecvHdr
    <3>2. Len(b) = 0
      BY <1>9
    <3> QED
      BY <3>1, <3>2 DEF HdrEnds
  <2>2. pc' = pc /\ respcode' = respcode /\ chunked' = chunked
    <3>1. ~(Len(b) >= MaxHdr)
      BY <1>9, ConstantsAssumption
    <3> QED
      BY <1>0, <1>6, <2>1, <3>1, RecvHdrMoreFacts DEF RecvHdrMore
  <2>3. Waiting(c)'
    BY <1>1, <1>3, <1>6, <1>8, <1>9 DEF Waiting, Request
  <2> QED
    BY <1>1, <1>2, <1>6, <1>9, <2>2, <2>3 DEF ProperShape
<1>10. CASE Begins(b, n) /\ Len(b) - 1 + Len(t) <= r.len
  <2>1. 1 \in 1 .. Len(b) /\ b[1] = <<n, 0>> /\ b[1][1] = n /\ b[1][2] = 0
    BY <1>10 DEF Begins
  <2>2. RecvHdr(c, k)
    <3>1. 1 \in HdrEnds(c, b)
      <4>1. Request(c, b[1][1]).form # "nul"
        BY <1>3, <1>4, <2>1 DEF Request
      <4> QED
        BY <2>1, <4>1 DEF HdrEnds
    <3> QED
      BY <1>6, <3>1 DEF RecvHdrMore
  <2>3. PICK end \in 1 .. Len(b), m \in 1 .. Len(sent[c]) : Found(c, b, end, m)
    BY <1>0, <1>6, <2>2, RecvHdrFacts
  <2>4. end = 1
    <3> SUFFICES ASSUME end # 1 PROVE FALSE
      OBVIOUS
    <3>1. 1 \in 1 .. end - 1
      OBVIOUS
    <3> QED
      BY <2>1, <2>3, <3>1 DEF Found
  <2>5. m = n
    BY <2>1, <2>3, <2>4 DEF Found
  <2>a. PICK len \in {0, r.len}, ch \in BOOLEAN :
                Parsed(c, r, end = 1, Len(b) - end, len, ch)
    <3>1. PICK l \in {0, sent[c][m].len}, g \in BOOLEAN :
                Parsed(c, sent[c][m], end = 1, Len(b) - end, l, g)
      BY <2>3, Zenon DEF Found
    <3>2. sent[c][m] = r
      BY <1>3, <2>5
    <3>3. l \in {0, r.len}
      BY <3>1, <3>2
    <3>4. Parsed(c, r, end = 1, Len(b) - end, l, g)
      BY <3>1, <3>2
    <3> QED
      BY <3>3, <3>4, Zenon
  <2>6. /\ Accepted(c, r, Len(b) - 1, len, ch) /\ no' = [no EXCEPT ![c] = n]
        /\ body_len' = [body_len EXCEPT ![c] = Len(b) - 1]
    <3>1. Accepted(c, r, Len(b) - end, len, ch)
      BY <1>4, <2>4, <2>a DEF Parsed
    <3> QED
      BY <2>3, <2>4, <2>5, <3>1 DEF Found
  <2>b. len = r.len /\ ~ch
    <3>1. ~ch
      <4>1. ch => r.chunked
        BY <2>a, Zenon DEF Parsed
      <4> QED
        BY <1>4, <4>1, Zenon
    <3>2. CASE r.len = 0
      BY <3>1, <3>2
    <3>3. CASE r.len # 0
      <4>1. Legible(r)
        BY <1>4, <3>3
      <4>2. (Legible(r) /\ ~r.chunked) => len = r.len
        BY <2>6, Zenon DEF Accepted
      <4> QED
        BY <1>4, <3>1, <4>1, <4>2, Zenon
    <3> QED
      BY <3>2, <3>3
  <2>7. /\ pc'[c] = IF Incomplete(r.method, chunked[c] \/ ch, Len(b) - 1, r.len)
                    THEN "body" ELSE "route"
        /\ respcode' = respcode
    <3>1. pc' = [pc EXCEPT ![c] =
                    IF Incomplete(r.method, chunked[c] \/ ch, Len(b) - 1, len)
                    THEN "body" ELSE "route"]
      BY <2>6, Zenon DEF Accepted
    <3>2. DOMAIN pc = Conns
      BY <1>0 DEF TypeOK
    <3>3. respcode' = respcode
      BY <2>6 DEF Accepted
    <3>4. pc'[c] = IF Incomplete(r.method, chunked[c] \/ ch, Len(b) - 1, len)
                   THEN "body" ELSE "route"
      BY <3>1, <3>2, Zenon
    <3> QED
      BY <2>b, <3>3, <3>4
  <2>8. ~chunked'[c]
    <3>1. chunked' = [chunked EXCEPT ![c] = chunked[c] \/ ch]
      BY <2>a DEF Parsed
    <3>2. DOMAIN chunked = Conns
      BY <1>0 DEF TypeOK
    <3>3. chunked'[c] = (chunked[c] \/ ch)
      BY <3>1, <3>2, Zenon
    <3> QED
      BY <1>2, <2>b, <3>3
  <2>9. no'[c] = n /\ body_len'[c] = Len(b) - 1 /\ Len(b) - 1 \in Nat
    <3>1. no \in [Conns -> Nat] /\ body_len \in [Conns -> Nat]
      BY <1>0 DEF TypeOK
    <3>2. Len(b) - 1 \in Nat
      BY <2>1
    <3> QED
      BY <2>6, <3>1, <3>2
  <2>10. CASE r.method = "POST" /\ Len(b) - 1 < r.len
    <3>1. pc'[c] = "body"
      BY <1>2, <2>7, <2>10, <2>b DEF Incomplete
    <3>2. Reading(c)'
      BY <1>1, <1>3, <1>6, <1>8, <1>10, <2>9, <2>10 DEF Reading, Request
    <3> QED
      BY <2>7, <2>8, <3>1, <3>2 DEF ProperShape
  <2>11. CASE ~(r.method = "POST" /\ Len(b) - 1 < r.len)
    <3>1. pc'[c] = "route"
      BY <2>7, <2>11 DEF Incomplete
    <3>2. ~(Len(b) - 1 < r.len)
      BY <1>4, <2>9, <2>11
    <3>3. t = <<>>
      <4>1. PICK h \in Nat, l \in Nat : h = Len(b) - 1 /\ l = r.len
        BY <1>4, <2>9
      <4>2. h + Len(t) <= l /\ ~(h < l)
        BY <1>10, <3>2, <4>1
      <4> QED
        BY <4>2, NothingLeft
    <3>4. Handling(c)'
      BY <1>1, <1>6, <1>8, <3>3 DEF Handling
    <3> QED
      BY <2>7, <2>8, <3>1, <3>4 DEF ProperShape
  <2> QED
    BY <2>10, <2>11
<1> QED
  BY <1>7, <1>9, <1>10

\* A receive of a body.
LEMMA ProperBody ==
    ASSUME ServerInv, NEW c \in Conns, Proper(c), ProperShape(c),
           NEW k \in 1 .. Len(stream[c]), RecvBody(c, k)
    PROVE  respcode' = respcode /\ ProperShape(c)'
<1>0. TypeOK /\ ControlShape(c)
  BY DEF ServerInv
<1>1. /\ pc[c] = "body" /\ UNCHANGED <<sent, answers, respcode, no, chunked>>
      /\ stream'[c] = Leave(c, k) /\ ~chunked[c]
  BY <1>0 DEF RecvBody, Runs, TypeOK, respVars, ProperShape
<1>2. Reading(c)
  BY <1>1 DEF ProperShape
<1>3. PICK n \in 1 .. Len(sent[c]), r \in KindRecords : n = no[c] /\ r = sent[c][n]
  BY <1>0, <1>1, RequestType DEF ControlShape
<1>4. PICK s \in Seq(Nat \X Nat), p \in Seq(Nat \X Nat), t \in Seq(Nat \X Nat) :
            /\ s = stream[c] /\ t = Leave(c, k) /\ Len(p) = k /\ IsJoin(s, p, t)
  BY <1>0, BufferFacts, PendingType
<1>5. PICK m \in Nat, l \in Nat : m = body_len[c] /\ l = r.len
  BY <1>0 DEF TypeOK, KindRecords
<1>6. body_len'[c] = m + k /\ k \in Nat /\ m + k \in Nat
  <2>1. k \in Nat
    BY <1>4
  <2>2. body_len' = [body_len EXCEPT ![c] = body_len[c] + k] /\ DOMAIN body_len = Conns
    BY <1>0 DEF RecvBody, TypeOK
  <2> QED
    BY <1>5, <2>1, <2>2
<1>7. (m + k) + Len(t) <= l
  <2>1. m + Len(s) <= l
    BY <1>2, <1>3, <1>4, <1>5 DEF Reading, Request
  <2>2. Len(s) = k + Len(t) /\ Len(t) \in Nat
    BY <1>4 DEF IsJoin
  <2> QED
    BY <1>6, <2>1, <2>2
<1>8. r.method = "POST" /\ no[c] = Len(sent[c]) /\ Last(c)'
  BY <1>1, <1>2, <1>3 DEF Reading, Last, Request
<1>9. pc'[c] = IF m + k < l THEN "body" ELSE "route"
  <2>1. pc'[c] = IF Incomplete(r.method, chunked[c], m + k, l) THEN "body" ELSE "route"
    <3>1. pc \in [Conns -> PCs]
      BY <1>0 DEF TypeOK
    <3>2. cnt_len[c] = l
      BY <1>0, <1>1, <1>3, <1>5 DEF ControlShape, Request
    <3> QED
      BY <1>3, <1>5, <3>1, <3>2 DEF RecvBody, Request
  <2> QED
    BY <1>1, <1>8, <2>1 DEF Incomplete
<1>10. CASE m + k < l
  <2>1. Reading(c)'
    BY <1>1, <1>3, <1>4, <1>5, <1>6, <1>7, <1>8 DEF Reading, Request
  <2> QED
    BY <1>1, <1>9, <1>10, <2>1 DEF ProperShape
<1>11. CASE ~(m + k < l)
  <2>1. t = <<>>
    BY <1>6, <1>7, <1>11, NothingLeft
  <2>2. Handling(c)'
    BY <1>1, <1>4, <1>8, <2>1 DEF Handling
  <2> QED
    BY <1>1, <1>9, <1>11, <2>2 DEF ProperShape
<1> QED
  BY <1>10, <1>11

\* The other steps of the lthread.
LEMMA ProperServe ==
    ASSUME ServerInv, NEW c \in Conns, Proper(c), ProperShape(c), respcode[c] # 400, Serve(c)
    PROVE  respcode'[c] # 400 /\ (conn'[c] # "closed" => ProperShape(c)')
<1>0. TypeOK /\ ControlShape(c)
  BY DEF ServerInv
<1>a. /\ pc \in [Conns -> PCs] /\ hdr \in [Conns -> Seq(Nat \X Nat)]
      /\ respcode \in [Conns -> {0, 200, 204, 400, 404, 408}]
      /\ resp_state \in [Conns -> {"HTTP_HDR_BEGIN", "HTTP_BODY_SENT"}]
      /\ answers \in [Conns -> Seq(Nat \X Nat)]
      /\ conn \in [Conns -> {"none", "backlog", "open", "closed"}]
  BY <1>0 DEF TypeOK
<1>b. Len(sent[c]) \in Nat /\ Len(answers[c]) \in Nat
  <2>1. answers[c] \in Seq(Nat \X Nat)
    BY <1>a
  <2> QED
    BY <1>0, <2>1, RequestType
<1>1. CASE RecvHdrFail(c) \/ GiveUp(c)
  BY <1>a, <1>1 DEF RecvHdrFail, GiveUp, http_cli_free, respVars
<1>2. CASE RecvBodyEnd(c)
  <2>1. /\ UNCHANGED <<sent, answers, stream, chunked, respcode>> /\ pc[c] = "body"
        /\ pc'[c] = "route" /\ stream[c] = <<>>
    BY <1>a, <1>2 DEF RecvBodyEnd, Runs, Ended, netVars, respVars
  <2>2. Handling(c)'
    BY <2>1 DEF ProperShape, Reading, Handling, Last
  <2> QED
    BY <2>1, <2>2 DEF ProperShape
<1>3. CASE Route(c)
  <2>1. /\ UNCHANGED <<sent, answers, stream, chunked, resp_state>> /\ pc[c] = "route"
        /\ pc'[c] \in {"handler", "done"} /\ resp_state[c] = "HTTP_HDR_BEGIN"
    BY <1>0, <1>a, <1>3 DEF Route, Runs, netVars, reqVars, ControlShape
  <2>2. Handling(c)'
    BY <2>1 DEF ProperShape, Handling, Last
  <2>3. respcode'[c] # 400
    BY <1>a, <1>3 DEF Route, http_set_respcode
  <2> QED
    BY <2>1, <2>2, <2>3 DEF ProperShape
<1>4. ASSUME NEW code, code # 400,
             HandlerRespond(c, code) \/ (RespondLast(c) /\ code = 204)
      PROVE  respcode'[c] # 400 /\ ProperShape(c)'
  <2>1. /\ UNCHANGED <<sent, answers, stream, chunked, resp_state>>
        /\ pc[c] \in {"handler", "done"} /\ resp_state[c] = "HTTP_HDR_BEGIN"
        /\ http_respond(c, code)
    BY <1>0, <1>4 DEF HandlerRespond, RespondLast, Runs, netVars, reqVars, ControlShape
  <2>2. Handling(c)'
    BY <2>1 DEF ProperShape, Handling, Last
  <2>3. pc'[c] = "write" /\ respcode'[c] # 400
    BY <1>4, <1>a, <2>1 DEF http_respond, http_set_respcode
  <2> QED
    BY <2>1, <2>2, <2>3 DEF ProperShape
<1>5. CASE Written(c)
  <2>1. /\ UNCHANGED <<sent, stream, chunked, respcode>> /\ pc[c] = "write" /\ pc'[c] = "done"
        /\ resp_state'[c] # "HTTP_HDR_BEGIN"
    BY <1>a, <1>5 DEF Written, Runs, netVars, reqVars
  <2>2. Len(answers'[c]) = Len(answers[c]) + 1
    <3>0. PICK a \in Seq(Nat \X Nat) : a = answers[c]
      BY <1>a
    <3>1. PICK u : a = answers[c] /\ answers'[c] = Append(a, u)
      BY <1>a, <1>5, <3>0 DEF Written
    <3>2. Len(Append(a, u)) = Len(a) + 1
      BY LenProperties
    <3> QED
      BY <3>1, <3>2
  <2>3. Handling(c)
    BY <2>1 DEF ProperShape
  <2>4. Quiet(c)'
    BY <1>b, <2>1, <2>2, <2>3 DEF Handling, Last, Quiet
  <2> QED
    BY <2>1, <2>4 DEF ProperShape
<1>6. CASE http_cli_reset(c)
  <2>1. /\ UNCHANGED <<sent, answers, stream, chunked>> /\ pc[c] = "done"
        /\ resp_state[c] # "HTTP_HDR_BEGIN" /\ pc'[c] = "hdr" /\ hdr'[c] = <<>>
        /\ respcode'[c] = 0
    BY <1>a, <1>6 DEF http_cli_reset, Runs, netVars
  <2>2. (Quiet(c) \/ Waiting(c))'
    BY <2>1 DEF ProperShape, Quiet, Waiting, Last, Request
  <2> QED
    BY <2>1, <2>2 DEF ProperShape
<1>7. ASSUME NEW k \in 1 .. Len(stream[c]), RecvHdrMore(c, k) \/ RecvHdr(c, k)
      PROVE  respcode'[c] # 400 /\ ProperShape(c)'
  BY <1>7, ProperHeader
<1>8. ASSUME NEW k \in 1 .. Len(stream[c]), RecvBody(c, k)
      PROVE  respcode'[c] # 400 /\ ProperShape(c)'
  BY <1>8, ProperBody
<1>9. CASE \E code \in {200, 404, 408} : HandlerRespond(c, code)
  <2>1. PICK code \in {200, 404, 408} : HandlerRespond(c, code)
    BY <1>9
  <2>2. code # 400
    OBVIOUS
  <2> QED
    BY <1>4, <2>1, <2>2
<1>10. CASE RespondLast(c)
  BY <1>4, <1>10
<1> QED
  BY <1>1, <1>2, <1>3, <1>5, <1>6, <1>7, <1>8, <1>9, <1>10 DEF Serve

\* A proper peer, all of whose Content-Lengths are legible, has one request at
\* a time under way, the lthread is where that request has got to, and the
\* header buffer begins with a header, whatever bytes lie behind it.
THEOREM ProperInvariant == Spec => []ProperInv
<1>1. Init => ProperInv
  <2> SUFFICES ASSUME Init PROVE ProperInv
    OBVIOUS
  <2>1. ServerInv
    BY ServerInit
  <2>2. ASSUME NEW c \in Conns PROVE respcode[c] # 400 /\ ProperShape(c)
    <3>1. /\ ~chunked[c] /\ pc[c] = "off" /\ stream[c] = <<>> /\ hdr[c] = <<>>
          /\ sent[c] = <<>> /\ answers[c] = <<>> /\ respcode[c] = 0
      BY DEF Init
    <3>2. Quiet(c)
      BY <3>1 DEF Quiet
    <3> QED
      BY <3>1, <3>2 DEF ProperShape
  <2> QED
    BY <2>1, <2>2 DEF ProperInv
<1>2. ProperInv /\ [Next]_vars => ProperInv'
  <2> SUFFICES ASSUME ProperInv, [Next]_vars PROVE ProperInv'
    OBVIOUS
  <2>1. ServerInv /\ ServerInv' /\ TypeOK /\ ListenerShape
    BY ServerNext DEF ProperInv, ServerInv
  <2>2. ASSUME NEW c \in Conns, Proper(c)'
        PROVE  respcode'[c] # 400 /\ (conn'[c] # "closed" => ProperShape(c)')
    <3>1. /\ Proper(c) /\ respcode[c] # 400 /\ ControlShape(c)
          /\ conn[c] # "closed" => ProperShape(c)
      BY <2>1, <2>2, ProperBefore DEF ProperInv, ServerInv
    <3>2. CASE Same(c)
      BY <3>1, <3>2 DEF Same, ProperShape, Quiet, Waiting, Reading, Handling, Last, Request
    <3>3. CASE Opened(c)
      <4>1. /\ UNCHANGED <<sent, answers, stream, hdr, chunked, respcode, resp_state>>
            /\ pc[c] = "off" /\ conn[c] # "closed"
            /\ pc'[c] = "hdr" \/ conn'[c] = "closed"
        BY <3>1, <3>3 DEF Opened, ControlShape, reqVars, respVars
      <4> QED
        BY <3>1, <4>1 DEF ProperShape, Quiet, Waiting, Last, Request
    <3>4. CASE Peer(c)
      <4>1. conn[c] # "closed" /\ respcode' = respcode
        BY <3>4 DEF Peer, Connect, SendRequest, PeerClose, PeerReset, respVars
      <4>2. ProperShape(c)'
        BY <2>1, <2>2, <3>1, <3>4, <4>1, ProperPeer
      <4> QED
        BY <3>1, <4>1, <4>2
    <3>5. CASE Serve(c)
      <4>1. conn[c] # "closed"
        BY <3>5 DEF Serve, RecvHdrMore, RecvHdr, RecvBody, RecvHdrFail, RecvBodyEnd, Route,
                    HandlerRespond, Written, RespondLast, http_cli_reset, GiveUp, Runs
      <4> QED
        BY <2>1, <3>1, <3>5, <4>1, ProperServe
    <3> QED
      BY <2>1, <3>2, <3>3, <3>4, <3>5, Frame
  <2> QED
    BY <2>1, <2>2 DEF ProperInv
<1> QED
  BY <1>1, <1>2, PTL DEF Spec

\* A peer that waits for its answers and sends correct requests, with a body
\* only behind a legible Content-Length, is never refused, whatever packets
\* they arrive in and whatever is left in the buffer: http_recv_hdr leaves
\* nothing of an earlier packet or request in front of a header.
THEOREM NeverRefusedCorrect == Spec => []NeverRefused
<1>1. ProperInv => NeverRefused
  BY DEF ProperInv, NeverRefused
<1> QED
  BY <1>1, ProperInvariant, PTL

=============================================================================
