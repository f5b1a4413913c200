---------------------------- MODULE MCHttpServer ----------------------------
(* Instances of HttpServer for TLC. *)
EXTENDS HttpServer, TLC

Kind(m, p, l) == [method |-> m, path |-> p, len |-> l, chunked |-> FALSE,
                  last |-> FALSE, space |-> TRUE, lead |-> FALSE,
                  form |-> "ok", blanks |-> 0]
Chunked(r) == [r EXCEPT !.chunked = TRUE]
Form(r, f) == [r EXCEPT !.form = f]
Last(r) == [r EXCEPT !.last = TRUE]

\* A POST with a body, a GET with a stray one, no route, and bad headers.
MCMixed == {Kind("POST", "queue", 2), Kind("GET", "queue", 1),
            Kind("GET", "root", 0)}
                \union {Form(Kind("PUT", "queue", 0), f) :
                            f \in {"method", "line", "proto", "host", "nul"}}

\* Every method, the two ways to poll, and a queue named mpoll_something.
MCDocumented == {Kind(m, "queue", 0) : m \in {"PUT", "DELETE", "HEAD"}}
                    \union {Kind("GET", "mpoll", 0), Kind("GET", "mpoll_prefix", 0)}

\* A CRLF, and one blank more, before a header.
MCBlanks == {[Kind("POST", "queue", 1) EXCEPT !.blanks = 2],
             [Kind("PUT", "queue", 0) EXCEPT !.blanks = 3]}

\* A body that begins with a blank, behind a header whose last field is the
\* Content-Length, and one whose last field is another.
MCLead == {[Kind("POST", "queue", 2) EXCEPT !.lead = TRUE],
           [Last(Kind("POST", "queue", 2)) EXCEPT !.lead = TRUE]}

\* A Content-Length that comes last, and one without a space.
MCLost == {Last(Kind("POST", "queue", 1)),
           [Kind("POST", "queue", 1) EXCEPT !.space = FALSE]}

MCKinds == MCMixed \union MCDocumented \union MCBlanks \union MCLead \union MCLost
                \union {Chunked(Kind("POST", "queue", 1))}

\* A chunked POST and one with a Content-Length.
MCChunked == {Chunked(Kind("POST", "queue", 2)), Kind("POST", "queue", 2)}

=============================================================================
