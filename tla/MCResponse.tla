---------------------------- MODULE MCResponse ----------------------------
(* An instance of Response for TLC.  Tables begin with 3 slots and arrays   *)
(* with 1, so that small answers make them grow, some of them twice.        *)
EXTENDS Response, TLC

CONSTANTS qa, qb, qc, k1, k2

\* Escapes at the start, in the middle, at the end, side by side, and a NUL.
MCData == << <<"QUOTE", "a", "LF", "b">>, <<"a", "b", "BACKSLASH", "CTRL">>,
             <<>>, <<"a", "LF", "NUL", "b">> >>

MCFields == {"version", "ret", "error", "results", "ret_desc", "rev",
             "msgs_in_queue", "messages", "consumers"}

MCConsumersOf == (qa :> <<k1, k2>>) @@ (qb :> <<k1>>) @@ (qc :> <<>>)

\* qa and qb collide in every table of these sizes, qc in the smallest.
MCHash == [k \in QIds \union MCFields |->
            CASE k \in {qa, qb, "rev", "version"} -> 3
              [] k \in {qc, "ret", "messages"} -> 1
              [] OTHER -> 6]

=============================================================================
