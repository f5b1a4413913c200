------------------------------ MODULE MCExpiry ------------------------------
(* Small instances of Expiry for TLC. *)
EXTENDS Expiry, TLC

CONSTANTS m1, q1, q2, q3, k1

MCQueueOf == [k \in Consumers |-> q1]

\* Queues live for 2 or 3 ms, everything else for 2.
MCPeriod == [o \in Objs |-> IF o = q2 THEN 3 ELSE 2]

=============================================================================
