----------------------------- MODULE MCMemQueue -----------------------------
(* Small instances of the engine and its contract for TLC. *)
EXTENDS MemQueueContract, TLC

CONSTANTS qa, qb, q1, q2, c1, c2, k1

Opt(e, n, d, k) == [expiry |-> e, max_size |-> n, drop_from_head |-> d,
                    consumer_expiry |-> k]

\* A bounded queue of either policy, and an unbounded one with consumers.
MCOptions == {Opt(TRUE, 1, TRUE, FALSE), Opt(FALSE, 1, FALSE, FALSE),
              Opt(TRUE, 0, FALSE, TRUE)}

\* The same, and consumers at a queue that does not expire.
MCOptionsContract == MCOptions \union {Opt(FALSE, 0, FALSE, TRUE)}

\* One kind of queue: its consumers are tracked, it neither expires nor fills.
MCTracked == {Opt(FALSE, 0, FALSE, TRUE)}

Symmetry == Permutations({c1, c2})

=============================================================================
