------------------------ MODULE MCMemQueueFollowers ------------------------
(* Small instances of MemQueueFollowers for TLC. *)
EXTENDS MemQueueFollowers, TLC

CONSTANTS qa, qb, q1, q2, c1, c2, k1

Opt(e, n, d, k) == [expiry |-> e, max_size |-> n, drop_from_head |-> d,
                    consumer_expiry |-> k]

\* A queue that drops from the head, and one that tracks its consumers.
MCOptions == {Opt(FALSE, 1, TRUE, FALSE), Opt(FALSE, 0, FALSE, TRUE)}

Symmetry == Permutations({c1, c2})

=============================================================================
