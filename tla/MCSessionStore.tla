--------------------------- MODULE MCSessionStore ---------------------------
(* Values of the constants of SessionStore for model checking. *)
EXTENDS SessionStore, TLC

CONSTANTS s1, s2, r1, r2, r3, small, large

MCSids == {s1, s2}
MCRequests == {r1, r2, r3}
MCTwoRequests == {r1, r2}
MCRoutes == {small, large}
MCTtls == {1, 2}
MCLimits == {1, 2}
MCOneTtl == {1}
MCOneLimit == {1}

Symmetric == Permutations(MCSids) \cup Permutations(MCRequests)
                \cup Permutations(MCRoutes)

=============================================================================
