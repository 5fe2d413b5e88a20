-------------------------- MODULE MCStreamDelivery --------------------------
(* Values of the constants of StreamDelivery for model checking. *)
EXTENDS StreamDelivery, TLC

CONSTANTS q1, q2

MCRequests == {q1, q2}
MCOneRequest == {q1}

Symmetric == Permutations(MCRequests)

=============================================================================
