--------------------------- MODULE MCRecordWriter ---------------------------
(* Values of the constants of RecordWriter for model checking. *)
EXTENDS RecordWriter, TLC

CONSTANTS q1, q2, v1, v2, c1

MCRequests == {q1, q2}
MCOneRequest == {q1}
MCConfigs == {v1, v2}
MCOneConfig == {v1}
MCCallers == {c1}
MCNobody == {}

Symmetric == Permutations(MCRequests)

=============================================================================
