------------------------------ MODULE MCServices ------------------------------
(* Services for TLC. *)
EXTENDS Services, TLC

CONSTANTS k1, k2, e1

\* Turns of DeepSeek and of another provider, and one of DeepSeek without a
\* trace that is already on disk.
MCContents == {[key |-> k1, own |-> FALSE, trace |-> FALSE],
               [key |-> k2, own |-> TRUE, trace |-> TRUE]}
MCEarlier == <<[id |-> e1, key |-> k1, own |-> TRUE, trace |-> FALSE]>>

\* A client that repeats a message around another one.
MCHistories == {<<k1, k2, k1>>}

\* Two labels, one of which names a tier; the catalog may map the other one.
MCBases ==
    [mode : {"override", "cap"}, labels : {[simple |-> None, own |-> 0]},
     by_label : {[name \in {} |-> 0], [own |-> 3]}, by_tier : {[simple |-> 1]},
     fallback : {2}]

MCSections ==
    [mode : {"off", "preserve", "fill", "cap", "override", None},
     by_label : {None, [simple |-> 0]}, by_tier : {None, [simple |-> 3]},
     fallback : {None, 0}]

MCCollections == {[simple |-> None], [simple |-> 2], [own |-> None]}

\* Operators and PIDs are only ever compared, and no property is a liveness one.
MCSymmetry == Permutations(Operators) \cup Permutations(Pids)

=============================================================================
