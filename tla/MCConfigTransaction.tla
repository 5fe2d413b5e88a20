------------------------ MODULE MCConfigTransaction ------------------------
(* Values of the constants of ConfigTransaction for model checking. *)
EXTENDS ConfigTransaction, TLC

CONSTANTS models, overlay, c1, c2, s1, o1, t1

MCFiles == {models, overlay}
MCTracked == {models, overlay}
MCTwoClients == {c1, c2}
MCOneClient == {c1}
MCNobody == {}
MCStrategies == {s1}
MCOverlays == {o1}
MCClis == {t1}

SymmetricClients == Permutations(MCTwoClients)

=============================================================================
