--------------------------- MODULE MCLoadSignals ---------------------------
(* Instances of LoadSignals for TLC.                                       *)
EXTENDS LoadSignals, TLC

Symmetry == Permutations(Goroutines)

=============================================================================
