----------------------------- MODULE MCL2Cache -----------------------------
(* Small instances of L2Cache.                                             *)
EXTENDS L2Cache, TLC

\* Keys, values and clients are interchangeable.
L2Symmetry == Permutations(Keys) \cup Permutations(Values) \cup Permutations(Clients)

=============================================================================
