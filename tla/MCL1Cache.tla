----------------------------- MODULE MCL1Cache -----------------------------
(* A small instance of L1Cache.                                            *)
EXTENDS L1Cache, TLC

\* Keys are interchangeable.
KeySymmetry == Permutations(Keys)

=============================================================================
