----------------------------- MODULE MCBackend -----------------------------
(* Instances of Backend for TLC: sizes and durations include refused ones. *)
EXTENDS Backend

MCSizes == {0, 1, 2}
MCFaultDurations == {0, 1, 3}

=============================================================================
