--------------------------- MODULE MCAdaptiveTTL ---------------------------
(* An instance of AdaptiveTTL for TLC.  The reading of the backend is the  *)
(* same all along; it is the configuration that makes it a congested or a  *)
(* stable one, or switches the controller off, so that a loop that still   *)
(* has the configuration from before a save disagrees with the others.     *)
EXTENDS AdaptiveTTL

Config(enabled, minFactor, maxFactor, latencyThreshold) ==
    [enabled |-> enabled, minFactor |-> minFactor, maxFactor |-> maxFactor,
     latencyThreshold |-> latencyThreshold, concurrencyThreshold |-> 10]

Rising == Config(TRUE, 100, 105, 10)
Falling == Config(TRUE, 95, 100, 20)
Off == Config(FALSE, 100, 100, 10)

MCConfigs == {Rising, Falling, Off}

MCSignals == {[p99 |-> 10, active |-> 8, samples |-> 20]}

=============================================================================
