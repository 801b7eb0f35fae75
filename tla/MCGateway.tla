----------------------------- MODULE MCGateway -----------------------------
(* An instance of Gateway for TLC: requests with all the strategies on and *)
(* requests with SingleFlight alone, because the configuration has changed *)
(* between them.  A request without SingleFlight does what a leader does   *)
(* whom nobody follows.                                                    *)
EXTENDS Gateway, TLC

Config(others, ttl, timeout) ==
    [singleFlight |-> TRUE, distributedLock |-> others, earlyRefresh |-> others,
     adaptiveTTL |-> others, minFactor |-> 50, maxFactor |-> 150, ttlL2 |-> ttl,
     timeout |-> timeout]

MCConfigs == {Config(TRUE, 2, 2), Config(FALSE, 1, 1)}

\* Below the smallest factor: the TTL of the first configuration is halved.
MCFactors == {25}

Symmetry == Permutations(Requests) \cup Permutations(Gateways)

=============================================================================
