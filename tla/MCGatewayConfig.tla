-------------------------- MODULE MCGatewayConfig --------------------------
(* Small instances of GatewayConfig.                                       *)
EXTENDS GatewayConfig, TLC

\* Requests and savers are interchangeable; gateways are not, because an idle
\* request names one.
ActorSymmetry == Permutations(Requests) \cup Permutations(Savers)

=============================================================================
