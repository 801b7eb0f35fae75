--------------------------- MODULE MCSingleFlight ---------------------------
(* Small instances of SingleFlight.                                        *)
EXTENDS SingleFlight

=============================================================================
