------------------------- MODULE MCDistributedLock -------------------------
(* Small instances of DistributedLock.                                     *)
EXTENDS DistributedLock

=============================================================================
