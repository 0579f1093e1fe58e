------------------------ MODULE MCDistributedCleanup ------------------------
(* A small instance of DistributedCleanup for TLC. *)
EXTENDS DistributedCleanup

CONSTANTS f1, f2
TwoHubs == <<f1, f2>>
=============================================================================
