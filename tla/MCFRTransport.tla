--------------------------- MODULE MCFRTransport ---------------------------
(* Small instances of FRTransport for TLC. *)
EXTENDS FRTransport, TLC

(* Nothing orders feeders or pids; superhubs too are only told apart by    *)
(* Known, which is all or none of them in these instances.                 *)
Symmetry == Permutations(Feeders) \cup Permutations(Pids) \cup Permutations(Superhubs)
=============================================================================
