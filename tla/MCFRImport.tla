----------------------------- MODULE MCFRImport -----------------------------
(* Small instances of FRImport for TLC. *)
EXTENDS FRImport, TLC

(* Feeders are interchangeable: no definition orders or names them. *)
Symmetry == Permutations(Feeders)
=============================================================================
