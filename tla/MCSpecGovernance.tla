-------------------------- MODULE MCSpecGovernance --------------------------
(* Small instances of SpecGovernance for TLC. *)
EXTENDS SpecGovernance, TLC

CONSTANTS p1, p2, t1, t2

Symmetry == Permutations(Proc) \cup Permutations(Tests)
=============================================================================
