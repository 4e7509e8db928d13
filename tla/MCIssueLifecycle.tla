-------------------------- MODULE MCIssueLifecycle ---------------------------
(* Constants of the runs.                                                  *)
EXTENDS IssueLifecycle, TLC

Symmetry == Permutations(Proc) \cup Permutations(Test)
=============================================================================
