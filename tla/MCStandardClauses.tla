-------------------------- MODULE MCStandardClauses --------------------------
(* StandardClauses on small instances.                                     *)
EXTENDS StandardClauses

Edit(h, b) == [op |-> "edit", clause |-> h, body |-> b, at |-> 0, before |-> NoText]
Delete(h) == [op |-> "delete", clause |-> h, body |-> NoText, at |-> 0, before |-> NoText]
Add(h, b, n) == [op |-> "add", clause |-> h, body |-> b, at |-> n, before |-> NoText]

MCFirstBody == <<"x", "y">>
MCText == {"x", "y"}

(* Every kind of operation, before and after, next to a deletion and two   *)
(* to one anchor.                                                          *)
MCDraft == {<<Edit(1, "y"), Add(1, "y", 0)>>, <<Delete(1), Add(2, "x", 1), Add(2, "y", 0)>>}

Symmetry == Permutations(Proc)
=============================================================================
