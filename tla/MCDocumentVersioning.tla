------------------------ MODULE MCDocumentVersioning ------------------------
(* Small instances of DocumentVersioning for TLC. *)
EXTENDS DocumentVersioning, TLC

MCTables == <<"sections", "acs">>
MCPrunable == {"acs"}

TasksAndComments == <<"tasks", "comments">>
AcsAndComments == <<"acs", "comments">>

Symmetry == Permutations(Proc)
=============================================================================
