------------------------- MODULE MCStatementHistory -------------------------
(* Statements for StatementHistory. *)
EXTENDS StatementHistory

CONSTANT s1
=============================================================================
