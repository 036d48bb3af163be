--------------------------- MODULE MCPipelinePass ---------------------------
(* An instance of PipelinePass: a medallion pipeline with a seed table. *)
EXTENDS PipelinePass

CONSTANTS seed, bronze, silver, gold

AllTables == {seed, bronze, silver, gold}
Medallion == <<seed, bronze, silver, gold>>
Reads     == [t \in AllTables |-> CASE t = silver -> {bronze}
                                    [] t = gold   -> {silver, seed}
                                    [] OTHER      -> {}]
\* gold's append flow reads seed, which its `sql:` names too.
SeedFlow  == [t \in AllTables |-> IF t = gold THEN {seed} ELSE {}]
OneTable  == {{}, {silver}}
=============================================================================
