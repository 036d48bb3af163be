--------------------------- MODULE MCCdcPipeline ---------------------------
(* Instances of CdcPipeline: two source tables of one row each. *)
EXTENDS CdcPipeline, TLC

CONSTANTS k1, k2

TwoTables == (k1 :> 0) @@ (k2 :> 1)
=============================================================================
