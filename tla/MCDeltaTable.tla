---------------------------- MODULE MCDeltaTable ----------------------------
(* Values for the constants of DeltaTable. *)
EXTENDS DeltaTable

CONSTANTS w1, w2

OwnApps == [w \in Writers |-> w]

\* A streaming sink; a writer used both ways; a stream beside a derived table.
Appends     == [w \in Writers |-> {"append"}]
Both        == [w \in Writers |-> {"append", "replace"}]
OneReplaces == [w \in Writers |-> IF w = w2 THEN {"replace"} ELSE {"append"}]
=============================================================================
