---------------------------- MODULE MCMicroBatch ----------------------------
(* Values for the constants of MicroBatch. *)
EXTENDS MicroBatch, TLC

CONSTANTS f1, f2, f3, f4

\* Every record its own key, and records that share keys.
OwnKey    == [r \in Records |-> r]
SharedKey == [r \in Records |-> IF r \in {f1, f2} THEN f1 ELSE f3]

\* Records with keys of their own differ in nothing but Blank.
Alike == Permutations(Records \ Blank)
=============================================================================
