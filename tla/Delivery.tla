------------------------------ MODULE Delivery ------------------------------
(***************************************************************************)
(* What a streaming query promises about its table, with no batches, logs  *)
(* or restarts in it: records arrive at the source, each commit appends a  *)
(* set of records the table does not hold yet, and the source may let go   *)
(* of a record only once the table holds it.  MicroBatch implements this.  *)
(***************************************************************************)
EXTENDS Naturals

CONSTANTS Records,  \* what the source can ever hold (a file, an offset)
          Blank     \* the ones that yield no row (compacted, blank lines)

VARIABLES arrived,  \* records the source holds
          copies,   \* copies[r]: rows of the table that came from r
          released  \* records the upstream server was told it may discard

vars == <<arrived, copies, released>>

Init == /\ arrived = {}
        /\ copies = [r \in Records |-> 0]
        /\ released = {}

Arrive(R) == /\ arrived' = arrived \cup R
             /\ UNCHANGED <<copies, released>>

\* One table commit: rows that have arrived and are in no earlier commit.
Commit(R) == /\ R \subseteq arrived
             /\ \A r \in R : copies[r] = 0
             /\ copies' = [r \in Records |-> IF r \in R THEN 1 ELSE copies[r]]
             /\ UNCHANGED <<arrived, released>>

Release(R) == /\ R \subseteq arrived
              /\ \A r \in R \ Blank : copies[r] = 1
              /\ released' = released \cup R
              /\ UNCHANGED <<arrived, copies>>

Next == \E R \in SUBSET Records : Arrive(R) \/ Commit(R) \/ Release(R)

Spec == Init /\ [][Next]_vars
=============================================================================
