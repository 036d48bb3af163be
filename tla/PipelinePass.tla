---------------------------- MODULE PipelinePass ----------------------------
(***************************************************************************)
(* The pipeline runner (oxidant-pipelines/runner.rs): passes over a graph  *)
(* of streaming and derived tables, what each pass decides about each      *)
(* table, and the PipelineState it saves between passes.                   *)
(*                                                                         *)
(* A table's contents are its version, which moves on every commit.  What  *)
(* a derived table was computed from is its basis: the versions of the     *)
(* tables it reads and the definition it was computed by.                  *)
(***************************************************************************)
EXTENDS Naturals, Sequences, FiniteSets

CONSTANTS
  Order,      \* the declared tables, as topological_order sorts them
  Streams,    \* streaming and AUTO CDC tables; the others are derived
  SqlReads,   \* SqlReads[t]: declared tables that t's `sql:` reads
  FlowReads,  \* FlowReads[t]: declared tables that t's append flows read
  Outside,    \* derived tables that read something the pipeline does not build
  OnceTables, \* once flows
  Selections, \* the `--table` lists operators run with; {} is the whole pipeline
  Faults,     \* the faults of this environment, from FaultKinds
  MaxVersion, \* bound: versions of a stream
  MaxTxn,     \* bound: recomputes of a derived table
  MaxEdits    \* bound: definitions a table has over time

FaultKinds == {"crash",  \* the driver dies
               "table",  \* a table fails before anything is written
               "late",   \* a table fails after its rows landed
               "load",   \* _pipeline-state.json cannot be read
               "save"}   \* _pipeline-state.json cannot be written

Tables  == {Order[i] : i \in DOMAIN Order}
Derived == Tables \ Streams

ASSUME ConstantsAssumption ==
  /\ Order \in Seq(Tables)
  /\ Streams \subseteq Tables /\ Outside \subseteq Derived /\ OnceTables \subseteq Tables
  /\ SqlReads \in [Tables -> SUBSET Tables] /\ FlowReads \in [Tables -> SUBSET Tables]
  /\ \A i, j \in DOMAIN Order : i # j => Order[i] # Order[j]
  /\ \A i, j \in DOMAIN Order : Order[i] \in SqlReads[Order[j]] => i < j
  /\ Selections \subseteq SUBSET Tables
  /\ Faults \subseteq FaultKinds /\ {MaxVersion, MaxTxn, MaxEdits} \subseteq Nat

\* Graph::build: a node's edges are the declared tables its `sql:` names.
DependsOn(t) == SqlReads[t]

\* Graph::subgraph: the wanted tables and all their ancestors.
Subgraph(wanted) ==
  LET closed(S) == \A t \in S : DependsOn(t) \subseteq S
  IN  IF wanted = {} THEN Tables
      ELSE {t \in Tables : \A S \in SUBSET Tables : wanted \subseteq S /\ closed(S) => t \in S}

\* PipelineState: epochs, the definition each table was built as (0: not built),
\* and the once flows that completed.
PipelineState == [epoch : [Derived -> Nat], built : [Derived -> Nat],
                  once : SUBSET OnceTables]
Fresh0 == [epoch |-> [t \in Derived |-> 0], built |-> [t \in Derived |-> 0], once |-> {}]

VARIABLES
  pending,    \* streams with records waiting at the source
  version,    \* contents of each table
  basis,      \* what each derived table was computed from
  txn,        \* highest txn version in each derived table's log
  definition, \* the declared definition_fingerprint of each table
  disk,       \* _pipeline-state.json
  state,      \* the runner's PipelineState
  pc,         \* "down", "between" passes, or in a "pass"
  nodes,      \* the tables of this run
  at,         \* one_pass: how far in Order it is
  failed,     \* one_pass: tables that failed or were skipped
  changed,    \* one_pass: tables that moved
  outcome,    \* TableOutcome of each table in the latest pass
  whole       \* history: every run took all tables and every table reached was built

tables == <<version, basis, txn>>
pass   == <<at, failed, changed, outcome>>
vars   == <<pending, tables, definition, disk, state, pc, nodes, pass, whole>>

Basis == [of : [Tables -> Nat], definition : Nat]

TypeOK ==
  /\ pending \subseteq Streams /\ version \in [Tables -> Nat]
  /\ basis \in [Derived -> Basis] /\ txn \in [Derived -> Nat]
  /\ definition \in [Tables -> Nat]
  /\ disk \in PipelineState /\ state \in PipelineState
  /\ pc \in {"down", "between", "pass"} /\ nodes \subseteq Tables
  /\ at \in 0..Len(Order)
  /\ failed \subseteq Tables /\ changed \subseteq Tables
  /\ outcome \in [Tables -> {"none", "updated", "unchanged", "skipped", "failed"}]
  /\ whole \in BOOLEAN

None == [t \in Tables |-> "none"]

Init ==
  /\ pending = {} /\ version = [t \in Tables |-> 0]
  /\ basis = [t \in Derived |-> [of |-> [u \in Tables |-> 0], definition |-> 0]]
  /\ txn = [t \in Derived |-> 0] /\ definition = [t \in Tables |-> 1]
  /\ disk = Fresh0 /\ state = Fresh0
  /\ pc = "down" /\ nodes = {} /\ at = 0 /\ failed = {} /\ changed = {} /\ outcome = None
  /\ whole = TRUE

\* What a recompute of t reads now: flow_queries takes `sql:` and every append flow.
Inputs(t) == [of |-> [u \in Tables |-> IF u \in SqlReads[t] \cup FlowReads[t]
                                       THEN version[u] ELSE 0],
              definition |-> definition[t]]

-----------------------------------------------------------------------------
(* The environment: records arrive; the operator edits a table's declaration *)
(* or clears the pipeline's state while the driver is down.                  *)

Arrive(s) == /\ s \notin pending /\ version[s] < MaxVersion
             /\ pending' = pending \cup {s}
             /\ UNCHANGED <<tables, definition, disk, state, pc, nodes, pass, whole>>

Edit(t) == /\ pc = "down" /\ t \in Derived /\ definition[t] < MaxEdits
           /\ definition' = [definition EXCEPT ![t] = @ + 1]
           /\ UNCHANGED <<pending, tables, disk, state, pc, nodes, pass, whole>>

\* clear_pipeline_state: some tables, or (S empty in the call) all of them.
ClearState ==
  /\ pc = "down"
  /\ \E S \in SUBSET Tables :
       disk' = [epoch |-> [t \in Derived |-> IF t \in S THEN 0 ELSE disk.epoch[t]],
                built |-> [t \in Derived |-> IF t \in S THEN 0 ELSE disk.built[t]],
                once  |-> disk.once \ S]
  /\ UNCHANGED <<pending, tables, definition, state, pc, nodes, pass, whole>>

Down == /\ pc' = "down" /\ state' = Fresh0 /\ nodes' = {}
        /\ at' = 0 /\ failed' = {} /\ changed' = {} /\ outcome' = None
        /\ UNCHANGED <<pending, tables, definition, disk>>

Crash == "crash" \in Faults /\ pc = "pass" /\ Down /\ whole' = FALSE

-----------------------------------------------------------------------------
(* run_pipeline *)

\* PipelineState::load: an unreadable object reads as a fresh state.
Start ==
  /\ pc = "down" /\ pc' = "between"
  /\ state' \in {disk} \cup (IF "load" \in Faults THEN {Fresh0} ELSE {})
  /\ \E wanted \in Selections : nodes' = Subgraph(wanted)
  /\ whole' = (whole /\ nodes' = Tables)
  /\ UNCHANGED <<pending, tables, definition, disk, pass>>

BeginPass ==
  /\ pc = "between" /\ pc' = "pass"
  /\ \A t \in Derived : txn[t] < MaxTxn /\ state.epoch[t] < MaxTxn
  /\ at' = 0 /\ failed' = {} /\ changed' = {} /\ outcome' = None
  /\ UNCHANGED <<pending, tables, definition, disk, state, nodes, whole>>

Position(t) == CHOOSE i \in DOMAIN Order : Order[i] = t

\* The nodes of the run still to come, in the order of the whole pipeline.
ToCome == {t \in nodes : Position(t) > at}

\* The state is saved after the pass; a failure to is reported and ignored.
EndPass ==
  /\ pc = "pass" /\ ToCome = {} /\ pc' = "between"
  /\ disk' \in {state} \cup (IF "save" \in Faults THEN {disk} ELSE {})
  /\ UNCHANGED <<pending, tables, definition, state, nodes, pass, whole>>

\* A once run returns after its pass; a processing-time run ends when stopped.
Exit == pc = "between" /\ Down /\ UNCHANGED whole

-----------------------------------------------------------------------------
(* one_pass: the loop body, for the node reached *)

Report(t, what) == /\ outcome' = [outcome EXCEPT ![t] = what] /\ at' = Position(t)
Now(t) == pc = "pass" /\ t \in ToCome /\ \A u \in ToCome : Position(t) <= Position(u)

Blocked(t)  == DependsOn(t) \cap failed # {}
OnceDone(t) == t \in OnceTables /\ t \in state.once

\* Mutant: built, by whatever definition.
UpToDateAnyDefinition(t) == /\ t \in Derived \ Outside
                            /\ state.built[t] # 0
                            /\ DependsOn(t) \cap changed = {}

\* Nothing it reads moved in this pass, and it was built by this definition.
UpToDate(t) == /\ t \in Derived \ Outside
               /\ state.built[t] = definition[t]
               /\ DependsOn(t) \cap changed = {}

\* Mutant: a skipped table does not join `failed`.
SkipForgotten(t) ==
  /\ Now(t) /\ Blocked(t)
  /\ Report(t, "skipped") /\ UNCHANGED failed
  /\ UNCHANGED <<pending, tables, definition, disk, state, pc, nodes, changed, whole>>

Skip(t) ==
  /\ Now(t) /\ Blocked(t)
  /\ Report(t, "skipped") /\ failed' = failed \cup {t}
  /\ UNCHANGED <<pending, tables, definition, disk, state, pc, nodes, changed, whole>>

Keep(t) ==
  /\ Now(t) /\ ~Blocked(t) /\ (OnceDone(t) \/ UpToDate(t))
  /\ Report(t, "unchanged")
  /\ UNCHANGED <<pending, tables, definition, disk, state, pc, nodes, failed, changed, whole>>

Runs(t) == Now(t) /\ ~Blocked(t) /\ ~OnceDone(t) /\ ~UpToDate(t)

\* The error arm: the table joins `failed`, and nothing else is recorded.
Fails(t) == /\ Report(t, "failed") /\ failed' = failed \cup {t}
            /\ UNCHANGED changed /\ whole' = FALSE

MarkOnce(t) == IF t \in OnceTables THEN state.once \cup {t} ELSE state.once

\* Mutant: a stream that moved no rows counts as changed.
AdvanceIdle(t) ==
  /\ Runs(t) /\ t \in Streams
  /\ version' = IF t \in pending THEN [version EXCEPT ![t] = @ + 1] ELSE version
  /\ pending' = pending \ {t}
  /\ Report(t, "updated") /\ UNCHANGED <<failed, whole>> /\ changed' = changed \cup {t}
  /\ state' = [state EXCEPT !.once = MarkOnce(t)]
  /\ UNCHANGED <<basis, txn, definition, disk, pc, nodes>>

\* advance_stream: the records waiting, if any, become a commit of the table.
AdvanceStream(t) ==
  /\ Runs(t) /\ t \in Streams
  /\ version' = IF t \in pending THEN [version EXCEPT ![t] = @ + 1] ELSE version
  /\ pending' = pending \ {t}
  /\ \/ /\ Report(t, "updated") /\ UNCHANGED <<failed, whole>>
        /\ changed' = IF t \in pending THEN changed \cup {t} ELSE changed
        /\ state' = [state EXCEPT !.once = MarkOnce(t)]
     \/ "late" \in Faults /\ Fails(t) /\ UNCHANGED state
  /\ UNCHANGED <<basis, txn, definition, disk, pc, nodes>>

\* Mutant: the epoch alone decides.
VersionOfEpoch(t) == state.epoch[t] + 1

\* recompute's txn version: above the epoch and above what the log carries.
Version(t) == LET next == state.epoch[t] + 1
              IN  IF next > txn[t] THEN next ELSE txn[t] + 1

\* recompute: replace_batch commits, unless the version reads as a replay.
\* mark_built runs only when the table's result is Ok.
Recompute(t) ==
  /\ Runs(t) /\ t \in Derived
  /\ IF Version(t) > txn[t]
     THEN /\ version' = [version EXCEPT ![t] = @ + 1]
          /\ basis' = [basis EXCEPT ![t] = Inputs(t)]
          /\ txn' = [txn EXCEPT ![t] = Version(t)]
     ELSE UNCHANGED tables
  /\ \/ /\ Report(t, "updated") /\ changed' = changed \cup {t} /\ UNCHANGED <<failed, whole>>
        /\ state' = [epoch |-> [state.epoch EXCEPT ![t] = Version(t)],
                     built |-> [state.built EXCEPT ![t] = definition[t]],
                     once  |-> MarkOnce(t)]
     \/ /\ "late" \in Faults /\ Fails(t)
        /\ state' = [state EXCEPT !.epoch = [@ EXCEPT ![t] = Version(t)]]
  /\ UNCHANGED <<pending, definition, disk, pc, nodes>>

\* The table fails with nothing written: before the write, or in the write
\* after the epoch was taken.
FailTable(t) ==
  /\ Runs(t) /\ "table" \in Faults
  /\ Fails(t)
  /\ \/ UNCHANGED state
     \/ t \in Derived /\ state' = [state EXCEPT !.epoch = [@ EXCEPT ![t] = Version(t)]]
  /\ UNCHANGED <<pending, tables, definition, disk, pc, nodes>>

Next ==
  \/ Start \/ BeginPass \/ EndPass \/ Exit \/ Crash \/ ClearState
  \/ \E s \in Streams : Arrive(s)
  \/ \E t \in Tables : \/ Edit(t) \/ Skip(t) \/ Keep(t)
                       \/ AdvanceStream(t) \/ Recompute(t) \/ FailTable(t)

Spec == Init /\ [][Next]_vars

-----------------------------------------------------------------------------
(* Properties, of the outcomes a completed pass reports *)

Reported(t, what) == pc = "between" /\ outcome[t] = what

\* A derived table reported updated holds what its definition computes from the
\* tables as the pass left them, and its commit was not dropped as a replay.
UpdatedIsCurrent ==
  \A t \in Derived : Reported(t, "updated") => basis[t] = Inputs(t)

\* A derived table reported unchanged could not have come out different: nothing
\* it reads and nothing in its declaration moved since it was computed.  So it is
\* while every run takes all tables and completes, and no table has failed.
UnchangedIsCurrent ==
  whole => \A t \in Derived \ OnceTables : Reported(t, "unchanged") => basis[t] = Inputs(t)

\* Nothing downstream of a table that failed in a pass, however far, is updated
\* or vouched for in that pass.
FailureContained ==
  \A t \in Tables : \A u \in nodes :
    (Reported(t, "failed") \/ Reported(t, "skipped")) /\ t \in DependsOn(u)
      => Reported(u, "skipped")

\* A derived table is rewritten only when it could come out different: its basis
\* is out of date, or the state does not know it as built by this definition.
NoIdleRewrite ==
  [][\A t \in Derived \ Outside :
       version'[t] # version[t] => basis[t] # Inputs(t) \/ state.built[t] # definition[t]]_vars
=============================================================================
