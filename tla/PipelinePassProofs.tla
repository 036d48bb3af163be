------------------------- MODULE PipelinePassProofs -------------------------
(***************************************************************************)
(* Proofs of PipelinePass: what a completed pass reports is true of the    *)
(* tables, for every graph, selection, fault and number of passes.         *)
(***************************************************************************)
EXTENDS PipelinePass, TLAPS

\* The tables an append flow reads are named by the table's `sql:` too, so that
\* Graph::build sees every table a recompute reads.
FlowsNamed == \A t \in Derived : FlowReads[t] \subseteq SqlReads[t]

-----------------------------------------------------------------------------
(* The order of the graph *)

\* Positions number the tables, and what a table's `sql:` reads comes before it.
LEMMA Positions ==
  /\ \A t \in Tables : Position(t) \in 1..Len(Order) /\ Position(t) \in Nat
  /\ \A t, u \in Tables : Position(t) = Position(u) => t = u
  /\ \A t, u \in Tables : t \in SqlReads[u] => Position(t) < Position(u)
<1>1. DOMAIN Order = 1..Len(Order) /\ Len(Order) \in Nat
  BY ConstantsAssumption DEF ConstantsAssumption
<1>2. \A t \in Tables : Position(t) \in DOMAIN Order /\ Order[Position(t)] = t
  BY Zenon DEF Tables, Position
<1>3. \A t, u \in Tables : Position(t) = Position(u) => t = u
  BY Zenon, <1>2
<1>4. \A t, u \in Tables : t \in SqlReads[u] => Position(t) < Position(u)
  <2> SUFFICES ASSUME NEW t \in Tables, NEW u \in Tables, t \in SqlReads[u]
               PROVE  Position(t) < Position(u)
    BY Zenon
  <2>1. \A i, j \in DOMAIN Order : Order[i] \in SqlReads[Order[j]] => i < j
    BY Zenon, ConstantsAssumption DEF ConstantsAssumption
  <2> QED BY Zenon, <1>2, <2>1
<1> QED BY <1>1, <1>2, <1>3, <1>4

\* After the loop body ran for t, the nodes behind are those that were and t.
LEMMA Advance ==
  ASSUME TypeOK, NEW t \in Tables, Now(t), at' = Position(t)
  PROVE  /\ t \in nodes /\ pc = "pass" /\ Position(t) > at
         /\ \A u \in nodes : Position(u) <= at' <=> (u = t \/ Position(u) <= at)
         /\ \A u \in Tables : Position(u) <= at => Position(u) <= at' /\ t \notin SqlReads[u]
         /\ t \notin SqlReads[t]
<1>1. t \in nodes /\ pc = "pass" /\ Position(t) > at
  BY Zenon DEF Now, ToCome
<1>2. at \in Nat /\ nodes \subseteq Tables
  BY Positions DEF TypeOK
<1>3. ASSUME NEW u \in nodes, Position(u) <= at', u # t
      PROVE  Position(u) <= at
  <2>1. SUFFICES ASSUME Position(u) > at PROVE FALSE
    BY <1>2, Positions
  <2>2. Position(t) <= Position(u)
    BY Zenon, <2>1 DEF Now, ToCome
  <2> QED BY <1>2, <1>3, <2>2, Positions
<1>4. ASSUME NEW u \in Tables, Position(u) <= at
      PROVE  Position(u) <= at' /\ t \notin SqlReads[u]
  BY <1>1, <1>2, <1>4, Positions
<1>5. t \notin SqlReads[t]
  BY Positions
<1>6. Position(t) <= at'
  BY Positions
<1> QED BY Zenon, <1>1, <1>2, <1>3, <1>4, <1>5, <1>6

\* What a recompute would read depends on the versions of the tables `sql:` names
\* and on the definition.
LEMMA InputsKept ==
  ASSUME FlowsNamed, NEW t \in Derived, definition'[t] = definition[t],
         \A u \in SqlReads[t] : version'[u] = version[u]
  PROVE  Inputs(t)' = Inputs(t)
<1>1. \A u \in SqlReads[t] \cup FlowReads[t] : version'[u] = version[u]
  BY Zenon DEF FlowsNamed
<1>2. [u \in Tables |-> IF u \in SqlReads[t] \cup FlowReads[t] THEN version'[u] ELSE 0]
      = [u \in Tables |-> IF u \in SqlReads[t] \cup FlowReads[t] THEN version[u] ELSE 0]
  BY Zenon, <1>1
<1> QED BY Zenon, <1>2 DEF Inputs

-----------------------------------------------------------------------------
(* Types *)

LEMMA SubgraphType == \A wanted : Subgraph(wanted) \subseteq Tables
BY Zenon DEF Subgraph

LEMMA Fresh0Type == Fresh0 \in PipelineState /\ None \in [Tables -> {"none"}]
BY Zenon DEF Fresh0, PipelineState, None

LEMMA InputsType ==
  ASSUME TypeOK, NEW t \in Derived
  PROVE  Inputs(t) \in Basis
<1>1. version \in [Tables -> Nat] /\ definition[t] \in Nat
  BY Zenon DEF TypeOK, Derived
<1>2. [u \in Tables |-> IF u \in SqlReads[t] \cup FlowReads[t] THEN version[u] ELSE 0]
      \in [Tables -> Nat]
  BY Zenon, <1>1
<1> QED BY Zenon, <1>1, <1>2 DEF Inputs, Basis

LEMMA VersionType ==
  ASSUME TypeOK, NEW t \in Derived
  PROVE  Version(t) \in Nat /\ Version(t) > txn[t]
<1>1. state.epoch[t] \in Nat /\ txn[t] \in Nat
  BY Zenon DEF TypeOK, PipelineState
<1> QED BY <1>1 DEF Version

\* The states a step on t leaves behind.
LEMMA StateType ==
  ASSUME TypeOK, NEW t \in Tables
  PROVE  /\ [state EXCEPT !.once = MarkOnce(t)] \in PipelineState
         /\ t \in Derived =>
              /\ [state EXCEPT !.epoch = [@ EXCEPT ![t] = Version(t)]] \in PipelineState
              /\ [epoch |-> [state.epoch EXCEPT ![t] = Version(t)],
                  built |-> [state.built EXCEPT ![t] = definition[t]],
                  once  |-> MarkOnce(t)] \in PipelineState
<1>1. MarkOnce(t) \subseteq OnceTables
  BY Zenon DEF MarkOnce, TypeOK, PipelineState
<1>2. t \in Derived => Version(t) \in Nat /\ definition[t] \in Nat
  BY Zenon, VersionType DEF TypeOK, Derived
<1>3. state \in PipelineState
  BY Zenon DEF TypeOK
<1> QED BY Zenon, <1>1, <1>2, <1>3 DEF PipelineState

LEMMA TypeInit == Init => TypeOK
<1> SUFFICES ASSUME Init PROVE TypeOK
  BY Zenon
<1>1. basis \in [Derived -> Basis]
  BY Zenon DEF Init, Basis
<1>2. Len(Order) \in Nat
  BY ConstantsAssumption DEF ConstantsAssumption
<1> QED BY <1>1, <1>2, Fresh0Type DEF Init, TypeOK

\* A step of the loop body reports on one node.
LEMMA ReportType ==
  ASSUME TypeOK, NEW t \in Tables, NEW what \in {"updated", "unchanged", "skipped", "failed"},
         Report(t, what)
  PROVE  /\ outcome' \in [Tables -> {"none", "updated", "unchanged", "skipped", "failed"}]
         /\ at' \in 0..Len(Order)
         /\ outcome'[t] = what
         /\ \A u \in Tables \ {t} : outcome'[u] = outcome[u]
<1>1. Len(Order) \in Nat /\ Position(t) \in 0..Len(Order)
  BY Positions, ConstantsAssumption DEF ConstantsAssumption
<1> QED BY Zenon, <1>1 DEF TypeOK, Report

\* A recompute always commits: its txn version is above the one in the log.
LEMMA Rewrites ==
  ASSUME TypeOK, NEW t \in Tables, Recompute(t)
  PROVE  /\ t \in Derived
         /\ version' = [version EXCEPT ![t] = @ + 1]
         /\ basis' = [basis EXCEPT ![t] = Inputs(t)]
         /\ txn' = [txn EXCEPT ![t] = Version(t)]
<1>1. t \in Derived
  BY Zenon DEF Recompute
<1>2. Version(t) > txn[t]
  BY Zenon, <1>1, VersionType
<1> QED BY Zenon, <1>1, <1>2 DEF Recompute

LEMMA TypeStep == TypeOK /\ [Next]_vars => TypeOK'
<1> SUFFICES ASSUME TypeOK, [Next]_vars PROVE TypeOK'
  BY Zenon
<1> USE DEF tables, pass
<1>0. Len(Order) \in Nat
  BY ConstantsAssumption DEF ConstantsAssumption
<1>1. CASE Start
  <2>1. nodes' \subseteq Tables
    BY Zenon, <1>1, SubgraphType DEF Start
  <2>2. state' \in PipelineState
    BY Zenon, <1>1, Fresh0Type DEF Start, TypeOK
  <2> QED BY Zenon, <1>1, <2>1, <2>2 DEF Start, TypeOK
<1>2. CASE BeginPass
  BY <1>0, <1>2, Fresh0Type DEF BeginPass, TypeOK
<1>3. CASE EndPass
  BY Zenon, <1>3 DEF EndPass, TypeOK
<1>4. CASE Exit
  BY <1>0, <1>4, Fresh0Type DEF Exit, Down, TypeOK
<1>5. CASE Crash
  <2>1. Down /\ whole' = FALSE
    BY Zenon, <1>5 DEF Crash
  <2>2. outcome' \in [Tables -> {"none", "updated", "unchanged", "skipped", "failed"}]
    BY Zenon, <2>1, Fresh0Type DEF Down
  <2>3. state' \in PipelineState /\ at' \in 0..Len(Order)
    BY <1>0, <2>1, Fresh0Type DEF Down
  <2>4. whole' \in BOOLEAN
    BY <2>1, Zenon
  <2> QED BY Zenon, <2>1, <2>2, <2>3, <2>4 DEF Down, TypeOK
<1>6. CASE ClearState
  <2>1. disk' \in PipelineState
    BY <1>6 DEF ClearState, TypeOK, PipelineState
  <2> QED BY Zenon, <1>6, <2>1 DEF ClearState, TypeOK
<1>7. ASSUME NEW s \in Streams, Arrive(s) PROVE TypeOK'
  BY Zenon, <1>7 DEF Arrive, TypeOK
<1>8. ASSUME NEW t \in Tables, Edit(t) PROVE TypeOK'
  BY <1>8 DEF Edit, TypeOK
<1>9. ASSUME NEW t \in Tables, Skip(t) PROVE TypeOK'
  BY Zenon, <1>9, ReportType DEF Skip, TypeOK
<1>10. ASSUME NEW t \in Tables, Keep(t) PROVE TypeOK'
  BY Zenon, <1>10, ReportType DEF Keep, TypeOK
<1>11. ASSUME NEW t \in Tables, AdvanceStream(t) PROVE TypeOK'
  <2>1. state' \in PipelineState
    BY <1>11, StateType, Zenon DEF AdvanceStream, TypeOK
  <2>2. version' \in [Tables -> Nat]
    BY <1>11 DEF AdvanceStream, TypeOK
  <2>3. /\ outcome' \in [Tables -> {"none", "updated", "unchanged", "skipped", "failed"}]
        /\ at' \in 0..Len(Order)
    BY Zenon, <1>11, ReportType DEF AdvanceStream, Fails
  <2>4. failed' \subseteq Tables /\ changed' \subseteq Tables /\ whole' \in BOOLEAN
    BY <1>11, Zenon DEF AdvanceStream, Fails, TypeOK
  <2> QED BY Zenon, <1>11, <2>1, <2>2, <2>3, <2>4 DEF AdvanceStream, TypeOK
<1>12. ASSUME NEW t \in Tables, Recompute(t) PROVE TypeOK'
  <2>0. t \in Derived
    BY Zenon, <1>12 DEF Recompute
  <2>1. state' \in PipelineState
    BY <1>12, <2>0, StateType, Zenon DEF Recompute
  <2>2. version' \in [Tables -> Nat] /\ txn' \in [Derived -> Nat]
    <3>1. /\ version' = [version EXCEPT ![t] = @ + 1] /\ version \in [Tables -> Nat]
          /\ txn' = [txn EXCEPT ![t] = Version(t)] /\ txn \in [Derived -> Nat]
      BY Zenon, <1>12, Rewrites DEF TypeOK
    <3>2. Version(t) \in Nat
      BY Zenon, <2>0, VersionType
    <3> QED BY <2>0, <3>1, <3>2
  <2>3. basis' \in [Derived -> Basis]
    <3>1. basis' = [basis EXCEPT ![t] = Inputs(t)] /\ basis \in [Derived -> Basis]
      BY Zenon, <1>12, Rewrites DEF TypeOK
    <3>2. Inputs(t) \in Basis
      BY Zenon, <2>0, InputsType
    <3> QED BY Zenon, <2>0, <3>1, <3>2
  <2>4. /\ outcome' \in [Tables -> {"none", "updated", "unchanged", "skipped", "failed"}]
        /\ at' \in 0..Len(Order)
    BY Zenon, <1>12, ReportType DEF Recompute, Fails
  <2>5. failed' \subseteq Tables /\ changed' \subseteq Tables /\ whole' \in BOOLEAN
    BY <1>12, Zenon DEF Recompute, Fails, TypeOK
  <2> QED BY Zenon, <1>12, <2>1, <2>2, <2>3, <2>4, <2>5 DEF Recompute, TypeOK
<1>13. ASSUME NEW t \in Tables, FailTable(t) PROVE TypeOK'
  <2>1. state' \in PipelineState
    BY <1>13, StateType, Zenon DEF FailTable, TypeOK
  <2>2. /\ outcome' \in [Tables -> {"none", "updated", "unchanged", "skipped", "failed"}]
        /\ at' \in 0..Len(Order)
    BY Zenon, <1>13, ReportType DEF FailTable, Fails
  <2> QED BY <1>13, <2>1, <2>2, Zenon DEF FailTable, Fails, TypeOK
<1>14. CASE UNCHANGED vars
  BY Zenon, <1>14 DEF vars, TypeOK
<1> QED BY Zenon, <1>1, <1>2, <1>3, <1>4, <1>5, <1>6, <1>7, <1>8, <1>9, <1>10, <1>11, <1>12,
           <1>13, <1>14 DEF Next

\* Every variable keeps its type, in particular the state a pass saves.
THEOREM TypeCorrect == Spec => []TypeOK
<1>1. Init => TypeOK
  BY Zenon, TypeInit
<1>2. TypeOK /\ [Next]_vars => TypeOK'
  BY Zenon, TypeStep
<1> QED BY <1>1, <1>2, PTL DEF Spec

-----------------------------------------------------------------------------
(* The loop body, and the other steps *)

NodeStep(t) == Skip(t) \/ Keep(t) \/ AdvanceStream(t) \/ Recompute(t) \/ FailTable(t)

\* A node is skipped for a failed dependency, fails, or is reported good.
LEMMA NodeFiled ==
  ASSUME TypeOK, NEW t \in Tables, NodeStep(t)
  PROVE  /\ Now(t) /\ at' = Position(t)
         /\ UNCHANGED <<nodes, pc, definition, disk>>
         /\ \/ Blocked(t) /\ Report(t, "skipped") /\ failed' = failed \cup {t}
            \/ ~Blocked(t) /\ Report(t, "failed") /\ failed' = failed \cup {t} /\ whole' = FALSE
            \/ ~Blocked(t) /\ Report(t, "unchanged") /\ failed' = failed
            \/ ~Blocked(t) /\ Report(t, "updated") /\ failed' = failed
<1>1. CASE Skip(t)
  BY Zenon, <1>1 DEF Skip, Report
<1>2. CASE Keep(t)
  BY Zenon, <1>2 DEF Keep, Report
<1>3. CASE AdvanceStream(t)
  BY Zenon, <1>3 DEF AdvanceStream, Runs, Fails, Report
<1>4. CASE Recompute(t)
  BY Zenon, <1>4 DEF Recompute, Runs, Fails, Report
<1>5. CASE FailTable(t)
  BY Zenon, <1>5 DEF FailTable, Runs, Fails, Report
<1> QED BY <1>1, <1>2, <1>3, <1>4, <1>5, Zenon DEF NodeStep

\* The steps around the passes.
LEMMA StepKinds ==
  ASSUME [Next]_vars
  PROVE  \/ Start \/ BeginPass \/ EndPass \/ Exit \/ Crash \/ ClearState
         \/ \E s \in Streams : Arrive(s)
         \/ \E t \in Tables : Edit(t)
         \/ \E t \in Tables : NodeStep(t)
         \/ UNCHANGED vars
BY Zenon DEF Next, NodeStep

-----------------------------------------------------------------------------
(* Failures are contained *)

\* What was reported failed or skipped is in `failed', and a node behind that
\* depends on one of these was skipped.  Between passes no node is to come.
Contained ==
  /\ \A t \in Tables : outcome[t] \in {"failed", "skipped"} => t \in failed
  /\ \A u \in nodes : Position(u) <= at /\ Blocked(u) => outcome[u] = "skipped"
  /\ pc = "between" => outcome = None \/ ToCome = {}
  /\ pc = "down" => outcome = None /\ failed = {}

LEMMA ContainedNode ==
  ASSUME TypeOK, Contained, NEW t \in Tables, NodeStep(t)
  PROVE  Contained'
<1>1. /\ Now(t) /\ at' = Position(t) /\ UNCHANGED <<nodes, pc>>
      /\ failed' \subseteq failed \cup {t} /\ failed \subseteq failed'
  BY NodeFiled, Zenon
<1>2. PICK what \in {"updated", "unchanged", "skipped", "failed"} :
        /\ Report(t, what)
        /\ what \in {"skipped", "failed"} => t \in failed'
        /\ Blocked(t) => what = "skipped"
  BY NodeFiled, Zenon
<1>3. outcome'[t] = what /\ \A u \in Tables \ {t} : outcome'[u] = outcome[u]
  BY Zenon, <1>2, ReportType
<1>4. /\ pc = "pass" /\ nodes \subseteq Tables
      /\ \A u \in nodes : Position(u) <= at' => (u = t \/ Position(u) <= at)
      /\ \A u \in Tables : Position(u) <= at => t \notin SqlReads[u]
      /\ t \notin SqlReads[t]
  BY Zenon, <1>1, Advance DEF TypeOK
<1>5. \A u \in Tables : outcome'[u] \in {"failed", "skipped"} => u \in failed'
  BY Zenon, <1>1, <1>2, <1>3 DEF Contained
<1>6. ASSUME NEW u \in nodes, Position(u) <= at', Blocked(u)'
      PROVE  outcome'[u] = "skipped"
  <2>1. CASE u = t
    <3>1. Blocked(t)
      BY Zenon, <1>1, <1>4, <1>6, <2>1 DEF Blocked, DependsOn
    <3> QED BY Zenon, <1>2, <1>3, <2>1, <3>1
  <2>2. CASE u # t
    <3>1. Position(u) <= at /\ u \in Tables
      BY Zenon, <1>4, <1>6, <2>2
    <3>2. Blocked(u)
      BY Zenon, <1>1, <1>4, <1>6, <3>1 DEF Blocked, DependsOn
    <3> QED BY Zenon, <1>3, <2>2, <3>1, <3>2 DEF Contained
  <2> QED BY Zenon, <2>1, <2>2
<1> QED BY Zenon, <1>1, <1>4, <1>5, <1>6 DEF Contained

LEMMA ContainedStep == TypeOK /\ Contained /\ [Next]_vars => Contained'
<1> SUFFICES ASSUME TypeOK, Contained, [Next]_vars PROVE Contained'
  BY Zenon
<1> USE DEF tables, pass
<1>0. \A t \in Tables : None[t] = "none"
  BY Zenon DEF None
<1>1. CASE Start
  <2>1. outcome' = None /\ pc' = "between" /\ failed' = {}
    BY Zenon, <1>1 DEF Start, Contained
  <2> QED BY Zenon, <1>0, <2>1 DEF Contained, Blocked
<1>2. CASE BeginPass
  BY Zenon, <1>0, <1>2 DEF BeginPass, Contained, Blocked
<1>3. CASE EndPass
  BY Zenon, <1>3 DEF EndPass, Contained, Blocked, ToCome
<1>4. CASE Down
  BY Zenon, <1>0, <1>4 DEF Down, Contained
<1>5. CASE UNCHANGED <<pc, nodes, pass>>
  BY Zenon, <1>5 DEF Contained, Blocked, ToCome
<1>6. ASSUME NEW t \in Tables, NodeStep(t) PROVE Contained'
  BY Zenon, <1>6, ContainedNode
<1>7. (\E s \in Streams : Arrive(s)) \/ (\E t \in Tables : Edit(t)) \/ ClearState
      \/ UNCHANGED vars => UNCHANGED <<pc, nodes, pass>>
  BY Zenon DEF Arrive, Edit, ClearState, vars
<1> QED BY <1>1, <1>2, <1>3, <1>4, <1>5, <1>6, <1>7, StepKinds, Zenon DEF Exit, Crash

\* For every pipeline and every fault: nothing downstream of a table that failed in
\* a pass, however far, is updated or vouched for in that pass (one_pass).
THEOREM FailuresContained == Spec => []FailureContained
<1>1. Init => TypeOK /\ Contained
  <2> SUFFICES ASSUME Init PROVE Contained
    BY Zenon, TypeInit
  <2>1. \A t \in Tables : None[t] = "none"
    BY Zenon DEF None
  <2> QED BY Zenon, <2>1 DEF Init, Contained, Blocked
<1>2. TypeOK /\ Contained /\ [Next]_vars => (TypeOK /\ Contained)'
  BY Zenon, TypeStep, ContainedStep
<1>3. TypeOK /\ Contained => FailureContained
  <2> SUFFICES ASSUME TypeOK, Contained, pc = "between",
                      NEW t \in Tables, NEW u \in nodes, t \in DependsOn(u),
                      outcome[t] \in {"failed", "skipped"}
               PROVE  outcome[u] = "skipped"
    BY Zenon DEF FailureContained, Reported
  <2>1. t \in failed
    BY Zenon DEF Contained
  <2>2. outcome # None
    BY Zenon DEF None
  <2>3. ToCome = {}
    BY Zenon, <2>2 DEF Contained
  <2>4. Position(u) <= at
    <3>1. u \in Tables /\ at \in Nat
      BY DEF TypeOK
    <3>2. Position(u) \in Nat
      BY <3>1, Positions, ZenonT(30)
    <3> QED BY <2>3, <3>1, <3>2 DEF ToCome
  <2> QED BY Zenon, <2>1, <2>4 DEF Contained, Blocked
<1> QED BY <1>1, <1>2, <1>3, PTL DEF Spec

-----------------------------------------------------------------------------
(* Updated tables are current *)

\* A step on t moves no table but t, and computes it from what it reads now.
LEMMA Moves ==
  ASSUME TypeOK, NEW t \in Tables, NodeStep(t)
  PROVE  /\ \A u \in Tables \ {t} : version'[u] = version[u]
         /\ \A u \in Derived \ {t} : basis'[u] = basis[u]
         /\ t \in Derived /\ outcome'[t] = "updated" => basis'[t] = Inputs(t)
<1> USE DEF tables
<1>0. version \in [Tables -> Nat] /\ basis \in [Derived -> Basis]
  BY Zenon DEF TypeOK
<1>1. CASE Skip(t)
  <2>1. outcome'[t] = "skipped"
    BY Zenon, <1>1, ReportType DEF Skip
  <2> QED BY Zenon, <1>1, <2>1 DEF Skip
<1>2. CASE Keep(t)
  <2>1. outcome'[t] = "unchanged"
    BY Zenon, <1>2, ReportType DEF Keep
  <2> QED BY Zenon, <1>2, <2>1 DEF Keep
<1>3. CASE AdvanceStream(t)
  BY Zenon, <1>0, <1>3 DEF AdvanceStream, Derived
<1>4. CASE Recompute(t)
  <2>1. /\ t \in Derived /\ version' = [version EXCEPT ![t] = @ + 1]
        /\ basis' = [basis EXCEPT ![t] = Inputs(t)]
    BY Zenon, <1>4, Rewrites
  <2> QED BY Zenon, <1>0, <2>1
<1>5. CASE FailTable(t)
  <2>1. outcome'[t] = "failed"
    BY Zenon, <1>5, ReportType DEF FailTable, Fails
  <2> QED BY Zenon, <1>5, <2>1 DEF FailTable
<1> QED BY Zenon, <1>1, <1>2, <1>3, <1>4, <1>5 DEF NodeStep

\* What a step on t leaves of the inputs of another table, and of its own.
LEMMA InputsBehind ==
  ASSUME FlowsNamed, TypeOK, NEW t \in Tables, NodeStep(t)
  PROVE  \A u \in Derived : t \notin SqlReads[u] => Inputs(u)' = Inputs(u)
<1> SUFFICES ASSUME NEW u \in Derived, t \notin SqlReads[u]
             PROVE  Inputs(u)' = Inputs(u)
  BY Zenon
<1>1. SqlReads[u] \subseteq Tables
  BY Zenon, ConstantsAssumption DEF ConstantsAssumption, Derived
<1>2. \A w \in SqlReads[u] : version'[w] = version[w]
  BY Zenon, <1>1, Moves
<1>3. definition' = definition
  BY NodeFiled, Zenon
<1> QED BY Zenon, <1>2, <1>3, InputsKept

\* Every node reported updated, so far, was computed from the tables as they are.
Vouched ==
  /\ \A t \in Derived : outcome[t] = "updated" => Position(t) <= at /\ basis[t] = Inputs(t)
  /\ pc = "down" => outcome = None

LEMMA VouchedNode ==
  ASSUME FlowsNamed, TypeOK, Vouched, NEW t \in Tables, NodeStep(t)
  PROVE  Vouched'
<1>1. Now(t) /\ at' = Position(t) /\ pc' = pc /\ pc = "pass"
  BY NodeFiled, Zenon DEF Now
<1>2. /\ \A u \in Tables : Position(u) <= at => Position(u) <= at' /\ t \notin SqlReads[u]
      /\ t \notin SqlReads[t]
  BY Zenon, <1>1, Advance
<1>3. \A u \in Tables \ {t} : outcome'[u] = outcome[u]
  BY NodeFiled, ReportType, Zenon
<1>4. ASSUME NEW u \in Derived, outcome'[u] = "updated"
      PROVE  Position(u) <= at' /\ basis'[u] = Inputs(u)'
  <2>0. u \in Tables
    BY Zenon DEF Derived
  <2>1. CASE u = t
    BY <1>1, <1>2, <1>4, <2>0, <2>1, Moves, InputsBehind, Positions
  <2>2. CASE u # t
    <3>1. outcome[u] = "updated"
      BY Zenon, <1>3, <1>4, <2>0, <2>2
    <3>2. Position(u) <= at /\ basis[u] = Inputs(u)
      BY Zenon, <3>1 DEF Vouched
    <3> QED BY Zenon, <1>2, <2>0, <2>2, <3>2, Moves, InputsBehind
  <2> QED BY Zenon, <2>1, <2>2
<1> QED BY Zenon, <1>1, <1>4 DEF Vouched

LEMMA VouchedStep == ASSUME FlowsNamed PROVE TypeOK /\ Vouched /\ [Next]_vars => Vouched'
<1> SUFFICES ASSUME TypeOK, Vouched, [Next]_vars PROVE Vouched'
  BY Zenon
<1> USE DEF tables, pass
<1>0. \A t \in Derived : None[t] # "updated"
  BY Zenon DEF None, Derived
<1>1. CASE outcome' = None
  BY Zenon, <1>0, <1>1 DEF Vouched
<1>2. CASE UNCHANGED <<tables, definition, pass>> /\ (pc' = "down" => pc = "down")
  <2>1. \A t \in Derived : Inputs(t)' = Inputs(t)
    BY Zenon, <1>2 DEF Inputs
  <2> QED BY Zenon, <1>2, <2>1 DEF Vouched
<1>3. ASSUME NEW t \in Tables, NodeStep(t) PROVE Vouched'
  BY Zenon, <1>3, VouchedNode
<1>4. Start \/ EndPass \/ ClearState \/ (\E s \in Streams : Arrive(s)) \/ UNCHANGED vars
      => UNCHANGED <<tables, definition, pass>> /\ (pc' = "down" => pc = "down")
  <2>1. ASSUME Start \/ EndPass
        PROVE  UNCHANGED <<tables, definition, pass>> /\ pc' # "down"
    BY Zenon, <2>1 DEF Start, EndPass
  <2>2. CASE ClearState
    BY Zenon, <2>2 DEF ClearState
  <2>3. ASSUME NEW s \in Streams, Arrive(s)
        PROVE  UNCHANGED <<tables, definition, pass, pc>>
    BY Zenon, <2>3 DEF Arrive
  <2>4. CASE UNCHANGED vars
    BY Zenon, <2>4 DEF vars
  <2> QED BY Zenon, <2>1, <2>2, <2>3, <2>4
<1>5. BeginPass \/ Exit \/ Crash \/ (\E t \in Tables : Edit(t)) => outcome' = None
  BY Zenon DEF BeginPass, Exit, Crash, Down, Edit, Vouched
<1> QED BY Zenon, <1>1, <1>2, <1>3, <1>4, <1>5, StepKinds

\* Where append flows read only what `sql:` names: a derived table reported updated
\* holds what its definition computes from the tables as the pass left them, for
\* every graph, selection and fault (one_pass, recompute).
THEOREM UpdatedTablesAreCurrent == ASSUME FlowsNamed PROVE Spec => []UpdatedIsCurrent
<1>1. Init => TypeOK /\ Vouched
  <2> SUFFICES ASSUME Init PROVE Vouched
    BY Zenon, TypeInit
  <2> QED BY Zenon DEF Init, Vouched, None, Derived
<1>2. TypeOK /\ Vouched /\ [Next]_vars => (TypeOK /\ Vouched)'
  BY Zenon, TypeStep, VouchedStep
<1>3. Vouched => UpdatedIsCurrent
  BY Zenon DEF Vouched, UpdatedIsCurrent, Reported
<1> QED BY <1>1, <1>2, <1>3, PTL DEF Spec

-----------------------------------------------------------------------------
(* Unchanged tables are current *)

\* A step on t marks no other table built, and unless a table failed, t is in
\* `changed' when its version moved.
LEMMA Marks ==
  ASSUME TypeOK, NEW t \in Tables, NodeStep(t)
  PROVE  /\ \A u \in Derived \ {t} : state'.built[u] = state.built[u]
         /\ t \in Derived => state'.built[t] \in {state.built[t], definition[t]}
         /\ changed \subseteq changed'
         /\ whole' => whole /\ (t \in changed' \/ version'[t] = version[t])
<1> USE DEF tables
<1>0. state \in PipelineState
  BY Zenon DEF TypeOK
<1>1. CASE Skip(t)
  BY Zenon, <1>1 DEF Skip
<1>2. CASE Keep(t)
  BY Zenon, <1>2 DEF Keep
<1>3. CASE AdvanceStream(t)
  <2>1. state'.built = state.built
    BY Zenon, <1>0, <1>3 DEF AdvanceStream, PipelineState
  <2>2. CASE Fails(t)
    BY Zenon, <1>3, <2>1, <2>2 DEF AdvanceStream, Fails, Derived
  <2>3. CASE whole' = whole /\ changed' = IF t \in pending THEN changed \cup {t} ELSE changed
    BY Zenon, <1>3, <2>1, <2>3 DEF AdvanceStream, Derived
  <2> QED BY Zenon, <1>3, <2>2, <2>3 DEF AdvanceStream
<1>4. CASE Recompute(t)
  <2>0. t \in Derived
    BY Zenon, <1>4 DEF Recompute
  <2>1. CASE Fails(t) /\ state' = [state EXCEPT !.epoch = [@ EXCEPT ![t] = Version(t)]]
    BY Zenon, <1>0, <2>1 DEF Fails, PipelineState
  <2>2. CASE /\ changed' = changed \cup {t} /\ whole' = whole
             /\ state' = [epoch |-> [state.epoch EXCEPT ![t] = Version(t)],
                          built |-> [state.built EXCEPT ![t] = definition[t]],
                          once  |-> MarkOnce(t)]
    BY Zenon, <1>0, <2>0, <2>2 DEF PipelineState
  <2> QED BY Zenon, <1>4, <2>1, <2>2 DEF Recompute
<1>5. CASE FailTable(t)
  <2>1. state'.built = state.built
    BY Zenon, <1>0, <1>5 DEF FailTable, PipelineState
  <2> QED BY Zenon, <1>5, <2>1 DEF FailTable, Fails
<1> QED BY Zenon, <1>1, <1>2, <1>3, <1>4, <1>5 DEF NodeStep

\* A table is known as built by a definition it has or has had.
Ages ==
  \A t \in Derived : /\ definition[t] >= 1
                     /\ state.built[t] <= definition[t] /\ disk.built[t] <= definition[t]

LEMMA AgesStep == TypeOK /\ Ages /\ [Next]_vars => Ages'
<1> SUFFICES ASSUME TypeOK, Ages, [Next]_vars PROVE Ages'
  BY Zenon
<1> USE DEF tables, pass
<1>0. \A t \in Derived : /\ definition[t] \in Nat /\ t \in Tables /\ Fresh0.built[t] = 0
                         /\ state.built[t] \in Nat /\ disk.built[t] \in Nat
  BY Zenon DEF TypeOK, PipelineState, Derived, Fresh0
<1>1. CASE /\ definition' = definition
           /\ state' \in {state, disk, Fresh0} /\ disk' \in {state, disk}
  BY <1>0, <1>1 DEF Ages
<1>2. Start \/ BeginPass \/ EndPass \/ Exit \/ Crash \/ UNCHANGED vars
        \/ (\E s \in Streams : Arrive(s))
      => /\ definition' = definition
         /\ state' \in {state, disk, Fresh0} /\ disk' \in {state, disk}
  BY Zenon DEF Start, BeginPass, EndPass, Exit, Crash, Down, Arrive, vars
<1>3. CASE ClearState
  <2>1. \A t \in Derived : disk'.built[t] \in {0, disk.built[t]}
    BY <1>3 DEF ClearState
  <2> QED BY <1>0, <1>3, <2>1 DEF ClearState, Ages
<1>4. ASSUME NEW t \in Tables, Edit(t) PROVE Ages'
  <2>1. \A u \in Derived : definition'[u] \in {definition[u], definition[u] + 1}
    BY Zenon, <1>0, <1>4 DEF Edit, TypeOK
  <2>2. state' = state /\ disk' = disk
    BY Zenon, <1>4 DEF Edit
  <2> QED BY <1>0, <2>1, <2>2 DEF Ages
<1>5. ASSUME NEW t \in Tables, NodeStep(t) PROVE Ages'
  <2>1. definition' = definition /\ disk' = disk
    BY <1>5, NodeFiled, Zenon
  <2>2. \A u \in Derived : state'.built[u] \in {state.built[u], definition[u]}
    BY Zenon, <1>5, Marks
  <2> QED BY <1>0, <2>1, <2>2 DEF Ages
<1> QED BY Zenon, <1>1, <1>2, <1>3, <1>4, <1>5, StepKinds

IsCurrent(t) == basis[t] = Inputs(t)

\* A derived table not known as built by its definition will be computed; so will
\* one that reads a table changed in this pass.  Every other one is current.
Trusted(t) ==
  /\ pc # "pass" /\ disk.built[t] = definition[t] => IsCurrent(t)
  /\ pc = "between" /\ (state.built[t] = definition[t] \/ outcome[t] = "unchanged")
       => IsCurrent(t)
  /\ pc = "pass" /\ Position(t) <= at => IsCurrent(t)
  /\ pc = "pass" /\ state.built[t] = definition[t] /\ SqlReads[t] \cap changed = {}
       => IsCurrent(t)

\* So it is while every run takes all tables and none has failed.
Settled ==
  whole => /\ failed = {} /\ (pc # "down" => nodes = Tables)
           /\ \A t \in Derived \ OnceTables : Trusted(t)

\* The loop body.  A table it moves is in `changed', which those to come look at.
LEMMA SettledNode ==
  ASSUME FlowsNamed, TypeOK, Settled, NEW t \in Tables, NodeStep(t)
  PROVE  Settled'
<1> SUFFICES ASSUME whole'
             PROVE  (/\ failed = {} /\ (pc # "down" => nodes = Tables)
                     /\ \A u \in Derived \ OnceTables : Trusted(u))'
  BY Zenon DEF Settled
<1>1. /\ failed = {} /\ nodes = Tables /\ pc = "pass"
      /\ \A u \in Derived \ OnceTables : Trusted(u)
  BY Zenon, Marks, NodeFiled DEF Settled, Now
<1>2. Now(t) /\ at' = Position(t) /\ UNCHANGED <<nodes, pc, definition, disk>>
  BY Zenon, NodeFiled
<1>3. /\ \A u \in Tables : Position(u) <= at' <=> (u = t \/ Position(u) <= at)
      /\ \A u \in Tables : Position(u) <= at => t \notin SqlReads[u]
      /\ t \notin SqlReads[t]
  BY Zenon, <1>1, <1>2, Advance
<1>4. ~Blocked(t)
  BY Zenon, <1>1 DEF Blocked
<1>5. failed' = {} /\ (Report(t, "unchanged") \/ Report(t, "updated"))
  BY Zenon, <1>1, <1>4, NodeFiled
<1>6. ASSUME t \in Derived \ OnceTables PROVE IsCurrent(t)'
  <2>1. Inputs(t)' = Inputs(t)
    BY Zenon, <1>3, <1>6, InputsBehind
  <2>2. CASE Report(t, "updated")
    BY Zenon, <1>6, <2>1, <2>2, Moves, ReportType DEF IsCurrent
  <2>3. CASE Report(t, "unchanged")
    <3>1. outcome'[t] = "unchanged"
      BY Zenon, <2>3, ReportType
    <3>2. Keep(t)
      BY <3>1, ReportType, Zenon DEF NodeStep, Skip, AdvanceStream, Recompute, FailTable, Fails
    <3>3. UpToDate(t) /\ basis' = basis
      BY Zenon, <1>6, <3>2 DEF Keep, OnceDone, tables
    <3>4. IsCurrent(t)
      BY Zenon, <1>1, <1>6, <3>3 DEF Trusted, UpToDate, DependsOn
    <3> QED BY Zenon, <2>1, <3>3, <3>4 DEF IsCurrent
  <2> QED BY Zenon, <1>5, <2>2, <2>3
<1>7. ASSUME NEW u \in Derived \ OnceTables, u # t, IsCurrent(u),
             t \notin SqlReads[u] \/ version'[t] = version[t]
      PROVE  IsCurrent(u)'
  <2>1. SqlReads[u] \subseteq Tables
    BY Zenon, ConstantsAssumption DEF ConstantsAssumption, Derived
  <2>2. \A w \in SqlReads[u] : version'[w] = version[w]
    BY Zenon, <1>7, <2>1, Moves
  <2>3. Inputs(u)' = Inputs(u)
    BY Zenon, <1>2, <2>2, InputsKept
  <2> QED BY Zenon, <1>7, <2>3, Moves DEF IsCurrent
<1>8. ASSUME NEW u \in Derived \ OnceTables PROVE Trusted(u)'
  <2>0. u \in Tables
    BY Zenon DEF Derived
  <2>1. CASE u = t
    BY Zenon, <1>1, <1>2, <1>6, <1>8, <2>1 DEF Trusted
  <2>2. ASSUME u # t, Position(u) <= at PROVE IsCurrent(u)'
    BY Zenon, <1>1, <1>3, <1>7, <1>8, <2>0, <2>2 DEF Trusted
  <2>3. ASSUME u # t, state'.built[u] = definition[u], SqlReads[u] \cap changed' = {}
        PROVE  IsCurrent(u)'
    <3>1. state.built[u] = definition[u] /\ SqlReads[u] \cap changed = {}
      BY Zenon, <2>3, Marks
    <3>2. IsCurrent(u)
      BY Zenon, <1>1, <3>1 DEF Trusted
    <3>3. t \notin SqlReads[u] \/ version'[t] = version[t]
      BY Zenon, <2>3, Marks
    <3> QED BY Zenon, <1>7, <2>3, <3>2, <3>3
  <2> QED BY Zenon, <1>1, <1>2, <1>3, <2>0, <2>1, <2>2, <2>3 DEF Trusted
<1> QED BY Zenon, <1>1, <1>2, <1>5, <1>8

LEMMA SettledStep ==
  ASSUME FlowsNamed
  PROVE  TypeOK /\ Vouched /\ Ages /\ Settled /\ [Next]_vars => Settled'
<1> SUFFICES ASSUME TypeOK, Vouched, Ages, Settled, [Next]_vars PROVE Settled'
  BY Zenon
<1> USE DEF tables, pass
<1>0. \A t \in Derived : /\ t \in Tables /\ None[t] # "unchanged" /\ Fresh0.built[t] = 0
                         /\ Position(t) \in Nat /\ at \in Nat
  BY Positions DEF TypeOK, Derived, None, Fresh0
<1>1. CASE Start
  <2> SUFFICES ASSUME whole'
               PROVE  failed' = {} /\ nodes' = Tables
                      /\ \A t \in Derived \ OnceTables : Trusted(t)'
    BY Zenon DEF Settled
  <2>1. /\ whole /\ nodes' = Tables /\ pc = "down" /\ pc' = "between"
        /\ UNCHANGED <<version, basis, definition, disk, outcome, failed>>
        /\ state' \in {disk, Fresh0} /\ outcome' = None
    BY <1>1, Zenon DEF Start, Vouched
  <2>2. ASSUME NEW t \in Derived \ OnceTables PROVE Trusted(t)'
    <3>1. IsCurrent(t)' = IsCurrent(t)
      BY Zenon, <2>1 DEF IsCurrent, Inputs
    <3>2. disk.built[t] = definition[t] => IsCurrent(t)
      BY Zenon, <2>1 DEF Settled, Trusted
    <3>3. state'.built[t] = definition[t] => disk.built[t] = definition[t]
      BY <1>0, <2>1 DEF Ages
    <3> QED BY Zenon, <1>0, <2>1, <3>1, <3>2, <3>3 DEF Trusted
  <2> QED BY Zenon, <2>1, <2>2 DEF Settled
<1>2. CASE BeginPass
  <2> SUFFICES ASSUME whole'
               PROVE  failed' = {} /\ nodes' = Tables
                      /\ \A t \in Derived \ OnceTables : Trusted(t)'
    BY Zenon DEF Settled
  <2>1. /\ whole /\ pc = "between" /\ pc' = "pass" /\ at' = 0 /\ failed' = {}
        /\ UNCHANGED <<version, basis, definition, state, nodes>>
    BY Zenon, <1>2 DEF BeginPass
  <2>2. ASSUME NEW t \in Derived \ OnceTables PROVE Trusted(t)'
    <3>1. IsCurrent(t)' = IsCurrent(t)
      BY Zenon, <2>1 DEF IsCurrent, Inputs
    <3>2. state.built[t] = definition[t] => IsCurrent(t)
      BY Zenon, <2>1 DEF Settled, Trusted
    <3>3. ~(Position(t) <= at')
      BY <2>1, Positions DEF Derived
    <3> QED BY Zenon, <2>1, <3>1, <3>2, <3>3 DEF Trusted
  <2> QED BY Zenon, <2>1, <2>2 DEF Settled
<1>3. CASE EndPass
  <2> SUFFICES ASSUME whole'
               PROVE  failed' = {} /\ nodes' = Tables
                      /\ \A t \in Derived \ OnceTables : Trusted(t)'
    BY Zenon DEF Settled
  <2>1. /\ whole /\ pc = "pass" /\ pc' = "between" /\ ToCome = {}
        /\ UNCHANGED <<version, basis, definition, nodes, failed>>
    BY Zenon, <1>3 DEF EndPass
  <2>2. failed = {} /\ nodes = Tables
    BY Zenon, <2>1 DEF Settled
  <2>3. ASSUME NEW t \in Derived \ OnceTables PROVE Trusted(t)'
    <3>1. IsCurrent(t)' = IsCurrent(t)
      BY Zenon, <2>1 DEF IsCurrent, Inputs
    <3>2. Position(t) <= at
      BY <1>0, <2>1, <2>2 DEF ToCome
    <3>3. IsCurrent(t)
      BY Zenon, <2>1, <3>2 DEF Settled, Trusted
    <3> QED BY Zenon, <2>1, <3>1, <3>3 DEF Trusted
  <2> QED BY Zenon, <2>1, <2>2, <2>3
<1>4. CASE Crash
  BY Zenon, <1>4 DEF Crash, Settled
<1>5. CASE Exit
  <2>1. /\ pc = "between" /\ pc' = "down" /\ whole' = whole /\ failed' = {}
        /\ UNCHANGED <<version, basis, definition, disk>>
    BY Zenon, <1>5 DEF Exit, Down
  <2>2. ASSUME NEW t \in Derived \ OnceTables, Trusted(t) PROVE Trusted(t)'
    <3>1. IsCurrent(t)' = IsCurrent(t)
      BY Zenon, <2>1 DEF IsCurrent, Inputs
    <3> QED BY Zenon, <2>1, <2>2, <3>1 DEF Trusted
  <2> QED BY Zenon, <2>1, <2>2 DEF Settled
<1>6. CASE ClearState
  <2>1. /\ pc = "down" /\ pc' = "down" /\ whole' = whole /\ failed' = failed
        /\ UNCHANGED <<version, basis, definition>>
        /\ \A t \in Derived : disk'.built[t] \in {0, disk.built[t]}
    BY <1>6 DEF ClearState
  <2>2. ASSUME NEW t \in Derived \ OnceTables, Trusted(t) PROVE Trusted(t)'
    <3>1. IsCurrent(t)' = IsCurrent(t)
      BY Zenon, <2>1 DEF IsCurrent, Inputs
    <3>2. definition[t] # 0
      BY DEF Ages
    <3> QED BY Zenon, <2>1, <2>2, <3>1, <3>2 DEF Trusted
  <2> QED BY Zenon, <2>1, <2>2 DEF Settled
<1>7. ASSUME NEW e \in Tables, Edit(e) PROVE Settled'
  <2>1. /\ pc = "down" /\ pc' = "down" /\ whole' = whole /\ failed' = failed
        /\ UNCHANGED <<version, basis, disk>>
        /\ \A t \in Tables \ {e} : definition'[t] = definition[t]
        /\ definition'[e] = definition[e] + 1
    BY Zenon, <1>7 DEF Edit, TypeOK
  <2>2. ASSUME NEW t \in Derived \ OnceTables, Trusted(t) PROVE Trusted(t)'
    <3>1. CASE t = e
      <4>1. disk.built[t] # definition'[t]
        BY <2>1, <3>1 DEF Ages, TypeOK, PipelineState
      <4> QED BY Zenon, <2>1, <4>1 DEF Trusted
    <3>2. CASE t # e
      <4>1. definition'[t] = definition[t]
        BY Zenon, <1>0, <2>1, <3>2
      <4>2. IsCurrent(t)' = IsCurrent(t)
        BY Zenon, <2>1, <4>1 DEF IsCurrent, Inputs
      <4> QED BY Zenon, <2>1, <2>2, <4>1, <4>2 DEF Trusted
    <3> QED BY Zenon, <3>1, <3>2
  <2> QED BY Zenon, <2>1, <2>2 DEF Settled
<1>8. ASSUME NEW t \in Tables, NodeStep(t) PROVE Settled'
  BY Zenon, <1>8, SettledNode
<1>9. CASE UNCHANGED <<tables, definition, disk, state, pc, nodes, pass, whole>>
  <2>1. \A t \in Derived : Trusted(t)' = Trusted(t)
    BY <1>9 DEF Trusted, IsCurrent, Inputs
  <2> QED BY Zenon, <1>9, <2>1 DEF Settled
<1>10. (\E s \in Streams : Arrive(s)) \/ UNCHANGED vars
       => UNCHANGED <<tables, definition, disk, state, pc, nodes, pass, whole>>
  BY Zenon DEF Arrive, vars
<1> QED BY Zenon, <1>1, <1>2, <1>3, <1>4, <1>5, <1>6, <1>7, <1>8, <1>9, <1>10, StepKinds

\* Where append flows read only what `sql:` names, while every run takes all tables
\* and completes and no table has failed: a table reported unchanged could not have
\* come out different, whatever was edited, cleared, saved or not saved between the
\* passes (one_pass, PipelineState).
THEOREM UnchangedTablesAreCurrent == ASSUME FlowsNamed PROVE Spec => []UnchangedIsCurrent
<1> DEFINE IInv == TypeOK /\ Vouched /\ Ages /\ Settled
<1>1. Init => IInv
  <2> SUFFICES ASSUME Init PROVE Vouched /\ Ages /\ Settled
    BY Zenon, TypeInit
  <2>1. Vouched
    BY Zenon DEF Init, Vouched, None, Derived
  <2>2. Ages
    BY DEF Init, Ages, Fresh0, Derived
  <2>3. ASSUME NEW t \in Derived PROVE Trusted(t)
    BY DEF Init, Fresh0, Trusted, Derived
  <2> QED BY Zenon, <2>1, <2>2, <2>3 DEF Init, Settled
<1>2. IInv /\ [Next]_vars => IInv'
  BY Zenon, TypeStep, VouchedStep, AgesStep, SettledStep
<1>3. IInv => UnchangedIsCurrent
  BY Zenon DEF Settled, Trusted, IsCurrent, UnchangedIsCurrent, Reported
<1> HIDE DEF IInv
<1> QED BY <1>1, <1>2, <1>3, PTL DEF Spec

-----------------------------------------------------------------------------
(* No rewrite without a reason *)

\* A table was computed from versions its inputs have or had; of an input that
\* changed in this pass, from an earlier one, until the loop reaches it.
Behind ==
  \A t \in Derived : \A u \in SqlReads[t] :
    /\ basis[t].of[u] <= version[u]
    /\ pc = "pass" /\ u \in changed /\ ~(Position(t) <= at) => basis[t].of[u] < version[u]

LEMMA Reads == SqlReads \in [Tables -> SUBSET Tables] /\ Derived \subseteq Tables
BY Zenon, ConstantsAssumption DEF ConstantsAssumption, Derived

LEMMA BehindNode ==
  ASSUME TypeOK, Behind, NEW t \in Tables, NodeStep(t)
  PROVE  Behind'
<1>0. Now(t) /\ at' = Position(t) /\ pc' = pc
  BY NodeFiled, Zenon
<1>1. Now(t) /\ at' = Position(t) /\ pc' = pc /\ pc = "pass"
  BY Zenon, <1>0 DEF Now
<1>2. /\ \A u \in Tables : Position(u) <= at => Position(u) <= at'
      /\ t \notin SqlReads[t] /\ Position(t) <= at'
  BY Zenon, <1>1, Advance, Positions
<1>3. /\ version \in [Tables -> Nat] /\ version' \in [Tables -> Nat]
      /\ basis \in [Derived -> Basis]
      /\ SqlReads \in [Tables -> SUBSET Tables] /\ Derived \subseteq Tables
  <2>1. Next
    BY Zenon DEF Next, NodeStep
  <2>2. TypeOK'
    BY Zenon, <2>1, TypeStep
  <2> QED BY Zenon, <2>2, Reads DEF TypeOK
<1>4. /\ version'[t] >= version[t]
      /\ changed' = changed \/ (changed' = changed \cup {t} /\ version'[t] > version[t])
  <2>0. version[t] \in Nat
    BY Zenon, <1>3
  <2>1. CASE Skip(t)
    BY <2>0, <2>1 DEF Skip, tables
  <2>2. CASE Keep(t)
    BY <2>0, <2>2 DEF Keep, tables
  <2>3. CASE AdvanceStream(t)
    BY <1>3, <2>0, <2>3 DEF AdvanceStream, Fails
  <2>4. CASE Recompute(t)
    <3>1. version'[t] = version[t] + 1
      BY Zenon, <1>3, <2>4, Rewrites
    <3> QED BY <2>0, <2>4, <3>1 DEF Recompute, Fails
  <2>5. CASE FailTable(t)
    BY <2>0, <2>5 DEF FailTable, Fails, tables
  <2> QED BY Zenon, <2>1, <2>2, <2>3, <2>4, <2>5 DEF NodeStep
<1>5. t \in Derived => basis'[t] = basis[t] \/ basis'[t] = Inputs(t)
  <2>1. CASE Recompute(t)
    BY Zenon, <1>3, <2>1, Rewrites
  <2>2. CASE ~Recompute(t)
    BY Zenon, <2>2 DEF NodeStep, Skip, Keep, AdvanceStream, FailTable, tables
  <2> QED BY Zenon, <2>1, <2>2
<1>6. ASSUME NEW d \in Derived, NEW u \in SqlReads[d]
      PROVE  /\ basis'[d].of[u] <= version'[u]
             /\ u \in changed' /\ ~(Position(d) <= at') => basis'[d].of[u] < version'[u]
  <2>0. /\ d \in Tables /\ u \in Tables
        /\ version[u] \in Nat /\ version'[u] \in Nat /\ basis[d].of[u] \in Nat
    BY Zenon, <1>3, <1>6 DEF Basis
  <2>1. version[u] <= version'[u]
    <3>1. CASE u = t
      BY Zenon, <1>3, <1>4, <3>1
    <3>2. CASE u # t
      BY <2>0, <3>2, Moves
    <3> QED BY Zenon, <3>1, <3>2
  <2>2. CASE d = t
    <3>1. u # t
      BY Zenon, <1>2, <2>2
    <3>2. Inputs(d).of[u] = version[u]
      BY Zenon, <2>0 DEF Inputs
    <3>3. basis'[d].of[u] <= version[u]
      BY <1>5, <2>0, <2>2, <3>2 DEF Behind
    <3>4. basis'[d].of[u] <= version'[u]
      BY Zenon, <2>0, <3>1, <3>3, Moves
    <3> QED BY Zenon, <1>2, <2>2, <3>4
  <2>3. CASE d # t
    <3>1. basis'[d] = basis[d]
      BY Zenon, <2>3, Moves
    <3>2. basis[d].of[u] <= version[u]
      BY Zenon DEF Behind
    <3>3. ASSUME u \in changed', ~(Position(d) <= at') PROVE basis[d].of[u] < version'[u]
      <4>1. CASE u \in changed
        <5>1. basis[d].of[u] < version[u]
          BY Zenon, <1>1, <1>2, <2>0, <3>3, <4>1 DEF Behind
        <5> QED BY <2>0, <2>1, <5>1
      <4>2. CASE u \notin changed
        <5>1. version'[u] > version[u]
          BY Zenon, <1>4, <3>3, <4>2
        <5> QED BY <2>0, <3>2, <5>1
      <4> QED BY Zenon, <4>1, <4>2
    <3>4. basis[d].of[u] <= version'[u]
      BY <2>0, <2>1, <3>2
    <3> QED BY Zenon, <3>1, <3>3, <3>4
  <2> QED BY Zenon, <2>2, <2>3
<1> QED BY Zenon, <1>6 DEF Behind

LEMMA BehindStep == TypeOK /\ Behind /\ [Next]_vars => Behind'
<1> SUFFICES ASSUME TypeOK, Behind, [Next]_vars PROVE Behind'
  BY Zenon
<1> USE DEF tables, pass
<1>1. CASE UNCHANGED tables /\ (pc' # "pass" \/ changed' = {})
  BY Zenon, <1>1 DEF Behind
<1>2. CASE UNCHANGED <<tables, pc, changed, at>>
  BY Zenon, <1>2 DEF Behind
<1>3. ASSUME NEW t \in Tables, NodeStep(t) PROVE Behind'
  BY <1>3, BehindNode, Zenon
<1>4. Start \/ BeginPass \/ EndPass \/ Exit \/ Crash
      => UNCHANGED tables /\ (pc' # "pass" \/ changed' = {})
  BY Zenon DEF Start, BeginPass, EndPass, Exit, Crash, Down
<1>5. (\E s \in Streams : Arrive(s)) \/ (\E t \in Tables : Edit(t)) \/ ClearState
      \/ UNCHANGED vars => UNCHANGED <<tables, pc, changed, at>>
  BY Zenon DEF Arrive, Edit, ClearState, vars
<1> QED BY Zenon, <1>1, <1>2, <1>3, <1>4, <1>5, StepKinds

\* For every pipeline: a derived table that reads only the pipeline's tables is
\* rewritten only when its basis is out of date or the state does not know it as
\* built by this definition (one_pass, recompute).
THEOREM RewritesHaveReasons == Spec => NoIdleRewrite
<1> DEFINE Reason == \A t \in Derived \ Outside :
      version'[t] # version[t] => basis[t] # Inputs(t) \/ state.built[t] # definition[t]
<1>1. Init => TypeOK /\ Behind
  <2> SUFFICES ASSUME Init PROVE Behind
    BY Zenon, TypeInit
  <2> QED BY Reads DEF Init, Behind
<1>2. TypeOK /\ Behind /\ [Next]_vars => (TypeOK /\ Behind)'
  BY Zenon, TypeStep, BehindStep
<1>3. TypeOK /\ Behind /\ [Next]_vars => [Reason]_vars
  <2> SUFFICES ASSUME TypeOK, Behind, [Next]_vars,
                      NEW t \in Derived \ Outside, version'[t] # version[t]
               PROVE  basis[t] # Inputs(t) \/ state.built[t] # definition[t]
    BY ZenonT(30)
  <2>0. t \in Tables /\ t \notin Streams /\ SqlReads[t] \subseteq Tables
    BY Zenon, Reads DEF Derived
  <2>1. PICK n \in Tables : NodeStep(n)
    BY StepKinds, Zenon DEF Start, BeginPass, EndPass, Exit, Crash, Down, ClearState, Arrive, Edit,
                     tables, vars
  <2>2. n = t
    BY Zenon, <2>0, <2>1, Moves
  <2>3. Recompute(t)
    BY Zenon, <2>0, <2>1, <2>2 DEF NodeStep, Skip, Keep, AdvanceStream, FailTable, tables
  <2>4. /\ ~UpToDate(t) /\ pc = "pass" /\ ~(Position(t) <= at)
    BY <2>0, <2>3, Positions DEF Recompute, Runs, Now, ToCome, TypeOK
  <2>5. CASE state.built[t] # definition[t]
    BY Zenon, <2>5
  <2>6. CASE DependsOn(t) \cap changed # {}
    <3>1. PICK u \in SqlReads[t] : u \in changed
      BY Zenon, <2>6 DEF DependsOn
    <3>2. basis[t].of[u] < version[u]
      BY Zenon, <2>4, <3>1 DEF Behind
    <3>3. Inputs(t).of[u] = version[u]
      BY Zenon, <2>0, <3>1 DEF Inputs
    <3>4. version[u] \in Nat
      BY Zenon, <2>0, <3>1 DEF TypeOK
    <3>5. basis[t].of[u] \in Nat
      <4>1. basis[t] \in Basis /\ u \in Tables
        BY Zenon, <2>0, <3>1 DEF TypeOK
      <4> QED BY Zenon, <4>1 DEF Basis
    <3>6. basis[t].of[u] # Inputs(t).of[u]
      BY <3>2, <3>3, <3>4, <3>5
    <3> QED BY <3>6, Zenon
  <2> QED BY Zenon, <2>4, <2>5, <2>6 DEF UpToDate
<1>4. NoIdleRewrite <=> [][Reason]_vars
  BY Zenon DEF NoIdleRewrite
<1> HIDE DEF Reason
<1> QED BY <1>1, <1>2, <1>3, <1>4, PTL DEF Spec

=============================================================================
