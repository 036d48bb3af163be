-------------------------- MODULE StageSlotsProofs --------------------------
(***************************************************************************)
(* Proofs of StageExecution: its types, and that no worker runs more tasks *)
(* than it has slots, for any cluster, plan and faults.                    *)
(***************************************************************************)
EXTENDS StageExecutionProofs, FiniteSetTheorems

-----------------------------------------------------------------------------
(* The handlers of a worker *)

On(H, w) == {h \in H : h.w = w}

\* Every handler of H2 continues one of H, on its worker.
Continues(H, H2) ==
  \E K \in SUBSET H : \E F : H2 = {F[g] : g \in K} /\ \A g \in K : F[g].w = g.w

\* Then no worker has more of them.
LEMMA NoMore ==
  ASSUME NEW H, NEW H2, IsFiniteSet(H), Continues(H, H2)
  PROVE  /\ IsFiniteSet(H2)
         /\ \A w : Cardinality(On(H2, w)) <= Cardinality(On(H, w))
<1>1. PICK K \in SUBSET H : \E F : H2 = {F[g] : g \in K} /\ \A g \in K : F[g].w = g.w
  BY Zenon DEF Continues
<1>2. PICK F : H2 = {F[g] : g \in K} /\ \A g \in K : F[g].w = g.w
  BY Zenon, <1>1
<1>3. IsFiniteSet(K)
  BY Zenon, <1>1, FS_Subset
<1>4. IsFiniteSet(H2)
  <2> DEFINE f == [g \in K |-> F[g]]
  <2>1. f \in [K -> H2]
    BY Zenon, <1>2
  <2>2. \A t \in H2 : \E g \in K : f[g] = t
    BY Zenon, <1>2
  <2>3. f \in Surjection(K, H2)
    BY Zenon, <2>1, <2>2 DEF Surjection
  <2> HIDE DEF f
  <2> QED
    BY Zenon, <1>3, <2>3, FS_Surjection
<1>5. ASSUME NEW w PROVE Cardinality(On(H2, w)) <= Cardinality(On(H, w))
  <2> DEFINE f == [g \in On(K, w) |-> F[g]]
  <2>1. f \in [On(K, w) -> On(H2, w)]
    BY Zenon, <1>2 DEF On
  <2>2. \A t \in On(H2, w) : \E g \in On(K, w) : f[g] = t
    BY Zenon, <1>2 DEF On
  <2>3. f \in Surjection(On(K, w), On(H2, w))
    BY Zenon, <2>1, <2>2 DEF Surjection
  <2> HIDE DEF f
  <2>4. On(K, w) \in SUBSET On(H, w) /\ On(H, w) \in SUBSET H
    BY Zenon, <1>1 DEF On
  <2>5. IsFiniteSet(On(H, w)) /\ IsFiniteSet(On(K, w))
    BY Zenon, <2>4, FS_Subset
  <2>6. Cardinality(On(H2, w)) <= Cardinality(On(K, w)) /\ IsFiniteSet(On(H2, w))
    BY Zenon, <2>3, <2>5, FS_Surjection
  <2>7. Cardinality(On(K, w)) <= Cardinality(On(H, w))
    BY Zenon, <2>4, <2>5, FS_Subset
  <2>8. /\ Cardinality(On(H2, w)) \in Nat /\ Cardinality(On(K, w)) \in Nat
        /\ Cardinality(On(H, w)) \in Nat
    BY Zenon, <2>5, <2>6, FS_CardinalityType
  <2> QED
    BY <2>6, <2>7, <2>8
<1> QED
  BY Zenon, <1>4, <1>5

LEMMA LeavingContinues == ASSUME NEW H, NEW H2 \in SUBSET H PROVE Continues(H, H2)
<1> DEFINE F == [g \in H2 |-> g]
<1>1. \A g \in H2 : F[g] = g
  BY Zenon
<1> HIDE DEF F
<1>2. H2 = {F[g] : g \in H2} /\ \A g \in H2 : F[g].w = g.w
  BY <1>1
<1> QED
  BY ZenonT(60), <1>2 DEF Continues

LEMMA CarryContinues ==
  ASSUME NEW H, NEW C, NEW H2, NEW C2, NEW K, NEW F, Carry(H, C, H2, C2, K, F)
  PROVE  Continues(H, H2)
<1>1. K \in SUBSET H /\ H2 = {F[g] : g \in K} /\ \A g \in K : F[g].w = g.w
  BY Zenon DEF Carry
<1> QED
  BY Zenon, <1>1 DEF Continues

\* A task that ends, and its siblings with it, stay on their workers.
LEMMA EndingContinues ==
  ASSUME IInv, NEW h \in handlers, Unregister(h)
  PROVE  Continues(handlers, handlers')
<1>1. WorkersInv(handlers, cancels)
  BY Zenon DEF IInv
<1> QED
  BY Zenon, <1>1, Ending, CarryContinues

\* A task whose record changes, but not its worker.
LEMMA SwapContinues ==
  ASSUME NEW H, NEW h \in H, NEW h2, h2.w = h.w
  PROVE  Continues(H, (H \ {h}) \cup {h2})
<1> DEFINE F == [g \in H |-> IF g = h THEN h2 ELSE g]
<1>1. F[h] = h2 /\ \A g \in H \ {h} : F[g] = g
  BY Zenon
<1> HIDE DEF F
<1>2. (H \ {h}) \cup {h2} = {F[g] : g \in H}
  BY <1>1
<1>3. \A g \in H : F[g].w = g.w
  BY <1>1
<1>4. H \in SUBSET H
  BY Zenon
<1> QED
  BY Zenon, <1>2, <1>3, <1>4 DEF Continues

-----------------------------------------------------------------------------
(* The steps *)

\* One task more runs on the worker w, which had a slot free.
Admits(w) == /\ SlotFree(w)
             /\ \E h : h.w = w /\ handlers' = handlers \cup {h}

LEMMA HandlerSteps ==
  ASSUME IInv, NEW h \in handlers,
         HandlerStep(h) \/ LoseAnswer(h) \/ Break(h) \/ Cut(h) \/ CutLate(h)
  PROVE  Continues(handlers, handlers')
<1>0. IsHandler(h)
  BY Zenon DEF IInv, WorkersInv
<1>1. CASE Finish(h) \/ Abort(h) \/ PullFails(h) \/ LoseAnswer(h) \/ Break(h)
  <2>1. Unregister(h)
    BY Zenon, <1>1 DEF Finish, Abort, PullFails, LoseAnswer, Break, Commits, Fails
  <2> QED
    BY Zenon, <2>1, EndingContinues
<1>2. CASE DropLate(h) \/ Cut(h)
  <2>1. handlers' \in SUBSET handlers
    BY Zenon, <1>2 DEF DropLate, Cut, Dropped
  <2> QED
    BY Zenon, <2>1, LeavingContinues
<1>3. CASE Pull(h)
  <2> DEFINE h2 == [h EXCEPT !.in = {InputOf(h.s, CoalescedReadBuckets(NP, h.mod, h.p))}]
  <2>1. handlers' = (handlers \ {h}) \cup {h2}
    BY Zenon, <1>3 DEF Pull, Pulls
  <2>2. h2.w = h.w
    BY Zenon, <1>0 DEF IsHandler, HandlerFields
  <2> QED
    BY Zenon, <2>1, <2>2, SwapContinues
<1>4. CASE CutLate(h)
  <2> DEFINE h2 == [h EXCEPT !.live = FALSE]
  <2>1. handlers' = (handlers \ {h}) \cup {h2}
    BY Zenon, <1>4 DEF CutLate
  <2>2. h2.w = h.w
    BY Zenon, <1>0 DEF IsHandler, HandlerFields
  <2> QED
    BY Zenon, <2>1, <2>2, SwapContinues
<1> QED
  BY Zenon, <1>1, <1>2, <1>3, <1>4 DEF HandlerStep

\* A step starts a task on a worker with a free slot, or starts none.
LEMMA AdmitOrContinue ==
  ASSUME IInv, [Next]_vars
  PROVE  (\E w : Admits(w)) \/ Continues(handlers, handlers')
<1>0. handlers' \in SUBSET handlers => Continues(handlers, handlers')
  BY Zenon, LeavingContinues
<1>1. CASE vars' = vars
  <2>1. handlers' \in SUBSET handlers
    BY Zenon, <1>1 DEF vars, workerVars
  <2> QED
    BY Zenon, <1>0, <2>1
<1>2. ASSUME NEW q \in 1..Queries, NEW s \in Stages, NEW p \in Parts, Send(q, s, p)
      PROVE  \E w : Admits(w)
  <2> DEFINE t == task[q][<<s, p>>]
             h == [q |-> q, s |-> s, p |-> p, w |-> t.w, n |-> t.n, mod |-> query[q].mod[s],
                   in |-> IF Up[s] = {} THEN {Scan(q, s, t.w)} ELSE {},
                   flag |-> "reg", live |-> TRUE]
  <2>1. SlotFree(t.w) /\ handlers' = handlers \cup {h}
    BY Zenon, <1>2 DEF Send, Begin
  <2>2. h.w = t.w
    BY Zenon
  <2> QED
    BY Zenon, <2>1, <2>2 DEF Admits
<1>3. ASSUME NEW q \in 1..Queries, NEW s \in Stages, NEW p \in Parts,
             ProbeFull(q, s, p) \/ RecomputeUpstream(q, s, p) \/ Fallback(q, s, p) \/ Refused(q, s, p)
      PROVE  handlers' \in SUBSET handlers
  BY Zenon, <1>3 DEF ProbeFull, RecomputeUpstream, Fallback, Refused, workerVars
<1>4. ASSUME NEW q \in 1..Queries, QueryStep(q) \/ Interrupt(q) \/ Abandon(q) \/ AbandonSweep(q)
      PROVE  handlers' \in SUBSET handlers
  BY Zenon, <1>4 DEF QueryStep, Start, Drained, DrainTimeout, SweepCancel, SweepClear, Watch,
    Dispatch, Refuse, StageDone, StageFails, Interrupt, Abandon, AbandonSweep, DropTasks, workerVars
<1>5. ASSUME NEW w \in Workers,
             Restart(w) \/ Leave(w) \/ Rejoin(w) \/ \E k \in Tasks : SpillLost(w, k)
      PROVE  handlers' \in SUBSET handlers
  BY Zenon, <1>5 DEF Restart, Leave, Rejoin, SpillLost, workerVars
<1>6. CASE Progress
  BY Zenon, <1>6, <1>0, <1>2, <1>3, <1>4, <1>5, HandlerSteps DEF Progress, TaskStep
<1>7. CASE Fault
  BY Zenon, <1>7, <1>0, <1>3, <1>4, <1>5, HandlerSteps DEF Fault
<1> QED
  BY Zenon, <1>1, <1>6, <1>7 DEF Next

-----------------------------------------------------------------------------
(* Types *)

\* The count of faults stays within its bound.
LEMMA FailuresCounted == failures \in 0..MaxFailures /\ [Next]_vars => failures' \in 0..MaxFailures
<1> SUFFICES ASSUME failures \in 0..MaxFailures, [Next]_vars PROVE failures' \in 0..MaxFailures
  OBVIOUS
<1>0. MaxFailures \in Nat
  BY Zenon, Constants
<1>1. (\E kind : Strikes(kind)) => failures' \in 0..MaxFailures
  BY <1>0 DEF Strikes
<1>2. NoFault \/ vars' = vars => failures' \in 0..MaxFailures
  BY Zenon DEF NoFault, vars
<1>3. ASSUME NEW q \in 1..Queries, NEW s \in Stages, NEW p \in Parts, TaskStep(q, s, p)
      PROVE  NoFault
  BY Zenon, <1>3 DEF TaskStep, Send, ProbeFull, RecomputeUpstream, Fallback
<1>4. ASSUME NEW h \in handlers, HandlerStep(h) PROVE NoFault
  BY Zenon, <1>4 DEF HandlerStep, Pull, PullFails, Finish, Abort, DropLate
<1>5. ASSUME NEW q \in 1..Queries, QueryStep(q) PROVE NoFault
  BY Zenon, <1>5 DEF QueryStep, Start, Drained, DrainTimeout, SweepCancel, SweepClear, Watch,
    Dispatch, Refuse, StageDone, StageFails
<1>6. ASSUME NEW w \in Workers, Rejoin(w) PROVE NoFault
  BY Zenon, <1>6 DEF Rejoin
<1>7. CASE Progress
  BY Zenon, <1>7, <1>2, <1>3, <1>4, <1>5, <1>6 DEF Progress
<1>8. CASE Fault
  <2>1. \E kind : Strikes(kind)
    BY Zenon, <1>8 DEF Fault, Refused, LoseAnswer, Break, Cut, CutLate, Restart, Leave, SpillLost,
      Interrupt, Abandon, AbandonSweep
  <2> QED
    BY Zenon, <1>1, <2>1
<1> QED
  BY Zenon, <1>2, <1>7, <1>8 DEF Next

\* The driver's tasks are a function of the query and the task.
IsFcn(f) == f = [x \in DOMAIN f |-> f[x]]

LEMMA ExceptIsFcn == \A f, a, b : IsFcn([f EXCEPT ![a] = b])
BY DEF IsFcn

LEMMA TasksTable == IsFcn(task) /\ [Next]_vars => IsFcn(task')
<1> SUFFICES ASSUME IsFcn(task), [Next]_vars PROVE IsFcn(task')
  OBVIOUS
<1>s. ASSUME NEW q, NEW s, NEW p, NEW t, SetTask(q, s, p, t) PROVE IsFcn(task')
  BY Zenon, <1>s, ExceptIsFcn DEF SetTask
<1>a. ASSUME NEW h, NEW t, Answered(h, t) PROVE IsFcn(task')
  BY Zenon, <1>a, <1>s DEF Answered
<1>1. CASE vars' = vars
  BY Zenon, <1>1 DEF vars
<1>2. ASSUME NEW q \in 1..Queries, NEW s \in Stages, NEW p \in Parts,
             TaskStep(q, s, p) \/ Refused(q, s, p)
      PROVE  IsFcn(task')
  BY Zenon, <1>2, <1>s DEF TaskStep, Send, ProbeFull, RecomputeUpstream, Fallback, Refused
<1>3. ASSUME NEW h \in handlers, HandlerStep(h) \/ LoseAnswer(h) \/ Break(h) \/ Cut(h) \/ CutLate(h)
      PROVE  IsFcn(task')
  BY Zenon, <1>3, <1>a, <1>s DEF HandlerStep, Pull, PullFails, Finish, Abort, DropLate, LoseAnswer,
    Break, Cut, CutLate
<1>4. ASSUME NEW q \in 1..Queries, DropTasks(q) \/ \E s \in Stages : Dispatch(q, s)
      PROVE  IsFcn(task')
  <2>1. PICK x : task' = [task EXCEPT ![q] = x]
    BY Zenon, <1>4 DEF DropTasks, Dispatch
  <2>2. IsFcn([task EXCEPT ![q] = x])
    BY Zenon, ExceptIsFcn
  <2> QED
    BY Zenon, <2>1, <2>2
<1>5. ASSUME NEW q \in 1..Queries, QueryStep(q) \/ Interrupt(q) \/ Abandon(q) \/ AbandonSweep(q)
      PROVE  IsFcn(task')
  BY Zenon, <1>4, <1>5 DEF QueryStep, Start, Drained, DrainTimeout, SweepCancel, SweepClear, Watch,
    Refuse, StageDone, StageFails, Interrupt, Abandon, AbandonSweep
<1>6. ASSUME NEW w \in Workers, Restart(w) PROVE IsFcn(task')
  BY <1>6 DEF Restart, IsFcn
<1>7. ASSUME NEW w \in Workers, Leave(w) \/ Rejoin(w) \/ \E k \in Tasks : SpillLost(w, k)
      PROVE  IsFcn(task')
  BY Zenon, <1>7 DEF Leave, Rejoin, SpillLost
<1>8. CASE Progress
  BY Zenon, <1>8, <1>2, <1>3, <1>5, <1>7 DEF Progress
<1>9. CASE Fault
  BY Zenon, <1>9, <1>2, <1>3, <1>5, <1>6, <1>7 DEF Fault
<1> QED
  BY Zenon, <1>1, <1>8, <1>9 DEF Next

\* The tasks running on a worker fit its slots.
SlotsInv == /\ IsFiniteSet(handlers)
            /\ \A w : Cardinality(On(handlers, w)) <= Slots

LEMMA SlotsStep == ASSUME IInv, SlotsInv, [Next]_vars PROVE SlotsInv'
<1>0. Slots \in Nat
  BY Zenon, Constants
<1>f. \A H, w : IsFiniteSet(H) => IsFiniteSet(On(H, w)) /\ Cardinality(On(H, w)) \in Nat
  <2> SUFFICES ASSUME NEW H, NEW w, IsFiniteSet(H)
               PROVE  IsFiniteSet(On(H, w)) /\ Cardinality(On(H, w)) \in Nat
    BY Zenon
  <2>1. On(H, w) \in SUBSET H
    BY Zenon DEF On
  <2>2. IsFiniteSet(On(H, w))
    BY Zenon, <2>1, FS_Subset
  <2> QED
    BY Zenon, <2>2, FS_CardinalityType
<1>1. CASE Continues(handlers, handlers')
  <2>1. IsFiniteSet(handlers) /\ IsFiniteSet(handlers')
    BY Zenon, <1>1, NoMore DEF SlotsInv
  <2>2. ASSUME NEW w PROVE Cardinality(On(handlers', w)) <= Slots
    <3>1. /\ Cardinality(On(handlers', w)) <= Cardinality(On(handlers, w))
          /\ Cardinality(On(handlers, w)) <= Slots
      BY Zenon, <1>1, NoMore DEF SlotsInv
    <3>2. Cardinality(On(handlers', w)) \in Nat /\ Cardinality(On(handlers, w)) \in Nat
      BY Zenon, <2>1, <1>f
    <3> QED
      BY <1>0, <3>1, <3>2
  <2> QED
    BY Zenon, <2>1, <2>2 DEF SlotsInv, On
<1>2. ASSUME NEW v, Admits(v) PROVE SlotsInv'
  <2>1. PICK h : h.w = v /\ handlers' = handlers \cup {h}
    BY Zenon, <1>2 DEF Admits
  <2>2. Cardinality(On(handlers, v)) < Slots /\ IsFiniteSet(handlers)
    BY Zenon, <1>2 DEF Admits, SlotFree, Running, On, SlotsInv
  <2>3. IsFiniteSet(handlers')
    BY Zenon, <2>1, <2>2, FS_AddElement
  <2>4. ASSUME NEW w PROVE Cardinality(On(handlers', w)) <= Slots
    <3>1. CASE w = v
      <4>1. On(handlers', v) = On(handlers, v) \cup {h}
        BY <2>1 DEF On
      <4>2. Cardinality(On(handlers', v)) =
              IF h \in On(handlers, v) THEN Cardinality(On(handlers, v))
                                       ELSE Cardinality(On(handlers, v)) + 1
        BY Zenon, <4>1, <2>2, <1>f, FS_AddElement
      <4>3. Cardinality(On(handlers, v)) \in Nat
        BY Zenon, <2>2, <1>f
      <4> QED
        BY <1>0, <3>1, <4>2, <4>3, <2>2
    <3>2. CASE w # v
      <4>1. On(handlers', w) = On(handlers, w)
        BY <2>1, <3>2 DEF On
      <4> QED
        BY Zenon, <4>1 DEF SlotsInv
    <3> QED
      BY Zenon, <3>1, <3>2
  <2> QED
    BY Zenon, <2>3, <2>4 DEF SlotsInv, On
<1> QED
  BY Zenon, <1>1, <1>2, AdmitOrContinue

\* No worker runs more tasks than it has slots, whatever is retried, moved to another
\* worker, recomputed or restarted (acquire_task_slot), a task that holds a registered
\* flag finds it in the worker's map, and every part of the state keeps its type.
THEOREM TypeCorrect == Spec => []TypeOK
<1>1. Init => SlotsInv /\ failures \in 0..MaxFailures /\ IsFcn(task)
  <2> SUFFICES ASSUME Init PROVE SlotsInv /\ failures \in 0..MaxFailures /\ IsFcn(task)
    OBVIOUS
  <2>1. handlers = {} /\ failures = 0
    BY Zenon DEF Init, WorkerInit
  <2>2. \A w : On(handlers, w) = {}
    BY <2>1 DEF On
  <2>3. IsFiniteSet(handlers) /\ \A w : Cardinality(On(handlers, w)) = 0
    BY Zenon, <2>1, <2>2, FS_EmptySet
  <2>4. IsFcn(task)
    BY DEF Init, IsFcn
  <2> QED
    BY <2>1, <2>3, <2>4, Constants DEF SlotsInv
<1>2. IInv /\ SlotsInv /\ failures \in 0..MaxFailures /\ IsFcn(task) /\ [Next]_vars =>
        (SlotsInv /\ failures \in 0..MaxFailures /\ IsFcn(task))'
  BY Zenon, SlotsStep, FailuresCounted, TasksTable
<1>3. IInv /\ members \subseteq Workers /\ SlotsInv /\ failures \in 0..MaxFailures /\ IsFcn(task) => TypeOK
  <2> SUFFICES ASSUME IInv, members \subseteq Workers, SlotsInv, failures \in 0..MaxFailures, IsFcn(task)
               PROVE  TypeOK
    OBVIOUS
  <2>1. /\ cancels \in [Workers -> [Stages -> {"none", "clear", "tripped"}]]
        /\ \A h \in handlers : IsHandler(h) /\ (h.flag = "reg" => cancels[h.w][h.s] # "none")
    BY Zenon DEF IInv, WorkersInv
  <2>2. \A q \in 1..Queries : IsQuery(query[q]) /\ task[q] \in [Tasks -> TaskType]
    BY Zenon DEF IInv, PlanInv
  <2>3. \A w \in Workers : Cardinality(Running(w)) <= Slots
    BY Zenon DEF SlotsInv, On, Running
  <2>4. \A h \in handlers :
          /\ h.q \in 1..Queries /\ h.s \in Stages /\ h.p \in Parts /\ h.w \in Workers
          /\ h.n \in 0..(MaxTries + 1) /\ h.mod \in 1..NP
          /\ h.flag \in {"reg", "clear", "tripped"} /\ h.live \in BOOLEAN
          /\ h.flag = "reg" => cancels[h.w][h.s] # "none"
    BY Zenon, <2>1 DEF IsHandler
  <2>5. \A q \in 1..Queries :
          /\ query[q].phase \in Phases /\ query[q].good \in BOOLEAN
          /\ query[q].done \subseteq query[q].sent /\ query[q].sent \subseteq Stages
          /\ query[q].mod \in [Stages -> 1..NP]
          /\ query[q].stop \in {"no", "asked", "swept"}
    BY Zenon, <2>2 DEF IsQuery
  <2>6. task \in [1..Queries -> [Tasks -> TaskType]]
    BY Zenon, <2>2 DEF IInv, IsFcn
  <2> QED
    BY Zenon, <2>1, <2>3, <2>4, <2>5, <2>6 DEF TypeOK, TaskType
<1> QED
  BY <1>1, <1>2, <1>3, Reached, PTL DEF Spec
=============================================================================
