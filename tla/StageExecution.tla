--------------------------- MODULE StageExecution ---------------------------
(* The driver of distributed queries (driver.rs, dag_dispatch.rs and           *)
(* scheduler.rs of crates/oxidant-execution) over the workers of StageWorker.  *)
(*                                                                             *)
(* A query is a plan of stages. A stage is dispatched when its upstreams are   *)
(* complete, one task per worker for a leaf and one per read partition for a   *)
(* consumer; each task is retried on its worker, then on another; the output   *)
(* stage's rows are the answer. Every exit cancels and clears on the workers.  *)
EXTENDS StageWorker

CONSTANTS
  Owner,        \* the worker that owns each shuffle partition
  MaxTries,     \* attempts on the primary worker (OXIDANT_TASK_MAX_RETRIES)
  Moduli,       \* read moduli that samples of bucket counts lead to
  Faults,       \* which faults may happen
  MaxFailures   \* how many of them in a behaviour

ASSUME DriverAssumption ==
  /\ Owner \in [Buckets(NP) -> Workers]
  /\ MaxTries \in Nat \ {0} /\ MaxFailures \in Nat
  /\ Moduli \subseteq 1..NP /\ NP \in Moduli

VARIABLES
  query,     \* the driver's state of each query
  task,      \* the driver's state of each task of each query
  members,   \* the endpoints the live membership lists
  failures,  \* faults so far
  mishaps    \* history: kinds of fault that leave something behind

vars == <<workerVars, query, task, members, failures, mishaps>>

Tasks == Stages \X Parts
Idle  == [at |-> "none", w |-> 0, n |-> 0, tried |-> {}]

Phases == {"new", "run", "drain", "cancel", "clear", "ok", "failed"}

(* Types; no worker runs more tasks than it has slots (acquire_task_slot), and *)
(* a task that holds a registered flag finds it in the worker's map.           *)
TypeOK ==
  /\ \A h \in handlers :
       /\ h.q \in 1..Queries /\ h.s \in Stages /\ h.p \in Parts /\ h.w \in Workers
       /\ h.n \in 0..(MaxTries + 1) /\ h.mod \in 1..NP
       /\ h.flag \in {"reg", "clear", "tripped"} /\ h.live \in BOOLEAN
       /\ h.flag = "reg" => cancels[h.w][h.s] # "none"
  /\ cancels \in [Workers -> [Stages -> {"none", "clear", "tripped"}]]
  /\ \A q \in 1..Queries :
       /\ query[q].phase \in Phases /\ query[q].good \in BOOLEAN
       /\ query[q].done \subseteq query[q].sent /\ query[q].sent \subseteq Stages
       /\ query[q].mod \in [Stages -> 1..NP]
       /\ query[q].stop \in {"no", "asked", "swept"}
  /\ task \in [1..Queries -> [Tasks ->
       [at : {"none", "send", "sent", "recompute", "fallback", "ok", "failed"},
        w : 0..W, n : 0..(MaxTries + 1), tried : SUBSET Workers]]]
  /\ members \subseteq Workers
  /\ failures \in 0..MaxFailures
  /\ \A w \in Workers : Cardinality(Running(w)) <= Slots

Init ==
  /\ WorkerInit
  /\ query = [q \in 1..Queries |->
                [phase |-> "new", good |-> FALSE, sent |-> {}, done |-> {},
                 mod |-> [s \in Stages |-> NP], stop |-> "no", answer |-> EmptyBag]]
  /\ task = [q \in 1..Queries |-> [t \in Tasks |-> Idle]]
  /\ members = Workers /\ failures = 0 /\ mishaps = {}

Strikes(kind) == /\ kind \in Faults /\ failures < MaxFailures
                 /\ failures' = failures + 1
NoFault == UNCHANGED failures

----------------------------------------------------------------------------
(* The retry policy of one task (run_stage_inner_impl). Attempts 0..MaxTries-1 *)
(* run on the primary; attempt MaxTries is the one after a recomputation; an   *)
(* alternate's is MaxTries + 1.                                                *)
SetTask(q, s, p, t) == task' = [task EXCEPT ![q][<<s, p>>] = t]

AfterRetryable(s, t, why) ==
  IF t.n + 1 < MaxTries THEN [t EXCEPT !.at = "send", !.n = @ + 1]
  ELSE IF t.n + 1 = MaxTries /\ why = "shuffle" /\ Up[s] # {}
    THEN [t EXCEPT !.at = "recompute", !.n = MaxTries]
  ELSE [t EXCEPT !.at = "fallback", !.n = MaxTries + 1]

AfterFinal(t) == IF t.n = MaxTries THEN [t EXCEPT !.at = "fallback", !.n = @ + 1]
                                   ELSE [t EXCEPT !.at = "failed"]

Send(q, s, p) ==
  LET t == task[q][<<s, p>>] IN
  /\ t.at = "send"
  /\ Begin(q, s, p, t.w, t.n, query[q].mod[s])
  /\ SetTask(q, s, p, [t EXCEPT !.at = "sent"])
  /\ NoFault /\ UNCHANGED <<query, members, mishaps>>

(* A retry on the primary probes it first and counts a full worker as a failed *)
(* attempt.                                                                    *)
ProbeFull(q, s, p) ==
  LET t == task[q][<<s, p>>] IN
  /\ t.at = "send" /\ t.n \in 1..MaxTries /\ ~SlotFree(t.w)
  /\ SetTask(q, s, p, AfterRetryable(s, t, "slots"))
  /\ NoFault /\ UNCHANGED <<workerVars, query, members, mishaps>>

(* The connection is refused, or the wait for a slot runs out.                 *)
Refused(q, s, p) ==
  LET t == task[q][<<s, p>>] IN
  /\ t.at = "send" /\ Strikes("refuse")
  /\ SetTask(q, s, p, AfterRetryable(s, t, "transport"))
  /\ UNCHANGED <<workerVars, query, members, mishaps>>

(* Re-run, on each endpoint that cannot serve an upstream, the producer whose  *)
(* partition is the endpoint's index, with the one-bucket read; then try the   *)
(* task once more on its primary, or move on when a producer cannot run.       *)
Recomputed(q, s) ==
  {r \in Up[s] \X Workers : r[2] \in Endpoints(r[1]) /\ ~Readable(r[2], r[1])}
Rerun(q, u, w) ==
  IF Up[u] = {} THEN Scan(q, u, w)
  ELSE InputOf(u, CoalescedReadBuckets(NP, NP, w - 1))
RecomputeUpstream(q, s, p) ==
  LET t == task[q][<<s, p>>]
      R == Recomputed(q, s)
  IN
  /\ t.at = "recompute"
  /\ cache' = [w \in Workers |-> [k \in Tasks |->
       IF <<k[1], w>> \in R /\ k[2] = w - 1 /\ InputReadable(k[1])
         THEN [q |-> q, rows |-> Rerun(q, k[1], w), readable |-> TRUE]
         ELSE cache[w][k]]]
  /\ SetTask(q, s, p, IF \A r \in R : InputReadable(r[1])
                        THEN [t EXCEPT !.at = "send"]
                        ELSE [t EXCEPT !.at = "fallback", !.n = MaxTries + 1])
  /\ NoFault /\ UNCHANGED <<handlers, cancels, query, members, mishaps>>

(* The first listed worker not tried yet that has a free slot takes the task;  *)
(* with none the task fails.                                                   *)
Fallback(q, s, p) ==
  LET t   == task[q][<<s, p>>]
      alt == {w \in members \ t.tried : SlotFree(w)}
  IN
  /\ t.at = "fallback"
  /\ \/ /\ alt = {}
        /\ SetTask(q, s, p, [t EXCEPT !.at = "failed"]) /\ UNCHANGED mishaps
     \/ \E w \in alt :
          /\ \A v \in alt : w <= v
          /\ SetTask(q, s, p, [t EXCEPT !.at = "send", !.w = w, !.tried = @ \cup {w}])
          /\ mishaps' = mishaps \cup {"moved"}
  /\ NoFault /\ UNCHANGED <<workerVars, query, members>>

----------------------------------------------------------------------------
(* The answers of a worker, for the task the driver still waits for.           *)
Answered(h, t) == IF h.live THEN SetTask(h.q, h.s, h.p, t) ELSE UNCHANGED task
TaskOf(h) == task[h.q][<<h.s, h.p>>]

Pull(h) ==
  /\ h.in = {} /\ InputReadable(h.s)
  /\ NoFault /\ UNCHANGED <<query, task, members, mishaps>>
  /\ Pulls(h)

(* A spilled bucket that does not read back fails the pull.                    *)
PullFails(h) ==
  /\ h.in = {} /\ ~InputReadable(h.s)
  /\ Fails(h)
  /\ Answered(h, AfterRetryable(h.s, TaskOf(h), "shuffle"))
  /\ NoFault /\ UNCHANGED <<query, members, mishaps>>

Finish(h) ==
  \E bag \in h.in :
    /\ Commits(h, bag)
    /\ Answered(h, [TaskOf(h) EXCEPT !.at = "ok"])
    /\ query' = IF h.s = Output /\ h.live
                  THEN [query EXCEPT ![h.q].answer = @ (+) bag] ELSE query
    /\ NoFault /\ UNCHANGED <<members, mishaps>>

(* The task commits and its answer is lost.                                    *)
LoseAnswer(h) ==
  \E bag \in h.in :
    /\ h.live /\ Strikes("answer")
    /\ Commits(h, bag)
    /\ Answered(h, AfterRetryable(h.s, TaskOf(h), "transport"))
    /\ UNCHANGED <<query, members, mishaps>>

Abort(h) ==
  /\ Tripped(h)
  /\ Fails(h)
  /\ Answered(h, AfterFinal(TaskOf(h)))
  /\ NoFault /\ UNCHANGED <<query, members, mishaps>>

(* An execution error, the stage timeout or the no-progress watchdog.          *)
Break(h) ==
  /\ Strikes("error")
  /\ Fails(h)
  /\ Answered(h, AfterFinal(TaskOf(h)))
  /\ UNCHANGED <<query, members, mishaps>>

(* The connection breaks while the task runs. The server drops the task at     *)
(* once, or notices late and leaves it running.                                *)
Cut(h) ==
  /\ h.live /\ Strikes("cut")
  /\ Dropped(h)
  /\ SetTask(h.q, h.s, h.p, AfterRetryable(h.s, TaskOf(h), "transport"))
  /\ mishaps' = mishaps \cup {"dropped"}
  /\ UNCHANGED <<query, members>>

CutLate(h) ==
  /\ h.live /\ Strikes("late")
  /\ handlers' = (handlers \ {h}) \cup {[h EXCEPT !.live = FALSE]}
  /\ SetTask(h.q, h.s, h.p, AfterRetryable(h.s, TaskOf(h), "transport"))
  /\ mishaps' = mishaps \cup {"late"}
  /\ UNCHANGED <<cancels, cache, query, members>>

DropLate(h) ==
  /\ ~h.live /\ Dropped(h)
  /\ mishaps' = mishaps \cup {"dropped"}
  /\ NoFault /\ UNCHANGED <<query, task, members>>

(* A worker process dies and comes back with nothing.                          *)
Restart(w) ==
  /\ Strikes("restart")
  /\ handlers' = handlers \ Running(w)
  /\ cancels'  = [cancels EXCEPT ![w] = [s \in Stages |-> "none"]]
  /\ cache'    = [cache EXCEPT ![w] = Cleared[w]]
  /\ task' = [q \in 1..Queries |-> [k \in Tasks |->
       IF \E h \in Running(w) : h.live /\ h.q = q /\ <<h.s, h.p>> = k
         THEN AfterRetryable(k[1], task[q][k], "transport") ELSE task[q][k]]]
  /\ mishaps' = mishaps \cup {"restart"}
  /\ UNCHANGED <<query, members>>

SpillLost(w, k) ==
  /\ cache[w][k].readable /\ Strikes("spill")
  /\ cache' = [cache EXCEPT ![w][k].readable = FALSE]
  /\ UNCHANGED <<handlers, cancels, query, task, members, mishaps>>

Leave(w) ==
  /\ w \in members /\ Strikes("leave")
  /\ members' = members \ {w}
  /\ UNCHANGED <<workerVars, query, task, mishaps>>

Rejoin(w) ==
  /\ w \in Workers \ members /\ members' = members \cup {w}
  /\ NoFault /\ UNCHANGED <<workerVars, query, task, mishaps>>

----------------------------------------------------------------------------
(* The life of a query.                                                        *)
Ended(q)   == query[q].phase \in {"ok", "failed"}
Active(q)  == query[q].phase \in {"run", "drain"}
TasksOf(q, s) ==
  IF s \in Forward THEN {0} ELSE IF Up[s] = {} THEN 0..(W - 1) ELSE 0..(query[q].mod[s] - 1)
Primary(s, p) == IF s \in Forward THEN 1 ELSE IF Up[s] = {} THEN p + 1 ELSE Owner[p]

SetQuery(q, r) == query' = [query EXCEPT ![q] = r]

(* The client may send its next query while another one runs.                  *)
Start(q) ==
  LET busy == \E r \in 1..Queries : query[r].phase # "new" /\ ~Ended(r) IN
  /\ query[q].phase = "new" /\ \A r \in 1..(q - 1) : query[r].phase # "new"
  /\ busy => "overlap" \in Faults
  /\ SetQuery(q, [query[q] EXCEPT !.phase = "run"])
  /\ mishaps' = mishaps \cup IF busy THEN {"overlap"} ELSE {}
  /\ NoFault /\ UNCHANGED <<workerVars, task, members>>

(* The stages whose upstreams are complete; the output waits for all others.   *)
Ready(q) == {s \in Stages \ query[q].sent :
               IF s = Output THEN Stages \ {Output} \subseteq query[q].done
                             ELSE Up[s] \subseteq query[q].done}

(* A consumer reads by the least modulus the barriers of its upstreams chose.  *)
Modulus(s) == IF Up[s] = {} THEN {NP} ELSE Moduli

Dispatch(q, s) ==
  /\ query[q].phase = "run" /\ s \in Ready(q)
  /\ members = Workers /\ query[q].stop = "no"
  /\ \E m \in Modulus(s) :
       SetQuery(q, [query[q] EXCEPT !.sent = @ \cup {s}, !.mod[s] = m])
  /\ task' = [task EXCEPT ![q] = [k \in Tasks |->
       IF k[1] = s /\ k[2] \in TasksOf(q, s)'
         THEN [at |-> "send", w |-> Primary(s, k[2]), n |-> 0, tried |-> {Primary(s, k[2])}]
         ELSE task[q][k]]]
  /\ NoFault /\ UNCHANGED <<workerVars, members, mishaps>>

(* The driver's futures are dropped: every task of the query it waits for loses *)
(* its connection.                                                             *)
Waiting(q) == {h \in handlers : h.q = q /\ h.live}
DropTasks(q) ==
  /\ handlers' = handlers \ Waiting(q)
  /\ cache' = [w \in Workers |-> [k \in Tasks |->
       IF Produces(k[1]) /\ \E h \in Waiting(q) : h.w = w /\ <<h.s, h.p>> = k
         THEN Nothing ELSE cache[w][k]]]
  /\ task' = [task EXCEPT ![q] = [k \in Tasks |-> Idle]]
  /\ mishaps' = mishaps \cup IF Waiting(q) = {} THEN {} ELSE {"dropped"}
  /\ UNCHANGED cancels

(* A changed membership or an interrupt found at a dispatch ends the query.    *)
Refuse(q, s) ==
  /\ query[q].phase = "run" /\ s \in Ready(q)
  /\ members # Workers \/ query[q].stop # "no"
  /\ SetQuery(q, [query[q] EXCEPT !.phase = "cancel"])
  /\ DropTasks(q)
  /\ NoFault /\ UNCHANGED members

EndedTasks(q, s) == \A p \in TasksOf(q, s) : task[q][<<s, p>>].at \in {"ok", "failed"}
AllOk(q, s)      == \A p \in TasksOf(q, s) : task[q][<<s, p>>].at = "ok"
InFlight(q)      == {s \in query[q].sent \ query[q].done : ~EndedTasks(q, s)}

(* The barrier of a stage releases its dependents; the output's ends the query. *)
StageDone(q, s) ==
  /\ query[q].phase = "run" /\ s \in query[q].sent \ query[q].done /\ AllOk(q, s)
  /\ SetQuery(q, IF s = Output
                   THEN [query[q] EXCEPT !.done = @ \cup {s}, !.phase = "clear", !.good = TRUE]
                   ELSE [query[q] EXCEPT !.done = @ \cup {s}])
  /\ NoFault /\ UNCHANGED <<workerVars, task, members, mishaps>>

(* A stage with a failed task ends the query once all its tasks ended: the     *)
(* stages still in flight are cancelled and waited for.                        *)
StageFails(q, s) ==
  /\ query[q].phase = "run" /\ s \in query[q].sent \ query[q].done
  /\ EndedTasks(q, s) /\ ~AllOk(q, s)
  /\ SetQuery(q, [query[q] EXCEPT !.phase = IF s = Output THEN "cancel" ELSE "drain"])
  /\ TripStages(InFlight(q))
  /\ NoFault /\ UNCHANGED <<handlers, cache, task, members, mishaps>>

(* Mutant: waits for the failed stage to be done.                              *)
DrainedAllDone(q) ==
  /\ query[q].phase = "drain" /\ query[q].sent \subseteq query[q].done
  /\ SetQuery(q, [query[q] EXCEPT !.phase = "cancel"])
  /\ NoFault /\ UNCHANGED <<workerVars, task, members, mishaps>>

Drained(q) ==
  /\ query[q].phase = "drain" /\ InFlight(q) = {}
  /\ SetQuery(q, [query[q] EXCEPT !.phase = "cancel"])
  /\ NoFault /\ UNCHANGED <<workerVars, task, members, mishaps>>

DrainTimeout(q) ==
  /\ query[q].phase = "drain" /\ InFlight(q) # {}
  /\ SetQuery(q, [query[q] EXCEPT !.phase = "cancel"])
  /\ DropTasks(q)
  /\ NoFault /\ UNCHANGED members

(* The way out: cancel the plan's stages on every worker, unless the query     *)
(* succeeded, then empty every worker's cache, then answer.                    *)
SweepCancel(q) ==
  /\ query[q].phase = "cancel"
  /\ TripStages(Stages)
  /\ SetQuery(q, [query[q] EXCEPT !.phase = "clear"])
  /\ NoFault /\ UNCHANGED <<handlers, cache, task, members, mishaps>>

(* Mutant: a query that failed clears nothing.                                 *)
SweepClearGood(q) ==
  /\ query[q].phase = "clear"
  /\ cache' = IF query[q].good THEN Cleared ELSE cache
  /\ SetQuery(q, [query[q] EXCEPT !.phase = IF query[q].good THEN "ok" ELSE "failed"])
  /\ NoFault /\ UNCHANGED <<handlers, cancels, task, members, mishaps>>

SweepClear(q) ==
  /\ query[q].phase = "clear"
  /\ cache' = Cleared
  /\ SetQuery(q, [query[q] EXCEPT !.phase = IF query[q].good THEN "ok" ELSE "failed"])
  /\ NoFault /\ UNCHANGED <<handlers, cancels, task, members, mishaps>>

(* The client interrupts the query; a watcher cancels its stages once.         *)
Interrupt(q) ==
  /\ Active(q) /\ query[q].stop = "no" /\ Strikes("interrupt")
  /\ SetQuery(q, [query[q] EXCEPT !.stop = "asked"])
  /\ UNCHANGED <<workerVars, task, members, mishaps>>

Watch(q) ==
  /\ Active(q) /\ query[q].stop = "asked"
  /\ TripStages(Stages)
  /\ SetQuery(q, [query[q] EXCEPT !.stop = "swept"])
  /\ NoFault /\ UNCHANGED <<handlers, cache, task, members, mishaps>>

(* The client goes away. While stages run, the abort guard sweeps as above;    *)
(* once it is disarmed the sweep under way is dropped with the query.          *)
Abandon(q) ==
  /\ Active(q) /\ Strikes("abandon")
  /\ SetQuery(q, [query[q] EXCEPT !.phase = "cancel"])
  /\ DropTasks(q)
  /\ UNCHANGED members

AbandonSweep(q) ==
  /\ query[q].phase \in {"cancel", "clear"} /\ Strikes("abandon")
  /\ SetQuery(q, [query[q] EXCEPT !.phase = "failed"])
  /\ mishaps' = mishaps \cup {"unswept"}
  /\ UNCHANGED <<workerVars, task, members>>

----------------------------------------------------------------------------
TaskStep(q, s, p) ==
  \/ Send(q, s, p) \/ ProbeFull(q, s, p) \/ RecomputeUpstream(q, s, p) \/ Fallback(q, s, p)
HandlerStep(h) == Finish(h) \/ Abort(h) \/ DropLate(h) \/ PullFails(h) \/ Pull(h)
QueryStep(q) ==
  \/ Start(q) \/ Drained(q) \/ DrainTimeout(q) \/ SweepCancel(q) \/ SweepClear(q) \/ Watch(q)
  \/ \E s \in Stages : Dispatch(q, s) \/ Refuse(q, s) \/ StageDone(q, s) \/ StageFails(q, s)

Fault ==
  \/ \E q \in 1..Queries, s \in Stages, p \in Parts : Refused(q, s, p)
  \/ \E h \in handlers : LoseAnswer(h) \/ Break(h) \/ Cut(h) \/ CutLate(h)
  \/ \E w \in Workers : Restart(w) \/ Leave(w) \/ \E k \in Tasks : SpillLost(w, k)
  \/ \E q \in 1..Queries : Interrupt(q) \/ Abandon(q) \/ AbandonSweep(q)

Progress ==
  \/ \E q \in 1..Queries, s \in Stages, p \in Parts : TaskStep(q, s, p)
  \/ \E h \in handlers : HandlerStep(h)
  \/ \E q \in 1..Queries : QueryStep(q)
  \/ \E w \in Workers : Rejoin(w)

Next == Progress \/ Fault
Spec == Init /\ [][Next]_vars

(* Driver and workers keep being scheduled: a step of theirs that stays        *)
(* possible is taken. Nothing is assumed of faults.                            *)
FairSpec == Spec /\ WF_vars(Progress)

----------------------------------------------------------------------------
(* Properties. Every row the plan scans, once.                                 *)
Expected(q) ==
  SetToBag(UNION {DOMAIN Scan(q, s, w) : s \in {u \in Stages : Up[u] = {}}, w \in Workers})

(* The faults that the driver's retries do not repair: a leaf task moved to a  *)
(* worker with another shard, a task running on after its retry, a worker that *)
(* lost its cache, a second query at the same time, a cleanup cut short.       *)
Harmful == {"moved", "late", "restart", "overlap", "unswept"}

(* A query that succeeds answers with every scanned row exactly once, whatever *)
(* tasks were retried, recomputed or read through a coalesced modulus          *)
(* (run_stage_inner_impl, recompute_upstream_producers, read_shuffle).         *)
AnswerExact == \A q \in 1..Queries :
  query[q].phase = "ok" /\ mishaps \cap Harmful = {} => query[q].answer = Expected(q)

(* The same of every fault the driver handles: what lineage.rs promises, that  *)
(* a consumer's failed read leads to a recomputation on a healthy worker.      *)
AnswerAlwaysExact == \A q \in 1..Queries :
  query[q].phase = "ok" => query[q].answer = Expected(q)

(* A task meets a tripped cancel flag only when its own query is being         *)
(* cancelled: no flag of an earlier query's stage of the same id is left       *)
(* registered (register_stage_cancel, unregister_stage_cancel).                *)
CancelIsOwn == \A h \in handlers :
  Tripped(h) /\ mishaps \cap {"dropped", "late", "overlap"} = {} =>
    query[h.q].phase # "run" \/ query[h.q].stop = "swept"

(* Between queries no task runs and no shuffle output is kept, however the     *)
(* last query ended: the sweep of run_stages_obs and of QueryAbortGuard.       *)
CleanWhenIdle ==
  (\A q \in 1..Queries : query[q].phase = "new" \/ Ended(q)) /\ mishaps \cap Harmful = {} =>
     handlers = {} /\ cache = Cleared

(* Every query comes to an end: no barrier, drain or slot is waited for in     *)
(* vain, whatever failed (run_stages_concurrent, acquire_task_slot).           *)
QueryEnds == \A q \in 1..Queries : Active(q) ~> Ended(q)
=============================================================================
