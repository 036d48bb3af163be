------------------------ MODULE StageExecutionProofs ------------------------
(***************************************************************************)
(* Proofs of StageExecution: between queries nothing runs and nothing is   *)
(* kept, and a task meets no cancel but its own query's, for any cluster,   *)
(* plan and faults.                                                       *)
(***************************************************************************)
EXTENDS StageExecution, TLAPS

-----------------------------------------------------------------------------
(* The inductive invariant *)

HandlerFields == {"q", "s", "p", "w", "n", "mod", "in", "flag", "live"}
QueryFields   == {"phase", "good", "sent", "done", "mod", "stop", "answer"}
TaskType == [at : {"none", "send", "sent", "recompute", "fallback", "ok", "failed"},
             w : 0..W, n : 0..(MaxTries + 1), tried : SUBSET Workers]

\* The driver has work to do for the task.
Pending == {"send", "sent", "recompute", "fallback"}

IsHandler(h) ==
  /\ DOMAIN h = HandlerFields
  /\ h.q \in 1..Queries /\ h.s \in Stages /\ h.p \in Parts /\ h.w \in Workers
  /\ h.n \in 0..(MaxTries + 1) /\ h.mod \in 1..NP
  /\ h.flag \in {"reg", "clear", "tripped"} /\ h.live \in BOOLEAN

IsQuery(r) ==
  /\ DOMAIN r = QueryFields
  /\ r.phase \in Phases /\ r.good \in BOOLEAN
  /\ r.done \subseteq r.sent /\ r.sent \subseteq Stages
  /\ r.mod \in [Stages -> 1..NP] /\ r.stop \in {"no", "asked", "swept"}

\* A task of stage s: TasksOf of a query in state r.
PartsOf(r, s) ==
  IF s \in Forward THEN {0} ELSE IF Up[s] = {} THEN 0..(W - 1) ELSE 0..(r.mod[s] - 1)

\* A query r and its tasks tk: tasks exist for dispatched stages only, the output is
\* dispatched last, a finished stage has finished tasks, and only an active query has
\* work to do.
PlanInv(r, tk) ==
  /\ IsQuery(r) /\ tk \in [Tasks -> TaskType]
  /\ r.phase = "new" => r.sent = {}
  /\ Output \in r.sent => Stages \ {Output} \subseteq r.done
  /\ \A k \in Tasks : tk[k].at # "none" => k[1] \in r.sent /\ k[2] \in PartsOf(r, k[1])
  /\ \A k \in Tasks : tk[k].at \in Pending => r.phase \in {"run", "drain"} /\ tk[k].w \in Workers
  /\ r.phase \in {"run", "drain"} =>
       \A k \in Tasks : k[1] \in r.done /\ k[2] \in PartsOf(r, k[1]) => tk[k].at = "ok"

\* The handlers H of all workers and their flags C: a registered flag is in the map.
WorkersInv(H, C) ==
  /\ C \in [Workers -> [Stages -> {"none", "clear", "tripped"}]]
  /\ \A h \in H : IsHandler(h) /\ (h.flag = "reg" => C[h.w][h.s] # "none")

\* The driver waits for a live handler, and for no two of the same task.
LiveInv(H, tks) ==
  /\ \A h \in H : h.live => tks[h.q][<<h.s, h.p>>].at = "sent"
  /\ \A g, h \in H : g.live /\ h.live /\ g.q = h.q /\ g.s = h.s /\ g.p = h.p => g = h

\* A flag in the map is held by a handler, unless a connection was dropped.
HasHolder(H, w, s) == \E h \in H : h.w = w /\ h.s = s /\ h.flag = "reg"
HeldInv(H, C, m) ==
  "dropped" \notin m =>
    \A w \in Workers, s \in Stages : C[w][s] # "none" => HasHolder(H, w, s)

Busy(r) == r.phase \in {"run", "drain", "cancel", "clear"}

\* One query at a time, and every handler waited for, unless a fault says otherwise.
AloneInv(Q, H, m) ==
  /\ "overlap" \notin m => \A q, r \in 1..Queries : Busy(Q[q]) /\ Busy(Q[r]) => q = r
  /\ "late" \notin m => \A h \in H : h.live

CacheInv(Q, m, c) ==
  m \cap Harmful = {} /\ (\A q \in 1..Queries : ~Busy(Q[q])) => c = Cleared

TrippedBy(h, C) == (IF h.flag = "reg" THEN C[h.w][h.s] ELSE h.flag) = "tripped"

OwnInv(Q, H, C, m) ==
  m \cap {"dropped", "late", "overlap"} = {} =>
    \A h \in H : TrippedBy(h, C) => Q[h.q].phase # "run" \/ Q[h.q].stop = "swept"

IInv ==
  /\ DOMAIN query = 1..Queries /\ DOMAIN task = 1..Queries
  /\ \A q \in 1..Queries : PlanInv(query[q], task[q])
  /\ WorkersInv(handlers, cancels)
  /\ LiveInv(handlers, task)
  /\ HeldInv(handlers, cancels, mishaps)
  /\ AloneInv(query, handlers, mishaps)
  /\ CacheInv(query, mishaps, cache)
  /\ OwnInv(query, handlers, cancels, mishaps)
-----------------------------------------------------------------------------
(* Constants *)

LEMMA Constants ==
  /\ W \in Nat \ {0} /\ NP \in Nat \ {0} /\ Slots \in Nat \ {0} /\ Queries \in Nat
  /\ MaxTries \in Nat \ {0} /\ MaxFailures \in Nat
  /\ Owner \in [0..(NP - 1) -> Workers] /\ Moduli \subseteq 1..NP
  /\ Output \in Stages
BY PlanAssumption, DriverAssumption DEF Buckets

-----------------------------------------------------------------------------
(* A query and its tasks *)

\* Tasks the driver has work to do for move on; the rest of the query stays.
LEMMA TasksMove ==
  ASSUME NEW r, NEW tk, NEW t2 \in [Tasks -> TaskType], PlanInv(r, tk),
         \A k \in Tasks : \/ t2[k] = tk[k]
                          \/ /\ tk[k].at \in Pending
                             /\ t2[k].at \in Pending => t2[k].w \in Workers
  PROVE  PlanInv(r, t2)
<1>1. ASSUME NEW k \in Tasks, tk[k].at \in Pending
      PROVE  /\ k[1] \in r.sent /\ k[2] \in PartsOf(r, k[1]) /\ r.phase \in {"run", "drain"}
             /\ k[1] \notin r.done
  <2>1. tk[k].at # "none" /\ tk[k].at # "ok"
    BY <1>1 DEF Pending
  <2> QED
    BY Zenon, <1>1, <2>1 DEF PlanInv
<1>2. \A k \in Tasks : t2[k].at # "none" => k[1] \in r.sent /\ k[2] \in PartsOf(r, k[1])
  BY Zenon, <1>1 DEF PlanInv
<1>3. \A k \in Tasks : t2[k].at \in Pending => r.phase \in {"run", "drain"} /\ t2[k].w \in Workers
  BY Zenon, <1>1 DEF PlanInv
<1>4. r.phase \in {"run", "drain"} =>
        \A k \in Tasks : k[1] \in r.done /\ k[2] \in PartsOf(r, k[1]) => t2[k].at = "ok"
  BY Zenon, <1>1 DEF PlanInv
<1> QED
  BY Zenon, <1>2, <1>3, <1>4 DEF PlanInv

\* A query changes its phase; with work to do it stays active.
LEMMA QueryMoves ==
  ASSUME NEW r, NEW r2, NEW tk, PlanInv(r, tk), IsQuery(r2),
         r2.sent = r.sent, r2.done = r.done, r2.mod = r.mod,
         r2.phase = r.phase \/ r2.phase # "new",
         r2.phase \in {"run", "drain"} => r.phase \in {"new", "run", "drain"},
         r2.phase \in {"run", "drain"} \/ \A k \in Tasks : tk[k].at \notin Pending
  PROVE  PlanInv(r2, tk)
<1>1. \A s : PartsOf(r2, s) = PartsOf(r, s)
  BY Zenon DEF PartsOf
<1>2. r2.phase = "new" => r2.sent = {}
  BY Zenon DEF PlanInv
<1>3. r.phase = "new" => r.done = {}
  BY Zenon DEF PlanInv, IsQuery
<1>4. r2.phase \in {"run", "drain"} =>
        \A k \in Tasks : k[1] \in r2.done /\ k[2] \in PartsOf(r2, k[1]) => tk[k].at = "ok"
  <2> SUFFICES ASSUME r2.phase \in {"run", "drain"}, NEW k \in Tasks, k[1] \in r2.done,
                      k[2] \in PartsOf(r2, k[1])
               PROVE  tk[k].at = "ok"
    OBVIOUS
  <2>1. r.phase # "new"
    BY Zenon, <1>3
  <2>2. r.phase \in {"run", "drain"}
    BY <2>1
  <2> QED
    BY Zenon, <1>1, <2>2 DEF PlanInv
<1>5. \A k \in Tasks : tk[k].at # "none" => k[1] \in r2.sent /\ k[2] \in PartsOf(r2, k[1])
  BY Zenon, <1>1 DEF PlanInv
<1>6. \A k \in Tasks : tk[k].at \in Pending => r2.phase \in {"run", "drain"} /\ tk[k].w \in Workers
  BY Zenon DEF PlanInv
<1> QED
  BY Zenon, <1>2, <1>4, <1>5, <1>6 DEF PlanInv

\* No work is left when every dispatched stage has ended.
LEMMA AllEnded ==
  ASSUME NEW r, NEW tk, PlanInv(r, tk),
         \A k \in Tasks : k[1] \in r.sent \ r.done /\ k[2] \in PartsOf(r, k[1]) =>
                            tk[k].at \in {"ok", "failed"}
  PROVE  \A k \in Tasks : tk[k].at \notin Pending
<1> SUFFICES ASSUME NEW k \in Tasks, tk[k].at \in Pending PROVE FALSE
  OBVIOUS
<1>1. tk[k].at \notin {"none", "ok", "failed"}
  BY DEF Pending
<1>2. k[1] \in r.sent /\ k[2] \in PartsOf(r, k[1]) /\ r.phase \in {"run", "drain"}
  BY Zenon, <1>1 DEF PlanInv
<1>3. k[1] \notin r.done
  BY Zenon, <1>1, <1>2 DEF PlanInv
<1> QED
  BY Zenon, <1>1, <1>2, <1>3

\* A stage all of whose tasks succeeded is done.
Completes(r, r2, tk, s) ==
  /\ r.phase = "run" /\ s \in r.sent
  /\ r2.sent = r.sent /\ r2.done = r.done \cup {s} /\ r2.mod = r.mod
  /\ r2.phase = "run" \/ (r2.phase # "new" /\ \A k \in Tasks : tk[k].at \notin Pending)
  /\ \A k \in Tasks : k[1] = s /\ k[2] \in PartsOf(r, s) => tk[k].at = "ok"

LEMMA StageMoves ==
  ASSUME NEW r, NEW r2, NEW tk, PlanInv(r, tk), IsQuery(r2), NEW s, Completes(r, r2, tk, s)
  PROVE  PlanInv(r2, tk)
<1> USE DEF Completes
<1>1. \A x : PartsOf(r2, x) = PartsOf(r, x)
  BY Zenon DEF PartsOf
<1>2. r2.phase # "new"
  BY Zenon
<1>3. Output \in r2.sent => Stages \ {Output} \subseteq r2.done
  BY Zenon DEF PlanInv
<1>4. \A k \in Tasks : k[1] \in r2.done /\ k[2] \in PartsOf(r2, k[1]) => tk[k].at = "ok"
  <2>1. \A k \in Tasks : k[1] \in r.done /\ k[2] \in PartsOf(r, k[1]) => tk[k].at = "ok"
    BY Zenon DEF PlanInv
  <2> QED
    BY Zenon, <1>1, <2>1
<1>5. \A k \in Tasks : tk[k].at # "none" => k[1] \in r2.sent /\ k[2] \in PartsOf(r2, k[1])
  BY Zenon, <1>1 DEF PlanInv
<1>6. \A k \in Tasks : tk[k].at \in Pending => r2.phase \in {"run", "drain"} /\ tk[k].w \in Workers
  BY Zenon DEF PlanInv
<1> QED
  BY Zenon, <1>2, <1>3, <1>4, <1>5, <1>6 DEF PlanInv

\* A dispatched stage has a task for each of its partitions, on the partition's worker.
Starts(r, r2, tk, t2, s) ==
  /\ r.phase = "run" /\ r2.phase = "run" /\ s \notin r.sent
  /\ s = Output => Stages \ {Output} \subseteq r.done
  /\ r2.sent = r.sent \cup {s} /\ r2.done = r.done
  /\ \A x \in Stages : x # s => r2.mod[x] = r.mod[x]
  /\ \A k \in Tasks : IF k[1] = s /\ k[2] \in PartsOf(r2, s)
                         THEN t2[k].at = "send" /\ t2[k].w \in Workers
                         ELSE t2[k] = tk[k]

LEMMA StageStarts ==
  ASSUME NEW r, NEW r2, NEW tk, NEW t2 \in [Tasks -> TaskType], PlanInv(r, tk), IsQuery(r2),
         NEW s, Starts(r, r2, tk, t2, s)
  PROVE  PlanInv(r2, t2)
<1> USE DEF Starts
<1>1. \A x \in Stages : x # s => PartsOf(r2, x) = PartsOf(r, x)
  BY Zenon DEF PartsOf
<1>2. \A k \in Tasks : k[1] \in Stages
  BY DEF Tasks
<1>3. Output \in r2.sent => Stages \ {Output} \subseteq r2.done
  BY Zenon DEF PlanInv
<1>4. s \notin r.done
  BY Zenon DEF PlanInv, IsQuery
<1>5. \A k \in Tasks : k[1] \in r2.done /\ k[2] \in PartsOf(r2, k[1]) => t2[k].at = "ok"
  <2>1. \A k \in Tasks : k[1] \in r.done /\ k[2] \in PartsOf(r, k[1]) => tk[k].at = "ok"
    BY Zenon DEF PlanInv
  <2> QED
    BY Zenon, <1>1, <1>2, <1>4, <2>1
<1>6. \A k \in Tasks : t2[k].at # "none" => k[1] \in r2.sent /\ k[2] \in PartsOf(r2, k[1])
  <2> SUFFICES ASSUME NEW k \in Tasks, t2[k].at # "none"
               PROVE  k[1] \in r2.sent /\ k[2] \in PartsOf(r2, k[1])
    OBVIOUS
  <2>1. CASE k[1] = s /\ k[2] \in PartsOf(r2, s)
    BY Zenon, <2>1
  <2>2. CASE ~(k[1] = s /\ k[2] \in PartsOf(r2, s))
    <3>1. t2[k] = tk[k]
      BY Zenon, <2>2
    <3>2. k[1] \in r.sent /\ k[2] \in PartsOf(r, k[1])
      BY Zenon, <3>1 DEF PlanInv
    <3> QED
      BY Zenon, <1>1, <1>2, <3>2
  <2> QED
    BY Zenon, <2>1, <2>2
<1>7. \A k \in Tasks : t2[k].at \in Pending => r2.phase \in {"run", "drain"} /\ t2[k].w \in Workers
  BY Zenon DEF PlanInv
<1> QED
  BY Zenon, <1>3, <1>5, <1>6, <1>7, "run" # "new" DEF PlanInv

\* A query whose tasks were dropped.
LEMMA TasksDrop ==
  ASSUME NEW r, NEW r2, NEW tk, PlanInv(r, tk), IsQuery(r2), r2.phase = "cancel",
         r2.sent = r.sent, r2.done = r.done
  PROVE  PlanInv(r2, [k \in Tasks |-> Idle])
<1> DEFINE t2 == [k \in Tasks |-> Idle]
<1>1. Idle \in TaskType /\ Idle.at = "none"
  BY Constants DEF Idle, TaskType
<1>2. t2 \in [Tasks -> TaskType] /\ \A k \in Tasks : t2[k].at = "none"
  BY Zenon, <1>1
<1> HIDE DEF t2
<1>3. "none" \notin Pending
  BY DEF Pending
<1>4. Output \in r2.sent => Stages \ {Output} \subseteq r2.done
  BY Zenon DEF PlanInv
<1>5. r2.phase \notin {"new", "run", "drain"}
  OBVIOUS
<1> QED
  BY Zenon, <1>2, <1>3, <1>4, <1>5 DEF PlanInv, t2

-----------------------------------------------------------------------------
(* The handlers *)

\* The handlers H2 are those of K, a part of H, each changed by F: the task it is for
\* and its worker stay.
Carry(H, C, H2, C2, K, F) ==
  /\ K \subseteq H /\ H2 = {F[g] : g \in K}
  /\ C2 \in [Workers -> [Stages -> {"none", "clear", "tripped"}]]
  /\ \A g \in K : /\ IsHandler(F[g]) /\ F[g].q = g.q /\ F[g].s = g.s /\ F[g].p = g.p
                  /\ F[g].w = g.w /\ (F[g].live => g.live)
                  /\ F[g].flag = "reg" => C2[g.w][g.s] # "none"

\* Who held a flag still holds it.
Holds(H, C, C2, K, F) ==
  \A w \in Workers, s \in Stages : C2[w][s] # "none" =>
    /\ C[w][s] # "none"
    /\ \A g \in H : g.w = w /\ g.s = s /\ g.flag = "reg" => g \in K /\ F[g].flag = "reg"

\* No handler sees a flag tripped that did not before.
Calm(C, C2, K, F) == \A g \in K : TrippedBy(F[g], C2) => TrippedBy(g, C)

\* The queries go on: none that was idle becomes busy, none that was not running runs.
Onward(Q, Q2) ==
  \A q \in 1..Queries :
    /\ Busy(Q2[q]) => Busy(Q[q])
    /\ Q[q].phase # "run" => Q2[q].phase # "run"
    /\ Q[q].stop = "swept" => Q2[q].stop = "swept"

\* The driver waits for those of K that are still live.
Awaited(K, F, tks) == \A g \in K : F[g].live => tks[g.q][<<g.s, g.p>>].at = "sent"

LEMMA CarriedWorkers ==
  ASSUME NEW H, NEW C, NEW H2, NEW C2, NEW K, NEW F, Carry(H, C, H2, C2, K, F)
  PROVE  WorkersInv(H2, C2)
<1>1. ASSUME NEW h \in H2 PROVE IsHandler(h) /\ (h.flag = "reg" => C2[h.w][h.s] # "none")
  <2>1. PICK g \in K : h = F[g]
    BY Zenon DEF Carry
  <2>2. /\ IsHandler(F[g]) /\ F[g].s = g.s /\ F[g].w = g.w
        /\ F[g].flag = "reg" => C2[g.w][g.s] # "none"
    BY Zenon DEF Carry
  <2> QED
    BY Zenon, <2>1, <2>2
<1> QED
  BY Zenon, <1>1 DEF Carry, WorkersInv

LEMMA CarriedLive ==
  ASSUME NEW H, NEW C, NEW H2, NEW C2, NEW K, NEW F, Carry(H, C, H2, C2, K, F),
         NEW tks, NEW tks2, LiveInv(H, tks), Awaited(K, F, tks2)
  PROVE  LiveInv(H2, tks2)
<1>1. ASSUME NEW h \in H2, h.live PROVE tks2[h.q][<<h.s, h.p>>].at = "sent"
  <2>1. PICK g \in K : h = F[g]
    BY Zenon, <1>1 DEF Carry
  <2> QED
    BY ZenonT(60), <1>1, <2>1 DEF Carry, Awaited
<1>2. ASSUME NEW a \in H2, NEW b \in H2, a.live, b.live, a.q = b.q, a.s = b.s, a.p = b.p
      PROVE  a = b
  <2>1. PICK g \in K : a = F[g]
    BY Zenon DEF Carry
  <2>2. PICK h \in K : b = F[h]
    BY Zenon DEF Carry
  <2>3. g \in H /\ h \in H /\ g.live /\ h.live /\ g.q = h.q /\ g.s = h.s /\ g.p = h.p
    BY Zenon, <1>2, <2>1, <2>2 DEF Carry
  <2>4. g = h
    BY Zenon, <2>3 DEF LiveInv
  <2> QED
    BY Zenon, <2>1, <2>2, <2>4
<1> QED
  BY Zenon, <1>1, <1>2 DEF LiveInv

LEMMA CarriedHeld ==
  ASSUME NEW H, NEW C, NEW H2, NEW C2, NEW K, NEW F, Carry(H, C, H2, C2, K, F),
         NEW m, NEW m2, m \subseteq m2, HeldInv(H, C, m),
         "dropped" \in m2 \/ Holds(H, C, C2, K, F)
  PROVE  HeldInv(H2, C2, m2)
<1> SUFFICES ASSUME "dropped" \notin m2, NEW w \in Workers, NEW s \in Stages, C2[w][s] # "none"
             PROVE  HasHolder(H2, w, s)
  BY Zenon DEF HeldInv
<1>1. "dropped" \notin m /\ C[w][s] # "none"
  BY Zenon DEF Holds
<1>2. PICK g \in H : g.w = w /\ g.s = s /\ g.flag = "reg"
  <2>1. HasHolder(H, w, s)
    BY Zenon, <1>1 DEF HeldInv
  <2> QED
    BY Zenon, <2>1 DEF HasHolder
<1>3. g \in K /\ F[g].flag = "reg"
  BY Zenon, <1>2 DEF Holds
<1>4. F[g] \in H2 /\ F[g].w = w /\ F[g].s = s
  BY Zenon, <1>2, <1>3 DEF Carry
<1> QED
  BY Zenon, <1>3, <1>4 DEF HasHolder

\* The invariant of a state whose handlers are those of the state before, or fewer.
LEMMA CarryRest ==
  ASSUME IInv, NEW K, NEW F, Carry(handlers, cancels, handlers', cancels', K, F),
         mishaps \subseteq mishaps',
         "dropped" \in mishaps' \/ Holds(handlers, cancels, cancels', K, F),
         OwnInv(query', handlers', cancels', mishaps'),
         DOMAIN query' = 1..Queries, DOMAIN task' = 1..Queries, Onward(query, query'),
         \A q \in 1..Queries : PlanInv(query'[q], task'[q]),
         Awaited(K, F, task'),
         "late" \in mishaps' \/ \A g \in K : F[g].live = g.live,
         CacheInv(query', mishaps', cache')
  PROVE  IInv'
<1>1. WorkersInv(handlers', cancels')
  BY Zenon, CarriedWorkers
<1>2. LiveInv(handlers', task')
  <2>1. LiveInv(handlers, task)
    BY Zenon DEF IInv
  <2> QED
    BY Zenon, <2>1, CarriedLive
<1>3. HeldInv(handlers', cancels', mishaps')
  BY Zenon, CarriedHeld DEF IInv
<1>4. AloneInv(query', handlers', mishaps')
  <2>1. ASSUME "overlap" \notin mishaps', NEW q \in 1..Queries, NEW r \in 1..Queries,
               Busy(query'[q]), Busy(query'[r])
        PROVE  q = r
    <3>1. "overlap" \notin mishaps /\ Busy(query[q]) /\ Busy(query[r])
      BY Zenon, <2>1 DEF Onward
    <3> QED
      BY Zenon, <3>1 DEF IInv, AloneInv
  <2>2. ASSUME "late" \notin mishaps', NEW h \in handlers' PROVE h.live
    <3>1. PICK g \in K : h = F[g]
      BY Zenon DEF Carry
    <3>2. g \in handlers /\ "late" \notin mishaps
      BY Zenon, <2>2 DEF Carry
    <3>3. g.live
      BY Zenon, <3>2 DEF IInv, AloneInv
    <3> QED
      BY Zenon, <2>2, <3>1, <3>3
  <2> QED
    BY Zenon, <2>1, <2>2 DEF AloneInv
<1> QED
  BY Zenon, <1>1, <1>2, <1>3, <1>4 DEF IInv

LEMMA CarryStep ==
  ASSUME IInv, NEW K, NEW F, Carry(handlers, cancels, handlers', cancels', K, F),
         mishaps \subseteq mishaps',
         "dropped" \in mishaps' \/ Holds(handlers, cancels, cancels', K, F),
         Calm(cancels, cancels', K, F),
         DOMAIN query' = 1..Queries, DOMAIN task' = 1..Queries, Onward(query, query'),
         \A q \in 1..Queries : PlanInv(query'[q], task'[q]),
         Awaited(K, F, task'),
         "late" \in mishaps' \/ \A g \in K : F[g].live = g.live,
         CacheInv(query', mishaps', cache')
  PROVE  IInv'
<1>1. OwnInv(query', handlers', cancels', mishaps')
  <2> SUFFICES ASSUME mishaps' \cap {"dropped", "late", "overlap"} = {}, NEW h \in handlers',
                      TrippedBy(h, cancels')
               PROVE  query'[h.q].phase # "run" \/ query'[h.q].stop = "swept"
    BY Zenon DEF OwnInv
  <2>1. PICK g \in K : h = F[g]
    BY Zenon DEF Carry
  <2>2. g \in handlers /\ h.q = g.q /\ TrippedBy(g, cancels) /\ g.q \in 1..Queries
    BY Zenon, <2>1 DEF Carry, Calm, IsHandler
  <2>3. mishaps \cap {"dropped", "late", "overlap"} = {}
    BY Zenon
  <2>4. query[g.q].phase # "run" \/ query[g.q].stop = "swept"
    BY Zenon, <2>2, <2>3 DEF IInv, OwnInv
  <2> QED
    BY Zenon, <2>2, <2>4 DEF Onward
<1> QED
  BY Zenon, <1>1, CarryRest

\* The handlers stay as they are.
LEMMA Staying ==
  ASSUME WorkersInv(handlers, cancels), handlers' = handlers, cancels' = cancels
  PROVE  \E F : /\ Carry(handlers, cancels, handlers', cancels', handlers, F)
                /\ Holds(handlers, cancels, cancels', handlers, F)
                /\ Calm(cancels, cancels', handlers, F)
                /\ \A g \in handlers : F[g] = g
<1> DEFINE F == [g \in handlers |-> g]
<1>1. \A g \in handlers : F[g] = g
  BY Zenon
<1> HIDE DEF F
<1>2. handlers' = {F[g] : g \in handlers}
  BY <1>1
<1>3. Carry(handlers, cancels, handlers', cancels', handlers, F)
  BY Zenon, <1>1, <1>2 DEF Carry, WorkersInv
<1>4. Holds(handlers, cancels, cancels', handlers, F)
  BY Zenon, <1>1 DEF Holds
<1>5. Calm(cancels, cancels', handlers, F)
  BY Zenon, <1>1 DEF Calm
<1> QED
  BY Zenon, <1>1, <1>3, <1>4, <1>5

\* Some handlers are dropped, their flags left in the map.
LEMMA Leaving ==
  ASSUME WorkersInv(handlers, cancels), NEW X, handlers' = handlers \ X, cancels' = cancels
  PROVE  \E F : /\ Carry(handlers, cancels, handlers', cancels', handlers \ X, F)
                /\ Calm(cancels, cancels', handlers \ X, F)
                /\ \A g \in handlers \ X : F[g] = g
<1> DEFINE K == handlers \ X
           F == [g \in K |-> g]
<1>1. \A g \in K : F[g] = g
  BY Zenon
<1> HIDE DEF F
<1>2. handlers' = {F[g] : g \in K}
  BY <1>1
<1>3. K \subseteq handlers
  BY Zenon
<1> HIDE DEF K
<1>4. Carry(handlers, cancels, handlers', cancels', K, F)
  BY Zenon, <1>1, <1>2, <1>3 DEF Carry, WorkersInv
<1>5. Calm(cancels, cancels', K, F)
  BY Zenon, <1>1 DEF Calm
<1> QED
  BY Zenon, <1>1, <1>4, <1>5 DEF K

\* A worker starts over with no handlers and no flags.
LEMMA Restarting ==
  ASSUME WorkersInv(handlers, cancels), NEW w \in Workers, handlers' = handlers \ Running(w),
         cancels' = [cancels EXCEPT ![w] = [s \in Stages |-> "none"]]
  PROVE  \E F : /\ Carry(handlers, cancels, handlers', cancels', handlers \ Running(w), F)
                /\ Holds(handlers, cancels, cancels', handlers \ Running(w), F)
                /\ Calm(cancels, cancels', handlers \ Running(w), F)
                /\ \A g \in handlers \ Running(w) : F[g] = g
<1> DEFINE K == handlers \ Running(w)
           F == [g \in K |-> g]
<1>1. \A g \in K : F[g] = g
  BY Zenon
<1> HIDE DEF F
<1>2. handlers' = {F[g] : g \in K}
  BY <1>1
<1>3. K \subseteq handlers /\ (\A g \in K : g.w # w) /\ \A g \in handlers : g.w # w => g \in K
  BY Zenon DEF Running
<1> HIDE DEF K
<1>4. cancels \in [Workers -> [Stages -> {"none", "clear", "tripped"}]]
  BY Zenon DEF WorkersInv
<1>5. /\ cancels' \in [Workers -> [Stages -> {"none", "clear", "tripped"}]]
      /\ \A s \in Stages : cancels'[w][s] = "none"
      /\ \A v \in Workers : v # w => cancels'[v] = cancels[v]
  BY <1>4
<1>6. \A g \in K : IsHandler(g) /\ cancels'[g.w] = cancels[g.w]
  BY Zenon, <1>3, <1>5 DEF WorkersInv, IsHandler
<1>7. Carry(handlers, cancels, handlers', cancels', K, F)
  <2>1. \A g \in K : g.flag = "reg" => cancels'[g.w][g.s] # "none"
    BY Zenon, <1>3, <1>6 DEF WorkersInv
  <2> QED
    BY ZenonT(60), <1>1, <1>2, <1>3, <1>5, <1>6, <2>1 DEF Carry
<1>8. Calm(cancels, cancels', K, F)
  BY Zenon, <1>1, <1>6 DEF Calm, TrippedBy
<1>9. Holds(handlers, cancels, cancels', K, F)
  <2> SUFFICES ASSUME NEW v \in Workers, NEW s \in Stages, cancels'[v][s] # "none"
               PROVE  /\ cancels[v][s] # "none"
                      /\ \A g \in handlers : g.w = v /\ g.s = s /\ g.flag = "reg" =>
                           g \in K /\ F[g].flag = "reg"
    BY Zenon DEF Holds
  <2>1. v # w
    BY Zenon, <1>5
  <2> QED
    BY Zenon, <1>1, <1>3, <1>5, <2>1
<1> QED
  BY Zenon, <1>1, <1>7, <1>8, <1>9 DEF K

\* h2 runs the task of h.
Twin(h, h2) ==
  /\ IsHandler(h2) /\ h2.q = h.q /\ h2.s = h.s /\ h2.p = h.p /\ h2.w = h.w
  /\ h2.flag = h.flag /\ (h2.live => h.live)

Swapped(h, h2, F) == F[h] = h2 /\ \A g \in handlers \ {h} : F[g] = g

\* A handler pulls its input, or loses its connection and runs on.
LEMMA Swapping ==
  ASSUME WorkersInv(handlers, cancels), NEW h \in handlers, NEW h2, Twin(h, h2),
         handlers' = (handlers \ {h}) \cup {h2}, cancels' = cancels
  PROVE  \E F : /\ Carry(handlers, cancels, handlers', cancels', handlers, F)
                /\ Holds(handlers, cancels, cancels', handlers, F)
                /\ Calm(cancels, cancels', handlers, F)
                /\ Swapped(h, h2, F)
<1> DEFINE F == [g \in handlers |-> IF g = h THEN h2 ELSE g]
<1>1. F[h] = h2 /\ \A g \in handlers \ {h} : F[g] = g
  BY Zenon
<1> HIDE DEF F
<1>2. handlers' = {F[g] : g \in handlers}
  BY <1>1
<1>3. \A g \in handlers : IsHandler(g) /\ (g.flag = "reg" => cancels[g.w][g.s] # "none")
  BY Zenon DEF WorkersInv
<1>4. ASSUME NEW g \in handlers
      PROVE  /\ IsHandler(F[g]) /\ F[g].q = g.q /\ F[g].s = g.s /\ F[g].p = g.p
             /\ F[g].w = g.w /\ (F[g].live => g.live) /\ F[g].flag = g.flag
  <2>1. CASE g = h
    BY Zenon, <1>1, <2>1 DEF Twin
  <2>2. CASE g # h
    <3>1. F[g] = g
      BY Zenon, <1>1, <2>2
    <3> QED
      BY Zenon, <1>3, <3>1
  <2> QED
    BY Zenon, <2>1, <2>2
<1>5. Carry(handlers, cancels, handlers', cancels', handlers, F)
  <2>1. cancels' \in [Workers -> [Stages -> {"none", "clear", "tripped"}]]
    BY Zenon DEF WorkersInv
  <2>2. \A g \in handlers : F[g].flag = "reg" => cancels'[g.w][g.s] # "none"
    BY ZenonT(60), <1>3, <1>4
  <2>3. handlers \subseteq handlers
    BY Zenon
  <2> QED
    BY Zenon, <1>2, <1>4, <2>1, <2>2, <2>3 DEF Carry
<1>6. Calm(cancels, cancels', handlers, F)
  BY Zenon, <1>4 DEF Calm, TrippedBy
<1>7. Holds(handlers, cancels, cancels', handlers, F)
  BY Zenon, <1>4 DEF Holds
<1> QED
  BY Zenon, <1>1, <1>5, <1>6, <1>7 DEF Swapped

\* A handler ends by itself: the flag it shares leaves the map, and its siblings keep the
\* flag's value.
LEMMA Ending ==
  ASSUME WorkersInv(handlers, cancels), NEW h \in handlers, Unregister(h)
  PROVE  \E F : /\ Carry(handlers, cancels, handlers', cancels', handlers \ {h}, F)
                /\ Holds(handlers, cancels, cancels', handlers \ {h}, F)
                /\ Calm(cancels, cancels', handlers \ {h}, F)
                /\ \A g \in handlers \ {h} : F[g].live = g.live
<1>1. /\ cancels \in [Workers -> [Stages -> {"none", "clear", "tripped"}]]
      /\ \A g \in handlers : IsHandler(g) /\ (g.flag = "reg" => cancels[g.w][g.s] # "none")
      /\ h.w \in Workers /\ h.s \in Stages
  BY Zenon DEF WorkersInv, IsHandler
<1>2. CASE h.flag # "reg"
  <2>1. handlers' = handlers \ {h} /\ cancels' = cancels
    BY Zenon, <1>2 DEF Unregister
  <2>2. PICK F : /\ Carry(handlers, cancels, handlers', cancels', handlers \ {h}, F)
                 /\ Calm(cancels, cancels', handlers \ {h}, F)
                 /\ \A g \in handlers \ {h} : F[g] = g
    BY Zenon, <2>1, Leaving
  <2>3. Holds(handlers, cancels, cancels', handlers \ {h}, F)
    BY Zenon, <1>2, <2>1, <2>2 DEF Holds
  <2> QED
    BY Zenon, <2>2, <2>3
<1>3. CASE h.flag = "reg"
  <2> DEFINE K == handlers \ {h}
             v == cancels[h.w][h.s]
             Shares(g) == g.w = h.w /\ g.s = h.s /\ g.flag = "reg"
             F == [g \in K |-> IF Shares(g) THEN [g EXCEPT !.flag = v] ELSE g]
  <2>1. /\ handlers' = {IF Shares(g) THEN [g EXCEPT !.flag = v] ELSE g : g \in K}
        /\ cancels' = [cancels EXCEPT ![h.w][h.s] = "none"]
    BY Zenon, <1>3 DEF Unregister, Detached
  <2>2. /\ cancels' \in [Workers -> [Stages -> {"none", "clear", "tripped"}]]
        /\ cancels'[h.w][h.s] = "none"
        /\ \A w \in Workers, s \in Stages : w # h.w \/ s # h.s => cancels'[w][s] = cancels[w][s]
    BY <1>1, <2>1
  <2>3. v \in {"clear", "tripped"}
    BY <1>1, <1>3
  <2>4. handlers' = {F[g] : g \in K}
    <3>1. \A g \in K : F[g] = IF Shares(g) THEN [g EXCEPT !.flag = v] ELSE g
      BY Zenon
    <3> DEFINE f(g) == IF Shares(g) THEN [g EXCEPT !.flag = v] ELSE g
    <3>2. handlers' = {f(g) : g \in K} /\ \A g \in K : F[g] = f(g)
      BY Zenon, <2>1, <3>1
    <3> HIDE DEF f, F
    <3> QED
      BY <3>2
  <2>5. ASSUME NEW g \in K, Shares(g)
        PROVE  /\ IsHandler(F[g]) /\ F[g].q = g.q /\ F[g].s = g.s /\ F[g].p = g.p
               /\ F[g].w = g.w /\ F[g].live = g.live /\ F[g].flag = v
    <3>1. F[g] = [g EXCEPT !.flag = v]
      BY Zenon, <2>5
    <3>2. IsHandler(g)
      BY Zenon, <1>1
    <3> HIDE DEF F, v
    <3>3. /\ DOMAIN F[g] = HandlerFields /\ F[g].flag = v
          /\ F[g].q = g.q /\ F[g].s = g.s /\ F[g].p = g.p /\ F[g].w = g.w /\ F[g].n = g.n
          /\ F[g].mod = g.mod /\ F[g].live = g.live
      BY Zenon, <3>1, <3>2 DEF IsHandler, HandlerFields
    <3>4. F[g].flag \in {"reg", "clear", "tripped"}
      BY Zenon, <2>3, <3>3
    <3> QED
      BY Zenon, <3>2, <3>3, <3>4 DEF IsHandler
  <2>6. ASSUME NEW g \in K, ~Shares(g) PROVE F[g] = g /\ IsHandler(g)
    BY Zenon, <1>1, <2>6
  <2>7. ASSUME NEW g \in K
        PROVE  /\ IsHandler(F[g]) /\ F[g].q = g.q /\ F[g].s = g.s /\ F[g].p = g.p
               /\ F[g].w = g.w /\ F[g].live = g.live
               /\ F[g].flag = "reg" => cancels'[g.w][g.s] # "none"
               /\ TrippedBy(F[g], cancels') => TrippedBy(g, cancels)
    <3>1. CASE Shares(g)
      <4>1. F[g].flag # "reg"
        BY Zenon, <2>3, <2>5, <3>1
      <4>2. TrippedBy(F[g], cancels') => TrippedBy(g, cancels)
        BY Zenon, <2>5, <3>1, <4>1 DEF TrippedBy
      <4> QED
        BY Zenon, <2>5, <3>1, <4>1, <4>2
    <3>2. CASE ~Shares(g)
      <4>1. F[g] = g /\ IsHandler(g) /\ g.w \in Workers /\ g.s \in Stages
        BY Zenon, <2>6, <3>2 DEF IsHandler
      <4>2. g.flag = "reg" => cancels'[g.w][g.s] = cancels[g.w][g.s] /\ cancels[g.w][g.s] # "none"
        BY Zenon, <1>1, <2>2, <3>2, <4>1
      <4>3. TrippedBy(F[g], cancels') => TrippedBy(g, cancels)
        BY Zenon, <4>1, <4>2 DEF TrippedBy
      <4> QED
        BY Zenon, <4>1, <4>2, <4>3
    <3> QED
      BY Zenon, <3>1, <3>2
  <2>8. ASSUME NEW w \in Workers, NEW s \in Stages, cancels'[w][s] # "none"
        PROVE  /\ cancels[w][s] # "none"
               /\ \A g \in handlers : g.w = w /\ g.s = s /\ g.flag = "reg" =>
                    g \in K /\ F[g].flag = "reg"
    <3>1. w # h.w \/ s # h.s
      BY Zenon, <2>2, <2>8
    <3>2. cancels[w][s] # "none"
      BY Zenon, <2>2, <2>8, <3>1
    <3>3. ASSUME NEW g \in handlers, g.w = w, g.s = s, g.flag = "reg"
          PROVE  g \in K /\ F[g].flag = "reg"
      <4>1. g \in K /\ ~Shares(g)
        BY Zenon, <3>1, <3>3
      <4> QED
        BY Zenon, <2>6, <3>3, <4>1
    <3> QED
      BY Zenon, <3>2, <3>3
  <2>9. K \subseteq handlers
    BY Zenon
  <2> HIDE DEF K, v, Shares, F
  <2>10. Carry(handlers, cancels, handlers', cancels', K, F)
    BY Zenon, <2>2, <2>4, <2>7, <2>9 DEF Carry
  <2>11. Calm(cancels, cancels', K, F) /\ Holds(handlers, cancels, cancels', K, F)
    BY Zenon, <2>7, <2>8 DEF Calm, Holds
  <2> QED
    BY Zenon, <2>7, <2>10, <2>11 DEF K
<1> QED
  BY Zenon, <1>2, <1>3

-----------------------------------------------------------------------------
(* What the driver writes *)

\* A query and its state afterwards agree but for the phase, the stop and the answer.
SamePlan(r, r2) ==
  /\ IsQuery(r2) /\ r2.sent = r.sent /\ r2.done = r.done /\ r2.mod = r.mod

LEMMA PhaseSet ==
  ASSUME NEW r, IsQuery(r), NEW p \in Phases, NEW r2, r2 = [r EXCEPT !.phase = p]
  PROVE  SamePlan(r, r2) /\ r2.phase = p /\ r2.stop = r.stop /\ r2.good = r.good
<1>1. /\ DOMAIN r2 = QueryFields /\ r2.phase = p /\ r2.good = r.good /\ r2.sent = r.sent
      /\ r2.done = r.done /\ r2.mod = r.mod /\ r2.stop = r.stop
  BY Zenon DEF IsQuery, QueryFields
<1> QED
  BY Zenon, <1>1 DEF SamePlan, IsQuery

LEMMA StopSet ==
  ASSUME NEW r, IsQuery(r), NEW p \in {"no", "asked", "swept"}, NEW r2,
         r2 = [r EXCEPT !.stop = p]
  PROVE  SamePlan(r, r2) /\ r2.phase = r.phase /\ r2.stop = p
<1>1. /\ DOMAIN r2 = QueryFields /\ r2.phase = r.phase /\ r2.good = r.good /\ r2.sent = r.sent
      /\ r2.done = r.done /\ r2.mod = r.mod /\ r2.stop = p
  BY Zenon DEF IsQuery, QueryFields
<1> QED
  BY Zenon, <1>1 DEF SamePlan, IsQuery

LEMMA AnswerSet ==
  ASSUME NEW r, IsQuery(r), NEW a, NEW r2, r2 = [r EXCEPT !.answer = a]
  PROVE  SamePlan(r, r2) /\ r2.phase = r.phase /\ r2.stop = r.stop
<1>1. /\ DOMAIN r2 = QueryFields /\ r2.phase = r.phase /\ r2.good = r.good /\ r2.sent = r.sent
      /\ r2.done = r.done /\ r2.mod = r.mod /\ r2.stop = r.stop
  BY Zenon DEF IsQuery, QueryFields
<1> QED
  BY Zenon, <1>1 DEF SamePlan, IsQuery

\* A task with another state and attempt is a task.
LEMMA TaskSet ==
  ASSUME NEW t \in TaskType, NEW n \in 0..(MaxTries + 1), NEW t2,
         NEW at \in {"none", "send", "sent", "recompute", "fallback", "ok", "failed"},
         t2 = [t EXCEPT !.at = at, !.n = n]
  PROVE  t2 \in TaskType /\ t2.w = t.w
<1> DEFINE A == {"none", "send", "sent", "recompute", "fallback", "ok", "failed"}
           N == 0..(MaxTries + 1)
           V == 0..W
           T == SUBSET Workers
<1>1. t \in [at : A, w : V, n : N, tried : T] /\ at \in A /\ n \in N
  BY Zenon DEF TaskType
<1> HIDE DEF A, N, V, T
<1>2. t2 \in [at : A, w : V, n : N, tried : T] /\ t2.w = t.w
  BY <1>1
<1> QED
  BY Zenon, <1>2 DEF A, N, V, T, TaskType

\* The retry policy moves a task on and leaves its worker.
LEMMA Retried ==
  ASSUME NEW s, NEW why, NEW t \in TaskType
  PROVE  AfterRetryable(s, t, why) \in TaskType /\ AfterRetryable(s, t, why).w = t.w
<1>1. t.n \in 0..(MaxTries + 1) /\ MaxTries \in Nat \ {0}
  BY Constants DEF TaskType
<1>2. /\ t.n + 1 < MaxTries => t.n + 1 \in 0..(MaxTries + 1)
      /\ MaxTries \in 0..(MaxTries + 1) /\ MaxTries + 1 \in 0..(MaxTries + 1)
  BY <1>1
<1>3. PICK at \in {"send", "recompute", "fallback"}, n \in 0..(MaxTries + 1) :
        AfterRetryable(s, t, why) = [t EXCEPT !.at = at, !.n = n]
  BY Zenon, <1>2 DEF AfterRetryable
<1>4. at \in {"none", "send", "sent", "recompute", "fallback", "ok", "failed"}
  BY Zenon
<1> QED
  BY Zenon, <1>3, <1>4, TaskSet

LEMMA Finalized ==
  ASSUME NEW t \in TaskType
  PROVE  AfterFinal(t) \in TaskType /\ AfterFinal(t).w = t.w
<1>1. t.n \in 0..(MaxTries + 1) /\ MaxTries \in Nat \ {0}
  BY Constants DEF TaskType
<1>2. t.n = MaxTries => t.n + 1 \in 0..(MaxTries + 1)
  BY <1>1
<1>3. [t EXCEPT !.at = "failed"] = [t EXCEPT !.at = "failed", !.n = t.n]
  BY DEF TaskType
<1>4. PICK at \in {"fallback", "failed"}, n \in 0..(MaxTries + 1) :
        AfterFinal(t) = [t EXCEPT !.at = at, !.n = n]
  BY Zenon, <1>1, <1>2, <1>3 DEF AfterFinal
<1>5. at \in {"none", "send", "sent", "recompute", "fallback", "ok", "failed"}
  BY Zenon
<1> QED
  BY Zenon, <1>4, <1>5, TaskSet

\* One task of one query is set.
TaskIs(q, k, t, tks2) ==
  /\ DOMAIN tks2 = 1..Queries /\ tks2[q][k] = t
  /\ tks2[q] \in [Tasks -> TaskType]
  /\ \A r \in 1..Queries : r # q => tks2[r] = task[r]
  /\ \A x \in Tasks : x # k => tks2[q][x] = task[q][x]

LEMMA TaskWritten ==
  ASSUME IInv, NEW q \in 1..Queries, NEW k \in Tasks, NEW t \in TaskType,
         task' = [task EXCEPT ![q][k] = t]
  PROVE  TaskIs(q, k, t, task')
<1>1. task[q] \in [Tasks -> TaskType] /\ DOMAIN task = 1..Queries
  BY Zenon DEF IInv, PlanInv
<1>2. DOMAIN task' = 1..Queries /\ task'[q] = [task[q] EXCEPT ![k] = t]
  BY Zenon, <1>1
<1>3. \A r \in 1..Queries : r # q => task'[r] = task[r]
  BY Zenon, <1>1
<1> DEFINE f == task[q]
           f2 == task'[q]
<1>4. f \in [Tasks -> TaskType] /\ f2 = [f EXCEPT ![k] = t]
  BY Zenon, <1>1, <1>2
<1> HIDE DEF f, f2
<1>5. f2 \in [Tasks -> TaskType] /\ f2[k] = t /\ \A x \in Tasks : x # k => f2[x] = f[x]
  BY <1>4
<1> QED
  BY Zenon, <1>2, <1>3, <1>5 DEF f, f2, TaskIs

\* The plans of Q2 hold for the tasks, one of which the driver has moved on.
LEMMA TaskMoved ==
  ASSUME IInv, NEW q \in 1..Queries, NEW k \in Tasks, NEW t \in TaskType, NEW Q2,
         \A r \in 1..Queries : PlanInv(Q2[r], task[r]),
         task[q][k].at \in Pending, t.at \in Pending => t.w \in Workers,
         TaskIs(q, k, t, task')
  PROVE  \A r \in 1..Queries : PlanInv(Q2[r], task'[r])
<1>1. ASSUME NEW r \in 1..Queries, r # q PROVE PlanInv(Q2[r], task'[r])
  BY Zenon, <1>1 DEF TaskIs
<1>2. PlanInv(Q2[q], task'[q])
  <2> DEFINE t2 == task'[q]
  <2>1. t2 \in [Tasks -> TaskType] /\ PlanInv(Q2[q], task[q])
    BY Zenon DEF TaskIs
  <2>2. \A x \in Tasks : \/ t2[x] = task[q][x]
                         \/ /\ task[q][x].at \in Pending
                            /\ t2[x].at \in Pending => t2[x].w \in Workers
    BY Zenon DEF TaskIs
  <2> HIDE DEF t2
  <2>3. PlanInv(Q2[q], t2)
    BY Zenon, <2>1, <2>2, TasksMove
  <2> QED
    BY Zenon, <2>3 DEF t2
<1> QED
  BY Zenon, <1>1, <1>2

\* What a live handler says of its task.
LEMMA LiveTask ==
  ASSUME IInv, NEW h \in handlers
  PROVE  /\ IsHandler(h) /\ h.q \in 1..Queries /\ <<h.s, h.p>> \in Tasks
         /\ TaskOf(h) \in TaskType /\ TaskOf(h) = task[h.q][<<h.s, h.p>>]
         /\ h.live => /\ TaskOf(h).at = "sent" /\ TaskOf(h).at \in Pending
                      /\ TaskOf(h).w \in Workers
                      /\ query[h.q].phase \in {"run", "drain"} /\ Busy(query[h.q])
<1>1. /\ IsHandler(h) /\ h.q \in 1..Queries /\ h.s \in Stages /\ h.p \in Parts
  BY Zenon DEF IInv, WorkersInv, IsHandler
<1>2. <<h.s, h.p>> \in Tasks
  BY <1>1 DEF Tasks
<1>3. TaskOf(h) = task[h.q][<<h.s, h.p>>] /\ PlanInv(query[h.q], task[h.q])
  BY Zenon, <1>1 DEF TaskOf, IInv
<1>4. TaskOf(h) \in TaskType
  <2>1. task[h.q] \in [Tasks -> TaskType]
    BY Zenon, <1>3 DEF PlanInv
  <2> QED
    BY Zenon, <1>2, <1>3, <2>1
<1>5. ASSUME h.live
      PROVE  /\ TaskOf(h).at = "sent" /\ TaskOf(h).at \in Pending /\ TaskOf(h).w \in Workers
             /\ query[h.q].phase \in {"run", "drain"} /\ Busy(query[h.q])
  <2>1. TaskOf(h).at = "sent" /\ "sent" \in Pending
    BY Zenon, <1>3, <1>5 DEF IInv, LiveInv, Pending
  <2>2. TaskOf(h).w \in Workers /\ query[h.q].phase \in {"run", "drain"}
    BY Zenon, <1>2, <1>3, <2>1 DEF PlanInv
  <2>3. Busy(query[h.q])
    BY Zenon, <2>2 DEF Busy
  <2> QED
    BY Zenon, <2>1, <2>2, <2>3
<1> QED
  BY Zenon, <1>1, <1>2, <1>3, <1>4, <1>5

\* Nothing is said of the cache while a query is busy or after a harmful fault.
LEMMA CacheFree ==
  ASSUME NEW Q, NEW m, NEW c, "late" \in m \/ \E q \in 1..Queries : Busy(Q[q])
  PROVE  CacheInv(Q, m, c)
<1>1. "late" \in Harmful
  BY DEF Harmful
<1> QED
  BY Zenon, <1>1 DEF CacheInv

LEMMA AtSet ==
  ASSUME NEW t \in TaskType, NEW t2,
         NEW at \in {"none", "send", "sent", "recompute", "fallback", "ok", "failed"},
         t2 = [t EXCEPT !.at = at]
  PROVE  t2 \in TaskType /\ t2.w = t.w /\ t2.at = at
<1> DEFINE A == {"none", "send", "sent", "recompute", "fallback", "ok", "failed"}
           N == 0..(MaxTries + 1)
           V == 0..W
           T == SUBSET Workers
<1>1. t \in [at : A, w : V, n : N, tried : T] /\ at \in A
  BY Zenon DEF TaskType
<1> HIDE DEF A, N, V, T
<1>2. t2 \in [at : A, w : V, n : N, tried : T] /\ t2.w = t.w /\ t2.at = at
  BY <1>1
<1> QED
  BY Zenon, <1>2 DEF A, N, V, T, TaskType

-----------------------------------------------------------------------------
(* The steps of the handlers *)

\* The driver has its answer from h, and waits for the other live handlers.
Settled(h, Q2) ==
  /\ DOMAIN task' = 1..Queries
  /\ \A q \in 1..Queries : PlanInv(Q2[q], task'[q])
  /\ \A g \in handlers \ {h} : g.live => task'[g.q][<<g.s, g.p>>].at = "sent"

LEMMA Settles ==
  ASSUME IInv, NEW h \in handlers, NEW t \in TaskType, t.w = TaskOf(h).w, Answered(h, t),
         NEW Q2, \A q \in 1..Queries : PlanInv(Q2[q], task[q])
  PROVE  Settled(h, Q2)
<1>1. LiveInv(handlers, task) /\ DOMAIN task = 1..Queries
  BY Zenon DEF IInv
<1>2. CASE ~h.live
  <2>1. task' = task
    BY Zenon, <1>2 DEF Answered
  <2> QED
    BY Zenon, <1>1, <2>1 DEF Settled, LiveInv
<1>3. CASE h.live
  <2> DEFINE k == <<h.s, h.p>>
  <2>1. /\ h.q \in 1..Queries /\ k \in Tasks /\ task[h.q][k].at \in Pending
        /\ t.at \in Pending => t.w \in Workers
    BY Zenon, <1>3, LiveTask
  <2>2. task' = [task EXCEPT ![h.q][k] = t]
    BY Zenon, <1>3 DEF Answered, SetTask
  <2> HIDE DEF k
  <2>3. TaskIs(h.q, k, t, task')
    BY Zenon, <2>1, <2>2, TaskWritten
  <2>4. \A q \in 1..Queries : PlanInv(Q2[q], task'[q])
    BY Zenon, <2>1, <2>3, TaskMoved
  <2>5. ASSUME NEW g \in handlers \ {h}, g.live
        PROVE  task'[g.q][<<g.s, g.p>>].at = "sent"
    <3>1. task[g.q][<<g.s, g.p>>].at = "sent" /\ g.q \in 1..Queries /\ <<g.s, g.p>> \in Tasks
      BY Zenon, <1>1, <2>5, LiveTask DEF LiveInv
    <3>2. ~(g.q = h.q /\ g.s = h.s /\ g.p = h.p)
      BY Zenon, <1>1, <1>3, <2>5 DEF LiveInv
    <3>3. g.q = h.q => <<g.s, g.p>> # k
      BY <3>2 DEF k
    <3> QED
      BY Zenon, <2>3, <3>1, <3>3 DEF TaskIs
  <2> QED
    BY Zenon, <2>3, <2>4, <2>5 DEF Settled, TaskIs
<1> QED
  BY Zenon, <1>2, <1>3

\* The queries keep their phase and stop.
SamePhases(Q, Q2) ==
  \A q \in 1..Queries : Q2[q].phase = Q[q].phase /\ Q2[q].stop = Q[q].stop

LEMMA PhasesKept ==
  ASSUME IInv, NEW Q2, SamePhases(query, Q2), NEW m, NEW c, mishaps \subseteq m
  PROVE  /\ Onward(query, Q2)
         /\ (\E h \in handlers : TRUE) => CacheInv(Q2, m, c)
<1>1. \A q \in 1..Queries : Busy(Q2[q]) = Busy(query[q])
  BY Zenon DEF Busy, SamePhases
<1>2. Onward(query, Q2)
  BY Zenon, <1>1 DEF Onward, SamePhases
<1>3. ASSUME NEW h \in handlers PROVE CacheInv(Q2, m, c)
  <2>1. "late" \in m \/ h.live
    BY Zenon DEF IInv, AloneInv
  <2>2. h.live => h.q \in 1..Queries /\ Busy(Q2[h.q])
    BY Zenon, <1>1, LiveTask
  <2> QED
    BY Zenon, <2>1, <2>2, CacheFree
<1> QED
  BY Zenon, <1>2, <1>3

\* A handler ends by itself and answers.
LEMMA AnswerStep ==
  ASSUME IInv, NEW h \in handlers, Unregister(h), Settled(h, query'),
         DOMAIN query' = 1..Queries, SamePhases(query, query'), mishaps' = mishaps
  PROVE  IInv'
<1>1. PICK F : /\ Carry(handlers, cancels, handlers', cancels', handlers \ {h}, F)
               /\ Holds(handlers, cancels, cancels', handlers \ {h}, F)
               /\ Calm(cancels, cancels', handlers \ {h}, F)
               /\ \A g \in handlers \ {h} : F[g].live = g.live
  BY Zenon, Ending DEF IInv
<1>2. Awaited(handlers \ {h}, F, task')
  BY Zenon, <1>1 DEF Awaited, Settled
<1>3. mishaps \subseteq mishaps'
  BY Zenon
<1>4. Onward(query, query') /\ CacheInv(query', mishaps', cache')
  BY Zenon, <1>3, PhasesKept
<1> QED
  BY Zenon, <1>1, <1>2, <1>3, <1>4, CarryStep DEF Settled

LEMMA PlansKept == IInv => \A q \in 1..Queries : PlanInv(query[q], task[q])
BY Zenon DEF IInv

LEMMA PullFailsStep == ASSUME IInv, NEW h \in handlers, PullFails(h) PROVE IInv'
<1>1. /\ Unregister(h) /\ Answered(h, AfterRetryable(h.s, TaskOf(h), "shuffle"))
      /\ query' = query /\ mishaps' = mishaps
  BY Zenon DEF PullFails, Fails
<1>2. AfterRetryable(h.s, TaskOf(h), "shuffle") \in TaskType
      /\ AfterRetryable(h.s, TaskOf(h), "shuffle").w = TaskOf(h).w
  BY ZenonT(60), LiveTask, Retried
<1>3. Settled(h, query')
  BY Zenon, <1>1, <1>2, PlansKept, Settles
<1> QED
  BY Zenon, <1>1, <1>3, AnswerStep DEF SamePhases, IInv

LEMMA LoseAnswerStep == ASSUME IInv, NEW h \in handlers, LoseAnswer(h) PROVE IInv'
<1>1. /\ Unregister(h) /\ Answered(h, AfterRetryable(h.s, TaskOf(h), "transport"))
      /\ query' = query /\ mishaps' = mishaps
  BY Zenon DEF LoseAnswer, Commits
<1>2. AfterRetryable(h.s, TaskOf(h), "transport") \in TaskType
      /\ AfterRetryable(h.s, TaskOf(h), "transport").w = TaskOf(h).w
  BY ZenonT(60), LiveTask, Retried
<1>3. Settled(h, query')
  BY Zenon, <1>1, <1>2, PlansKept, Settles
<1> QED
  BY Zenon, <1>1, <1>3, AnswerStep DEF SamePhases, IInv

LEMMA AbortStep == ASSUME IInv, NEW h \in handlers, Abort(h) \/ Break(h) PROVE IInv'
<1>1. /\ Unregister(h) /\ Answered(h, AfterFinal(TaskOf(h)))
      /\ query' = query /\ mishaps' = mishaps
  BY Zenon DEF Abort, Break, Fails
<1>2. AfterFinal(TaskOf(h)) \in TaskType /\ AfterFinal(TaskOf(h)).w = TaskOf(h).w
  BY Zenon, LiveTask, Finalized
<1>3. Settled(h, query')
  BY Zenon, <1>1, <1>2, PlansKept, Settles
<1> QED
  BY Zenon, <1>1, <1>3, AnswerStep DEF SamePhases, IInv

LEMMA FinishStep == ASSUME IInv, NEW h \in handlers, Finish(h) PROVE IInv'
<1>1. PICK bag : /\ Unregister(h) /\ Answered(h, [TaskOf(h) EXCEPT !.at = "ok"])
                 /\ query' = IF h.s = Output /\ h.live
                               THEN [query EXCEPT ![h.q].answer = @ (+) bag] ELSE query
                 /\ mishaps' = mishaps
  BY Zenon DEF Finish, Commits
<1>2. h.q \in 1..Queries /\ DOMAIN query = 1..Queries /\ PlanInv(query[h.q], task[h.q])
  BY Zenon, LiveTask DEF IInv
<1>3. /\ DOMAIN query' = 1..Queries /\ SamePhases(query, query')
      /\ \A q \in 1..Queries : PlanInv(query'[q], task[q])
  <2>1. CASE ~(h.s = Output /\ h.live)
    BY Zenon, <1>1, <2>1, PlansKept DEF SamePhases, IInv
  <2>2. CASE h.s = Output /\ h.live
    <3> DEFINE r == query[h.q]
               r2 == [r EXCEPT !.answer = @ (+) bag]
    <3>1. query' = [query EXCEPT ![h.q] = r2]
      BY Zenon, <1>1, <2>2
    <3>2. SamePlan(r, r2) /\ r2.phase = r.phase /\ r2.stop = r.stop
      <4>1. IsQuery(r)
        BY Zenon, <1>2 DEF PlanInv
      <4>2. PICK a : r2 = [r EXCEPT !.answer = a]
        BY Zenon
      <4> HIDE DEF r, r2
      <4> QED
        BY Zenon, <4>1, <4>2, AnswerSet
    <3> HIDE DEF r2
    <3>3. /\ DOMAIN query' = 1..Queries /\ query'[h.q] = r2
          /\ \A q \in 1..Queries : q # h.q => query'[q] = query[q]
      BY Zenon, <1>2, <3>1
    <3>4. r.phase \in {"run", "drain"}
      BY Zenon, <2>2, LiveTask
    <3>5. PlanInv(r2, task[h.q])
      BY Zenon, <1>2, <3>2, <3>4, QueryMoves DEF SamePlan
    <3> QED
      BY Zenon, <3>2, <3>3, <3>5, PlansKept DEF SamePhases
  <2> QED
    BY Zenon, <2>1, <2>2
<1>4. [TaskOf(h) EXCEPT !.at = "ok"] \in TaskType
      /\ [TaskOf(h) EXCEPT !.at = "ok"].w = TaskOf(h).w
  BY Zenon, LiveTask, AtSet
<1>5. Settled(h, query')
  BY Zenon, <1>1, <1>3, <1>4, Settles
<1> QED
  BY Zenon, <1>1, <1>3, <1>5, AnswerStep

LEMMA PullStep == ASSUME IInv, NEW h \in handlers, Pull(h) PROVE IInv'
<1>1. PICK x : handlers' = (handlers \ {h}) \cup {[h EXCEPT !.in = x]}
  BY Zenon DEF Pull, Pulls
<1>2. /\ cancels' = cancels /\ query' = query /\ task' = task /\ mishaps' = mishaps
  BY Zenon DEF Pull, Pulls
<1> DEFINE h2 == [h EXCEPT !.in = x]
<1>3. IsHandler(h)
  BY Zenon, LiveTask
<1>4. Twin(h, h2) /\ h2.live = h.live
  <2>1. /\ DOMAIN h2 = HandlerFields /\ h2.q = h.q /\ h2.s = h.s /\ h2.p = h.p /\ h2.w = h.w
        /\ h2.n = h.n /\ h2.mod = h.mod /\ h2.flag = h.flag /\ h2.live = h.live
    BY Zenon, <1>3 DEF IsHandler, HandlerFields
  <2> HIDE DEF h2
  <2> QED
    BY Zenon, <1>3, <2>1 DEF IsHandler, Twin
<1>5. handlers' = (handlers \ {h}) \cup {h2}
  BY Zenon, <1>1
<1> HIDE DEF h2
<1>6. PICK F : /\ Carry(handlers, cancels, handlers', cancels', handlers, F)
               /\ Holds(handlers, cancels, cancels', handlers, F)
               /\ Calm(cancels, cancels', handlers, F)
               /\ Swapped(h, h2, F)
  <2>1. WorkersInv(handlers, cancels)
    BY Zenon DEF IInv
  <2> QED
    BY Zenon, <1>2, <1>4, <1>5, <2>1, Swapping
<1>7. \A g \in handlers : F[g].live = g.live
  <2>1. F[h].live = h.live
    BY Zenon, <1>4, <1>6 DEF Swapped
  <2>2. \A g \in handlers \ {h} : F[g].live = g.live
    BY Zenon, <1>6 DEF Swapped
  <2> QED
    BY <2>1, <2>2
<1>8. Awaited(handlers, F, task')
  BY Zenon, <1>2, <1>7 DEF Awaited, IInv, LiveInv
<1>9. Onward(query, query') /\ CacheInv(query', mishaps', cache')
  <2>1. SamePhases(query, query') /\ mishaps \subseteq mishaps'
    BY Zenon, <1>2 DEF SamePhases
  <2> QED
    BY Zenon, <2>1, PhasesKept
<1>10. /\ DOMAIN query' = 1..Queries /\ DOMAIN task' = 1..Queries /\ mishaps \subseteq mishaps'
       /\ \A q \in 1..Queries : PlanInv(query'[q], task'[q])
  BY Zenon, <1>2 DEF IInv
<1> QED
  BY Zenon, <1>6, <1>7, <1>8, <1>9, <1>10, CarryStep

LEMMA CutStep == ASSUME IInv, NEW h \in handlers, Cut(h) PROVE IInv'
<1>1. /\ handlers' = handlers \ {h} /\ cancels' = cancels /\ query' = query
      /\ mishaps' = mishaps \cup {"dropped"}
      /\ Answered(h, AfterRetryable(h.s, TaskOf(h), "transport"))
  BY Zenon DEF Cut, Dropped, Answered
<1>2. AfterRetryable(h.s, TaskOf(h), "transport") \in TaskType
      /\ AfterRetryable(h.s, TaskOf(h), "transport").w = TaskOf(h).w
  BY ZenonT(60), LiveTask, Retried
<1>3. Settled(h, query')
  BY Zenon, <1>1, <1>2, PlansKept, Settles
<1>4. PICK F : /\ Carry(handlers, cancels, handlers', cancels', handlers \ {h}, F)
               /\ Calm(cancels, cancels', handlers \ {h}, F)
               /\ \A g \in handlers \ {h} : F[g] = g
  BY Zenon, <1>1, Leaving DEF IInv
<1>5. Awaited(handlers \ {h}, F, task') /\ \A g \in handlers \ {h} : F[g].live = g.live
  BY Zenon, <1>3, <1>4 DEF Awaited, Settled
<1>6. mishaps \subseteq mishaps' /\ "dropped" \in mishaps' /\ DOMAIN query' = 1..Queries
  BY Zenon, <1>1 DEF IInv
<1>7. Onward(query, query') /\ CacheInv(query', mishaps', cache')
  <2>1. SamePhases(query, query')
    BY Zenon, <1>1 DEF SamePhases
  <2> QED
    BY Zenon, <1>6, <2>1, PhasesKept
<1> QED
  BY Zenon, <1>3, <1>4, <1>5, <1>6, <1>7, CarryStep DEF Settled

LEMMA DropLateStep == ASSUME IInv, NEW h \in handlers, DropLate(h) PROVE IInv'
<1>1. /\ handlers' = handlers \ {h} /\ cancels' = cancels /\ query' = query /\ task' = task
      /\ mishaps' = mishaps \cup {"dropped"}
  BY Zenon DEF DropLate, Dropped
<1>2. PICK F : /\ Carry(handlers, cancels, handlers', cancels', handlers \ {h}, F)
               /\ Calm(cancels, cancels', handlers \ {h}, F)
               /\ \A g \in handlers \ {h} : F[g] = g
  BY Zenon, <1>1, Leaving DEF IInv
<1>3. Awaited(handlers \ {h}, F, task') /\ \A g \in handlers \ {h} : F[g].live = g.live
  BY Zenon, <1>1, <1>2 DEF Awaited, IInv, LiveInv
<1>4. /\ mishaps \subseteq mishaps' /\ "dropped" \in mishaps'
      /\ DOMAIN query' = 1..Queries /\ DOMAIN task' = 1..Queries
      /\ \A q \in 1..Queries : PlanInv(query'[q], task'[q])
  BY Zenon, <1>1 DEF IInv
<1>5. Onward(query, query') /\ CacheInv(query', mishaps', cache')
  <2>1. SamePhases(query, query')
    BY Zenon, <1>1 DEF SamePhases
  <2> QED
    BY Zenon, <1>4, <2>1, PhasesKept
<1> QED
  BY Zenon, <1>2, <1>3, <1>4, <1>5, CarryStep

LEMMA CutLateStep == ASSUME IInv, NEW h \in handlers, CutLate(h) PROVE IInv'
<1> DEFINE h2 == [h EXCEPT !.live = FALSE]
<1>1. /\ handlers' = (handlers \ {h}) \cup {h2} /\ cancels' = cancels /\ query' = query
      /\ mishaps' = mishaps \cup {"late"}
      /\ Answered(h, AfterRetryable(h.s, TaskOf(h), "transport"))
  BY Zenon DEF CutLate, Answered
<1>2. AfterRetryable(h.s, TaskOf(h), "transport") \in TaskType
      /\ AfterRetryable(h.s, TaskOf(h), "transport").w = TaskOf(h).w
  BY ZenonT(60), LiveTask, Retried
<1>3. Settled(h, query')
  BY Zenon, <1>1, <1>2, PlansKept, Settles
<1>4. Twin(h, h2) /\ ~h2.live
  <2>1. IsHandler(h)
    BY Zenon, LiveTask
  <2>2. /\ DOMAIN h2 = HandlerFields /\ h2.q = h.q /\ h2.s = h.s /\ h2.p = h.p /\ h2.w = h.w
        /\ h2.n = h.n /\ h2.mod = h.mod /\ h2.flag = h.flag /\ h2.live = FALSE
    BY Zenon, <2>1 DEF IsHandler, HandlerFields
  <2> HIDE DEF h2
  <2> QED
    BY Zenon, <2>1, <2>2, FALSE \in BOOLEAN DEF IsHandler, Twin
<1> HIDE DEF h2
<1>5. PICK F : /\ Carry(handlers, cancels, handlers', cancels', handlers, F)
               /\ Holds(handlers, cancels, cancels', handlers, F)
               /\ Calm(cancels, cancels', handlers, F)
               /\ Swapped(h, h2, F)
  <2>1. WorkersInv(handlers, cancels)
    BY Zenon DEF IInv
  <2> QED
    BY Zenon, <1>1, <1>4, <2>1, Swapping
<1>6. Awaited(handlers, F, task')
  BY Zenon, <1>3, <1>4, <1>5 DEF Awaited, Settled, Swapped
<1>7. mishaps \subseteq mishaps' /\ "late" \in mishaps' /\ DOMAIN query' = 1..Queries
  BY Zenon, <1>1 DEF IInv
<1>8. Onward(query, query') /\ CacheInv(query', mishaps', cache')
  <2>1. SamePhases(query, query')
    BY Zenon, <1>1 DEF SamePhases
  <2> QED
    BY Zenon, <1>7, <2>1, PhasesKept
<1> QED
  BY Zenon, <1>3, <1>5, <1>6, <1>7, <1>8, CarryStep DEF Settled

\* A worker starts over: the driver retries the tasks it was running.
LEMMA RestartStep == ASSUME IInv, NEW w \in Workers, Restart(w) PROVE IInv'
<1> DEFINE Lost(q, k) == \E h \in Running(w) : h.live /\ h.q = q /\ <<h.s, h.p>> = k
<1>1. /\ handlers' = handlers \ Running(w) /\ query' = query
      /\ cancels' = [cancels EXCEPT ![w] = [s \in Stages |-> "none"]]
      /\ mishaps' = mishaps \cup {"restart"}
  BY Zenon DEF Restart
<1>2. task' = [q \in 1..Queries |-> [k \in Tasks |->
         IF Lost(q, k) THEN AfterRetryable(k[1], task[q][k], "transport") ELSE task[q][k]]]
  BY Zenon DEF Restart
<1>3. \A q \in 1..Queries : task[q] \in [Tasks -> TaskType] /\ PlanInv(query[q], task[q])
  BY Zenon DEF IInv, PlanInv
<1>4. ASSUME NEW q \in 1..Queries, NEW k \in Tasks, Lost(q, k)
      PROVE  task[q][k].at \in Pending /\ task[q][k].w \in Workers
  <2>1. PICK h \in Running(w) : h.live /\ h.q = q /\ <<h.s, h.p>> = k
    BY Zenon, <1>4
  <2>2. h \in handlers
    BY Zenon DEF Running
  <2> QED
    BY Zenon, <2>1, <2>2, LiveTask
<1>5. ASSUME NEW q \in 1..Queries PROVE PlanInv(query'[q], task'[q])
  <2> DEFINE t2 == task'[q]
  <2>1. t2 = [k \in Tasks |->
         IF Lost(q, k) THEN AfterRetryable(k[1], task[q][k], "transport") ELSE task[q][k]]
    BY Zenon, <1>2
  <2> HIDE DEF t2, Lost
  <2>2. \A k \in Tasks : /\ AfterRetryable(k[1], task[q][k], "transport") \in TaskType
                         /\ AfterRetryable(k[1], task[q][k], "transport").w = task[q][k].w
                         /\ task[q][k] \in TaskType
    <3> TAKE k \in Tasks
    <3>1. task[q][k] \in TaskType
      BY Zenon, <1>3
    <3> QED
      BY <3>1, Retried
  <2>3. \A k \in Tasks : t2[k] =
         IF Lost(q, k) THEN AfterRetryable(k[1], task[q][k], "transport") ELSE task[q][k]
    BY Zenon, <2>1
  <2>4. \A k \in Tasks : t2[k] \in TaskType
    BY Zenon, <2>2, <2>3
  <2>5. t2 \in [Tasks -> TaskType]
    BY Zenon, <2>1, <2>2
  <2>6. \A k \in Tasks : \/ t2[k] = task[q][k]
                         \/ /\ task[q][k].at \in Pending
                            /\ t2[k].at \in Pending => t2[k].w \in Workers
    BY Zenon, <1>4, <2>2, <2>3
  <2>7. PlanInv(query[q], t2)
    BY Zenon, <1>3, <2>5, <2>6, TasksMove
  <2> QED
    BY Zenon, <1>1, <2>7 DEF t2
<1>6. PICK F : /\ Carry(handlers, cancels, handlers', cancels', handlers \ Running(w), F)
               /\ Holds(handlers, cancels, cancels', handlers \ Running(w), F)
               /\ Calm(cancels, cancels', handlers \ Running(w), F)
               /\ \A g \in handlers \ Running(w) : F[g] = g
  BY Zenon, <1>1, Restarting DEF IInv
<1>7. ASSUME NEW g \in handlers \ Running(w), F[g].live
      PROVE  task'[g.q][<<g.s, g.p>>].at = "sent"
  <2>1. /\ g \in handlers /\ g.live /\ g.q \in 1..Queries /\ <<g.s, g.p>> \in Tasks
        /\ task[g.q][<<g.s, g.p>>].at = "sent"
    BY Zenon, <1>6, <1>7, LiveTask
  <2>2. ~Lost(g.q, <<g.s, g.p>>)
    <3> SUFFICES ASSUME NEW h \in Running(w), h.live, h.q = g.q, <<h.s, h.p>> = <<g.s, g.p>>
                 PROVE  FALSE
      BY Zenon
    <3>1. h \in handlers /\ h.s = g.s /\ h.p = g.p
      BY DEF Running
    <3>2. g = h
      BY Zenon, <2>1, <3>1 DEF IInv, LiveInv
    <3> QED
      BY Zenon, <3>2
  <2> QED
    BY Zenon, <1>2, <2>1, <2>2
<1>8. Awaited(handlers \ Running(w), F, task')
  BY Zenon, <1>7 DEF Awaited
<1>9. /\ mishaps \subseteq mishaps' /\ DOMAIN query' = 1..Queries /\ DOMAIN task' = 1..Queries
      /\ \A g \in handlers \ Running(w) : F[g].live = g.live
  BY Zenon, <1>1, <1>2, <1>6 DEF IInv
<1>10. Onward(query, query')
  <2>1. SamePhases(query, query')
    BY Zenon, <1>1 DEF SamePhases
  <2> QED
    BY Zenon, <1>9, <2>1, PhasesKept
<1>11. CacheInv(query', mishaps', cache')
  <2>1. "restart" \in Harmful
    BY DEF Harmful
  <2> QED
    BY Zenon, <1>1, <2>1 DEF CacheInv
<1> QED
  BY Zenon, <1>5, <1>6, <1>8, <1>9, <1>10, <1>11, CarryStep

-----------------------------------------------------------------------------
(* The steps of the driver for one task *)

\* A task the driver is not waiting for moves on.
LEMMA TaskSteps ==
  ASSUME IInv, NEW q \in 1..Queries, NEW k \in Tasks, NEW t \in TaskType,
         task[q][k].at \in Pending, task[q][k].at # "sent", t.at \in Pending => t.w \in Workers,
         task' = [task EXCEPT ![q][k] = t], handlers' = handlers, cancels' = cancels,
         query' = query, mishaps \subseteq mishaps'
  PROVE  IInv'
<1>1. PICK F : /\ Carry(handlers, cancels, handlers', cancels', handlers, F)
               /\ Holds(handlers, cancels, cancels', handlers, F)
               /\ Calm(cancels, cancels', handlers, F)
               /\ \A g \in handlers : F[g] = g
  BY Zenon, Staying DEF IInv
<1>2. TaskIs(q, k, t, task')
  BY Zenon, TaskWritten
<1>3. \A r \in 1..Queries : PlanInv(query[r], task'[r])
  BY Zenon, <1>2, PlansKept, TaskMoved
<1>4. ASSUME NEW g \in handlers, F[g].live PROVE task'[g.q][<<g.s, g.p>>].at = "sent"
  <2>1. /\ g.q \in 1..Queries /\ <<g.s, g.p>> \in Tasks /\ task[g.q][<<g.s, g.p>>].at = "sent"
    <3>1. g.live
      BY Zenon, <1>1, <1>4
    <3>2. g.q \in 1..Queries /\ <<g.s, g.p>> \in Tasks
      BY Zenon, LiveTask
    <3> QED
      BY Zenon, <3>1, <3>2 DEF IInv, LiveInv
  <2>2. g.q # q \/ <<g.s, g.p>> # k
    BY Zenon, <2>1
  <2> QED
    BY Zenon, <1>2, <2>1, <2>2 DEF TaskIs
<1>5. Awaited(handlers, F, task')
  BY Zenon, <1>4 DEF Awaited
<1>6. Onward(query, query') /\ DOMAIN query' = 1..Queries
  BY Zenon DEF Onward, IInv
<1>7. CacheInv(query', mishaps', cache')
  <2>1. query[q].phase \in {"run", "drain"}
    BY Zenon DEF IInv, PlanInv
  <2>2. Busy(query'[q])
    BY Zenon, <2>1 DEF Busy
  <2> QED
    BY Zenon, <2>2, CacheFree
<1>8. /\ DOMAIN task' = 1..Queries /\ \A g \in handlers : F[g].live = g.live
      /\ \A r \in 1..Queries : PlanInv(query'[r], task'[r])
  BY Zenon, <1>1, <1>2, <1>3 DEF TaskIs
<1> QED
  BY Zenon, <1>1, <1>5, <1>6, <1>7, <1>8, CarryStep

\* A task with work to do has a worker.
LEMMA PendingTask ==
  ASSUME IInv, NEW q \in 1..Queries, NEW s \in Stages, NEW p \in Parts
  PROVE  /\ <<s, p>> \in Tasks /\ task[q][<<s, p>>] \in TaskType
         /\ task[q][<<s, p>>].at \in Pending =>
              task[q][<<s, p>>].w \in Workers /\ query[q].phase \in {"run", "drain"}
<1>1. <<s, p>> \in Tasks
  BY DEF Tasks
<1>2. PlanInv(query[q], task[q])
  BY Zenon DEF IInv
<1>3. task[q] \in [Tasks -> TaskType]
  BY Zenon, <1>2 DEF PlanInv
<1> QED
  BY Zenon, <1>1, <1>2, <1>3 DEF PlanInv

LEMMA RefusedStep ==
  ASSUME IInv, NEW q \in 1..Queries, NEW s \in Stages, NEW p \in Parts,
         ProbeFull(q, s, p) \/ Refused(q, s, p)
  PROVE  IInv'
<1> DEFINE t == task[q][<<s, p>>]
<1>1. PICK why : SetTask(q, s, p, AfterRetryable(s, t, why))
  BY Zenon DEF ProbeFull, Refused
<1>2. /\ t.at = "send" /\ handlers' = handlers /\ cancels' = cancels /\ query' = query
      /\ mishaps' = mishaps
  BY Zenon DEF ProbeFull, Refused, workerVars
<1>3. "send" \in Pending /\ "send" # "sent"
  BY DEF Pending
<1>4. <<s, p>> \in Tasks /\ t \in TaskType /\ t.w \in Workers
  BY Zenon, <1>2, <1>3, PendingTask
<1> DEFINE t2 == AfterRetryable(s, t, why)
<1>5. t2 \in TaskType /\ t2.w = t.w
  BY ZenonT(60), <1>4, Retried
<1>6. task' = [task EXCEPT ![q][<<s, p>>] = t2]
  BY Zenon, <1>1 DEF SetTask
<1> HIDE DEF t2
<1>7. t2.at \in Pending => t2.w \in Workers
  BY Zenon, <1>4, <1>5
<1>8. mishaps \subseteq mishaps'
  BY Zenon, <1>2
<1> QED
  BY Zenon, <1>2, <1>3, <1>4, <1>5, <1>6, <1>7, <1>8, TaskSteps

LEMMA RecomputeStep ==
  ASSUME IInv, NEW q \in 1..Queries, NEW s \in Stages, NEW p \in Parts,
         RecomputeUpstream(q, s, p)
  PROVE  IInv'
<1> DEFINE t == task[q][<<s, p>>]
           a == [t EXCEPT !.at = "send"]
           b == [t EXCEPT !.at = "fallback", !.n = MaxTries + 1]
<1>1. /\ SetTask(q, s, p, a) \/ SetTask(q, s, p, b)
      /\ t.at = "recompute" /\ handlers' = handlers /\ cancels' = cancels /\ query' = query
      /\ mishaps' = mishaps
  BY Zenon DEF RecomputeUpstream
<1>2. "recompute" \in Pending /\ "recompute" # "sent"
  BY DEF Pending
<1>3. <<s, p>> \in Tasks /\ t \in TaskType /\ t.w \in Workers
  BY Zenon, <1>1, <1>2, PendingTask
<1>4. a \in TaskType /\ a.w = t.w
  <2>1. "send" \in {"none", "send", "sent", "recompute", "fallback", "ok", "failed"}
    BY Zenon
  <2> HIDE DEF t
  <2> QED
    BY Zenon, <1>3, <2>1, AtSet
<1>5. b \in TaskType /\ b.w = t.w
  <2>1. MaxTries + 1 \in 0..(MaxTries + 1)
    BY Constants
  <2>2. "fallback" \in {"none", "send", "sent", "recompute", "fallback", "ok", "failed"}
    BY Zenon
  <2> QED
    BY Zenon, <1>3, <2>1, <2>2, TaskSet
<1> HIDE DEF a, b
<1>6. PICK t2 : task' = [task EXCEPT ![q][<<s, p>>] = t2] /\ t2 \in TaskType /\ t2.w = t.w
  BY Zenon, <1>1, <1>4, <1>5 DEF SetTask
<1>7. t2.at \in Pending => t2.w \in Workers
  BY Zenon, <1>3, <1>6
<1>8. mishaps \subseteq mishaps'
  BY Zenon, <1>1
<1> QED
  BY Zenon, <1>1, <1>2, <1>3, <1>6, <1>7, <1>8, TaskSteps

LEMMA FallbackStep ==
  ASSUME IInv, members \subseteq Workers, NEW q \in 1..Queries, NEW s \in Stages,
         NEW p \in Parts, Fallback(q, s, p)
  PROVE  IInv'
<1> DEFINE t == task[q][<<s, p>>]
           alt == {w \in members \ t.tried : SlotFree(w)}
           a == [t EXCEPT !.at = "failed"]
           b(w) == [t EXCEPT !.at = "send", !.w = w, !.tried = @ \cup {w}]
<1>1. /\ SetTask(q, s, p, a) \/ (\E w \in alt : SetTask(q, s, p, b(w)))
      /\ t.at = "fallback" /\ handlers' = handlers /\ cancels' = cancels /\ query' = query
      /\ mishaps \subseteq mishaps'
  BY Zenon DEF Fallback, workerVars
<1>2. "fallback" \in Pending /\ "fallback" # "sent" /\ "failed" \notin Pending
  BY DEF Pending
<1>3. <<s, p>> \in Tasks /\ t \in TaskType /\ t.w \in Workers
  BY Zenon, <1>1, <1>2, PendingTask
<1>4. a \in TaskType /\ a.at = "failed"
  <2>1. "failed" \in {"none", "send", "sent", "recompute", "fallback", "ok", "failed"}
    BY Zenon
  <2> HIDE DEF t
  <2> QED
    BY Zenon, <1>3, <2>1, AtSet
<1>5. ASSUME NEW m \in alt PROVE b(m) \in TaskType /\ b(m).w \in Workers
  <2>1. m \in Workers
    BY Zenon
  <2> DEFINE bm == b(m)
             A == {"none", "send", "sent", "recompute", "fallback", "ok", "failed"}
             N == 0..(MaxTries + 1)
             V == 0..W
             T == SUBSET Workers
             tried == t.tried \cup {m}
  <2>2. m \in V
    BY <2>1, Constants DEF Workers
  <2>3. t \in [at : A, w : V, n : N, tried : T] /\ "send" \in A
    BY Zenon, <1>3 DEF TaskType
  <2>4. t.tried \subseteq Workers
    BY <1>3 DEF TaskType
  <2>5. tried \in T
    BY Zenon, <2>1, <2>4
  <2>6. bm = [t EXCEPT !.at = "send", !.w = m, !.tried = tried]
    BY Zenon
  <2> HIDE DEF t, b, bm, A, N, V, T, tried
  <2>7. bm \in [at : A, w : V, n : N, tried : T] /\ bm.w = m
    BY <2>2, <2>3, <2>5, <2>6
  <2> QED
    BY Zenon, <2>1, <2>7 DEF bm, A, N, V, T, TaskType
<1> HIDE DEF a, b, alt
<1>6. PICK t2 : /\ task' = [task EXCEPT ![q][<<s, p>>] = t2] /\ t2 \in TaskType
                /\ t2.at \in Pending => t2.w \in Workers
  BY Zenon, <1>1, <1>2, <1>4, <1>5 DEF SetTask
<1> QED
  BY Zenon, <1>1, <1>2, <1>3, <1>6, TaskSteps

-----------------------------------------------------------------------------
(* The steps of a query *)

\* One query is set.
QueryIs(q, r2) ==
  /\ DOMAIN query' = 1..Queries /\ query'[q] = r2
  /\ \A r \in 1..Queries : r # q => query'[r] = query[r]

\* What may be set: idle stays idle, not running stays so, a sweep is not forgotten.
Advances(r, r2) ==
  /\ Busy(r2) => Busy(r)
  /\ r.phase # "run" => r2.phase # "run"
  /\ r.stop = "swept" => r2.stop = "swept"

LEMMA QueryWritten ==
  ASSUME IInv, NEW q \in 1..Queries, NEW r2, SetQuery(q, r2)
  PROVE  /\ QueryIs(q, r2) /\ PlanInv(query[q], task[q]) /\ IsQuery(query[q])
         /\ Advances(query[q], r2) => Onward(query, query')
<1>1. DOMAIN query = 1..Queries /\ PlanInv(query[q], task[q])
  BY Zenon DEF IInv
<1>2. QueryIs(q, r2)
  BY Zenon, <1>1 DEF SetQuery, QueryIs
<1> QED
  BY Zenon, <1>1, <1>2 DEF Advances, Onward, QueryIs, PlanInv

\* A step of a query that leaves its tasks and the handlers.
LEMMA QuerySteps ==
  ASSUME IInv, NEW q \in 1..Queries, NEW r2, SetQuery(q, r2), PlanInv(r2, task[q]),
         Advances(query[q], r2), task' = task, handlers' = handlers, cancels' = cancels,
         mishaps \subseteq mishaps', CacheInv(query', mishaps', cache')
  PROVE  IInv'
<1>1. PICK F : /\ Carry(handlers, cancels, handlers', cancels', handlers, F)
               /\ Holds(handlers, cancels, cancels', handlers, F)
               /\ Calm(cancels, cancels', handlers, F)
               /\ \A g \in handlers : F[g] = g
  BY Zenon, Staying DEF IInv
<1>2. Awaited(handlers, F, task') /\ \A g \in handlers : F[g].live = g.live
  BY Zenon, <1>1 DEF Awaited, IInv, LiveInv
<1>3. QueryIs(q, r2) /\ Onward(query, query')
  BY Zenon, QueryWritten
<1>4. /\ DOMAIN query' = 1..Queries /\ DOMAIN task' = 1..Queries
      /\ \A r \in 1..Queries : PlanInv(query'[r], task'[r])
  BY Zenon, <1>3 DEF IInv, QueryIs
<1> QED
  BY Zenon, <1>1, <1>2, <1>3, <1>4, CarryStep

LEMMA NoWork ==
  ASSUME NEW r, NEW tk, PlanInv(r, tk), r.phase \notin {"run", "drain"}
  PROVE  \A k \in Tasks : tk[k].at \notin Pending
BY Zenon DEF PlanInv

LEMMA SweepClearStep == ASSUME IInv, NEW q \in 1..Queries, SweepClear(q) PROVE IInv'
<1> DEFINE r == query[q]
           ph == IF r.good THEN "ok" ELSE "failed"
           r2 == [r EXCEPT !.phase = ph]
<1>1. /\ r.phase = "clear" /\ cache' = Cleared /\ SetQuery(q, r2) /\ handlers' = handlers
      /\ cancels' = cancels /\ task' = task /\ mishaps \subseteq mishaps'
  BY Zenon DEF SweepClear
<1>2. PlanInv(r, task[q]) /\ IsQuery(r)
  BY Zenon DEF IInv, PlanInv
<1>3. ph \in Phases /\ ph \in {"ok", "failed"}
  BY Zenon DEF Phases
<1>4. ph \notin {"new", "run", "drain", "cancel", "clear"}
  BY <1>3
<1>5. r.phase \notin {"run", "drain"}
  BY <1>1
<1> HIDE DEF ph
<1>6. SamePlan(r, r2) /\ r2.phase = ph /\ r2.stop = r.stop
  <2>1. r2 = [r EXCEPT !.phase = ph]
    BY Zenon
  <2>2. IsQuery(r) /\ ph \in Phases
    BY Zenon, <1>2, <1>3
  <2> HIDE DEF r, r2
  <2> QED
    BY <2>1, <2>2, PhaseSet
<1> HIDE DEF r2
<1>7. PlanInv(r2, task[q])
  BY Zenon, <1>2, <1>4, <1>5, <1>6, NoWork, QueryMoves DEF SamePlan
<1>8. Advances(r, r2)
  BY Zenon, <1>4, <1>6 DEF Advances, Busy
<1>9. CacheInv(query', mishaps', cache')
  BY Zenon, <1>1 DEF CacheInv
<1> QED
  BY Zenon, <1>1, <1>7, <1>8, <1>9, QuerySteps

LEMMA AbandonSweepStep == ASSUME IInv, NEW q \in 1..Queries, AbandonSweep(q) PROVE IInv'
<1> DEFINE r == query[q]
           r2 == [r EXCEPT !.phase = "failed"]
<1>1. /\ r.phase \in {"cancel", "clear"} /\ SetQuery(q, r2) /\ handlers' = handlers
      /\ cancels' = cancels /\ task' = task /\ mishaps' = mishaps \cup {"unswept"}
  BY Zenon DEF AbandonSweep, workerVars
<1>2. PlanInv(r, task[q]) /\ IsQuery(r)
  BY Zenon DEF IInv, PlanInv
<1>3. "failed" \in Phases /\ "failed" \notin {"new", "run", "drain", "cancel", "clear"}
  BY DEF Phases
<1>4. r.phase \notin {"run", "drain"}
  BY <1>1
<1>5. SamePlan(r, r2) /\ r2.phase = "failed" /\ r2.stop = r.stop
  <2>1. r2 = [r EXCEPT !.phase = "failed"]
    BY Zenon
  <2> HIDE DEF r, r2
  <2> QED
    BY ZenonT(60), <1>2, <1>3, <2>1, PhaseSet
<1> HIDE DEF r2
<1>6. PlanInv(r2, task[q])
  BY Zenon, <1>2, <1>3, <1>4, <1>5, NoWork, QueryMoves DEF SamePlan
<1>7. Advances(r, r2)
  BY Zenon, <1>3, <1>5 DEF Advances, Busy
<1>8. CacheInv(query', mishaps', cache')
  <2>1. "unswept" \in Harmful
    BY DEF Harmful
  <2> QED
    BY Zenon, <1>1, <2>1 DEF CacheInv
<1> QED
  BY Zenon, <1>1, <1>6, <1>7, <1>8, QuerySteps

LEMMA InterruptStep == ASSUME IInv, NEW q \in 1..Queries, Interrupt(q) PROVE IInv'
<1> DEFINE r == query[q]
           r2 == [r EXCEPT !.stop = "asked"]
<1>1. /\ r.phase \in {"run", "drain"} /\ r.stop = "no" /\ SetQuery(q, r2)
      /\ handlers' = handlers /\ cancels' = cancels /\ task' = task /\ mishaps \subseteq mishaps'
  BY Zenon DEF Interrupt, Active, workerVars
<1>2. PlanInv(r, task[q]) /\ IsQuery(r)
  BY Zenon DEF IInv, PlanInv
<1>3. "asked" \in {"no", "asked", "swept"} /\ r.stop # "swept" /\ Busy(r)
  BY <1>1 DEF Busy
<1>4. SamePlan(r, r2) /\ r2.phase = r.phase
  <2>1. r2 = [r EXCEPT !.stop = "asked"]
    BY Zenon
  <2> HIDE DEF r, r2
  <2> QED
    BY Zenon, <1>2, <1>3, <2>1, StopSet
<1> HIDE DEF r2
<1>5. PlanInv(r2, task[q])
  BY Zenon, <1>1, <1>2, <1>4, QueryMoves DEF SamePlan
<1>6. Advances(r, r2) /\ Busy(r2)
  BY Zenon, <1>3, <1>4 DEF Advances, Busy
<1>7. CacheInv(query', mishaps', cache')
  BY Zenon, <1>1, <1>6, QueryWritten, CacheFree DEF QueryIs
<1> QED
  BY Zenon, <1>1, <1>5, <1>6, <1>7, QuerySteps

\* The driver's view of a stage's tasks.
LEMMA Staged ==
  ASSUME NEW q \in 1..Queries, NEW s
  PROVE  /\ TasksOf(q, s) = PartsOf(query[q], s)
         /\ \A k \in Tasks : k = <<k[1], k[2]>> /\ k[1] \in Stages
<1>1. TasksOf(q, s) = PartsOf(query[q], s)
  BY Zenon DEF TasksOf, PartsOf
<1>2. \A k \in Tasks : k = <<k[1], k[2]>> /\ k[1] \in Stages
  BY DEF Tasks
<1> QED
  BY Zenon, <1>1, <1>2

LEMMA DrainedStep == ASSUME IInv, NEW q \in 1..Queries, Drained(q) PROVE IInv'
<1> DEFINE r == query[q]
           r2 == [r EXCEPT !.phase = "cancel"]
<1>1. /\ r.phase = "drain" /\ InFlight(q) = {} /\ SetQuery(q, r2) /\ handlers' = handlers
      /\ cancels' = cancels /\ task' = task /\ mishaps \subseteq mishaps'
  BY Zenon DEF Drained, workerVars
<1>2. PlanInv(r, task[q]) /\ IsQuery(r)
  BY Zenon DEF IInv, PlanInv
<1>3. \A k \in Tasks : k[1] \in r.sent \ r.done /\ k[2] \in PartsOf(r, k[1]) =>
                         task[q][k].at \in {"ok", "failed"}
  <2> SUFFICES ASSUME NEW k \in Tasks, k[1] \in r.sent \ r.done, k[2] \in PartsOf(r, k[1])
               PROVE  task[q][k].at \in {"ok", "failed"}
    OBVIOUS
  <2>1. EndedTasks(q, k[1])
    BY Zenon, <1>1 DEF InFlight
  <2>2. k = <<k[1], k[2]>> /\ k[2] \in TasksOf(q, k[1])
    BY Zenon, Staged
  <2> QED
    BY Zenon, <2>1, <2>2 DEF EndedTasks
<1>4. \A k \in Tasks : task[q][k].at \notin Pending
  BY Zenon, <1>2, <1>3, AllEnded
<1>5. "cancel" \in Phases /\ "cancel" \notin {"new", "run", "drain"} /\ Busy(r)
  BY <1>1 DEF Phases, Busy
<1>6. SamePlan(r, r2) /\ r2.phase = "cancel" /\ r2.stop = r.stop
  <2>1. r2 = [r EXCEPT !.phase = "cancel"]
    BY Zenon
  <2> HIDE DEF r, r2
  <2> QED
    BY ZenonT(60), <1>2, <1>5, <2>1, PhaseSet
<1> HIDE DEF r2
<1>7. PlanInv(r2, task[q])
  BY Zenon, <1>2, <1>4, <1>5, <1>6, QueryMoves DEF SamePlan
<1>8. Advances(r, r2) /\ Busy(r2)
  BY Zenon, <1>5, <1>6 DEF Advances, Busy
<1>9. CacheInv(query', mishaps', cache')
  BY Zenon, <1>1, <1>8, QueryWritten, CacheFree DEF QueryIs
<1> QED
  BY Zenon, <1>1, <1>7, <1>8, <1>9, QuerySteps

LEMMA StageDoneStep ==
  ASSUME IInv, NEW q \in 1..Queries, NEW s \in Stages, StageDone(q, s)
  PROVE  IInv'
<1> DEFINE r == query[q]
           a == [r EXCEPT !.done = @ \cup {s}, !.phase = "clear", !.good = TRUE]
           b == [r EXCEPT !.done = @ \cup {s}]
           r2 == IF s = Output THEN a ELSE b
<1>1. /\ r.phase = "run" /\ s \in r.sent \ r.done /\ AllOk(q, s) /\ SetQuery(q, r2)
      /\ handlers' = handlers /\ cancels' = cancels /\ task' = task /\ mishaps \subseteq mishaps'
  BY Zenon DEF StageDone, workerVars
<1>2. PlanInv(r, task[q]) /\ IsQuery(r)
  BY Zenon DEF IInv, PlanInv
<1>3. \A k \in Tasks : k[1] = s /\ k[2] \in PartsOf(r, s) => task[q][k].at = "ok"
  <2> SUFFICES ASSUME NEW k \in Tasks, k[1] = s, k[2] \in PartsOf(r, s)
               PROVE  task[q][k].at = "ok"
    OBVIOUS
  <2>1. k = <<k[1], k[2]>> /\ k[2] \in TasksOf(q, s)
    BY Zenon, Staged
  <2> QED
    BY Zenon, <1>1, <2>1 DEF AllOk
<1>4. s = Output => \A k \in Tasks : task[q][k].at \notin Pending
  <2> SUFFICES ASSUME s = Output PROVE \A k \in Tasks : task[q][k].at \notin Pending
    BY Zenon
  <2>1. \A x \in r.sent \ r.done : x = s
    BY Zenon, <1>1, <1>2 DEF PlanInv, IsQuery
  <2>2. \A k \in Tasks : k[1] \in r.sent \ r.done /\ k[2] \in PartsOf(r, k[1]) =>
                           task[q][k].at \in {"ok", "failed"}
    BY Zenon, <1>3, <2>1
  <2> QED
    BY Zenon, <1>2, <2>2, AllEnded
<1>5. /\ r2.sent = r.sent /\ r2.done = r.done \cup {s} /\ r2.mod = r.mod /\ r2.stop = r.stop
      /\ DOMAIN r2 = QueryFields /\ r2.good \in BOOLEAN
      /\ IF s = Output THEN r2.phase = "clear" ELSE r2.phase = "run"
  <2>1. CASE s = Output
    <3>1. r2 = a
      BY Zenon, <2>1
    <3>2. /\ a.sent = r.sent /\ a.done = r.done \cup {s} /\ a.mod = r.mod /\ a.stop = r.stop
          /\ DOMAIN a = QueryFields /\ a.good = TRUE /\ a.phase = "clear"
      BY Zenon, <1>2 DEF IsQuery, QueryFields
    <3> HIDE DEF a, b, r2
    <3> QED
      BY Zenon, <2>1, <3>1, <3>2, TRUE \in BOOLEAN
  <2>2. CASE s # Output
    <3>1. r2 = b
      BY Zenon, <2>2
    <3>2. /\ b.sent = r.sent /\ b.done = r.done \cup {s} /\ b.mod = r.mod /\ b.stop = r.stop
          /\ DOMAIN b = QueryFields /\ b.good = r.good /\ b.phase = r.phase
      BY Zenon, <1>2 DEF IsQuery, QueryFields
    <3> HIDE DEF a, b, r2
    <3> QED
      BY Zenon, <1>1, <1>2, <2>2, <3>1, <3>2 DEF IsQuery
  <2> QED
    BY Zenon, <2>1, <2>2
<1> HIDE DEF r2
<1>6. {"clear", "run"} \subseteq Phases /\ "clear" # "new" /\ "clear" # "run"
  BY DEF Phases
<1>7. IsQuery(r2)
  <2>1. r2.phase \in Phases
    BY Zenon, <1>5, <1>6
  <2>2. r2.done \subseteq r2.sent
    BY Zenon, <1>1, <1>2, <1>5 DEF IsQuery
  <2> QED
    BY Zenon, <1>2, <1>5, <2>1, <2>2 DEF IsQuery
<1>8. r2.phase = "run" \/ (r2.phase # "new" /\ \A k \in Tasks : task[q][k].at \notin Pending)
  BY Zenon, <1>4, <1>5, <1>6
<1>9. PlanInv(r2, task[q])
  <2>1. s \in r.sent
    BY Zenon, <1>1
  <2>2. r2.sent = r.sent /\ r2.done = r.done \cup {s} /\ r2.mod = r.mod /\ r.phase = "run"
    BY Zenon, <1>1, <1>5
  <2>3. Completes(r, r2, task[q], s)
    BY Zenon, <1>3, <1>8, <2>1, <2>2 DEF Completes
  <2> QED
    BY Zenon, <1>2, <1>7, <2>3, StageMoves
<1>10. Advances(r, r2) /\ Busy(r2)
  BY Zenon, <1>1, <1>5 DEF Advances, Busy
<1>11. CacheInv(query', mishaps', cache')
  <2>1. query'[q] = r2
    BY Zenon, <1>1, QueryWritten DEF QueryIs
  <2> QED
    BY Zenon, <1>10, <2>1, CacheFree
<1> QED
  BY Zenon, <1>1, <1>9, <1>10, <1>11, QuerySteps

\* The query is given up and its connections dropped.
LEMMA DropStep ==
  ASSUME IInv, NEW q \in 1..Queries, query[q].phase \in {"run", "drain"},
         SetQuery(q, [query[q] EXCEPT !.phase = "cancel"]), DropTasks(q)
  PROVE  IInv'
<1> DEFINE r == query[q]
           r2 == [r EXCEPT !.phase = "cancel"]
<1>1. /\ SetQuery(q, r2) /\ handlers' = handlers \ Waiting(q) /\ cancels' = cancels
      /\ task' = [task EXCEPT ![q] = [k \in Tasks |-> Idle]]
      /\ mishaps' = mishaps \cup IF Waiting(q) = {} THEN {} ELSE {"dropped"}
  BY Zenon DEF DropTasks
<1>2. PlanInv(r, task[q]) /\ IsQuery(r) /\ DOMAIN task = 1..Queries
  BY Zenon DEF IInv, PlanInv
<1>3. "cancel" \in Phases /\ "cancel" \notin {"new", "run", "drain"} /\ Busy(r)
  BY DEF Phases, Busy
<1>4. SamePlan(r, r2) /\ r2.phase = "cancel" /\ r2.stop = r.stop
  <2>1. r2 = [r EXCEPT !.phase = "cancel"]
    BY Zenon
  <2>2. IsQuery(r) /\ "cancel" \in Phases
    BY Zenon, <1>2, <1>3
  <2> HIDE DEF r, r2
  <2> QED
    BY <2>1, <2>2, PhaseSet
<1> HIDE DEF r2
<1>5. PlanInv(r2, [k \in Tasks |-> Idle])
  BY Zenon, <1>2, <1>4, TasksDrop DEF SamePlan
<1>6. Advances(r, r2) /\ Busy(r2)
  BY Zenon, <1>3, <1>4 DEF Advances, Busy
<1>7. QueryIs(q, r2) /\ Onward(query, query')
  BY Zenon, <1>1, <1>6, QueryWritten
<1>8. CacheInv(query', mishaps', cache')
  BY Zenon, <1>6, <1>7, CacheFree DEF QueryIs
<1>9. /\ DOMAIN task' = 1..Queries /\ task'[q] = [k \in Tasks |-> Idle]
      /\ \A x \in 1..Queries : x # q => task'[x] = task[x]
  BY Zenon, <1>1, <1>2
<1>10. /\ DOMAIN query' = 1..Queries
       /\ \A x \in 1..Queries : PlanInv(query'[x], task'[x])
  BY Zenon, <1>5, <1>7, <1>9, PlansKept DEF QueryIs
<1>11. PICK F : /\ Carry(handlers, cancels, handlers', cancels', handlers \ Waiting(q), F)
                /\ Calm(cancels, cancels', handlers \ Waiting(q), F)
                /\ \A g \in handlers \ Waiting(q) : F[g] = g
  BY Zenon, <1>1, Leaving DEF IInv
<1>12. ASSUME NEW g \in handlers \ Waiting(q), F[g].live
       PROVE  task'[g.q][<<g.s, g.p>>].at = "sent"
  <2>1. g.live /\ g \in handlers
    BY Zenon, <1>11, <1>12
  <2>2. g.q # q
    BY Zenon, <1>12, <2>1 DEF Waiting
  <2>3. g.q \in 1..Queries /\ task[g.q][<<g.s, g.p>>].at = "sent"
    BY Zenon, <2>1, LiveTask
  <2> QED
    BY Zenon, <1>9, <2>2, <2>3
<1>13. Awaited(handlers \ Waiting(q), F, task')
  BY Zenon, <1>12 DEF Awaited
<1>14. mishaps \subseteq mishaps' /\ \A g \in handlers \ Waiting(q) : F[g].live = g.live
  BY Zenon, <1>1, <1>11
<1>15. "dropped" \in mishaps' \/ Holds(handlers, cancels, cancels', handlers \ Waiting(q), F)
  <2>1. CASE Waiting(q) # {}
    BY Zenon, <1>1, <2>1
  <2>2. CASE Waiting(q) = {}
    <3>1. \A g \in handlers : g \in handlers \ Waiting(q) /\ F[g] = g
      BY Zenon, <1>11, <2>2
    <3> QED
      BY Zenon, <1>1, <3>1 DEF Holds
  <2> QED
    BY Zenon, <2>1, <2>2
<1> QED
  BY Zenon, <1>7, <1>8, <1>9, <1>10, <1>11, <1>13, <1>14, <1>15, CarryStep

LEMMA DropSteps ==
  ASSUME IInv, NEW q \in 1..Queries, NEW s,
         Refuse(q, s) \/ DrainTimeout(q) \/ Abandon(q)
  PROVE  IInv'
<1>1. /\ query[q].phase \in {"run", "drain"}
      /\ SetQuery(q, [query[q] EXCEPT !.phase = "cancel"]) /\ DropTasks(q)
  BY Zenon DEF Refuse, DrainTimeout, Abandon, Active
<1> QED
  BY Zenon, <1>1, DropStep

\* Steps of the membership and of the files, and stuttering.
LEMMA OutsideStep ==
  ASSUME IInv, handlers' = handlers, cancels' = cancels, query' = query, task' = task,
         mishaps' = mishaps, CacheInv(query, mishaps, cache')
  PROVE  IInv'
BY Zenon DEF IInv

LEMMA SpillLostStep ==
  ASSUME IInv, NEW w \in Workers, NEW k \in Tasks, SpillLost(w, k)
  PROVE  IInv'
<1>1. /\ cache[w][k].readable /\ handlers' = handlers /\ cancels' = cancels
      /\ query' = query /\ task' = task /\ mishaps' = mishaps
  BY Zenon DEF SpillLost
<1>2. cache # Cleared
  <2> SUFFICES ASSUME cache = Cleared PROVE FALSE
    BY Zenon
  <2>1. cache[w][k] = Nothing
    BY Zenon DEF Cleared, Tasks
  <2> QED
    BY <1>1, <2>1 DEF Nothing
<1>3. CacheInv(query, mishaps, cache')
  BY Zenon, <1>2 DEF IInv, CacheInv
<1> QED
  BY Zenon, <1>1, <1>3, OutsideStep

\* A stage's task goes to a worker.
LEMMA PrimaryWorks ==
  ASSUME NEW r, IsQuery(r), NEW s \in Stages, NEW p \in PartsOf(r, s)
  PROVE  Primary(s, p) \in Workers
<1>1. CASE s \in Forward
  BY <1>1, Constants DEF Primary, Workers
<1>2. CASE s \notin Forward /\ Up[s] = {}
  <2>1. p \in 0..(W - 1) /\ Primary(s, p) = p + 1
    BY Zenon, <1>2 DEF Primary, PartsOf
  <2> QED
    BY <2>1, Constants DEF Workers
<1>3. CASE s \notin Forward /\ Up[s] # {}
  <2>1. p \in 0..(r.mod[s] - 1) /\ Primary(s, p) = Owner[p] /\ r.mod[s] \in 1..NP
    BY Zenon, <1>3 DEF Primary, PartsOf, IsQuery
  <2>2. p \in 0..(NP - 1)
    BY <2>1, Constants
  <2> QED
    BY Zenon, <2>1, <2>2, Constants
<1> QED
  BY Zenon, <1>1, <1>2, <1>3

LEMMA DispatchStep ==
  ASSUME IInv, NEW q \in 1..Queries, NEW s \in Stages, Dispatch(q, s)
  PROVE  IInv'
<1> DEFINE r == query[q]
           N(k) == [at |-> "send", w |-> Primary(s, k[2]), n |-> 0, tried |-> {Primary(s, k[2])}]
<1>1. PICK m \in Modulus(s) : SetQuery(q, [r EXCEPT !.sent = @ \cup {s}, !.mod[s] = m])
  BY Zenon DEF Dispatch
<1> DEFINE r2 == [r EXCEPT !.sent = @ \cup {s}, !.mod[s] = m]
<1>2. /\ r.phase = "run" /\ s \in Ready(q) /\ handlers' = handlers /\ cancels' = cancels
      /\ mishaps' = mishaps
      /\ task' = [task EXCEPT ![q] = [k \in Tasks |->
            IF k[1] = s /\ k[2] \in TasksOf(q, s)' THEN N(k) ELSE task[q][k]]]
  BY Zenon DEF Dispatch, workerVars
<1>3. PlanInv(r, task[q]) /\ IsQuery(r) /\ DOMAIN task = 1..Queries
  BY Zenon DEF IInv, PlanInv
<1>4. m \in 1..NP
  <2>1. NP \in 1..NP /\ Moduli \subseteq 1..NP
    BY Constants
  <2> QED
    BY Zenon, <2>1 DEF Modulus
<1>5. /\ DOMAIN r2 = QueryFields /\ r2.phase = r.phase /\ r2.good = r.good /\ r2.done = r.done
      /\ r2.sent = r.sent \cup {s} /\ r2.mod = [r.mod EXCEPT ![s] = m] /\ r2.stop = r.stop
  BY Zenon, <1>3 DEF IsQuery, QueryFields
<1>6. QueryIs(q, r2)
  BY Zenon, <1>1, QueryWritten
<1> HIDE DEF r2
<1>7. r.mod \in [Stages -> 1..NP] /\ r.done \subseteq r.sent /\ r.sent \subseteq Stages
  BY Zenon, <1>3 DEF IsQuery
<1>8. /\ r2.mod \in [Stages -> 1..NP]
      /\ \A x \in Stages : x # s => r2.mod[x] = r.mod[x]
  <2> DEFINE f == r.mod
             g == r2.mod
  <2>1. f \in [Stages -> 1..NP] /\ g = [f EXCEPT ![s] = m]
    BY Zenon, <1>5, <1>7
  <2> HIDE DEF f, g
  <2>2. g \in [Stages -> 1..NP] /\ \A x \in Stages : x # s => g[x] = f[x]
    BY <1>4, <2>1
  <2> QED
    BY Zenon, <2>2 DEF f, g
<1>9. IsQuery(r2)
  <2>1. r2.done \subseteq r2.sent /\ r2.sent \subseteq Stages
    BY Zenon, <1>5, <1>7
  <2> QED
    BY Zenon, <1>3, <1>5, <1>8, <2>1 DEF IsQuery
<1>10. s \notin r.sent /\ (s = Output => Stages \ {Output} \subseteq r.done)
  BY Zenon, <1>2 DEF Ready
<1>11. TasksOf(q, s)' = PartsOf(r2, s)
  BY Zenon, <1>6 DEF TasksOf, PartsOf, QueryIs
<1> DEFINE t2 == [k \in Tasks |-> IF k[1] = s /\ k[2] \in PartsOf(r2, s) THEN N(k) ELSE task[q][k]]
<1>12. /\ DOMAIN task' = 1..Queries /\ task'[q] = t2
       /\ \A x \in 1..Queries : x # q => task'[x] = task[x]
  BY Zenon, <1>2, <1>3, <1>11
<1>13. ASSUME NEW k \in Tasks, k[1] = s, k[2] \in PartsOf(r2, s)
       PROVE  N(k) \in TaskType /\ N(k).at = "send" /\ N(k).w \in Workers
  <2>1. Primary(s, k[2]) \in Workers
    BY Zenon, <1>9, <1>13, PrimaryWorks
  <2>2. Primary(s, k[2]) \in 0..W
    BY <2>1, Constants DEF Workers
  <2>3. 0 \in 0..(MaxTries + 1)
    BY Constants
  <2> QED
    BY <2>1, <2>2, <2>3 DEF TaskType
<1> HIDE DEF N
<1>14. task[q] \in [Tasks -> TaskType]
  BY Zenon, <1>3 DEF PlanInv
<1>15. t2 \in [Tasks -> TaskType]
  BY Zenon, <1>13, <1>14
<1>16. \A k \in Tasks : IF k[1] = s /\ k[2] \in PartsOf(r2, s)
                          THEN t2[k].at = "send" /\ t2[k].w \in Workers
                          ELSE t2[k] = task[q][k]
  BY Zenon, <1>13
<1> HIDE DEF t2
<1>17. PlanInv(r2, t2)
  <2>1. Starts(r, r2, task[q], t2, s)
    BY Zenon, <1>2, <1>5, <1>8, <1>10, <1>16 DEF Starts
  <2> QED
    BY Zenon, <1>3, <1>9, <1>15, <2>1, StageStarts
<1>18. /\ DOMAIN query' = 1..Queries /\ \A x \in 1..Queries : PlanInv(query'[x], task'[x])
  BY Zenon, <1>6, <1>12, <1>17, PlansKept DEF QueryIs
<1>19. Advances(r, r2) /\ Busy(r2)
  BY Zenon, <1>2, <1>5 DEF Advances, Busy
<1>20. Onward(query, query')
  BY Zenon, <1>6, <1>19 DEF Advances, Onward, QueryIs
<1>21. CacheInv(query', mishaps', cache')
  BY Zenon, <1>6, <1>19, CacheFree DEF QueryIs
<1>22. PICK F : /\ Carry(handlers, cancels, handlers', cancels', handlers, F)
                /\ Holds(handlers, cancels, cancels', handlers, F)
                /\ Calm(cancels, cancels', handlers, F)
                /\ \A g \in handlers : F[g] = g
  BY Zenon, <1>2, Staying DEF IInv
<1>23. ASSUME NEW g \in handlers, F[g].live PROVE task'[g.q][<<g.s, g.p>>].at = "sent"
  <2>1. g.live
    BY Zenon, <1>22, <1>23
  <2>2. /\ g.q \in 1..Queries /\ <<g.s, g.p>> \in Tasks /\ task[g.q][<<g.s, g.p>>].at = "sent"
    BY Zenon, <2>1, LiveTask
  <2>3. CASE g.q # q
    BY Zenon, <1>12, <2>2, <2>3
  <2>4. CASE g.q = q
    <3> DEFINE k == <<g.s, g.p>>
    <3>1. task[q][k].at # "none" /\ k \in Tasks /\ task[q][k].at = "sent"
      BY <2>2, <2>4
    <3>2. k[1] \in r.sent
      BY Zenon, <1>3, <3>1 DEF PlanInv
    <3> HIDE DEF k
    <3>3. t2[k] = task[q][k]
      BY Zenon, <1>10, <1>16, <3>1, <3>2
    <3> QED
      BY Zenon, <1>12, <2>4, <3>1, <3>3 DEF k
  <2> QED
    BY Zenon, <2>3, <2>4
<1>24. Awaited(handlers, F, task') /\ mishaps \subseteq mishaps'
       /\ \A g \in handlers : F[g].live = g.live
  BY Zenon, <1>2, <1>22, <1>23 DEF Awaited
<1> QED
  BY Zenon, <1>12, <1>18, <1>20, <1>21, <1>22, <1>24, CarryStep

-----------------------------------------------------------------------------
(* Cancels *)

\* A query that is busy has every flag of some stages tripped, and is on its way out or
\* knows of the sweep.
LEMMA TripStep ==
  ASSUME IInv, NEW q \in 1..Queries, NEW r2, SetQuery(q, r2), PlanInv(r2, task[q]),
         Advances(query[q], r2), Busy(r2), r2.phase # "run" \/ r2.stop = "swept",
         NEW S, TripStages(S), handlers' = handlers, task' = task, mishaps' = mishaps
  PROVE  IInv'
<1>1. cancels \in [Workers -> [Stages -> {"none", "clear", "tripped"}]]
  BY Zenon DEF IInv, WorkersInv
<1>2. /\ cancels' \in [Workers -> [Stages -> {"none", "clear", "tripped"}]]
      /\ \A w \in Workers, s \in Stages : cancels'[w][s] = "none" <=> cancels[w][s] = "none"
  <2>1. cancels' = [w \in Workers |-> [s \in Stages |->
                IF s \in S /\ cancels[w][s] # "none" THEN "tripped" ELSE cancels[w][s]]]
    BY Zenon DEF TripStages
  <2> QED
    BY <1>1, <2>1
<1> DEFINE F == [g \in handlers |-> g]
<1>3. \A g \in handlers : F[g] = g
  BY Zenon
<1> HIDE DEF F
<1>4. Carry(handlers, cancels, handlers', cancels', handlers, F)
  <2>1. handlers' = {F[g] : g \in handlers}
    BY <1>3
  <2>2. \A g \in handlers : IsHandler(g) /\ (g.flag = "reg" => cancels'[g.w][g.s] # "none")
    <3> TAKE g \in handlers
    <3>1. IsHandler(g) /\ (g.flag = "reg" => cancels[g.w][g.s] # "none")
      BY Zenon DEF IInv, WorkersInv
    <3>2. g.w \in Workers /\ g.s \in Stages
      BY Zenon, <3>1 DEF IsHandler
    <3> QED
      BY Zenon, <1>2, <3>1, <3>2
  <2>3. handlers \subseteq handlers
    BY Zenon
  <2> QED
    BY Zenon, <1>2, <1>3, <2>1, <2>2, <2>3 DEF Carry
<1>5. Holds(handlers, cancels, cancels', handlers, F)
  BY Zenon, <1>2, <1>3 DEF Holds
<1>6. QueryIs(q, r2) /\ Onward(query, query')
  BY Zenon, QueryWritten
<1>7. Awaited(handlers, F, task') /\ \A g \in handlers : F[g].live = g.live
  BY Zenon, <1>3 DEF Awaited, IInv, LiveInv
<1>8. /\ DOMAIN query' = 1..Queries /\ DOMAIN task' = 1..Queries /\ mishaps \subseteq mishaps'
      /\ \A r \in 1..Queries : PlanInv(query'[r], task'[r])
  BY Zenon, <1>6 DEF IInv, QueryIs
<1>9. CacheInv(query', mishaps', cache')
  BY Zenon, <1>6, CacheFree DEF QueryIs
<1>10. OwnInv(query', handlers', cancels', mishaps')
  <2> SUFFICES ASSUME mishaps' \cap {"dropped", "late", "overlap"} = {}, NEW h \in handlers'
               PROVE  query'[h.q].phase # "run" \/ query'[h.q].stop = "swept"
    BY Zenon DEF OwnInv
  <2>1. "late" \notin mishaps /\ "overlap" \notin mishaps /\ h \in handlers
    BY Zenon
  <2>2. h.q \in 1..Queries /\ Busy(query[h.q])
    <3>1. h.live
      BY Zenon, <2>1 DEF IInv, AloneInv
    <3> QED
      BY Zenon, <2>1, <3>1, LiveTask
  <2>3. Busy(query[q])
    BY Zenon DEF Advances
  <2>4. h.q = q
    BY Zenon, <2>1, <2>2, <2>3 DEF IInv, AloneInv
  <2> QED
    BY Zenon, <1>6, <2>4 DEF QueryIs
<1> QED
  BY Zenon, <1>4, <1>5, <1>6, <1>7, <1>8, <1>9, <1>10, CarryRest

LEMMA SweepCancelStep == ASSUME IInv, NEW q \in 1..Queries, SweepCancel(q) PROVE IInv'
<1> DEFINE r == query[q]
           r2 == [r EXCEPT !.phase = "clear"]
<1>1. /\ r.phase = "cancel" /\ TripStages(Stages) /\ SetQuery(q, r2) /\ handlers' = handlers
      /\ task' = task /\ mishaps' = mishaps
  BY Zenon DEF SweepCancel
<1>2. PlanInv(r, task[q]) /\ IsQuery(r)
  BY Zenon DEF IInv, PlanInv
<1>3. "clear" \in Phases /\ "clear" \notin {"new", "run", "drain"} /\ Busy(r)
      /\ r.phase \notin {"run", "drain"}
  BY <1>1 DEF Phases, Busy
<1>4. SamePlan(r, r2) /\ r2.phase = "clear" /\ r2.stop = r.stop
  <2>1. r2 = [r EXCEPT !.phase = "clear"]
    BY Zenon
  <2>2. IsQuery(r) /\ "clear" \in Phases
    BY Zenon, <1>2, <1>3
  <2> HIDE DEF r, r2
  <2> QED
    BY <2>1, <2>2, PhaseSet
<1> HIDE DEF r2
<1>5. PlanInv(r2, task[q])
  BY Zenon, <1>2, <1>3, <1>4, NoWork, QueryMoves DEF SamePlan
<1>6. Advances(r, r2) /\ Busy(r2) /\ r2.phase # "run"
  BY Zenon, <1>3, <1>4 DEF Advances, Busy
<1> QED
  BY Zenon, <1>1, <1>5, <1>6, TripStep

LEMMA WatchStep == ASSUME IInv, NEW q \in 1..Queries, Watch(q) PROVE IInv'
<1> DEFINE r == query[q]
           r2 == [r EXCEPT !.stop = "swept"]
<1>1. /\ r.phase \in {"run", "drain"} /\ TripStages(Stages) /\ SetQuery(q, r2)
      /\ handlers' = handlers /\ task' = task /\ mishaps' = mishaps
  BY Zenon DEF Watch, Active
<1>2. PlanInv(r, task[q]) /\ IsQuery(r)
  BY Zenon DEF IInv, PlanInv
<1>3. "swept" \in {"no", "asked", "swept"} /\ Busy(r)
  BY <1>1 DEF Busy
<1>4. SamePlan(r, r2) /\ r2.phase = r.phase /\ r2.stop = "swept"
  <2>1. r2 = [r EXCEPT !.stop = "swept"]
    BY Zenon
  <2> HIDE DEF r, r2
  <2> QED
    BY Zenon, <1>2, <1>3, <2>1, StopSet
<1> HIDE DEF r2
<1>5. PlanInv(r2, task[q])
  BY Zenon, <1>1, <1>2, <1>4, QueryMoves DEF SamePlan
<1>6. Advances(r, r2) /\ Busy(r2)
  BY Zenon, <1>3, <1>4 DEF Advances, Busy
<1> QED
  BY Zenon, <1>1, <1>4, <1>5, <1>6, TripStep

LEMMA StageFailsStep ==
  ASSUME IInv, NEW q \in 1..Queries, NEW s \in Stages, StageFails(q, s)
  PROVE  IInv'
<1> DEFINE r == query[q]
           ph == IF s = Output THEN "cancel" ELSE "drain"
           r2 == [r EXCEPT !.phase = ph]
<1>1. /\ r.phase = "run" /\ s \in r.sent \ r.done /\ EndedTasks(q, s) /\ SetQuery(q, r2)
      /\ TripStages(InFlight(q)) /\ handlers' = handlers /\ task' = task /\ mishaps' = mishaps
  BY Zenon DEF StageFails
<1>2. PlanInv(r, task[q]) /\ IsQuery(r)
  BY Zenon DEF IInv, PlanInv
<1>3. s = Output => \A k \in Tasks : task[q][k].at \notin Pending
  <2> SUFFICES ASSUME s = Output PROVE \A k \in Tasks : task[q][k].at \notin Pending
    BY Zenon
  <2>1. \A x \in r.sent \ r.done : x = s
    BY Zenon, <1>1, <1>2 DEF PlanInv, IsQuery
  <2>2. ASSUME NEW k \in Tasks, k[1] \in r.sent \ r.done, k[2] \in PartsOf(r, k[1])
        PROVE  task[q][k].at \in {"ok", "failed"}
    <3>1. k = <<k[1], k[2]>> /\ k[1] = s /\ k[2] \in TasksOf(q, s)
      BY Zenon, <2>1, <2>2, Staged
    <3> QED
      BY Zenon, <1>1, <3>1 DEF EndedTasks
  <2> QED
    BY Zenon, <1>2, <2>2, AllEnded
<1>4. /\ ph \in Phases /\ ph # "new" /\ ph # "run" /\ ph \in {"drain", "cancel"}
      /\ Busy(r) /\ (s # Output => ph \in {"run", "drain"})
  BY <1>1 DEF Phases, Busy
<1>5. SamePlan(r, r2) /\ r2.phase = ph /\ r2.stop = r.stop
  <2>1. r2 = [r EXCEPT !.phase = ph]
    BY Zenon
  <2>2. IsQuery(r) /\ ph \in Phases
    BY Zenon, <1>2, <1>4
  <2> HIDE DEF r, r2, ph
  <2> QED
    BY <2>1, <2>2, PhaseSet
<1> HIDE DEF r2, ph
<1>6. PlanInv(r2, task[q])
  <2>1. r2.phase \in {"run", "drain"} \/ \A k \in Tasks : task[q][k].at \notin Pending
    BY Zenon, <1>3, <1>4, <1>5
  <2>2. r.phase \in {"new", "run", "drain"} /\ r2.phase # "new"
    BY Zenon, <1>1, <1>4, <1>5
  <2> QED
    BY Zenon, <1>2, <1>5, <2>1, <2>2, QueryMoves DEF SamePlan
<1>7. Advances(r, r2) /\ Busy(r2) /\ r2.phase # "run"
  BY Zenon, <1>4, <1>5 DEF Advances, Busy
<1> QED
  BY Zenon, <1>1, <1>6, <1>7, TripStep

\* A query starts: nothing runs for it yet, and no other query is busy unless they overlap.
LEMMA StartStep == ASSUME IInv, NEW q \in 1..Queries, Start(q) PROVE IInv'
<1> DEFINE r == query[q]
           r2 == [r EXCEPT !.phase = "run"]
           busy == \E x \in 1..Queries : query[x].phase # "new" /\ ~Ended(x)
<1>1. /\ r.phase = "new" /\ SetQuery(q, r2) /\ handlers' = handlers /\ cancels' = cancels
      /\ task' = task /\ mishaps' = mishaps \cup IF busy THEN {"overlap"} ELSE {}
  BY Zenon DEF Start, workerVars
<1>2. PlanInv(r, task[q]) /\ IsQuery(r)
  BY Zenon DEF IInv, PlanInv
<1>3. "run" \in Phases /\ r.phase \in {"new", "run", "drain"} /\ r.phase \notin {"run", "drain"}
  BY <1>1 DEF Phases
<1>4. SamePlan(r, r2) /\ r2.phase = "run" /\ r2.stop = r.stop
  <2>1. r2 = [r EXCEPT !.phase = "run"]
    BY Zenon
  <2>2. IsQuery(r) /\ "run" \in Phases
    BY Zenon, <1>2, <1>3
  <2> HIDE DEF r, r2
  <2> QED
    BY <2>1, <2>2, PhaseSet
<1>5. QueryIs(q, r2)
  BY Zenon, <1>1, QueryWritten
<1> HIDE DEF r2
<1>6. PlanInv(r2, task[q])
  <2>1. r2.phase \in {"run", "drain"} /\ r2.phase # "new"
    BY <1>4
  <2> QED
    BY Zenon, <1>2, <1>3, <1>4, <2>1, QueryMoves DEF SamePlan
<1>7. mishaps \subseteq mishaps' /\ (busy => "overlap" \in mishaps')
  BY Zenon, <1>1
<1>8. \A x \in 1..Queries : Busy(query[x]) => query[x].phase # "new" /\ ~Ended(x)
  BY DEF Busy, Ended
<1> HIDE DEF busy
<1>9. /\ DOMAIN query' = 1..Queries /\ DOMAIN task' = 1..Queries
      /\ \A x \in 1..Queries : PlanInv(query'[x], task'[x])
  BY Zenon, <1>1, <1>5, <1>6 DEF IInv, QueryIs
<1>10. WorkersInv(handlers', cancels') /\ LiveInv(handlers', task')
  BY Zenon, <1>1 DEF IInv
<1>11. HeldInv(handlers', cancels', mishaps')
  <2> SUFFICES ASSUME "dropped" \notin mishaps', NEW w \in Workers, NEW s \in Stages,
                      cancels'[w][s] # "none"
               PROVE  HasHolder(handlers', w, s)
    BY Zenon DEF HeldInv
  <2>1. HeldInv(handlers, cancels, mishaps)
    BY Zenon DEF IInv
  <2>2. "dropped" \notin mishaps /\ cancels[w][s] # "none"
    BY Zenon, <1>1, <1>7
  <2>3. HasHolder(handlers, w, s)
    BY Zenon, <2>1, <2>2 DEF HeldInv
  <2> QED
    BY Zenon, <1>1, <2>3
<1>12. AloneInv(query', handlers', mishaps')
  <2>1. ASSUME "overlap" \notin mishaps', NEW x \in 1..Queries, NEW y \in 1..Queries,
               Busy(query'[x]), Busy(query'[y])
        PROVE  x = y
    <3>1. ~busy
      BY Zenon, <1>7, <2>1
    <3>2. \A z \in 1..Queries : ~Busy(query[z])
      BY Zenon, <1>8, <3>1 DEF busy
    <3>3. x = q /\ y = q
      BY Zenon, <1>5, <2>1, <3>2 DEF QueryIs
    <3> QED
      BY Zenon, <3>3
  <2>2. "late" \notin mishaps' => \A h \in handlers' : h.live
    BY Zenon, <1>1, <1>7 DEF IInv, AloneInv
  <2> QED
    BY Zenon, <2>1, <2>2 DEF AloneInv
<1>13. CacheInv(query', mishaps', cache')
  <2>1. Busy(query'[q])
    BY Zenon, <1>4, <1>5 DEF Busy, QueryIs
  <2> QED
    BY Zenon, <2>1, CacheFree
<1>14. OwnInv(query', handlers', cancels', mishaps')
  <2> SUFFICES ASSUME mishaps' \cap {"dropped", "late", "overlap"} = {}, NEW h \in handlers',
                      TrippedBy(h, cancels')
               PROVE  query'[h.q].phase # "run" \/ query'[h.q].stop = "swept"
    BY Zenon DEF OwnInv
  <2>1. /\ mishaps \cap {"dropped", "late", "overlap"} = {} /\ "late" \notin mishaps
        /\ h \in handlers /\ TrippedBy(h, cancels)
    BY Zenon, <1>1, <1>7
  <2>2. h.live
    BY Zenon, <2>1 DEF IInv, AloneInv
  <2>3. h.q \in 1..Queries /\ query[h.q].phase \in {"run", "drain"}
    BY Zenon, <2>1, <2>2, LiveTask
  <2>4. h.q # q
    BY Zenon, <1>3, <2>3
  <2>5. query[h.q].phase # "run" \/ query[h.q].stop = "swept"
    BY Zenon, <2>1 DEF IInv, OwnInv
  <2> QED
    BY Zenon, <1>5, <2>3, <2>4, <2>5 DEF QueryIs
<1> QED
  BY Zenon, <1>9, <1>10, <1>11, <1>12, <1>13, <1>14 DEF IInv

\* A worker takes a task. The flag it joins was tripped for a task of the same query only.
LEMMA SendStep ==
  ASSUME IInv, NEW q \in 1..Queries, NEW s \in Stages, NEW p \in Parts, Send(q, s, p)
  PROVE  IInv'
<1> DEFINE k == <<s, p>>
           t == task[q][k]
           w == t.w
           inp == IF Up[s] = {} THEN {Scan(q, s, w)} ELSE {}
           h0 == [q |-> q, s |-> s, p |-> p, w |-> w, n |-> t.n, mod |-> query[q].mod[s],
                  in |-> inp, flag |-> "reg", live |-> TRUE]
           t2 == [t EXCEPT !.at = "sent"]
<1>1. /\ t.at = "send" /\ handlers' = handlers \cup {h0} /\ task' = [task EXCEPT ![q][k] = t2]
      /\ cancels' = [cancels EXCEPT ![w][s] = IF @ = "none" THEN "clear" ELSE @]
      /\ query' = query /\ mishaps' = mishaps
  BY Zenon DEF Send, Begin, SetTask
<1>2. "send" \in Pending /\ "send" # "sent"
  BY DEF Pending
<1>3. k \in Tasks /\ t \in TaskType /\ w \in Workers /\ query[q].phase \in {"run", "drain"}
  BY Zenon, <1>1, <1>2, PendingTask
<1>4. Busy(query[q]) /\ IsQuery(query[q])
  BY Zenon, <1>3 DEF IInv, PlanInv, Busy
<1>5. t2 \in TaskType /\ t2.w = w /\ t2.at = "sent"
  <2>1. "sent" \in {"none", "send", "sent", "recompute", "fallback", "ok", "failed"}
    BY Zenon
  <2> HIDE DEF t
  <2> QED
    BY Zenon, <1>3, <2>1, AtSet
<1> HIDE DEF t2
<1>6. /\ h0.q = q /\ h0.s = s /\ h0.p = p /\ h0.w = w /\ h0.flag = "reg" /\ h0.live
      /\ DOMAIN h0 = HandlerFields /\ h0.n = t.n /\ h0.mod = query[q].mod[s] /\ h0.live = TRUE
  <2> HIDE DEF t, inp, k
  <2> QED
    BY DEF HandlerFields
<1>7. IsHandler(h0)
  <2>1. t.n \in 0..(MaxTries + 1)
    BY <1>3 DEF TaskType
  <2>2. query[q].mod[s] \in 1..NP
    BY Zenon, <1>4 DEF IsQuery
  <2> HIDE DEF t, h0
  <2> QED
    BY Zenon, <1>3, <1>6, <2>1, <2>2, TRUE \in BOOLEAN DEF IsHandler
<1> HIDE DEF h0, k, t, w
<1>8. TaskIs(q, k, t2, task')
  BY Zenon, <1>1, <1>3, <1>5, TaskWritten
<1>9. /\ DOMAIN query' = 1..Queries /\ DOMAIN task' = 1..Queries
      /\ \A x \in 1..Queries : PlanInv(query'[x], task'[x])
  <2>1. task[q][k].at \in Pending /\ (t2.at \in Pending => t2.w \in Workers)
    BY Zenon, <1>1, <1>2, <1>3, <1>5 DEF t
  <2> QED
    BY Zenon, <1>1, <1>3, <1>5, <1>8, <2>1, PlansKept, TaskMoved DEF TaskIs, IInv
<1>10. WorkersInv(handlers, cancels) /\ LiveInv(handlers, task) /\ HeldInv(handlers, cancels, mishaps)
       /\ AloneInv(query, handlers, mishaps) /\ OwnInv(query, handlers, cancels, mishaps)
  BY Zenon DEF IInv
<1>11. /\ cancels' \in [Workers -> [Stages -> {"none", "clear", "tripped"}]]
       /\ cancels'[w][s] # "none"
       /\ cancels[w][s] # "none" => cancels'[w][s] = cancels[w][s]
       /\ cancels[w][s] = "none" => cancels'[w][s] = "clear"
       /\ \A v \in Workers, x \in Stages : v # w \/ x # s => cancels'[v][x] = cancels[v][x]
  <2>1. cancels \in [Workers -> [Stages -> {"none", "clear", "tripped"}]]
    BY Zenon, <1>10 DEF WorkersInv
  <2> QED
    BY <1>1, <1>3, <2>1
<1>12. \A v \in Workers, x \in Stages : cancels[v][x] # "none" => cancels'[v][x] = cancels[v][x]
  BY Zenon, <1>11
<1>13. ASSUME NEW h \in handlers
       PROVE  /\ IsHandler(h) /\ h.w \in Workers /\ h.s \in Stages
              /\ h.flag = "reg" => /\ cancels[h.w][h.s] # "none"
                                   /\ cancels'[h.w][h.s] = cancels[h.w][h.s]
  <2>1. IsHandler(h) /\ (h.flag = "reg" => cancels[h.w][h.s] # "none")
    BY Zenon, <1>10 DEF WorkersInv
  <2>2. h.w \in Workers /\ h.s \in Stages
    BY Zenon, <2>1 DEF IsHandler
  <2> QED
    BY Zenon, <1>12, <2>1, <2>2
<1>14. WorkersInv(handlers', cancels')
  <2> SUFFICES ASSUME NEW h \in handlers'
               PROVE  IsHandler(h) /\ (h.flag = "reg" => cancels'[h.w][h.s] # "none")
    BY Zenon, <1>11 DEF WorkersInv
  <2>1. CASE h = h0
    BY Zenon, <1>6, <1>7, <1>11, <2>1
  <2>2. CASE h \in handlers
    BY Zenon, <1>13, <2>2
  <2> QED
    BY Zenon, <1>1, <2>1, <2>2
<1>15. ASSUME NEW h \in handlers, h.live
       PROVE  /\ task'[h.q][<<h.s, h.p>>].at = "sent"
              /\ ~(h.q = q /\ h.s = s /\ h.p = p)
  <2>1. h.q \in 1..Queries /\ <<h.s, h.p>> \in Tasks /\ task[h.q][<<h.s, h.p>>].at = "sent"
    BY Zenon, <1>15, LiveTask
  <2>2. ~(h.q = q /\ <<h.s, h.p>> = k)
    BY Zenon, <1>1, <1>2, <2>1 DEF t
  <2>3. ~(h.q = q /\ h.s = s /\ h.p = p)
    BY Zenon, <2>2 DEF k
  <2> QED
    BY Zenon, <1>8, <2>1, <2>2, <2>3 DEF TaskIs
<1>16. LiveInv(handlers', task')
  <2>1. task'[h0.q][<<h0.s, h0.p>>].at = "sent"
    BY Zenon, <1>5, <1>6, <1>8 DEF TaskIs, k
  <2>2. \A h \in handlers' : h.live => task'[h.q][<<h.s, h.p>>].at = "sent"
    BY Zenon, <1>1, <1>15, <2>1
  <2>3. ASSUME NEW g \in handlers', NEW h \in handlers', g.live, h.live, g.q = h.q, g.s = h.s,
               g.p = h.p
        PROVE  g = h
    <3>1. CASE g \in handlers /\ h \in handlers
      BY Zenon, <1>10, <2>3, <3>1 DEF LiveInv
    <3>2. CASE g = h0 /\ h \in handlers
      BY Zenon, <1>6, <1>15, <2>3, <3>2
    <3>3. CASE h = h0 /\ g \in handlers
      BY Zenon, <1>6, <1>15, <2>3, <3>3
    <3>4. CASE g = h0 /\ h = h0
      BY Zenon, <3>4
    <3> QED
      BY Zenon, <1>1, <3>1, <3>2, <3>3, <3>4
  <2> QED
    BY Zenon, <2>2, <2>3 DEF LiveInv
<1>17. HeldInv(handlers', cancels', mishaps')
  <2> SUFFICES ASSUME "dropped" \notin mishaps', NEW v \in Workers, NEW x \in Stages,
                      cancels'[v][x] # "none"
               PROVE  HasHolder(handlers', v, x)
    BY Zenon DEF HeldInv
  <2>1. CASE v = w /\ x = s
    BY Zenon, <1>1, <1>6, <2>1 DEF HasHolder
  <2>2. CASE ~(v = w /\ x = s)
    <3>1. cancels[v][x] # "none" /\ "dropped" \notin mishaps
      BY Zenon, <1>1, <1>11, <2>2
    <3>2. HasHolder(handlers, v, x)
      BY Zenon, <1>10, <3>1 DEF HeldInv
    <3> QED
      BY Zenon, <1>1, <3>2 DEF HasHolder
  <2> QED
    BY Zenon, <2>1, <2>2
<1>18. AloneInv(query', handlers', mishaps')
  BY Zenon, <1>1, <1>6, <1>10 DEF AloneInv
<1>19. CacheInv(query', mishaps', cache')
  BY Zenon, <1>1, <1>4, CacheFree
<1>20. OwnInv(query', handlers', cancels', mishaps')
  <2> SUFFICES ASSUME mishaps' \cap {"dropped", "late", "overlap"} = {}, NEW h \in handlers',
                      TrippedBy(h, cancels')
               PROVE  query'[h.q].phase # "run" \/ query'[h.q].stop = "swept"
    BY Zenon DEF OwnInv
  <2>1. /\ mishaps \cap {"dropped", "late", "overlap"} = {}
        /\ "dropped" \notin mishaps /\ "late" \notin mishaps /\ "overlap" \notin mishaps
    BY Zenon, <1>1
  <2>2. \A g \in handlers : TrippedBy(g, cancels) =>
          query[g.q].phase # "run" \/ query[g.q].stop = "swept"
    BY Zenon, <1>10, <2>1 DEF OwnInv
  <2>3. CASE h \in handlers
    <3>1. TrippedBy(h, cancels)
      BY Zenon, <1>13, <2>3 DEF TrippedBy
    <3> QED
      BY Zenon, <1>1, <2>2, <2>3, <3>1
  <2>4. CASE h = h0
    <3>1. cancels'[w][s] = "tripped"
      BY Zenon, <1>6, <2>4 DEF TrippedBy
    <3>2. cancels[w][s] = "tripped" /\ cancels[w][s] # "none"
      BY <1>11, <3>1
    <3>3. PICK g \in handlers : g.w = w /\ g.s = s /\ g.flag = "reg"
      <4>1. HasHolder(handlers, w, s)
        BY Zenon, <1>3, <1>10, <2>1, <3>2 DEF HeldInv
      <4> QED
        BY Zenon, <4>1 DEF HasHolder
    <3>4. TrippedBy(g, cancels)
      BY Zenon, <3>2, <3>3 DEF TrippedBy
    <3>5. g.live
      BY Zenon, <1>10, <2>1 DEF AloneInv
    <3>6. g.q = q
      <4>1. g.q \in 1..Queries /\ Busy(query[g.q])
        BY Zenon, <3>5, LiveTask
      <4> QED
        BY Zenon, <1>4, <1>10, <2>1, <4>1 DEF AloneInv
    <3> QED
      BY Zenon, <1>1, <1>6, <2>2, <2>4, <3>4, <3>6
  <2> QED
    BY Zenon, <1>1, <2>3, <2>4
<1> QED
  BY Zenon, <1>9, <1>14, <1>16, <1>17, <1>18, <1>19, <1>20 DEF IInv


-----------------------------------------------------------------------------
(* The theorems *)

LEMMA InitIInv == Init => IInv
<1> SUFFICES ASSUME Init PROVE IInv
  OBVIOUS
<1> DEFINE r0 == [phase |-> "new", good |-> FALSE, sent |-> {}, done |-> {},
                  mod |-> [s \in Stages |-> NP], stop |-> "no", answer |-> EmptyBag]
           t0 == [k \in Tasks |-> Idle]
           c0 == [w \in Workers |-> [s \in Stages |-> "none"]]
<1>1. /\ handlers = {} /\ cancels = c0 /\ cache = Cleared
      /\ query = [q \in 1..Queries |-> r0] /\ task = [q \in 1..Queries |-> t0]
  BY Zenon DEF Init, WorkerInit
<1>2. IsQuery(r0)
  BY Constants DEF IsQuery, QueryFields, Phases
<1>3. Idle \in TaskType /\ Idle.at = "none"
  BY Constants DEF TaskType, Idle
<1>4. r0.phase = "new" /\ r0.sent = {}
  OBVIOUS
<1> HIDE DEF r0
<1>5. PlanInv(r0, t0)
  <2>1. t0 \in [Tasks -> TaskType] /\ \A k \in Tasks : t0[k].at = "none"
    BY Zenon, <1>3
  <2> HIDE DEF t0
  <2> QED
    BY <1>2, <1>4, <2>1 DEF PlanInv, Pending
<1> HIDE DEF t0
<1>6. \A q \in 1..Queries : query[q] = r0 /\ task[q] = t0
  BY Zenon, <1>1
<1>7. DOMAIN query = 1..Queries /\ DOMAIN task = 1..Queries
  BY Zenon, <1>1
<1>8. c0 \in [Workers -> [Stages -> {"none", "clear", "tripped"}]]
      /\ \A w \in Workers, s \in Stages : c0[w][s] = "none"
  OBVIOUS
<1> HIDE DEF c0
<1>9. WorkersInv(handlers, cancels)
  BY Zenon, <1>1, <1>8 DEF WorkersInv
<1>10. LiveInv(handlers, task) /\ HeldInv(handlers, cancels, mishaps)
  BY Zenon, <1>1, <1>8 DEF LiveInv, HeldInv
<1>11. \A q \in 1..Queries : ~Busy(query[q])
  BY <1>4, <1>6 DEF Busy
<1>12. AloneInv(query, handlers, mishaps) /\ CacheInv(query, mishaps, cache)
  BY Zenon, <1>1, <1>11 DEF AloneInv, CacheInv
<1>13. OwnInv(query, handlers, cancels, mishaps)
  BY Zenon, <1>1 DEF OwnInv
<1> QED
  BY Zenon, <1>5, <1>6, <1>7, <1>9, <1>10, <1>12, <1>13 DEF IInv

LEMMA MembersKept == members \subseteq Workers /\ [Next]_vars => members' \subseteq Workers
<1> SUFFICES ASSUME members \subseteq Workers, [Next]_vars PROVE members' \subseteq Workers
  OBVIOUS
<1>1. ASSUME NEW w \in Workers, Leave(w) PROVE members' \subseteq Workers
  BY Zenon, <1>1 DEF Leave
<1>2. ASSUME NEW w \in Workers, Rejoin(w) PROVE members' \subseteq Workers
  BY Zenon, <1>2 DEF Rejoin
<1>3. CASE vars' = vars
  BY Zenon, <1>3 DEF vars
<1>4. ASSUME NEW q \in 1..Queries, NEW s \in Stages, NEW p \in Parts,
             TaskStep(q, s, p) \/ Refused(q, s, p)
      PROVE  members' = members
  BY Zenon, <1>4 DEF TaskStep, Send, ProbeFull, RecomputeUpstream, Fallback, Refused
<1>5. ASSUME NEW h \in handlers, HandlerStep(h) \/ LoseAnswer(h) \/ Break(h) \/ Cut(h) \/ CutLate(h)
      PROVE  members' = members
  BY Zenon, <1>5 DEF HandlerStep, Pull, PullFails, Finish, Abort, DropLate, LoseAnswer, Break, Cut,
    CutLate
<1>6. ASSUME NEW q \in 1..Queries, QueryStep(q) \/ Interrupt(q) \/ Abandon(q) \/ AbandonSweep(q)
      PROVE  members' = members
  BY Zenon, <1>6 DEF QueryStep, Start, Drained, DrainTimeout, SweepCancel, SweepClear, Watch,
    Dispatch, Refuse, StageDone, StageFails, Interrupt, Abandon, AbandonSweep
<1>7. ASSUME NEW w \in Workers, Restart(w) \/ \E k \in Tasks : SpillLost(w, k)
      PROVE  members' = members
  BY Zenon, <1>7 DEF Restart, SpillLost
<1>8. CASE Progress
  BY Zenon, <1>2, <1>4, <1>5, <1>6, <1>8 DEF Progress
<1>9. CASE Fault
  BY Zenon, <1>1, <1>4, <1>5, <1>6, <1>7, <1>9 DEF Fault
<1> QED
  BY Zenon, <1>3, <1>8, <1>9 DEF Next

LEMMA NextIInv == IInv /\ members \subseteq Workers /\ [Next]_vars => IInv'
<1> SUFFICES ASSUME IInv, members \subseteq Workers, [Next]_vars PROVE IInv'
  OBVIOUS
<1>1. CASE vars' = vars
  BY Zenon, <1>1, OutsideStep DEF IInv, vars, workerVars
<1>2. ASSUME NEW q \in 1..Queries, NEW s \in Stages, NEW p \in Parts,
             TaskStep(q, s, p) \/ Refused(q, s, p)
      PROVE  IInv'
  BY Zenon, <1>2, SendStep, RefusedStep, RecomputeStep, FallbackStep DEF TaskStep
<1>3. ASSUME NEW h \in handlers, HandlerStep(h) \/ LoseAnswer(h) \/ Break(h) \/ Cut(h) \/ CutLate(h)
      PROVE  IInv'
  BY Zenon, <1>3, PullStep, PullFailsStep, FinishStep, AbortStep, DropLateStep, LoseAnswerStep,
    CutStep, CutLateStep DEF HandlerStep
<1>4. ASSUME NEW q \in 1..Queries, NEW s \in Stages,
             Dispatch(q, s) \/ Refuse(q, s) \/ StageDone(q, s) \/ StageFails(q, s)
      PROVE  IInv'
  BY Zenon, <1>4, DispatchStep, DropSteps, StageDoneStep, StageFailsStep
<1>5. ASSUME NEW q \in 1..Queries, QueryStep(q) \/ Interrupt(q) \/ Abandon(q) \/ AbandonSweep(q)
      PROVE  IInv'
  BY Zenon, <1>4, <1>5, StartStep, DrainedStep, DropSteps, SweepCancelStep, SweepClearStep, WatchStep,
    InterruptStep, AbandonSweepStep DEF QueryStep
<1>6. ASSUME NEW w \in Workers, Leave(w) \/ Rejoin(w) PROVE IInv'
  BY Zenon, <1>6, OutsideStep DEF Leave, Rejoin, IInv, workerVars
<1>7. ASSUME NEW w \in Workers, Restart(w) \/ \E k \in Tasks : SpillLost(w, k) PROVE IInv'
  BY Zenon, <1>7, RestartStep, SpillLostStep
<1>8. CASE Progress
  BY Zenon, <1>2, <1>3, <1>5, <1>6, <1>8 DEF Progress
<1>9. CASE Fault
  BY Zenon, <1>2, <1>3, <1>5, <1>6, <1>7, <1>9 DEF Fault
<1> QED
  BY Zenon, <1>1, <1>8, <1>9 DEF Next

\* The inductive invariant holds throughout, and the membership lists workers only.
LEMMA Reached == Spec => [](IInv /\ members \subseteq Workers)
<1>1. Init => IInv /\ members \subseteq Workers
  BY Zenon, InitIInv DEF Init
<1>2. IInv /\ members \subseteq Workers /\ [Next]_vars => (IInv /\ members \subseteq Workers)'
  BY Zenon, MembersKept, NextIInv
<1> QED
  BY <1>1, <1>2, PTL DEF Spec

\* A task meets a tripped cancel flag only when its own query is being cancelled, as long
\* as no connection was dropped, no task ran on unwaited for and no two queries overlapped
\* (register_stage_cancel, unregister_stage_cancel, cancel_stage of the worker).
THEOREM NoCancelInherited == Spec => []CancelIsOwn
<1>1. IInv /\ members \subseteq Workers => CancelIsOwn
  BY Zenon DEF IInv, OwnInv, TrippedBy, CancelIsOwn, Tripped
<1> QED
  BY <1>1, Reached, PTL

\* Between queries no task runs and no shuffle output is kept, however the last query
\* ended and whatever was retried, cancelled or timed out on the way (the sweep of
\* run_stages_obs and of QueryAbortGuard).
THEOREM NothingLeftBehind == Spec => []CleanWhenIdle
<1>1. ASSUME IInv, \A q \in 1..Queries : query[q].phase = "new" \/ Ended(q),
             mishaps \cap Harmful = {}
      PROVE  handlers = {} /\ cache = Cleared
  <2>1. \A q \in 1..Queries : ~Busy(query[q])
    BY <1>1 DEF Busy, Ended
  <2>2. cache = Cleared
    BY Zenon, <1>1, <2>1 DEF IInv, CacheInv
  <2>3. "late" \notin mishaps
    BY <1>1 DEF Harmful
  <2>4. ASSUME NEW h \in handlers PROVE FALSE
    <3>1. h.live
      BY Zenon, <1>1, <2>3 DEF IInv, AloneInv
    <3>2. h.q \in 1..Queries /\ <<h.s, h.p>> \in Tasks /\ task[h.q][<<h.s, h.p>>].at = "sent"
      BY Zenon, <1>1, <3>1 DEF IInv, WorkersInv, LiveInv, IsHandler, Tasks
    <3>3. task[h.q][<<h.s, h.p>>].at \in Pending
      BY <3>2 DEF Pending
    <3>4. query[h.q].phase \in {"run", "drain"}
      BY Zenon, <1>1, <3>2, <3>3 DEF IInv, PlanInv
    <3> QED
      BY Zenon, <2>1, <3>2, <3>4 DEF Busy
  <2> QED
    BY Zenon, <2>2, <2>4
<1>2. IInv /\ members \subseteq Workers => CleanWhenIdle
  BY Zenon, <1>1 DEF CleanWhenIdle
<1> QED
  BY <1>2, Reached, PTL

=============================================================================
