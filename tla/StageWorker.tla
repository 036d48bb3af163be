----------------------------- MODULE StageWorker -----------------------------
(* The Flight workers of a cluster: the stage tasks they run, the cancel flags *)
(* those tasks register, and the cache of shuffle outputs that later stages    *)
(* pull from (crates/oxidant-execution/src/flight.rs).                         *)
(*                                                                             *)
(* A row is <<query, stage, shard, bucket>>: the query and leaf stage that     *)
(* scanned it, the worker whose files hold it (0: a replicated table), and the *)
(* bucket that stage hashes it to. What the SQL of a stage computes is left    *)
(* out: a stage passes its input rows on, so that a lost or repeated row of    *)
(* the answer is a lost or repeated row of a shuffle.                          *)
EXTENDS Aqe

CONSTANTS
  W,         \* workers 1..W, in the order of the driver's endpoint list
  NP,        \* shuffle partitions of every stage
  Slots,     \* OXIDANT_TASK_SLOTS of a worker
  Stages,    \* stage ids of a plan; every query numbers its plan alike
  Up,        \* the upstream stages of each stage
  Forward,   \* the stages that run once, on the first worker
  Output,    \* the stage whose result the driver returns
  Queries    \* queries the driver runs, 1..Queries

Workers == 1..W
Parts   == 0..(Max({W, NP}) - 1)

\* A plan is acyclic, has one output, and its forward stages are leaves.
ASSUME PlanAssumption ==
  /\ W \in Nat \ {0} /\ NP \in Nat \ {0} /\ Slots \in Nat \ {0} /\ Queries \in Nat
  /\ Stages \subseteq Nat /\ IsFiniteSet(Stages)
  /\ Up \in [Stages -> SUBSET Stages]
  /\ \A s \in Stages : \A u \in Up[s] : u < s
  /\ Output \in Stages /\ \A s \in Stages : Output \notin Up[s]
  /\ Forward \subseteq {s \in Stages : Up[s] = {}}

VARIABLES
  handlers,  \* stage tasks running on workers
  cancels,   \* each worker's registered cancel flag per stage id
  cache      \* each worker's shuffle outputs by (stage, producing partition)

workerVars == <<handlers, cancels, cache>>

Produces(s) == s # Output

(* The bucket a row falls into in the output of a stage: every stage hashes    *)
(* by keys of its own.                                                         *)
BucketIn(s, row) == (row[4] + IF s = row[2] THEN 0 ELSE row[3]) % NP

(* Bags of rows: functions to the number of copies. The sum of a family of     *)
(* bags holds every copy of every member.                                      *)
EmptyBag       == [r \in {} |-> 0]
SetToBag(S)    == [r \in S |-> 1]
Copies(bag, r) == IF r \in DOMAIN bag THEN bag[r] ELSE 0
a (+) b        == [r \in DOMAIN a \cup DOMAIN b |-> Copies(a, r) + Copies(b, r)]
Sum(f) ==
  LET bags == {<<f[i], i>> : i \in DOMAIN f}
  IN  [r \in UNION {DOMAIN b[1] : b \in bags} |->
         Cardinality(UNION {{b} \X (1..Copies(b[1], r)) : b \in bags})]

(* What a leaf stage reads on a worker: the worker's own shard of the files,   *)
(* or all of a replicated table. The shard is fixed by the worker process, not *)
(* by the task's partition.                                                    *)
ShardOf(s, w) == IF s \in Forward THEN 0 ELSE w
Scan(q, s, w) == SetToBag({<<q, s, ShardOf(s, w), b>> : b \in Buckets(NP)})

Nothing == [q |-> 0, rows |-> EmptyBag, readable |-> FALSE]

(* The entries of stage s on a worker, and a consumer's view of them: all of   *)
(* them, whichever query or attempt inserted them; none is an empty answer.    *)
Entries(w, s) == {p \in Parts : cache[w][<<s, p>>] # Nothing}
ReadShuffle(w, s, buckets) ==
  LET kept == Sum([p \in Entries(w, s) |-> cache[w][<<s, p>>].rows])
  IN  [r \in {x \in DOMAIN kept : BucketIn(s, x) \in buckets} |-> kept[r]]
Readable(w, s) == \A p \in Entries(w, s) : cache[w][<<s, p>>].readable

(* A forward upstream is pulled from the first worker alone.                   *)
Endpoints(s) == IF s \in Forward THEN {1} ELSE Workers

(* The whole input of a consumer task: its buckets of every upstream.          *)
InputOf(s, buckets) ==
  Sum([src \in {r \in Up[s] \X Workers : r[2] \in Endpoints(r[1])} |->
        ReadShuffle(src[2], src[1], buckets)])
InputReadable(s) == \A u \in Up[s] : \A w \in Endpoints(u) : Readable(w, u)

----------------------------------------------------------------------------
(* A running task: [q, s, p, w, n, mod, in, flag, live].  n counts the task's  *)
(* attempts, mod is the read modulus of its ticket, in holds its input once it *)
(* is pulled, and live says whether the driver still waits for it.  flag is    *)
(* "reg" while the flag it joined is the one registered for its stage id;      *)
(* later it is that flag's value, which no cancel can reach any more.          *)
Running(w)  == {h \in handlers : h.w = w}
SlotFree(w) == Cardinality(Running(w)) < Slots
Tripped(h)  == (IF h.flag = "reg" THEN cancels[h.w][h.s] ELSE h.flag) = "tripped"

(* Mutant: no slot is waited for.                                              *)
BeginAnyway(q, s, p, w, n, mod) ==
  /\ handlers' = handlers \cup
       {[q |-> q, s |-> s, p |-> p, w |-> w, n |-> n, mod |-> mod,
         in |-> IF Up[s] = {} THEN {Scan(q, s, w)} ELSE {},
         flag |-> "reg", live |-> TRUE]}
  /\ cancels' = [cancels EXCEPT ![w][s] = IF @ = "none" THEN "clear" ELSE @]
  /\ UNCHANGED cache

(* A ticket arrives: take a slot, register or join the flag of the stage id.   *)
Begin(q, s, p, w, n, mod) ==
  /\ SlotFree(w)
  /\ handlers' = handlers \cup
       {[q |-> q, s |-> s, p |-> p, w |-> w, n |-> n, mod |-> mod,
         in |-> IF Up[s] = {} THEN {Scan(q, s, w)} ELSE {},
         flag |-> "reg", live |-> TRUE]}
  /\ cancels' = [cancels EXCEPT ![w][s] = IF @ = "none" THEN "clear" ELSE @]
  /\ UNCHANGED cache

(* The siblings of h keep the value of the flag they shared.                   *)
Detached(h) ==
  {IF g.w = h.w /\ g.s = h.s /\ g.flag = "reg"
     THEN [g EXCEPT !.flag = cancels[h.w][h.s]] ELSE g : g \in handlers \ {h}}

(* Mutant: a task leaves its flag registered.                                  *)
UnregisterNever(h) == handlers' = handlers \ {h} /\ UNCHANGED cancels

(* A task that ends by itself drops the registration of its flag, which its    *)
(* siblings of the same stage share.                                           *)
Unregister(h) ==
  IF h.flag = "reg"
    THEN /\ handlers' = Detached(h)
         /\ cancels'  = [cancels EXCEPT ![h.w][h.s] = "none"]
    ELSE /\ handlers' = handlers \ {h}
         /\ UNCHANGED cancels

(* The spill reaper of a producer that ends without committing removes the     *)
(* cache entry of its key, whoever put it there.                               *)
Reaped(c, h) == IF Produces(h.s) THEN [c EXCEPT ![h.w][<<h.s, h.p>>] = Nothing] ELSE c

Committed(c, q, s, p, w, bag) ==
  [c EXCEPT ![w][<<s, p>>] = [q |-> q, rows |-> bag, readable |-> TRUE]]
Commits(h, bag) ==
  /\ Unregister(h)
  /\ cache' = IF Produces(h.s) THEN Committed(cache, h.q, h.s, h.p, h.w, bag) ELSE cache

Fails(h) == Unregister(h) /\ cache' = Reaped(cache, h)

(* The connection is gone and the server drops the task's future: the slot is  *)
(* freed and the reaper runs, but nothing unregisters the flag.                *)
Dropped(h) == /\ handlers' = handlers \ {h}
              /\ cache'    = Reaped(cache, h)
              /\ UNCHANGED cancels

Pulls(h) ==
  /\ UNCHANGED <<cancels, cache>>
  /\ handlers' = (handlers \ {h}) \cup
       {[h EXCEPT !.in = {InputOf(h.s, CoalescedReadBuckets(NP, h.mod, h.p))}]}

(* The actions of the driver on a worker: cancel_stage trips the registered    *)
(* flag, if there is one; clear_stages empties the cache.                      *)
TripStages(S) ==
  cancels' = [w \in Workers |-> [s \in Stages |->
                IF s \in S /\ cancels[w][s] # "none" THEN "tripped" ELSE cancels[w][s]]]
Cleared == [w \in Workers |-> [k \in Stages \X Parts |-> Nothing]]

WorkerInit ==
  /\ handlers = {}
  /\ cancels  = [w \in Workers |-> [s \in Stages |-> "none"]]
  /\ cache    = Cleared
==============================================================================
