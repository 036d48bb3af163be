----------------------------- MODULE MicroBatch -----------------------------
(***************************************************************************)
(* One streaming query of oxidant-streaming: StreamingQueryManager's start *)
(* and micro-batch (scheduler.rs), its checkpoint directory (checkpoint.rs)*)
(* and the rows it commits to a Delta table.  The durable writes of a      *)
(* batch are, in order: offset log, table commit, commit log, resume       *)
(* record.  The process may die between any two of them, and each may fail.*)
(*                                                                         *)
(* A source position is the set of records consumed (FileSource's `seen`;  *)
(* for an offset source, everything below the offset).  A recorded range   *)
(* and a resume position are never empty, so {} stands for "no object" in  *)
(* the two logs.                                                           *)
(***************************************************************************)
EXTENDS Naturals, FiniteSets

CONSTANTS
  Records,        \* what the source can ever hold
  Blank,          \* records that yield no row when read
  Keys, KeyOf,    \* dropDuplicates key of each record
  Dedup,          \* TRUE: the query has dedup columns
  Budgeted,       \* TRUE: a plan may stop short of what is available
  Persistent,     \* TRUE: a batch error leaves the query running
  Faults,         \* the faults of this environment, from FaultKinds
  RetryAttempts,  \* RETRY_ATTEMPTS
  MaxRecovered,   \* MAX_RECOVERED
  PruneBatch,     \* PRUNE_BATCH
  MaxBatch,       \* bound: batch ids
  MaxRuns,        \* bound: starts of the query
  MaxUnacked      \* bound: rows of a record once its acknowledgement was lost

FaultKinds == {"crash",      \* the process dies, or a start fails half-way
               "source",     \* planning or polling fails after its retries
               "expect",     \* a `fail` expectation, or the plan, rejects the batch
               "plan_log",   \* PUT offsets/N fails, whether or not it landed
               "sink",       \* a table write fails and did not land
               "ack",        \* a table commit lands and its answer is an error
               "commit_log", \* PUT commits/N fails, whether or not it landed
               "load",       \* GET offsets.json fails
               "save",       \* PUT offsets.json fails, whether or not it landed
               "durable"}    \* the upstream acknowledgement fails

ASSUME ConstantsAssumption ==
  /\ Blank \subseteq Records /\ KeyOf \in [Records -> Keys]
  /\ {Dedup, Budgeted, Persistent} \subseteq BOOLEAN
  /\ Faults \subseteq FaultKinds
  /\ {RetryAttempts, MaxRecovered, PruneBatch, MaxBatch, MaxRuns,
      MaxUnacked} \subseteq Nat \ {0}

Ids  == 1..MaxBatch
Apps == 1..MaxRuns       \* query ids: each start mints one

\* CheckpointState; query_id 0 is the empty string of Default.
CheckpointState == [query_id : {0} \cup Apps, committed : Nat,
                    offsets : SUBSET Records, dedup : SUBSET Keys, pruned : Nat]
NoCheckpoint == [query_id |-> 0, committed |-> 0, offsets |-> {}, dedup |-> {}, pruned |-> 0]

\* The updates of its fields.
WithBatch(c, n, R)  == [c EXCEPT !.committed = n, !.offsets = R]
WithDedup(c, seen)  == [c EXCEPT !.dedup = seen]
WithQueryId(c, q)   == [c EXCEPT !.query_id = q]
WithPruned(c, n)    == [c EXCEPT !.pruned = n]

VARIABLES
  arrived,   \* source: records it holds
  released,  \* source: records the upstream server may discard (mark_durable)
  planned,   \* disk: offsets/N
  commits,   \* disk: commits/N, the resume position
  ckpt,      \* disk: offsets.json
  copies,    \* table: rows that came from each record
  logTxn,    \* table: highest txn version in the Delta log, by appId
  runs,      \* starts so far; the id minted by the latest
  pc,        \* where the query's task is
  active,    \* status.is_active
  batchId,   \* StreamingQuery.batch_id
  pos,       \* Source: committed_offsets
  app,       \* sink: appId
  sinkTxn,   \* sink: committed_txn, read from the log when the sink opened
  dedup,     \* QueryRuntime.dedup
  range,     \* run_batch_inner: the batch's range
  rows,      \* run_batch_inner: the rows bound for the sink
  held,      \* run_batch_inner / recover_from_log: the CheckpointState in hand
  loop       \* turns of the retry, recovery or prune loop in progress

env   == <<arrived, released>>
logs  == <<planned, commits>>
table == <<copies, logTxn>>
task  == <<app, sinkTxn, batchId>>
batch == <<range, rows, held, loop>>
vars  == <<env, logs, ckpt, table, runs, pc, active, task, pos, dedup, batch>>

Locations == {"down", "recover", "open", "idle", "poll", "write", "commit",
              "record", "prune", "ack"}

TypeOK ==
  /\ arrived \subseteq Records /\ released \subseteq Records
  /\ planned \in [Ids -> SUBSET Records] /\ commits \in [Ids -> SUBSET Records]
  /\ ckpt \in CheckpointState /\ held \in CheckpointState
  /\ copies \in [Records -> Nat] /\ logTxn \in [Apps -> Nat]
  /\ runs \in 0..MaxRuns /\ pc \in Locations /\ active \in BOOLEAN
  /\ batchId \in Nat /\ app \in {0} \cup Apps /\ sinkTxn \in Nat
  /\ pos \subseteq Records /\ dedup \subseteq Keys
  /\ range \subseteq Records /\ rows \subseteq Records /\ loop \in Nat
  /\ pc = "recover" => loop <= MaxRecovered
  /\ pc = "write" => loop < RetryAttempts
  /\ pc = "prune" => loop <= PruneBatch

Init ==
  /\ arrived = {} /\ released = {}
  /\ planned = [i \in Ids |-> {}] /\ commits = [i \in Ids |-> {}]
  /\ ckpt = NoCheckpoint
  /\ copies = [r \in Records |-> 0] /\ logTxn = [a \in Apps |-> 0]
  /\ runs = 0 /\ pc = "down" /\ active = FALSE
  /\ batchId = 0 /\ app = 0 /\ sinkTxn = 0 /\ pos = {} /\ dedup = {}
  /\ range = {} /\ rows = {} /\ held = NoCheckpoint /\ loop = 0

-----------------------------------------------------------------------------
(* The environment. *)

Arrive(r) == /\ r \notin arrived
             /\ arrived' = arrived \cup {r}
             /\ UNCHANGED <<released, logs, ckpt, table, runs, pc, active, task, pos, dedup, batch>>

\* The process dies, or a start gives up part-way: memory is gone, disk stays.
Crash ==
  /\ "crash" \in Faults /\ pc # "down"
  /\ pc' = "down" /\ active' = FALSE
  /\ batchId' = 0 /\ app' = 0 /\ sinkTxn' = 0 /\ pos' = {} /\ dedup' = {}
  /\ range' = {} /\ rows' = {} /\ held' = NoCheckpoint /\ loop' = 0
  /\ UNCHANGED <<env, logs, ckpt, table, runs>>

\* stop(): clears the flag and does not wait for the batch in flight.
Stop == /\ active
        /\ active' = FALSE
        /\ UNCHANGED <<env, logs, ckpt, table, runs, pc, task, pos, dedup, batch>>

-----------------------------------------------------------------------------
(* start_with_config *)

\* load().unwrap_or_default(): a failed read reads as a fresh checkpoint.
Loaded == {ckpt} \cup (IF "load" \in Faults THEN {NoCheckpoint} ELSE {})

\* recover_from_log reads the resume record.
StartQuery ==
  /\ pc \in {"down", "idle"} /\ ~active /\ runs < MaxRuns
  /\ runs' = runs + 1
  /\ \E c \in Loaded : held' = c
  /\ pc' = "recover" /\ loop' = 0 /\ range' = {} /\ rows' = {}
  /\ UNCHANGED <<env, logs, ckpt, table, active, task, pos, dedup>>

\* The commit log holds the batch after the one in hand.
Unrecorded == /\ loop < MaxRecovered
              /\ held.committed + 1 \in Ids
              /\ commits[held.committed + 1] # {}

\* Mutant: resumes from the recorded range, not from the recorded position.
RecoverRange ==
  /\ pc = "recover" /\ Unrecorded
  /\ held' = WithBatch(held, held.committed + 1, planned[held.committed + 1])
  /\ ckpt' = held'
  /\ loop' = loop + 1
  /\ UNCHANGED <<env, logs, table, runs, pc, active, task, pos, dedup, range, rows>>

\* One turn of the loop of recover_from_log: adopt that batch, and save.
RecoverBatch ==
  /\ pc = "recover" /\ Unrecorded
  /\ held' = WithBatch(held, held.committed + 1, commits[held.committed + 1])
  /\ ckpt' = held'
  /\ loop' = loop + 1
  /\ UNCHANGED <<env, logs, table, runs, pc, active, task, pos, dedup, range, rows>>

\* Mutant: every start writes under its own id.
AppIdFresh(restored) == runs

\* The sink's appId: the persisted query id, a fresh one only if there is none.
AppId(restored) == IF restored.query_id = 0 THEN runs ELSE restored.query_id

\* restore_offsets, then build_sink: DeltaTableWriter::open reads committed_txn.
OpenSink ==
  /\ pc = "recover" /\ ~Unrecorded
  /\ pos' = held.offsets /\ dedup' = held.dedup
  /\ batchId' = held.committed
  /\ app' = AppId(held) /\ sinkTxn' = logTxn[AppId(held)]
  /\ pc' = "open" /\ held' = NoCheckpoint /\ loop' = 0
  /\ UNCHANGED <<env, logs, ckpt, table, runs, active, range, rows>>

\* init_for_query stamps the checkpoint; the query is registered and active.
InitForQuery ==
  /\ pc = "open"
  /\ \E c \in Loaded : ckpt' = WithQueryId(c, AppId(c))
  /\ pc' = "idle" /\ active' = TRUE
  /\ UNCHANGED <<env, logs, table, runs, task, pos, dedup, batch>>

-----------------------------------------------------------------------------
(* run_batch_inner.  The batch being run is id until its commit-log entry  *)
(* lands, and batchId from then on.                                        *)

id == batchId + 1

EndBatch == range' = {} /\ rows' = {} /\ held' = NoCheckpoint /\ loop' = 0

\* An error out of run_batch.  The ticker of Spark Connect calls fail() and
\* ends; ProcessAllAvailable and a pipeline pass leave the query active.
Abandon == /\ pc' = "idle" /\ active' = (active /\ Persistent)
           /\ EndBatch

\* An attempt at this batch was already recorded: replay its extent.
Replay ==
  /\ pc = "idle" /\ active /\ id \in Ids /\ planned[id] # {}
  /\ range' = planned[id] /\ pc' = "poll"
  /\ UNCHANGED <<env, logs, ckpt, table, runs, active, task, pos, dedup, rows, held, loop>>

\* Mutant: stops one short of the end.
PlansShort == {R \in SUBSET (arrived \ pos) : R # {} /\ R # arrived \ pos}

\* plan_batch: everything new, or under a budget some of it.
Plans ==
  {R \in SUBSET (arrived \ pos) : R # {} /\ (Budgeted \/ R = arrived \ pos)}

\* Mutant: plans again although an attempt is recorded.
PlanAgain ==
  /\ pc = "idle" /\ active /\ id \in Ids
  /\ \E R \in Plans : planned' = [planned EXCEPT ![id] = R] /\ range' = R
  /\ pc' = "poll"
  /\ UNCHANGED <<env, commits, ckpt, table, runs, active, task, pos, dedup, rows, held, loop>>

\* Nothing recorded and something new: write the offset log before reading.
PlanBatch ==
  /\ pc = "idle" /\ active /\ id \in Ids /\ planned[id] = {}
  /\ \E R \in Plans :
       \/ /\ planned' = [planned EXCEPT ![id] = R]
          /\ range' = R /\ pc' = "poll"
          /\ UNCHANGED <<active, rows, held, loop>>
       \/ /\ "plan_log" \in Faults
          /\ planned' \in {planned, [planned EXCEPT ![id] = R]}
          /\ Abandon
  /\ UNCHANGED <<env, commits, ckpt, table, runs, task, pos, dedup>>

\* Nothing recorded and nothing new: the trigger leaves everything alone.
IdleTrigger ==
  /\ pc = "idle" /\ active /\ id \in Ids /\ planned[id] = {} /\ arrived \subseteq pos
  /\ UNCHANGED vars

\* Mutants: duplicates are dropped within a batch only; every row of a key that
\* occurs twice is dropped.
DeduplicatedInBatch(R) ==
  {S \in SUBSET R : /\ {KeyOf[r] : r \in S} = {KeyOf[r] : r \in R}
                    /\ \A r, s \in S : KeyOf[r] = KeyOf[s] => r = s}
DeduplicatedAway(R) ==
  {{r \in R : KeyOf[r] \notin dedup /\ \A s \in R : KeyOf[r] = KeyOf[s] => r = s}}

\* dedup_batches keeps one row of every key not seen before.
Deduplicated(R) ==
  IF ~Dedup THEN {R}
  ELSE {S \in SUBSET R : /\ {KeyOf[r] : r \in S} = {KeyOf[r] : r \in R} \ dedup
                         /\ \A r, s \in S : KeyOf[r] = KeyOf[s] => r = s}

\* poll_range moves the position; the keys are remembered before any check.
\* A batch with no row left skips the sink (or is a no-op there).
PollRange ==
  /\ pc = "poll"
  /\ pos' = pos \cup range
  /\ \E S \in Deduplicated(range \ Blank) :
       /\ rows' = S
       /\ pc' = IF S = {} THEN "commit" ELSE "write"
  /\ dedup' = IF Dedup THEN dedup \cup {KeyOf[r] : r \in range \ Blank} ELSE dedup
  /\ UNCHANGED <<env, logs, ckpt, table, runs, active, task, range, held, loop>>

\* plan_batch or poll_range fails, before the position moves.
SourceFails ==
  /\ "source" \in Faults
  /\ \/ pc = "idle" /\ active
     \/ pc = "poll"
  /\ Abandon
  /\ UNCHANGED <<env, logs, ckpt, table, runs, task, pos, dedup>>

\* A `fail` expectation returns before the sink write.
ExpectationFails ==
  /\ pc = "write" /\ loop = 0 /\ "expect" \in Faults
  /\ Abandon
  /\ UNCHANGED <<env, logs, ckpt, table, runs, task, pos, dedup>>

\* Mutant: off by one.
RecognizedOlder(version) == version < sinkTxn

\* DeltaTableWriter::append: a version our appId already committed is a replay.
Recognized(version) == version <= sinkTxn

Land == /\ copies' = [r \in Records |-> IF r \in rows THEN copies[r] + 1 ELSE copies[r]]
        /\ logTxn' = [logTxn EXCEPT ![app] = IF @ < id THEN id ELSE @]

\* write_batch returns Ok: a replay is dropped, anything else is committed.
WriteBatch ==
  /\ pc = "write" /\ pc' = "commit" /\ loop' = 0
  /\ \/ Recognized(id) /\ UNCHANGED <<copies, logTxn, sinkTxn>>
     \/ ~Recognized(id) /\ Land /\ sinkTxn' = id
  /\ UNCHANGED <<env, logs, ckpt, runs, active, app, batchId, pos, dedup, range, rows, held>>

\* Mutant: one retry too many.
RetryOnceMore ==
  \/ /\ loop < RetryAttempts /\ loop' = loop + 1
     /\ UNCHANGED <<pc, active, range, rows, held>>
  \/ Abandon

\* with_retry: once more while attempts are left; otherwise the error is out.
RetryOrAbandon ==
  \/ /\ loop + 1 < RetryAttempts /\ loop' = loop + 1
     /\ UNCHANGED <<pc, active, range, rows, held>>
  \/ Abandon

\* write_batch returns an error: nothing landed, or ("ack") the commit did
\* and the writer, which learnt of it from nobody, keeps its committed_txn.
WriteFails ==
  /\ pc = "write" /\ ~Recognized(id)
  /\ \/ "sink" \in Faults /\ UNCHANGED table
     \/ "ack" \in Faults /\ (\A r \in rows : copies[r] < MaxUnacked) /\ Land
  /\ RetryOrAbandon
  /\ UNCHANGED <<env, logs, ckpt, runs, task, pos, dedup>>

\* save_commit with the source's position; only then does batch_id advance.
SaveCommit ==
  /\ pc = "commit"
  /\ \/ /\ commits' = [commits EXCEPT ![id] = pos]
        /\ batchId' = id /\ pc' = "record"
        /\ UNCHANGED <<active, batch>>
     \/ /\ "commit_log" \in Faults
        /\ commits' \in {commits, [commits EXCEPT ![id] = pos]}
        /\ Abandon /\ UNCHANGED batchId
  /\ UNCHANGED <<env, planned, ckpt, table, runs, app, sinkTxn, pos, dedup>>

\* Mutant: the source is told before the record is saved.
LoadRecordReleasing ==
  /\ pc = "record"
  /\ \E c \in Loaded : held' = WithDedup(WithBatch(c, batchId, pos), dedup)
  /\ pc' = "prune" /\ loop' = 0 /\ released' = released \cup pos
  /\ UNCHANGED <<arrived, logs, ckpt, table, runs, active, task, pos, dedup, range, rows>>

\* The resume record is re-read and brought up to this batch, in memory.
LoadRecord ==
  /\ pc = "record"
  /\ \E c \in Loaded : held' = WithDedup(WithBatch(c, batchId, pos), dedup)
  /\ pc' = "prune" /\ loop' = 0
  /\ UNCHANGED <<env, logs, ckpt, table, runs, active, task, pos, dedup, range, rows>>

\* Mutant: prunes the batch just committed.
PrunableToo == held.pruned < held.committed /\ loop < PruneBatch

\* The while condition of prune_log.
Prunable == held.pruned + 1 < held.committed /\ loop < PruneBatch

\* One turn of prune_log, which runs before the save.
PruneEntry ==
  /\ pc = "prune" /\ Prunable
  /\ held' = WithPruned(held, held.pruned + 1)
  /\ planned' = [planned EXCEPT ![held.pruned + 1] = {}]
  /\ commits' = [commits EXCEPT ![held.pruned + 1] = {}]
  /\ loop' = loop + 1
  /\ UNCHANGED <<env, ckpt, table, runs, pc, active, task, pos, dedup, range, rows>>

SaveRecord ==
  /\ pc = "prune" /\ ~Prunable
  /\ \/ ckpt' = held /\ pc' = "ack" /\ EndBatch /\ UNCHANGED active
     \/ "save" \in Faults /\ ckpt' \in {ckpt, held} /\ Abandon
  /\ UNCHANGED <<env, logs, table, runs, task, pos, dedup>>

\* Last, the source may tell its server how far it can discard.
MarkDurable ==
  /\ pc = "ack"
  /\ \/ released' = released \cup pos /\ pc' = "idle" /\ UNCHANGED <<active, batch>>
     \/ "durable" \in Faults /\ Abandon /\ UNCHANGED released
  /\ UNCHANGED <<arrived, logs, ckpt, table, runs, task, pos, dedup>>

-----------------------------------------------------------------------------
\* What the query's own task does when nothing goes wrong around it.
Progress == \/ RecoverBatch \/ OpenSink \/ InitForQuery
            \/ Replay \/ PlanBatch \/ PollRange \/ WriteBatch
            \/ SaveCommit \/ LoadRecord \/ PruneEntry \/ SaveRecord \/ MarkDurable

Next == \/ Progress
        \/ IdleTrigger
        \/ \E r \in Records : Arrive(r)
        \/ StartQuery \/ Stop \/ Crash
        \/ SourceFails \/ ExpectationFails \/ WriteFails

Spec == Init /\ [][Next]_vars

\* The task keeps being scheduled: a step of its own that stays possible is
\* taken.  Nothing is assumed of arrivals, faults, stops or restarts.
FairSpec == Spec /\ WF_vars(Progress)

-----------------------------------------------------------------------------
(* Properties *)

\* No record is written to the table twice, whatever batch was interrupted,
\* replayed or retried: the txn stamp of run_batch's sink write is enough.
AtMostOnce == \A r \in Records : copies[r] <= 1

\* A record the resume record says is consumed, or that the source's server was
\* told to discard, is in the table: no crash or error between the four durable
\* writes of run_batch_inner skips a record.
NoLoss == \A r \in (ckpt.offsets \cup released) \ Blank : copies[r] >= 1

\* mark_durable comes last: what the server may discard is behind the position
\* any later start resumes from.
ReleasedIsRecorded == released \subseteq ckpt.offsets

\* A batch the table already carries but the resume record does not can still be
\* replayed under its id with exactly the rows it committed: the offset log keeps
\* its extent until the resume record has moved past it.
StampedExtent ==
  \A i \in Ids : \A q \in Apps :
    q = ckpt.query_id /\ ckpt.committed < i /\ i <= logTxn[q]
      => planned[i] # {} /\ \A r \in planned[i] \ Blank : copies[r] >= 1

\* The resume record only moves forward: neither a restart nor a recovery
\* from the commit log takes the committed batch or the position back.
ResumeMonotone == [][/\ ckpt.committed <= ckpt'.committed
                     /\ ckpt.offsets \subseteq ckpt'.offsets]_vars

\* The query implements Delivery: each table commit appends records no earlier
\* one held, and records are released only once they are in the table.
D == INSTANCE Delivery WITH Records <- Records, Blank <- Blank,
                          arrived <- arrived, copies <- copies, released <- released
ImplementsDelivery == D!Spec

\* Every record the source holds reaches the table while the query stays up.
EventuallyDelivered ==
  \A r \in Records \ Blank : r \in arrived ~> (copies[r] > 0 \/ ~active)

\* dropDuplicates: the table never holds two rows of one key, across batches,
\* retries and restarts.
OneRowPerKey ==
  /\ AtMostOnce
  /\ \A r, s \in Records : copies[r] > 0 /\ copies[s] > 0 /\ KeyOf[r] = KeyOf[s] => r = s

\* dropDuplicates drops duplicates only: every key among the consumed records
\* has its row in the table.
EveryKeyKept ==
  \A r \in ckpt.offsets \ Blank :
    \E s \in Records : KeyOf[s] = KeyOf[r] /\ copies[s] > 0
=============================================================================
