---------------------------- MODULE CdcPipeline ----------------------------
(***************************************************************************)
(* A pipeline table fed by AUTO CDC from Postgres: the source (PostgresCdc)*)
(* under the micro-batch protocol of run_batch_inner, merging (AutoCdc)    *)
(* into a Delta table through CdcMergeSink, and the re-snapshot of the     *)
(* pipeline lifecycle route.  The checkpoint directory is what MicroBatch  *)
(* shows it to be: the offset log of the batch in hand, and the batch and  *)
(* position a start resumes from, which move with the commit log.          *)
(***************************************************************************)
EXTENDS PostgresCdc, AutoCdc

CONSTANTS
  Faults,    \* from FaultKinds
  MaxBatch   \* bound: batch ids

FaultKinds == {"crash",     \* the process dies
               "source",    \* a plan, a poll or an acknowledgement fails
               "reply",     \* the server wants an answer while a range is read again
               "log",       \* a PUT of the checkpoint fails, landed or not
               "sink",      \* a table write fails, landed or not
               "reset"}     \* an operator re-snapshots the table

ASSUME PipelineAssumption ==
  Faults \subseteq FaultKinds /\ MaxBatch \in Nat

VARIABLES
  pc,        \* where the table's query is
  offsetLog, \* checkpoint: the range recorded for a batch id
  resume,    \* checkpoint: the batch committed last and its offsets
  batchId,   \* StreamingQuery.batch_id
  batch,     \* run_batch_inner: the rows read
  target,    \* Delta: the table's contents
  logTxn,    \* Delta: the highest batch its log carries under this table's appId
  sinkTxn,   \* DeltaTableWriter.committed_txn
  cache,     \* CdcMergeSink.state: {} for None, else the contents, as a singleton
  wasReset   \* history: the table was re-snapshotted

publisher  == <<wal, slot>>
checkpoint == <<offsetLog, resume>>
delta      == <<target, logTxn>>
sink       == <<sinkTxn, cache>>
vars == <<publisher, src, pc, checkpoint, batchId, batch, delta, sink, wasReset>>

Rows   == [seq : Lsns, val : Lsns]
Events == [op : {"S", "U", "D", "T"}, key : Keys, seq : Lsns, val : Lsns]
NoLog  == [id |-> 0, range |-> NoRange]
Fresh  == [batch |-> 0, snapshot |-> 0, lsn |-> 0]

TypeOK ==
  /\ SourceTypeOK
  /\ pc \in {"down", "idle", "poll", "write", "commit", "durable"}
  /\ offsetLog \in [id : 0..MaxBatch, range : Ranges]
  /\ resume \in [batch : 0..MaxBatch, snapshot : 0..Tables, lsn : Lsns]
  /\ batchId \in 0..MaxBatch /\ logTxn \in 0..MaxBatch /\ sinkTxn \in 0..MaxBatch
  /\ batch \subseteq Events
  /\ target \in [Keys -> Rows] /\ cache \subseteq [Keys -> Rows]
  /\ wasReset \in BOOLEAN

Init ==
  /\ wal = <<>> /\ slot = NoSlot /\ src = NewSource(0, 0)
  /\ pc = "down" /\ offsetLog = NoLog /\ resume = Fresh /\ batchId = 0 /\ batch = {}
  /\ target = [k \in Keys |-> Absent] /\ logTxn = 0 /\ sinkTxn = 0 /\ cache = {}
  /\ wasReset = FALSE

-----------------------------------------------------------------------------
\* A transaction commits on the publisher.
Publish == /\ \E t \in Transactions : Commit(t)
           /\ UNCHANGED <<slot, src, pc, checkpoint, batchId, batch, delta, sink, wasReset>>

\* The process ends: the source, the sink and the batch in hand go with it.
Down == /\ pc' = "down" /\ src' = NewSource(0, 0)
        /\ batchId' = 0 /\ batch' = {} /\ sinkTxn' = 0 /\ cache' = {}

Crash == /\ "crash" \in Faults /\ pc # "down"
         /\ Down
         /\ UNCHANGED <<publisher, checkpoint, delta, wasReset>>

\* start_stream: CdcMergeSink over a freshly opened table, the source restored
\* from the checkpoint.
StartStream ==
  /\ pc = "down" /\ pc' = "idle"
  /\ src' = NewSource(resume.snapshot, resume.lsn)
  /\ batchId' = resume.batch /\ sinkTxn' = logTxn /\ cache' = {}
  /\ UNCHANGED <<publisher, checkpoint, batch, delta, wasReset>>

\* Resnapshot: stop the unit, delete the table's checkpoint directory.  The
\* start that follows is StartStream.
Resnapshot ==
  /\ "reset" \in Faults /\ resume # Fresh /\ ~wasReset
  /\ Down /\ offsetLog' = NoLog /\ resume' = Fresh /\ wasReset' = TRUE
  /\ UNCHANGED <<publisher, delta>>

-----------------------------------------------------------------------------
(* run_batch_inner *)

id == batchId + 1
Recorded == offsetLog.id = id

\* An error out of run_batch: the pass fails, and the next one finds the same
\* query, with its source and its sink.
Abandon == pc' = "idle" /\ batch' = {}

\* plan_batch, and save_planned of what it returned, which may fail.
PlanBatch ==
  /\ pc = "idle" /\ ~Recorded /\ id <= MaxBatch
  /\ \E p \in Plan(src) :
       /\ slot' = p.slot /\ src' = p.src
       /\ \/ p.range = NoRange /\ UNCHANGED <<pc, offsetLog, batch>>
          \/ /\ p.range # NoRange /\ pc' = "poll" /\ UNCHANGED batch
             /\ offsetLog' = [id |-> id, range |-> p.range]
          \/ /\ p.range # NoRange /\ "log" \in Faults /\ Abandon
             /\ offsetLog' \in {offsetLog, [id |-> id, range |-> p.range]}
  /\ UNCHANGED <<wal, resume, batchId, delta, sink, wasReset>>

\* The range of this batch is already recorded: it is read again as recorded.
Replay == /\ pc = "idle" /\ Recorded
          /\ pc' = "poll"
          /\ UNCHANGED <<publisher, src, checkpoint, batchId, batch, delta, sink, wasReset>>

\* poll_range; a range without rows skips the sink.
PollRange ==
  /\ pc = "poll"
  /\ \E p \in Poll(src, offsetLog.range, "reply" \in Faults) :
       /\ src' = p.src /\ slot' = p.slot /\ batch' = p.batch
       /\ pc' = IF p.batch = {} THEN "commit" ELSE "write"
  /\ UNCHANGED <<wal, checkpoint, batchId, delta, sink, wasReset>>

\* plan_batch or poll_range fails; it is tried again or the batch abandoned.
SourceFails ==
  /\ "source" \in Faults
  /\ \E f \in CASE pc = "idle" /\ ~Recorded -> FailedPlan(src)
               [] pc = "poll" -> FailedPoll(src, offsetLog.range)
               [] OTHER -> {} :
       src' = f.src /\ slot' = f.slot
  /\ Abandon \/ UNCHANGED <<pc, batch>>
  /\ UNCHANGED <<wal, checkpoint, batchId, delta, sink, wasReset>>

\* The contents write_batch merges into: the cached ones, or the table's.
Base == IF cache = {} THEN target ELSE CHOOSE c \in cache : TRUE

\* The state kept after a write.
StateAfter(committed, merged) == IF committed THEN {merged} ELSE {}

\* Mutant: a failed write leaves what it computed.
StateComputed(merged) == {merged}

\* The state after a failed write: it was taken.
StateTaken(merged) == {}

\* CdcMergeSink::write_batch returns Ok: a batch id the table's log already
\* carries under our appId is dropped, anything else replaces the table.
WriteBatch ==
  /\ pc = "write" /\ pc' = "commit"
  /\ LET merged == Merge(batch, Base)
     IN  \/ /\ id <= sinkTxn /\ cache' = StateAfter(FALSE, merged)
            /\ UNCHANGED <<target, logTxn, sinkTxn>>
         \/ /\ id > sinkTxn /\ cache' = StateAfter(TRUE, merged)
            /\ target' = merged /\ logTxn' = Max({logTxn, id}) /\ sinkTxn' = id
  /\ UNCHANGED <<publisher, src, checkpoint, batchId, batch, wasReset>>

\* write_batch fails, the commit landed or not; the state was taken.  It is
\* tried again or the batch abandoned.
WriteFails ==
  /\ pc = "write" /\ "sink" \in Faults /\ id > sinkTxn
  /\ \/ UNCHANGED delta
     \/ target' = Merge(batch, Base) /\ logTxn' = Max({logTxn, id})
  /\ cache' = StateTaken(Merge(batch, Base))
  /\ Abandon \/ UNCHANGED <<pc, batch>>
  /\ UNCHANGED <<publisher, src, checkpoint, batchId, sinkTxn, wasReset>>

\* save_commit with committed_offsets; a failure may have landed.
SaveCommit ==
  /\ pc = "commit"
  /\ LET done == [batch |-> id, snapshot |-> src.snapshot_done, lsn |-> src.position]
     IN  \/ /\ resume' = done /\ batchId' = id /\ pc' = "durable" /\ batch' = {}
         \/ "log" \in Faults /\ resume' \in {resume, done} /\ Abandon /\ UNCHANGED batchId
  /\ UNCHANGED <<publisher, src, offsetLog, delta, sink, wasReset>>

\* mark_durable; a failure loses the session.
MarkDurable ==
  /\ pc = "durable"
  /\ \/ src' = Durable(src).src /\ slot' = Durable(src).slot
     \/ "source" \in Faults /\ src' = [src EXCEPT !.streaming = FALSE] /\ UNCHANGED slot
  /\ pc' = "idle"
  /\ UNCHANGED <<wal, checkpoint, batchId, batch, delta, sink, wasReset>>

-----------------------------------------------------------------------------
Progress == PlanBatch \/ Replay \/ PollRange \/ WriteBatch \/ SaveCommit \/ MarkDurable

Next == Publish \/ StartStream \/ Crash \/ Resnapshot \/ Progress \/ SourceFails \/ WriteFails

Spec == Init /\ [][Next]_vars

-----------------------------------------------------------------------------
(* Properties *)

\* The snapshot is complete and no batch is written beyond what a start resumes from.
Settled == resume.snapshot = Tables /\ logTxn <= resume.batch

\* Once the snapshot is complete, the merged table holds exactly the rows of the
\* source as of the resume position, whatever was interrupted, replayed or read
\* again; the one exception is a row that a snapshot pass under an abandoned slot
\* had loaded and that was deleted before the pass that completed.  A table that
\* was re-snapshotted is left out: its first batches repeat ids the table knows.
TargetFollowsSource ==
  Settled /\ ~wasReset => \A k \in Keys :
    \/ target[k].val = RowAt(k, resume.lsn)
    \/ RowAt(k, resume.lsn) = 0 /\ target[k].seq < slot.point - 1

\* The same without either exception: re-reading the tables after an interrupted
\* snapshot "changes nothing but the clock".
TargetExact == Settled => \A k \in Keys : target[k].val = RowAt(k, resume.lsn)

\* Nothing published lies between the position a start resumes from and what
\* Postgres was told it may recycle.
ConfirmedIsCommitted ==
  resume.snapshot = Tables => \A n \in resume.lsn..(slot.confirmed - 1) : ~Published(n)

\* Reading a recorded stream range again reproduces its events, all of them and
\* no other, although the stream was restarted, the publisher went quiet inside
\* a transaction, or more has been committed since.
RangeReproduced ==
  pc \in {"write", "commit"} /\ ~offsetLog.range.snapshot
    => batch = Changes({n \in offsetLog.range.start..(offsetLog.range.end - 1) : Published(n)})

\* The contents CdcMergeSink caches between batches are the table's.
StateIsTable == \A c \in cache : c = target
=============================================================================
