-------------------------- MODULE MicroBatchProofs --------------------------
(***************************************************************************)
(* Proofs about MicroBatch, for every set of records, every batch and      *)
(* restart bound and every retry, recovery and prune limit: the order of   *)
(* the durable writes; what reaches the table, at most once and with no    *)
(* loss; the refinement of Delivery; deduplication.                        *)
(***************************************************************************)
EXTENDS MicroBatch, TLAPS

\* The environments in which the four durable writes keep their order: reads of
\* the resume record do not fail, and a failed save of it stops the query.
Recorded == "load" \notin Faults /\ ~(Persistent /\ "save" \in Faults)

-----------------------------------------------------------------------------
(* The inductive invariant *)

\* The task's loops start from zero, and a start has minted an id.
LoopInv == /\ pc \in {"down", "open", "idle", "poll", "ack"} => loop = 0
           /\ pc # "down" => runs # 0

\* The batch after the recorded one: its offset-log and commit-log entries, and
\* whether the table carries its stamp.
Last   == ckpt.committed
Extent == IF Last + 1 \in Ids THEN planned[Last + 1] ELSE {}
Marker == IF Last + 1 \in Ids THEN commits[Last + 1] ELSE {}
Stamp  == ckpt.query_id # 0 /\ Last < logTxn[ckpt.query_id]

\* On disk, at most one batch is ahead of the resume record, and it is the one
\* its offset-log entry describes.
LogInv ==
  /\ \A i \in Ids : i > Last + 1 => planned[i] = {} /\ commits[i] = {}
  /\ Extent \cup ckpt.offsets \subseteq arrived
  /\ Extent \cap ckpt.offsets = {}
  /\ Marker # {} => Extent # {} /\ Marker = ckpt.offsets \cup Extent
  /\ Stamp => logTxn[ckpt.query_id] = Last + 1 /\ Extent # {}
  /\ ckpt.query_id = 0 => /\ Last = 0 /\ ckpt.offsets = {}
                          /\ \A i \in Ids : planned[i] = {} /\ commits[i] = {}
                          /\ \A a \in Apps : logTxn[a] = 0
  /\ released \subseteq ckpt.offsets

\* A task that may still write: its batch is the one after the recorded one.
Running == (pc = "idle" /\ active) \/ pc \in {"poll", "write", "commit", "record", "prune", "ack"}

TaskInv ==
  /\ pc = "recover" => held = ckpt
  /\ pc = "open" => /\ batchId = Last /\ pos = ckpt.offsets
                    /\ app = AppId(ckpt) /\ sinkTxn = logTxn[app]
  /\ Running => /\ ckpt.query_id # 0 /\ app = ckpt.query_id
                /\ sinkTxn <= logTxn[app]
  /\ (pc = "idle" /\ active) \/ pc = "poll"
       => ckpt.offsets \subseteq pos /\ pos \subseteq ckpt.offsets \cup Extent
  /\ (pc = "idle" /\ active) \/ pc \in {"poll", "write", "commit", "ack"} => batchId = Last
  /\ pc \in {"poll", "write", "commit"} => range = Extent /\ range # {}
  /\ pc \in {"write", "commit", "record", "prune"} => pos = ckpt.offsets \cup Extent
  /\ pc = "write" => rows \subseteq range \ Blank
  /\ pc \in {"record", "prune"} => batchId = Last + 1 /\ Marker = pos /\ Marker # {}
  /\ pc = "prune" => /\ held.query_id = ckpt.query_id
                     /\ held.committed = batchId /\ held.offsets = pos
  /\ pc = "ack" => pos = ckpt.offsets

IInv == TypeOK /\ LoopInv /\ LogInv /\ TaskInv

-----------------------------------------------------------------------------
(* Type correctness *)

\* The constants' types, one by one.
LEMMA ConstantTypes ==
  /\ Blank \subseteq Records /\ KeyOf \in [Records -> Keys]
  /\ Dedup \in BOOLEAN /\ Budgeted \in BOOLEAN /\ Persistent \in BOOLEAN
  /\ RetryAttempts \in Nat \ {0} /\ MaxRecovered \in Nat \ {0} /\ PruneBatch \in Nat \ {0}
  /\ MaxBatch \in Nat \ {0} /\ MaxRuns \in Nat \ {0} /\ MaxUnacked \in Nat \ {0}
BY Zenon, ConstantsAssumption

\* The fields of a CheckpointState, and the updates that keep its type.
LEMMA CheckpointFields ==
  ASSUME NEW c \in CheckpointState
  PROVE  /\ c.query_id \in {0} \cup Apps /\ c.committed \in Nat /\ c.pruned \in Nat
         /\ c.offsets \subseteq Records /\ c.dedup \subseteq Keys
BY Zenon DEF CheckpointState

\* Moving a record to a batch changes its batch and position only.
LEMMA WithBatchType ==
  ASSUME NEW c \in CheckpointState, NEW n \in Nat, NEW R \in SUBSET Records
  PROVE  /\ WithBatch(c, n, R) \in CheckpointState
         /\ WithBatch(c, n, R).committed = n /\ WithBatch(c, n, R).offsets = R
         /\ WithBatch(c, n, R).query_id = c.query_id
BY ZenonT(60) DEF CheckpointState, WithBatch

\* Storing the dedup keys leaves batch, position and query id alone.
LEMMA WithDedupType ==
  ASSUME NEW c \in CheckpointState, NEW K \in SUBSET Keys
  PROVE  /\ WithDedup(c, K) \in CheckpointState
         /\ WithDedup(c, K).committed = c.committed /\ WithDedup(c, K).offsets = c.offsets
         /\ WithDedup(c, K).query_id = c.query_id
BY Zenon DEF CheckpointState, WithDedup

\* init_for_query's stamp leaves batch and position alone.
LEMMA WithQueryIdType ==
  ASSUME NEW c \in CheckpointState, NEW q \in {0} \cup Apps
  PROVE  /\ WithQueryId(c, q) \in CheckpointState
         /\ WithQueryId(c, q).committed = c.committed
         /\ WithQueryId(c, q).offsets = c.offsets /\ WithQueryId(c, q).query_id = q
BY Zenon DEF CheckpointState, WithQueryId

\* Moving the prune mark leaves batch, position and query id alone.
LEMMA WithPrunedType ==
  ASSUME NEW c \in CheckpointState, NEW n \in Nat
  PROVE  /\ WithPruned(c, n) \in CheckpointState
         /\ WithPruned(c, n).committed = c.committed
         /\ WithPruned(c, n).offsets = c.offsets /\ WithPruned(c, n).query_id = c.query_id
BY Zenon DEF CheckpointState, WithPruned

\* An absent offsets.json reads as a CheckpointState.
LEMMA NoCheckpointType == NoCheckpoint \in CheckpointState
BY Zenon DEF CheckpointState, NoCheckpoint

\* The state before the first start is well typed.
LEMMA TypeInit == Init => TypeOK /\ LoopInv
<1> SUFFICES ASSUME Init PROVE TypeOK /\ LoopInv
  BY Zenon
<1>1. ckpt \in CheckpointState /\ held \in CheckpointState
  BY Zenon, NoCheckpointType DEF Init
<1>2. planned \in [Ids -> SUBSET Records] /\ commits \in [Ids -> SUBSET Records]
  BY Zenon DEF Init
<1>3. copies \in [Records -> Nat] /\ logTxn \in [Apps -> Nat]
  BY Zenon DEF Init
<1>4. pc \in Locations /\ active \in BOOLEAN
  BY Zenon DEF Init, Locations
<1>5. runs \in 0..MaxRuns
  BY ConstantTypes DEF Init
<1> QED
  BY Zenon, <1>1, <1>2, <1>3, <1>4, <1>5 DEF Init, TypeOK, LoopInv

\* Every step keeps the types, and leaves each loop of the code within its limit.
LEMMA TypeStep == TypeOK /\ LoopInv /\ [Next]_vars => TypeOK' /\ LoopInv'
<1> SUFFICES ASSUME TypeOK, LoopInv, [Next]_vars PROVE TypeOK' /\ LoopInv'
  BY Zenon
<1> USE ConstantTypes DEF TypeOK, LoopInv, Locations, env, logs, table, task, batch
<1>1. CASE RecoverBatch
  <2>1. held' \in CheckpointState
    BY <1>1, CheckpointFields, WithBatchType DEF RecoverBatch, Unrecorded
  <2> QED
    BY <1>1, <2>1 DEF RecoverBatch, Unrecorded
<1>2. CASE OpenSink
  <2>1. AppId(held) \in Apps
    BY <1>2, CheckpointFields DEF OpenSink, AppId, Apps
  <2> QED
    BY Zenon, <1>2, <2>1, CheckpointFields, NoCheckpointType DEF OpenSink
<1>3. CASE InitForQuery
  <2>1. PICK c \in Loaded : ckpt' = WithQueryId(c, AppId(c))
    BY Zenon, <1>3 DEF InitForQuery
  <2>2. c \in CheckpointState
    BY Zenon, NoCheckpointType DEF Loaded
  <2>3. AppId(c) \in {0} \cup Apps
    BY <1>3, <2>2, CheckpointFields DEF InitForQuery, AppId, Apps
  <2> QED
    BY ZenonT(60), <1>3, <2>1, <2>2, <2>3, WithQueryIdType DEF InitForQuery
<1>4. CASE Replay
  BY Zenon, <1>4 DEF Replay, id
<1>5. CASE PlanBatch
  <2>1. PICK R \in Plans :
          \/ /\ planned' = [planned EXCEPT ![id] = R]
             /\ range' = R /\ pc' = "poll" /\ UNCHANGED <<active, rows, held, loop>>
          \/ planned' \in {planned, [planned EXCEPT ![id] = R]} /\ Abandon
    BY ZenonT(60), <1>5 DEF PlanBatch
  <2>2. R \subseteq Records
    BY Zenon DEF Plans
  <2>3. planned' \in [Ids -> SUBSET Records]
    BY Zenon, <2>1, <2>2
  <2> QED
    BY ZenonT(60), <1>5, <2>1, <2>2, <2>3, NoCheckpointType DEF PlanBatch, Abandon, EndBatch
<1>6. CASE PollRange
  <2>1. PICK S \in Deduplicated(range \ Blank) :
          rows' = S /\ pc' = (IF S = {} THEN "commit" ELSE "write")
    BY Zenon, <1>6 DEF PollRange
  <2>2. S \subseteq Records
    BY Zenon DEF Deduplicated
  <2>3. dedup' \subseteq Keys
    BY Zenon, <1>6 DEF PollRange
  <2> QED
    BY <1>6, <2>1, <2>2, <2>3 DEF PollRange
<1>7. CASE WriteBatch
  BY <1>7 DEF WriteBatch, Land, id
<1>8. CASE SaveCommit
  BY <1>8, NoCheckpointType DEF SaveCommit, id, Abandon, EndBatch
<1>9. CASE LoadRecord
  <2>1. PICK c \in Loaded : held' = WithDedup(WithBatch(c, batchId, pos), dedup)
    BY Zenon, <1>9 DEF LoadRecord
  <2>2. WithBatch(c, batchId, pos) \in CheckpointState
    BY Zenon, WithBatchType, NoCheckpointType DEF Loaded
  <2>3. held' \in CheckpointState
    BY Zenon, <2>1, <2>2, WithDedupType
  <2> QED
    BY <1>9, <2>3 DEF LoadRecord
<1>10. CASE PruneEntry
  <2>1. held' \in CheckpointState
    BY <1>10, CheckpointFields, WithPrunedType DEF PruneEntry
  <2>2. planned' \in [Ids -> SUBSET Records] /\ commits' \in [Ids -> SUBSET Records]
    BY ZenonT(60), <1>10 DEF PruneEntry
  <2> QED
    BY <1>10, <2>1, <2>2 DEF PruneEntry, Prunable
<1>11. CASE SaveRecord
  BY <1>11, NoCheckpointType DEF SaveRecord, Abandon, EndBatch
<1>12. CASE MarkDurable
  BY Zenon, <1>12, NoCheckpointType DEF MarkDurable, Abandon, EndBatch
<1>13. CASE IdleTrigger
  BY Zenon, <1>13 DEF IdleTrigger, vars
<1>14. ASSUME NEW r \in Records, Arrive(r) PROVE TypeOK' /\ LoopInv'
  BY Zenon, <1>14 DEF Arrive
<1>15. CASE StartQuery
  BY <1>15, NoCheckpointType DEF StartQuery, Loaded
<1>16. CASE Stop
  BY ZenonT(60), <1>16 DEF Stop
<1>17. CASE Crash
  BY ZenonT(60), <1>17, NoCheckpointType DEF Crash
<1>18. CASE SourceFails
  BY Zenon, <1>18, NoCheckpointType DEF SourceFails, Abandon, EndBatch
<1>19. CASE ExpectationFails
  BY Zenon, <1>19, NoCheckpointType DEF ExpectationFails, Abandon, EndBatch
<1>20. CASE WriteFails
  BY <1>20, NoCheckpointType DEF WriteFails, Land, id, RetryOrAbandon, Abandon, EndBatch
<1>21. CASE UNCHANGED vars
  BY Zenon, <1>21 DEF vars
<1> QED
  BY Zenon, <1>1, <1>2, <1>3, <1>4, <1>5, <1>6, <1>7, <1>8, <1>9, <1>10, <1>11, <1>12, <1>13,
     <1>14, <1>15, <1>16, <1>17, <1>18, <1>19, <1>20, <1>21 DEF Next, Progress

\* Type correctness holds in every environment: ids, counters and positions stay
\* in range, and the retry, recovery and prune loops within their limits.
THEOREM TypeCorrect == Spec => []TypeOK
<1>1. TypeOK /\ LoopInv /\ [Next]_vars => (TypeOK /\ LoopInv)'
  BY Zenon, TypeStep
<1> QED
  BY <1>1, TypeInit, PTL DEF Spec

-----------------------------------------------------------------------------
(* The recorded batch and the one after it *)

\* The value of an updated log at an entry.
LEMMA ExceptAt ==
  ASSUME NEW S, NEW T, NEW f \in [S -> T], NEW x, NEW e, NEW i \in S
  PROVE  [f EXCEPT ![x] = e][i] = IF i = x THEN e ELSE f[i]
BY Zenon

\* The types of what the checkpoint directory says about the batch in flight.
LEMMA DiskTypes ==
  ASSUME TypeOK
  PROVE  /\ Last \in Nat /\ Extent \subseteq Records /\ Marker \subseteq Records
         /\ ckpt.query_id \in {0} \cup Apps /\ ckpt.offsets \subseteq Records
BY Zenon, CheckpointFields DEF TypeOK, Last, Extent, Marker

\* What a step that leaves the checkpoint and the stamps alone leaves alone.
LEMMA SameDisk ==
  ASSUME UNCHANGED <<planned, commits, ckpt, logTxn>>
  PROVE  /\ Last' = Last /\ Extent' = Extent /\ Marker' = Marker
         /\ Stamp' = Stamp
BY Zenon DEF Last, Extent, Marker, Stamp

\* Every step leaves at most one batch ahead of the resume record.
LEMMA LogStep ==
  ASSUME Recorded, IInv, TypeOK', [Next]_vars
  PROVE  LogInv'
<1> USE ConstantTypes DEF env, logs, table, task, batch
<1>t. TypeOK /\ LogInv /\ TaskInv /\ LoopInv
  BY Zenon DEF IInv
<1>d. /\ Last \in Nat /\ Extent \subseteq Records /\ Marker \subseteq Records
      /\ ckpt.query_id \in {0} \cup Apps /\ ckpt.offsets \subseteq Records
  BY Zenon, <1>t, DiskTypes
<1>l. Loaded = {ckpt}
  BY Zenon DEF Loaded, Recorded
<1>1. ASSUME UNCHANGED <<planned, commits, ckpt, logTxn, released>>, arrived \subseteq arrived'
      PROVE  LogInv'
  <2>1. /\ Last' = Last /\ Extent' = Extent /\ Marker' = Marker /\ Stamp' = Stamp
    BY Zenon, <1>1, SameDisk
  <2> QED
    BY Zenon, <1>1, <2>1, <1>t DEF LogInv
\* The resume record moves on to the batch after it.
<1>a. ASSUME UNCHANGED <<planned, commits, logTxn, released, arrived>>,
             ckpt'.committed = Last + 1, ckpt'.offsets = ckpt.offsets \cup Extent,
             ckpt'.query_id = ckpt.query_id, ckpt.query_id # 0
      PROVE  LogInv'
  <2>1. Last' = Last + 1 /\ Extent' = {} /\ Marker' = {}
    BY <1>a, <1>t, <1>d DEF LogInv, Last, Extent, Marker
  <2>2. logTxn[ckpt.query_id] \in Nat
    BY Zenon, <1>a, <1>d, <1>t DEF TypeOK
  <2>3. ~Stamp'
    BY <1>a, <2>1, <2>2, <1>t, <1>d DEF LogInv, Stamp
  <2>4. \A i \in Ids : i > Last' + 1 => planned'[i] = {} /\ commits'[i] = {}
    BY <1>a, <2>1, <1>t, <1>d DEF LogInv, Ids
  <2> QED
    BY Zenon, <1>a, <2>1, <2>3, <2>4, <1>t DEF LogInv
<1>2. CASE RecoverBatch
  <2>1. held = ckpt /\ held.committed + 1 = Last + 1 /\ Marker # {} /\ commits[Last + 1] = Marker
    BY Zenon, <1>2, <1>t, <1>d DEF RecoverBatch, Unrecorded, TaskInv, Last, Marker
  <2>2. ckpt.query_id # 0
    BY Zenon, <2>1, <1>t DEF LogInv, Marker
  <2>3. ckpt' = WithBatch(ckpt, Last + 1, Marker)
    BY Zenon, <1>2, <2>1 DEF RecoverBatch, Last
  <2>4. Marker = ckpt.offsets \cup Extent
    BY Zenon, <2>1, <1>t DEF LogInv
  <2>5. ckpt'.committed = Last + 1 /\ ckpt'.offsets = Marker /\ ckpt'.query_id = ckpt.query_id
    BY <2>3, <1>t, <1>d, WithBatchType DEF TypeOK
  <2> QED
    BY Zenon, <1>2, <1>a, <2>2, <2>4, <2>5 DEF RecoverBatch
<1>3. CASE InitForQuery
  <2>1. ckpt' = WithQueryId(ckpt, AppId(ckpt))
    BY Zenon, <1>3, <1>l DEF InitForQuery
  <2>2. AppId(ckpt) \in Apps
    BY <1>3, <1>t, <1>d DEF InitForQuery, AppId, Apps, TypeOK, LoopInv
  <2>3. ckpt'.committed = Last /\ ckpt'.offsets = ckpt.offsets /\ ckpt'.query_id = AppId(ckpt)
    BY ZenonT(60), <2>1, <2>2, <1>t, WithQueryIdType DEF TypeOK, Last
  <2>4. Last' = Last /\ Extent' = Extent /\ Marker' = Marker
    BY Zenon, <1>3, <2>3 DEF InitForQuery, Last, Extent, Marker
  <2>5. CASE ckpt.query_id = 0
    <3>1. logTxn'[AppId(ckpt)] = 0 /\ Last = 0
      BY Zenon, <1>3, <2>2, <2>5, <1>t DEF InitForQuery, LogInv
    <3>2. ~Stamp'
      BY <3>1, <2>3, <2>4 DEF Stamp
    <3> QED
      BY <1>3, <2>2, <2>3, <2>4, <3>2, <1>t DEF InitForQuery, LogInv, Apps
  <2>6. CASE ckpt.query_id # 0
    <3>1. Stamp' = Stamp /\ ckpt'.query_id = ckpt.query_id
      BY Zenon, <1>3, <2>3, <2>4, <2>6 DEF InitForQuery, AppId, Stamp
    <3> QED
      BY Zenon, <1>3, <2>3, <2>4, <2>6, <3>1, <1>t DEF InitForQuery, LogInv
  <2> QED
    BY Zenon, <2>5, <2>6
<1>4. CASE PlanBatch
  <2>1. PICK R \in Plans : planned' \in {planned, [planned EXCEPT ![id] = R]}
    BY ZenonT(60), <1>4 DEF PlanBatch
  <2>2. id = Last + 1 /\ id \in Ids /\ Extent = {} /\ ckpt.query_id # 0
    BY Zenon, <1>4, <1>t DEF PlanBatch, TaskInv, Running, id, Last, Extent
  <2>3. R # {} /\ R \subseteq arrived /\ R \cap ckpt.offsets = {}
    <3>1. R # {} /\ R \subseteq arrived \ pos
      BY Zenon DEF Plans
    <3>2. ckpt.offsets \subseteq pos
      BY Zenon, <1>4, <1>t DEF PlanBatch, TaskInv
    <3> QED
      BY Zenon, <3>1, <3>2
  <2>4. Last' = Last /\ Marker' = Marker /\ Stamp' = Stamp
    BY Zenon, <1>4 DEF PlanBatch, Last, Marker, Stamp
  <2>5. Marker = {} /\ ~Stamp
    BY Zenon, <2>2, <1>t DEF LogInv
  <2>6. Extent' \in {Extent, R}
    BY Zenon, <2>1, <2>2, <2>4, <1>t DEF Extent, TypeOK
  <2>7. \A i \in Ids : i > Last + 1 => planned'[i] = {}
    <3> SUFFICES ASSUME NEW i \in Ids, i > Last + 1 PROVE planned'[i] = {}
      BY Zenon
    <3>1. i # id /\ planned[i] = {}
      BY <2>2, <1>d, <1>t DEF LogInv, Ids
    <3> QED
      BY <2>1, <3>1, <1>t, ExceptAt DEF TypeOK
  <2> QED
    BY Zenon, <1>4, <2>2, <2>3, <2>4, <2>5, <2>6, <2>7, <1>t DEF PlanBatch, LogInv
\* The table takes the stamp of the batch after the recorded one.
<1>b. ASSUME UNCHANGED <<planned, commits, ckpt, released, arrived>>, Land, pc = "write"
      PROVE  LogInv'
  <2>1. id = Last + 1 /\ Extent # {} /\ ckpt.query_id # 0 /\ app = ckpt.query_id
    BY Zenon, <1>b, <1>t DEF TaskInv, Running, id
  <2>2. logTxn[app] \in Nat /\ (logTxn[app] <= Last \/ logTxn[app] = Last + 1)
    BY <2>1, <1>d, <1>t DEF LogInv, Stamp, TypeOK
  <2>3. logTxn'[app] = Last + 1
    BY <1>b, <2>1, <2>2, <1>d, <1>t DEF Land, TypeOK
  <2>4. Last' = Last /\ Extent' = Extent /\ Marker' = Marker
    BY Zenon, <1>b DEF Last, Extent, Marker
  <2> QED
    BY Zenon, <1>b, <2>1, <2>3, <2>4, <1>t DEF LogInv
<1>5. CASE WriteBatch
  BY Zenon, <1>5, <1>1, <1>b DEF WriteBatch
<1>6. CASE WriteFails
  BY Zenon, <1>6, <1>1, <1>b DEF WriteFails
<1>7. CASE SaveCommit
  <2>1. /\ id = Last + 1 /\ Extent # {} /\ ckpt.query_id # 0 /\ pos = ckpt.offsets \cup Extent
    BY Zenon, <1>7, <1>t DEF SaveCommit, TaskInv, Running, id
  <2>2. id \in Ids
    BY Zenon, <2>1 DEF Extent
  <2>3. commits' \in {commits, [commits EXCEPT ![id] = pos]}
    BY Zenon, <1>7 DEF SaveCommit
  <2>4. Last' = Last /\ Extent' = Extent /\ Stamp' = Stamp
    BY Zenon, <1>7 DEF SaveCommit, Last, Extent, Stamp
  <2>5. Marker' \in {Marker, pos}
    BY Zenon, <2>1, <2>2, <2>3, <2>4, <1>t DEF Marker, TypeOK
  <2>6. \A i \in Ids : i > Last + 1 => commits'[i] = {}
    <3> SUFFICES ASSUME NEW i \in Ids, i > Last + 1 PROVE commits'[i] = {}
      BY Zenon
    <3>1. i # id /\ commits[i] = {}
      BY <2>1, <1>d, <1>t DEF LogInv, Ids
    <3> QED
      BY <2>3, <3>1, <1>t, ExceptAt DEF TypeOK
  <2> QED
    BY Zenon, <1>7, <2>1, <2>4, <2>5, <2>6, <1>t DEF SaveCommit, LogInv
<1>8. CASE PruneEntry
  <2>1. held.pruned \in Nat /\ held.pruned + 1 < Last + 1 /\ ckpt.query_id # 0
    BY Zenon, <1>8, <1>t, CheckpointFields DEF PruneEntry, Prunable, TypeOK, TaskInv, Running
  <2>2. \A i \in Ids : i # held.pruned + 1 => planned'[i] = planned[i] /\ commits'[i] = commits[i]
    BY <1>8, <1>t, ExceptAt DEF PruneEntry, TypeOK
  <2>2b. \A i \in Ids : i = held.pruned + 1 => planned'[i] = {} /\ commits'[i] = {}
    BY <1>8, <1>t, ExceptAt DEF PruneEntry, TypeOK
  <2>3. Last' = Last /\ Stamp' = Stamp
    BY Zenon, <1>8 DEF PruneEntry, Last, Stamp
  <2>4. Extent' = Extent /\ Marker' = Marker
    BY <2>1, <2>2, <2>3, <1>d DEF Extent, Marker
  <2> QED
    BY Zenon, <1>8, <2>1, <2>2, <2>2b, <2>3, <2>4, <1>t DEF PruneEntry, LogInv
<1>9. CASE SaveRecord
  <2>1. /\ held.committed = Last + 1 /\ held.offsets = ckpt.offsets \cup Extent
        /\ held.query_id = ckpt.query_id /\ ckpt.query_id # 0
    BY Zenon, <1>9, <1>t DEF SaveRecord, TaskInv, Running
  <2> QED
    BY Zenon, <1>9, <1>1, <1>a, <2>1 DEF SaveRecord
<1>10. CASE MarkDurable
  <2>1. Last' = Last /\ Extent' = Extent /\ Marker' = Marker /\ Stamp' = Stamp
    BY Zenon, <1>10, SameDisk DEF MarkDurable
  <2>2. released' \subseteq ckpt.offsets
    <3>1. released' = released \cup pos \/ released' = released
      BY Zenon, <1>10 DEF MarkDurable
    <3>2. released \subseteq ckpt.offsets
      BY Zenon, <1>t DEF LogInv
    <3>3. pos = ckpt.offsets
      BY Zenon, <1>10, <1>t DEF MarkDurable, TaskInv
    <3> QED
      BY Zenon, <3>1, <3>2, <3>3
  <2> QED
    BY Zenon, <1>10, <2>1, <2>2, <1>t DEF MarkDurable, LogInv
<1>11. CASE OpenSink \/ Replay \/ PollRange \/ LoadRecord \/ IdleTrigger
  BY Zenon, <1>11, <1>1 DEF OpenSink, Replay, PollRange, LoadRecord, IdleTrigger, vars
<1>12. CASE StartQuery \/ Stop \/ Crash \/ SourceFails \/ ExpectationFails \/ UNCHANGED vars
  BY Zenon, <1>12, <1>1 DEF StartQuery, Stop, Crash, SourceFails, ExpectationFails, vars
<1>13. ASSUME NEW r \in Records, Arrive(r) PROVE LogInv'
  BY Zenon, <1>13, <1>1 DEF Arrive
<1> QED
  BY Zenon, <1>2, <1>3, <1>4, <1>5, <1>6, <1>7, <1>8, <1>9, <1>10, <1>11, <1>12, <1>13
     DEF Next, Progress

-----------------------------------------------------------------------------
\* Every step leaves the task at the batch after the recorded one.
LEMMA TaskStep ==
  ASSUME Recorded, IInv, TypeOK', [Next]_vars
  PROVE  TaskInv'
<1> USE ConstantTypes DEF env, logs, table, task, batch
<1>t. TypeOK /\ LogInv /\ TaskInv /\ LoopInv
  BY Zenon DEF IInv
<1>d. /\ Last \in Nat /\ Extent \subseteq Records /\ Marker \subseteq Records
      /\ ckpt.query_id \in {0} \cup Apps /\ ckpt.offsets \subseteq Records
  BY Zenon, <1>t, DiskTypes
<1>l. Loaded = {ckpt}
  BY Zenon DEF Loaded, Recorded
\* A batch abandoned before its commit-log entry counts can be run again.
<1>a. ASSUME Abandon, UNCHANGED <<ckpt, app, batchId, pos, sinkTxn>>, Running,
             batchId = Last, sinkTxn' <= logTxn'[app'], Extent' = Extent,
             ckpt.offsets \subseteq pos, pos \subseteq ckpt.offsets \cup Extent
      PROVE  TaskInv'
  BY Zenon, <1>a, <1>t DEF Abandon, TaskInv, Running, Last
\* A start, and a query that does nothing.
<1>b. ASSUME pc' = "down" \/ (pc' = "idle" /\ ~active')
      PROVE  TaskInv'
  BY Zenon, <1>b DEF TaskInv, Running
<1>1. CASE RecoverBatch
  BY Zenon, <1>1 DEF RecoverBatch, TaskInv, Running
<1>2. CASE OpenSink
  <2>1. Last' = Last /\ held = ckpt /\ held.committed = Last
    BY Zenon, <1>2, <1>t DEF OpenSink, TaskInv, Last
  <2>2. AppId(ckpt)' = AppId(ckpt)
    BY Zenon, <1>2 DEF OpenSink, AppId
  <2> QED
    BY Zenon, <1>2, <2>1, <2>2 DEF OpenSink, TaskInv, Running
<1>3. CASE InitForQuery
  <2>1. ckpt' = WithQueryId(ckpt, AppId(ckpt))
    BY Zenon, <1>3, <1>l DEF InitForQuery
  <2>2. AppId(ckpt) \in Apps /\ AppId(ckpt) # 0
    BY <1>3, <1>t, <1>d DEF InitForQuery, AppId, Apps, TypeOK, LoopInv
  <2>3. Last' = Last /\ ckpt'.offsets = ckpt.offsets /\ ckpt'.query_id = AppId(ckpt)
    BY ZenonT(60), <2>1, <2>2, <1>t, WithQueryIdType DEF TypeOK, Last
  <2>4. /\ batchId = Last /\ pos = ckpt.offsets
        /\ app = AppId(ckpt) /\ sinkTxn = logTxn[app]
    BY ZenonT(60), <1>3, <1>t DEF InitForQuery, TaskInv
  <2>5. sinkTxn <= logTxn[app]
    BY <2>2, <2>4, <1>t DEF TypeOK
  <2> QED
    BY Zenon, <1>3, <2>2, <2>3, <2>4, <2>5 DEF InitForQuery, TaskInv, Running
<1>4. CASE Replay
  <2>1. Last' = Last /\ Extent' = Extent
    BY ZenonT(60), <1>4, SameDisk DEF Replay
  <2>2. batchId = Last /\ Extent = planned[id]
    BY ZenonT(60), <1>4, <1>t DEF Replay, TaskInv, Extent, id
  <2> QED
    BY Zenon, <1>4, <2>1, <2>2, <1>t DEF Replay, TaskInv, Running
<1>5. CASE PlanBatch
  <2>1. PICK R \in Plans :
          \/ /\ planned' = [planned EXCEPT ![id] = R]
             /\ range' = R /\ pc' = "poll" /\ UNCHANGED <<active, rows, held, loop>>
          \/ planned' \in {planned, [planned EXCEPT ![id] = R]} /\ Abandon
    BY ZenonT(60), <1>5 DEF PlanBatch
  <2>2. id = Last + 1 /\ id \in Ids /\ Extent = {} /\ batchId = Last
    BY Zenon, <1>5, <1>t DEF PlanBatch, TaskInv, id, Last, Extent
  <2>3. R # {}
    BY Zenon DEF Plans
  <2>4. Last' = Last /\ ckpt' = ckpt
    BY Zenon, <1>5 DEF PlanBatch, Last
  <2>5. CASE planned' = [planned EXCEPT ![id] = R]
    <3>1. Extent' = R
      BY Zenon, <2>2, <2>4, <2>5, <1>t DEF Extent, TypeOK
    <3> QED
      BY ZenonT(60), <1>5, <2>1, <2>2, <2>3, <2>4, <3>1, <1>t
         DEF PlanBatch, Abandon, TaskInv, Running
  <2>6. CASE planned' = planned /\ Abandon
    <3>1. Extent' = Extent
      BY Zenon, <2>4, <2>6 DEF Extent
    <3> QED
      BY Zenon, <1>5, <2>2, <2>4, <2>6, <3>1, <1>t DEF PlanBatch, Abandon, TaskInv, Running
  <2> QED
    BY Zenon, <2>1, <2>5, <2>6
<1>6. CASE PollRange
  <2>1. Last' = Last /\ Extent' = Extent
    BY Zenon, <1>6, SameDisk DEF PollRange
  <2>2. PICK S \in Deduplicated(range \ Blank) :
          rows' = S /\ pc' = (IF S = {} THEN "commit" ELSE "write")
    BY Zenon, <1>6 DEF PollRange
  <2>3. S \subseteq range \ Blank
    BY Zenon DEF Deduplicated
  <2>4. pos' = ckpt.offsets \cup Extent
    BY Zenon, <1>6, <1>t DEF PollRange, TaskInv
  <2> QED
    BY Zenon, <1>6, <2>1, <2>2, <2>3, <2>4, <1>t DEF PollRange, TaskInv, Running
<1>7. CASE WriteBatch
  <2>1. Last' = Last /\ Extent' = Extent
    BY Zenon, <1>7 DEF WriteBatch, Last, Extent
  <2>2. sinkTxn' <= logTxn'[app]
    <3>1. CASE UNCHANGED <<copies, logTxn, sinkTxn>>
      BY Zenon, <1>7, <3>1, <1>t DEF WriteBatch, TaskInv, Running
    <3>2. CASE Land /\ sinkTxn' = id
      <4>1. app \in Apps /\ id \in Nat
        BY <1>7, <1>d, <1>t DEF WriteBatch, TaskInv, Running, TypeOK, id
      <4> QED
        BY SMTT(60), <3>2, <4>1, <1>t DEF Land, TypeOK
    <3> QED
      BY Zenon, <1>7, <3>1, <3>2 DEF WriteBatch
  <2> QED
    BY Zenon, <1>7, <2>1, <2>2, <1>t DEF WriteBatch, TaskInv, Running
<1>8. CASE SaveCommit
  <2>1. Last' = Last /\ Extent' = Extent
    BY Zenon, <1>8 DEF SaveCommit, Last, Extent
  <2>2. /\ id = Last + 1 /\ Extent # {} /\ batchId = Last /\ pos = ckpt.offsets \cup Extent
        /\ sinkTxn <= logTxn[app]
    BY Zenon, <1>8, <1>t DEF SaveCommit, TaskInv, Running, id
  <2>3. CASE commits' = [commits EXCEPT ![id] = pos] /\ batchId' = id /\ pc' = "record"
    <3>1. id \in Ids
      BY Zenon, <2>2 DEF Extent
    <3>2. Marker' = pos /\ pos # {}
      BY Zenon, <2>1, <2>2, <2>3, <3>1, <1>t DEF Marker, TypeOK
    <3> QED
      BY Zenon, <1>8, <2>1, <2>2, <2>3, <3>2, <1>t DEF SaveCommit, TaskInv, Running
  <2>4. CASE Abandon /\ UNCHANGED batchId
    BY Zenon, <1>8, <2>1, <2>2, <2>4, <1>a DEF SaveCommit, Running
  <2> QED
    BY Zenon, <1>8, <2>3, <2>4 DEF SaveCommit
<1>9. CASE LoadRecord
  <2>1. Last' = Last /\ Extent' = Extent /\ Marker' = Marker
    BY Zenon, <1>9, SameDisk DEF LoadRecord
  <2>2. held' = WithDedup(WithBatch(ckpt, batchId, pos), dedup)
    BY Zenon, <1>9, <1>l DEF LoadRecord
  <2>3. /\ held'.query_id = ckpt.query_id /\ held'.committed = batchId /\ held'.offsets = pos
    BY SMTT(60), <2>2, <1>t, WithBatchType, WithDedupType DEF TypeOK
  <2> QED
    BY Zenon, <1>9, <2>1, <2>3, <1>t DEF LoadRecord, TaskInv, Running
<1>10. CASE PruneEntry
  <2>1. held.pruned \in Nat /\ held.pruned + 1 < Last + 1
    BY Zenon, <1>10, <1>t, CheckpointFields DEF PruneEntry, Prunable, TypeOK, TaskInv
  <2>2. Last' = Last
    BY Zenon, <1>10 DEF PruneEntry, Last
  <2>3. \A i \in Ids : i # held.pruned + 1 => planned'[i] = planned[i] /\ commits'[i] = commits[i]
    BY <1>10, <1>t, ExceptAt DEF PruneEntry, TypeOK
  <2>4. Extent' = Extent /\ Marker' = Marker
    BY <2>1, <2>2, <2>3, <1>d DEF Extent, Marker
  <2>5. /\ held'.query_id = held.query_id /\ held'.committed = held.committed
        /\ held'.offsets = held.offsets
    <3>1. held' = WithPruned(held, held.pruned + 1) /\ held \in CheckpointState
      BY Zenon, <1>10, <1>t DEF PruneEntry, TypeOK
    <3>2. held.pruned + 1 \in Nat
      BY <2>1
    <3> QED
      BY Zenon, <3>1, <3>2, WithPrunedType
  <2> QED
    BY Zenon, <1>10, <2>2, <2>4, <2>5, <1>t DEF PruneEntry, TaskInv, Running
<1>11. CASE SaveRecord
  <2>1. CASE ckpt' = held /\ pc' = "ack"
    BY Zenon, <1>11, <2>1, <1>t DEF SaveRecord, TaskInv, Running, Last
  <2>2. CASE "save" \in Faults /\ Abandon
    <3>1. ~Persistent
      BY Zenon, <2>2 DEF Recorded
    <3>2. pc' = "idle" /\ ~active'
      BY Zenon, <2>2, <3>1 DEF Abandon
    <3> QED
      BY Zenon, <3>2, <1>b
  <2> QED
    BY Zenon, <1>11, <2>1, <2>2 DEF SaveRecord
<1>12. CASE MarkDurable
  <2>1. Last' = Last /\ Extent' = Extent
    BY Zenon, <1>12, SameDisk DEF MarkDurable
  <2> QED
    BY Zenon, <1>12, <2>1, <1>t DEF MarkDurable, Abandon, TaskInv, Running
<1>13. CASE IdleTrigger \/ UNCHANGED vars
  <2>1. UNCHANGED vars
    BY Zenon, <1>13 DEF IdleTrigger
  <2>2. /\ Last' = Last /\ Extent' = Extent /\ Marker' = Marker /\ AppId(ckpt)' = AppId(ckpt)
    BY Zenon, <2>1, SameDisk DEF vars, AppId
  <2> QED
    BY Zenon, <2>1, <2>2, <1>t DEF vars, TaskInv, Running
<1>14. ASSUME NEW r \in Records, Arrive(r) PROVE TaskInv'
  <2>1. /\ Last' = Last /\ Extent' = Extent /\ Marker' = Marker /\ AppId(ckpt)' = AppId(ckpt)
    BY Zenon, <1>14, SameDisk DEF Arrive, AppId
  <2> QED
    BY Zenon, <1>14, <2>1, <1>t DEF Arrive, TaskInv, Running
<1>15. CASE StartQuery
  BY Zenon, <1>15, <1>l DEF StartQuery, TaskInv, Running
<1>16. CASE Stop
  <2>1. /\ Last' = Last /\ Extent' = Extent /\ Marker' = Marker /\ AppId(ckpt)' = AppId(ckpt)
    BY Zenon, <1>16, SameDisk DEF Stop, AppId
  <2> QED
    BY Zenon, <1>16, <2>1, <1>t DEF Stop, TaskInv, Running
<1>17. CASE Crash
  BY Zenon, <1>17, <1>b DEF Crash
<1>18. CASE SourceFails
  <2>1. Extent' = Extent
    BY Zenon, <1>18, SameDisk DEF SourceFails
  <2>2. /\ Running /\ batchId = Last /\ sinkTxn <= logTxn[app]
        /\ ckpt.offsets \subseteq pos /\ pos \subseteq ckpt.offsets \cup Extent
    BY Zenon, <1>18, <1>t DEF SourceFails, TaskInv, Running
  <2> QED
    BY Zenon, <1>18, <2>1, <2>2, <1>a DEF SourceFails
<1>19. CASE ExpectationFails
  <2>1. Extent' = Extent
    BY Zenon, <1>19, SameDisk DEF ExpectationFails
  <2>2. /\ Running /\ batchId = Last /\ sinkTxn <= logTxn[app]
        /\ pos = ckpt.offsets \cup Extent
    BY Zenon, <1>19, <1>t DEF ExpectationFails, TaskInv, Running
  <2> QED
    BY Zenon, <1>19, <2>1, <2>2, <1>a DEF ExpectationFails
<1>20. CASE WriteFails
  <2>1. Last' = Last /\ Extent' = Extent
    BY Zenon, <1>20 DEF WriteFails, Last, Extent
  <2>2. /\ Running /\ batchId = Last /\ sinkTxn <= logTxn[app]
        /\ pos = ckpt.offsets \cup Extent /\ app \in Apps
    BY Zenon, <1>20, <1>d, <1>t DEF WriteFails, TaskInv, Running
  <2>3. logTxn[app] <= logTxn'[app]
    BY SMTT(60), <1>20, <2>2, <1>t DEF WriteFails, Land, TypeOK, id
  <2>4. sinkTxn' <= logTxn'[app']
    BY <1>20, <2>2, <2>3, <1>t DEF WriteFails, TypeOK
  <2>5. CASE Abandon
    BY Zenon, <1>20, <2>1, <2>2, <2>4, <2>5, <1>a DEF WriteFails
  <2>6. CASE UNCHANGED <<pc, active, range, rows, held>>
    BY Zenon, <1>20, <2>1, <2>2, <2>4, <2>6, <1>t DEF WriteFails, TaskInv, Running
  <2> QED
    BY Zenon, <1>20, <2>5, <2>6 DEF WriteFails, RetryOrAbandon
<1> QED
  BY Zenon, <1>1, <1>2, <1>3, <1>4, <1>5, <1>6, <1>7, <1>8, <1>9, <1>10, <1>11, <1>12, <1>13,
     <1>14, <1>15, <1>16, <1>17, <1>18, <1>19, <1>20 DEF Next, Progress

-----------------------------------------------------------------------------
(* The resume record *)

\* The inductive invariant holds before the first start,
LEMMA IInvInit == Init => IInv
<1> SUFFICES ASSUME Init PROVE LogInv /\ TaskInv
  BY Zenon, TypeInit DEF IInv
<1>1. Extent = {} /\ Marker = {} /\ ~Stamp
  BY Zenon DEF Init, NoCheckpoint, Extent, Marker, Stamp
<1> QED
  BY Zenon, <1>1 DEF Init, NoCheckpoint, LogInv, TaskInv, Running, Last

\* every step keeps it where the resume record is read and saved reliably,
LEMMA IInvStep == Recorded /\ IInv /\ [Next]_vars => IInv'
BY Zenon, TypeStep, LogStep, TaskStep DEF IInv

\* and so it always holds.
LEMMA IInvAlways == ASSUME Recorded PROVE Spec => []IInv
<1>1. IInv /\ [Next]_vars => IInv'
  BY Zenon, IInvStep
<1> QED
  BY <1>1, IInvInit, PTL DEF Spec

\* Whatever crashes, errors and restarts interrupt a batch, the upstream server
\* is never told to discard what the resume record does not cover: mark_durable
\* is the last step of run_batch_inner, and recovery never takes the record back.
THEOREM ReleaseFollowsRecord == ASSUME Recorded PROVE Spec => []ReleasedIsRecorded
<1>1. IInv => ReleasedIsRecorded
  BY ZenonT(60) DEF IInv, LogInv, ReleasedIsRecorded
<1> QED
  BY <1>1, IInvAlways, PTL

\* The resume record only moves forward.
THEOREM RecordMovesForward == ASSUME Recorded PROVE Spec => ResumeMonotone
<1>1. IInv /\ [Next]_vars => [/\ ckpt.committed <= ckpt'.committed
                             /\ ckpt.offsets \subseteq ckpt'.offsets]_vars
  <2> SUFFICES ASSUME IInv, [Next]_vars
               PROVE  ckpt.committed <= ckpt'.committed /\ ckpt.offsets \subseteq ckpt'.offsets
    BY Zenon
  <2> USE ConstantTypes DEF env, logs, table, task, batch
  <2>t. TypeOK /\ LogInv /\ TaskInv /\ LoopInv /\ Last \in Nat
    BY Zenon, DiskTypes DEF IInv
  <2>l. Loaded = {ckpt}
    BY Zenon DEF Loaded, Recorded
  <2>1. ASSUME ckpt' = ckpt PROVE ckpt.committed <= ckpt'.committed /\ ckpt.offsets \subseteq ckpt'.offsets
    BY <2>1, <2>t DEF Last
  <2>2. CASE RecoverBatch
    <3>1. /\ held = ckpt /\ Marker # {} /\ ckpt' = WithBatch(ckpt, Last + 1, Marker)
      BY ZenonT(60), <2>2, <2>t DEF RecoverBatch, Unrecorded, TaskInv, Last, Marker
    <3>2. ckpt'.committed = Last + 1 /\ ckpt'.offsets = Marker
      BY <3>1, <2>t, DiskTypes, WithBatchType DEF TypeOK
    <3> QED
      BY SMTT(60), <3>1, <3>2, <2>t DEF LogInv, Last
  <2>3. CASE InitForQuery
    <3>1. ckpt' = WithQueryId(ckpt, AppId(ckpt))
      BY Zenon, <2>3, <2>l DEF InitForQuery
    <3>2. AppId(ckpt) \in Apps
      BY <2>3, <2>t, DiskTypes DEF InitForQuery, AppId, Apps, TypeOK, LoopInv
    <3>3. ckpt'.committed = ckpt.committed /\ ckpt'.offsets = ckpt.offsets
      BY ZenonT(60), <3>1, <3>2, <2>t, WithQueryIdType DEF TypeOK
    <3> QED
      BY <3>3, <2>t DEF Last
  <2>4. CASE SaveRecord
    <3>1. held.committed = Last + 1 /\ ckpt.offsets \subseteq held.offsets
      BY ZenonT(60), <2>4, <2>t DEF SaveRecord, TaskInv
    <3>2. ckpt' = ckpt \/ ckpt' = held
      BY Zenon, <2>4 DEF SaveRecord
    <3>3. CASE ckpt' = held
      BY <3>1, <3>3, <2>t DEF Last
    <3> QED
      BY ZenonT(60), <3>2, <3>3, <2>1
  <2>5. CASE Next /\ ~(RecoverBatch \/ InitForQuery \/ SaveRecord)
    BY Zenon, <2>5, <2>1 DEF Next, Progress, OpenSink, Replay, PlanBatch, PollRange, WriteBatch,
       SaveCommit, LoadRecord, PruneEntry, MarkDurable, IdleTrigger, vars, Arrive, StartQuery,
       Stop, Crash, SourceFails, ExpectationFails, WriteFails
  <2> QED
    BY Zenon, <2>1, <2>2, <2>3, <2>4, <2>5 DEF vars
<1> QED
  BY <1>1, IInvAlways, PTL DEF Spec, ResumeMonotone

-----------------------------------------------------------------------------
(* What reaches the table *)

\* The rows in the table.
Written == {r \in Records : copies[r] >= 1}

\* Rows come from recorded batches and from the stamped one.
OnceInv ==
  /\ AtMostOnce
  /\ Written \subseteq ckpt.offsets \cup (IF Stamp THEN Extent ELSE {})
  /\ Running => sinkTxn = logTxn[app]

\* A batch with a stamp or a commit-log entry is in the table.
LossInv ==
  /\ ckpt.offsets \ Blank \subseteq Written
  /\ Stamp \/ Marker # {} \/ pc = "commit" => Extent \ Blank \subseteq Written
  /\ pc = "write" => rows = range \ Blank

-----------------------------------------------------------------------------
(* What a step does to the recorded batches and to the one after them *)

\* The resume record moves over the batch after it.
Advances == /\ Marker # {} /\ ckpt'.offsets = ckpt.offsets \cup Extent
            /\ Extent' = {} /\ Marker' = {} /\ ~Stamp' /\ UNCHANGED copies
            /\ pc' \notin {"write", "commit"}

\* The batch after it gets its extent.
Extends == /\ Extent = {} /\ ~Stamp /\ Marker' = {} /\ ~Stamp'
           /\ ckpt'.offsets = ckpt.offsets /\ UNCHANGED copies
           /\ pc' \notin {"write", "commit"}

\* The table gets its rows.
Lands == /\ pc = "write" /\ ~Recognized(id) /\ Land /\ UNCHANGED ckpt
         /\ Extent' = Extent /\ Marker' = Marker /\ Stamp'
         /\ pc' = "write" => UNCHANGED <<rows, range>>

\* The commit log gets its position, if the write landed.
Marks == /\ pc = "commit" /\ UNCHANGED <<ckpt, copies>>
         /\ Extent' = Extent /\ Stamp' = Stamp /\ pc' # "write"

\* Nothing of this changes.
Keeps == /\ ckpt'.offsets = ckpt.offsets /\ UNCHANGED copies
         /\ Extent' = Extent /\ Marker' = Marker /\ Stamp' = Stamp
         /\ pc' \in {"write", "commit"} =>
              \/ UNCHANGED <<pc, rows, range>> \/ PollRange
              \/ WriteBatch /\ Recognized(id)

\* Each step of the query does one of five things to the checkpoint and the table.
LEMMA DiskStep ==
  ASSUME Recorded, IInv, [Next]_vars
  PROVE  Advances \/ Extends \/ Lands \/ Marks \/ Keeps
<1> USE ConstantTypes DEF env, logs, table, task, batch
<1>t. TypeOK /\ LogInv /\ TaskInv /\ LoopInv
  BY Zenon DEF IInv
<1>d. /\ Last \in Nat /\ Extent \subseteq Records /\ Marker \subseteq Records
      /\ ckpt.query_id \in {0} \cup Apps /\ ckpt.offsets \subseteq Records
  BY Zenon, <1>t, DiskTypes
<1>l. Loaded = {ckpt}
  BY Zenon DEF Loaded, Recorded
<1>1. ASSUME UNCHANGED <<planned, commits, ckpt, logTxn, copies>>,
             pc' \notin {"write", "commit"} \/ UNCHANGED <<pc, rows, range>>
      PROVE  Keeps
  BY Zenon, <1>1, SameDisk DEF Keeps
<1>a. ASSUME UNCHANGED <<planned, commits, logTxn, copies>>, Marker # {},
             ckpt'.committed = Last + 1, ckpt'.offsets = ckpt.offsets \cup Extent,
             ckpt'.query_id = ckpt.query_id, ckpt.query_id # 0,
             pc' \notin {"write", "commit"}
      PROVE  Advances
  <2>1. Last' = Last + 1 /\ UNCHANGED <<planned, commits, logTxn>>
    BY Zenon, <1>a DEF Last
  <2>2. logTxn[ckpt.query_id] \in Nat
    BY Zenon, <1>a, <1>d, <1>t DEF TypeOK
  <2>3. \A i \in Ids : i > Last + 1 => planned[i] = {} /\ commits[i] = {}
    BY Zenon, <1>t DEF LogInv
  <2>4. Stamp => logTxn[ckpt.query_id] = Last + 1
    BY Zenon, <1>t DEF LogInv
  <2>5. Last + 2 > Last + 1 /\ Last' + 1 = Last + 2
    BY <1>d, <2>1
  <2>6. Extent' = {} /\ Marker' = {}
    BY Zenon, <2>1, <2>3, <2>5 DEF Extent, Marker
  <2>7. Stamp' => ckpt.query_id # 0 /\ Last + 1 < logTxn[ckpt.query_id]
    BY Zenon, <1>a, <2>1 DEF Stamp
  <2>8. Last + 1 < logTxn[ckpt.query_id] => Last < logTxn[ckpt.query_id] /\ logTxn[ckpt.query_id] # Last + 1
    BY <1>d, <2>2
  <2>9. ~Stamp'
    BY Zenon, <2>4, <2>7, <2>8 DEF Stamp
  <2> QED
    BY Zenon, <1>a, <2>6, <2>9 DEF Advances
<1>2. CASE RecoverBatch
  <2>1. held = ckpt /\ held.committed + 1 = Last + 1 /\ Marker # {} /\ commits[Last + 1] = Marker
    BY Zenon, <1>2, <1>t, <1>d DEF RecoverBatch, Unrecorded, TaskInv, Last, Marker
  <2>2. ckpt.query_id # 0
    BY Zenon, <2>1, <1>t DEF LogInv, Marker
  <2>3. ckpt' = WithBatch(ckpt, Last + 1, Marker)
    BY ZenonT(60), <1>2, <2>1 DEF RecoverBatch, Last
  <2>4. Marker = ckpt.offsets \cup Extent
    BY ZenonT(60), <2>1, <1>t DEF LogInv
  <2>5. ckpt'.committed = Last + 1 /\ ckpt'.offsets = Marker /\ ckpt'.query_id = ckpt.query_id
    <3>1. Last + 1 \in Nat
      BY <1>d
    <3>2. ckpt \in CheckpointState /\ Marker \in SUBSET Records
      BY Zenon, <1>t, <1>d DEF TypeOK
    <3>3. /\ WithBatch(ckpt, Last + 1, Marker).committed = Last + 1
          /\ WithBatch(ckpt, Last + 1, Marker).offsets = Marker
          /\ WithBatch(ckpt, Last + 1, Marker).query_id = ckpt.query_id
      BY SMTT(60), <3>1, <3>2, WithBatchType
    <3> QED
      BY Zenon, <2>3, <3>3
  <2> QED
    BY Zenon, <1>2, <1>a, <2>1, <2>2, <2>4, <2>5 DEF RecoverBatch
<1>3. CASE InitForQuery
  <2>1. ckpt' = WithQueryId(ckpt, AppId(ckpt))
    BY Zenon, <1>3, <1>l DEF InitForQuery
  <2>2. AppId(ckpt) \in Apps
    BY <1>3, <1>t, <1>d DEF InitForQuery, AppId, Apps, TypeOK, LoopInv
  <2>3. ckpt'.committed = Last /\ ckpt'.offsets = ckpt.offsets /\ ckpt'.query_id = AppId(ckpt)
    BY ZenonT(60), <2>1, <2>2, <1>t, WithQueryIdType DEF TypeOK, Last
  <2>4. Last' = Last /\ Extent' = Extent /\ Marker' = Marker
    BY Zenon, <1>3, <2>3 DEF InitForQuery, Last, Extent, Marker
  <2>5. Stamp' = Stamp
    <3>1. CASE ckpt.query_id = 0
      <4>1. logTxn'[AppId(ckpt)] = 0 /\ Last = 0
        BY Zenon, <1>3, <2>2, <3>1, <1>t DEF InitForQuery, LogInv
      <4> QED
        BY SMTT(60), <3>1, <4>1, <2>3, <2>4 DEF Stamp
    <3>2. CASE ckpt.query_id # 0
      BY Zenon, <1>3, <2>3, <2>4, <3>2 DEF InitForQuery, AppId, Stamp
    <3> QED
      BY Zenon, <3>1, <3>2
  <2> QED
    BY Zenon, <1>3, <2>3, <2>4, <2>5 DEF InitForQuery, Keeps
<1>4. CASE PlanBatch
  <2>1. Extent = {} /\ pc' \notin {"write", "commit"}
    BY ZenonT(60), <1>4, <1>t DEF PlanBatch, Abandon, TaskInv, id, Extent
  <2>2. Marker' = Marker /\ Stamp' = Stamp
    BY Zenon, <1>4 DEF PlanBatch, Last, Marker, Stamp
  <2>3. Marker = {} /\ ~Stamp
    BY Zenon, <2>1, <1>t DEF LogInv
  <2> QED
    BY Zenon, <1>4, <2>1, <2>2, <2>3 DEF PlanBatch, Extends
<1>b. ASSUME UNCHANGED <<planned, commits, ckpt>>, Land, pc = "write", ~Recognized(id),
             pc' = "write" => UNCHANGED <<rows, range>>
      PROVE  Lands
  <2>1. id = Last + 1 /\ ckpt.query_id # 0 /\ app = ckpt.query_id
    BY Zenon, <1>b, <1>t DEF TaskInv, Running, id
  <2>2. logTxn[app] \in Nat /\ app \in Apps
    BY Zenon, <2>1, <1>d, <1>t DEF TypeOK
  <2>3. logTxn'[app] > Last
    BY <1>b, <2>1, <2>2, <1>d, <1>t DEF Land, TypeOK
  <2>4. Last' = Last /\ Extent' = Extent /\ Marker' = Marker
    BY Zenon, <1>b DEF Last, Extent, Marker
  <2>5. Stamp'
    BY Zenon, <1>b, <2>1, <2>3, <2>4 DEF Stamp
  <2> QED
    BY Zenon, <1>b, <2>4, <2>5 DEF Lands
<1>5. CASE WriteBatch
  <2>1. CASE Recognized(id) /\ UNCHANGED <<copies, logTxn, sinkTxn>>
    <3>1. UNCHANGED <<planned, commits, ckpt, logTxn, copies>>
      BY Zenon, <1>5, <2>1 DEF WriteBatch
    <3> QED
      BY Zenon, <1>5, <2>1, <3>1, SameDisk DEF Keeps
  <2>2. CASE ~Recognized(id) /\ Land
    BY Zenon, <1>5, <2>2, <1>b DEF WriteBatch
  <2> QED
    BY Zenon, <1>5, <2>1, <2>2 DEF WriteBatch
<1>6. CASE WriteFails
  <2>1. pc' = "write" => UNCHANGED <<pc, rows, range>>
    BY Zenon, <1>6 DEF WriteFails, RetryOrAbandon, Abandon
  <2>2. pc' # "commit"
    BY Zenon, <1>6 DEF WriteFails, RetryOrAbandon, Abandon
  <2>3. CASE UNCHANGED table
    BY Zenon, <1>6, <2>1, <2>2, <2>3, <1>1 DEF WriteFails
  <2>4. CASE Land
    BY Zenon, <1>6, <2>1, <2>4, <1>b DEF WriteFails
  <2> QED
    BY Zenon, <1>6, <2>3, <2>4 DEF WriteFails
<1>7. CASE SaveCommit
  <2>1. Extent' = Extent /\ Stamp' = Stamp
    BY Zenon, <1>7 DEF SaveCommit, Last, Extent, Stamp
  <2> QED
    BY Zenon, <1>7, <2>1 DEF SaveCommit, Abandon, Marks
<1>8. CASE PruneEntry
  <2>1. held.pruned \in Nat /\ held.pruned + 1 < Last + 1
    BY ZenonT(60), <1>8, <1>t, CheckpointFields DEF PruneEntry, Prunable, TypeOK, TaskInv
  <2>2. Last' = Last /\ Stamp' = Stamp
    BY Zenon, <1>8 DEF PruneEntry, Last, Stamp
  <2>3. \A i \in Ids : i # held.pruned + 1 => planned'[i] = planned[i] /\ commits'[i] = commits[i]
    BY SMTT(60), <1>8, <1>t, ExceptAt DEF PruneEntry, TypeOK
  <2>4. Extent' = Extent /\ Marker' = Marker
    BY <2>1, <2>2, <2>3, <1>d DEF Extent, Marker
  <2> QED
    BY Zenon, <1>8, <2>2, <2>4 DEF PruneEntry, Keeps
<1>9. CASE SaveRecord
  <2>1. /\ held.committed = Last + 1 /\ held.offsets = ckpt.offsets \cup Extent
        /\ held.query_id = ckpt.query_id /\ ckpt.query_id # 0 /\ Marker # {}
    BY Zenon, <1>9, <1>t DEF SaveRecord, TaskInv, Running
  <2>2. pc' \notin {"write", "commit"} /\ ckpt' \in {ckpt, held}
    BY Zenon, <1>9 DEF SaveRecord, Abandon
  <2> QED
    BY Zenon, <1>9, <1>1, <1>a, <2>1, <2>2 DEF SaveRecord
<1>p. CASE PollRange
  <2>1. UNCHANGED <<planned, commits, ckpt, logTxn, copies>>
    BY Zenon, <1>p DEF PollRange
  <2> QED
    BY Zenon, <1>p, <2>1, SameDisk DEF Keeps
<1>10. CASE OpenSink \/ Replay \/ LoadRecord \/ MarkDurable
  BY Zenon, <1>10, <1>1 DEF OpenSink, Replay, LoadRecord, MarkDurable, Abandon
<1>11. CASE StartQuery \/ Stop \/ Crash \/ SourceFails \/ ExpectationFails
  BY Zenon, <1>11, <1>1 DEF StartQuery, Stop, Crash, SourceFails, ExpectationFails, Abandon
<1>12. CASE IdleTrigger \/ UNCHANGED vars
  BY Zenon, <1>12, <1>1 DEF IdleTrigger, vars
<1>13. ASSUME NEW r \in Records, Arrive(r) PROVE Keeps
  BY Zenon, <1>13, <1>1 DEF Arrive
<1> QED
  BY Zenon, <1>2, <1>3, <1>4, <1>5, <1>6, <1>7, <1>8, <1>9, <1>p, <1>10, <1>11, <1>12, <1>13
     DEF Next, Progress

-----------------------------------------------------------------------------
(* At most once *)

\* Without lost acknowledgements the sink knows the last stamp of its appId.
LEMMA SinkStep ==
  ASSUME Recorded, "ack" \notin Faults, IInv, Running => sinkTxn = logTxn[app], [Next]_vars
  PROVE  (Running => sinkTxn = logTxn[app])'
<1> USE ConstantTypes DEF env, logs, table, task, batch
<1>t. TypeOK /\ TaskInv
  BY Zenon DEF IInv
<1>1. CASE InitForQuery
  BY Zenon, <1>1, <1>t DEF InitForQuery, TaskInv
<1>2. CASE WriteBatch
  <2>1. CASE UNCHANGED <<copies, logTxn, sinkTxn>>
    BY Zenon, <1>2, <2>1 DEF WriteBatch, Running
  <2>2. CASE ~Recognized(id) /\ Land /\ sinkTxn' = id
    <3>1. app \in Apps /\ logTxn[app] < id /\ app' = app
      BY <1>2, <2>2, <1>t, DiskTypes DEF WriteBatch, TaskInv, Running, Recognized, id, TypeOK
    <3>2. logTxn \in [Apps -> Nat]
      BY Zenon, <1>t DEF TypeOK
    <3>3. logTxn'[app] = id
      BY Zenon, <2>2, <3>1, <3>2 DEF Land
    <3> QED
      BY Zenon, <2>2, <3>1, <3>3
  <2> QED
    BY Zenon, <1>2, <2>1, <2>2 DEF WriteBatch
<1>3. CASE Next /\ ~InitForQuery /\ ~WriteBatch
  <2>1. Running' => Running /\ UNCHANGED <<app, sinkTxn, logTxn>>
    BY ZenonT(60), <1>3 DEF Next, Progress, RecoverBatch, OpenSink, Replay, PlanBatch, PollRange,
       SaveCommit, LoadRecord, PruneEntry, SaveRecord, MarkDurable, IdleTrigger, vars, Arrive,
       StartQuery, Stop, Crash, SourceFails, ExpectationFails, WriteFails, RetryOrAbandon,
       Abandon, Running
  <2> QED
    BY Zenon, <2>1
<1> QED
  BY Zenon, <1>1, <1>2, <1>3 DEF vars, Running

\* A write the sink does not recognize as a replay is of rows no commit held.
LEMMA UnstampedWrite ==
  ASSUME IInv, OnceInv, pc = "write", ~Recognized(id)
  PROVE  ~Stamp /\ \A r \in rows : copies[r] = 0
<1>t. TypeOK /\ LogInv /\ TaskInv
  BY Zenon DEF IInv
<1>1. ~Stamp
  <2>1. id = Last + 1 /\ app = ckpt.query_id /\ sinkTxn = logTxn[app]
    BY Zenon, <1>t DEF TaskInv, OnceInv, Running, id
  <2>2. sinkTxn \in Nat
    BY Zenon, <1>t DEF TypeOK
  <2> QED
    BY <2>1, <2>2, <1>t, DiskTypes DEF Recognized, Stamp
<1>2. rows \subseteq Extent /\ rows \cap ckpt.offsets = {}
  BY Zenon, <1>t DEF TaskInv, LogInv
<1> QED
  BY <1>1, <1>2, <1>t DEF OnceInv, Written, TypeOK

\* Each of the five keeps every record in at most one commit.
LEMMA OnceStep ==
  ASSUME Recorded, "ack" \notin Faults, IInv, OnceInv, [Next]_vars
  PROVE  OnceInv'
<1>t. TypeOK /\ LogInv /\ TaskInv
  BY Zenon DEF IInv
<1>s. (Running => sinkTxn = logTxn[app])'
  BY Zenon, SinkStep DEF OnceInv
<1>1. CASE Advances
  BY Zenon, <1>1, <1>s DEF Advances, OnceInv, AtMostOnce, Written
<1>2. CASE Extends
  BY Zenon, <1>2, <1>s DEF Extends, OnceInv, AtMostOnce, Written
<1>3. CASE Marks
  BY Zenon, <1>3, <1>s DEF Marks, OnceInv, AtMostOnce, Written
<1>4. CASE Keeps
  BY Zenon, <1>4, <1>s DEF Keeps, OnceInv, AtMostOnce, Written
<1>5. CASE Lands
  <2>1. ~Stamp
    BY Zenon, <1>5, UnstampedWrite DEF Lands
  <2>2. rows \subseteq Extent
    BY Zenon, <1>5, <1>t DEF Lands, TaskInv
  <2>3. \A r \in rows : copies[r] = 0
    BY Zenon, <1>5, UnstampedWrite DEF Lands
  <2>4. \A r \in Records : copies'[r] = IF r \in rows THEN copies[r] + 1 ELSE copies[r]
    BY Zenon, <1>5 DEF Lands, Land
  <2>5. AtMostOnce'
    BY <2>3, <2>4 DEF OnceInv, AtMostOnce
  <2>6. Written' \subseteq Written \cup rows
    BY Zenon, <2>4 DEF Written
  <2>7. Written \subseteq ckpt.offsets
    BY Zenon, <2>1 DEF OnceInv
  <2> QED
    BY Zenon, <1>5, <1>s, <2>2, <2>5, <2>6, <2>7 DEF Lands, OnceInv
<1> QED
  BY Zenon, <1>1, <1>2, <1>3, <1>4, <1>5, DiskStep

\* So rows only ever come from recorded batches and the stamped one.
LEMMA OnceAlways == ASSUME Recorded, "ack" \notin Faults PROVE Spec => [](IInv /\ OnceInv)
<1>1. Init => OnceInv
  <2> SUFFICES ASSUME Init PROVE OnceInv
    BY Zenon
  <2>1. \A r \in Records : copies[r] = 0
    BY Zenon DEF Init
  <2> QED
    BY <2>1 DEF Init, OnceInv, AtMostOnce, Written, Running
<1>2. IInv /\ OnceInv /\ [Next]_vars => OnceInv'
  BY Zenon, OnceStep
<1> QED
  BY <1>1, <1>2, IInvAlways, PTL DEF Spec

\* Exactly-once, the upper half: through crashes, restarts, replays and retries no
\* record is written twice, as long as the sink learns of the commits it made.
THEOREM WrittenAtMostOnce ==
  ASSUME Recorded, "ack" \notin Faults PROVE Spec => []AtMostOnce
<1>1. OnceInv => AtMostOnce
  BY Zenon DEF OnceInv
<1> QED
  BY <1>1, OnceAlways, PTL

-----------------------------------------------------------------------------
(* Nothing is lost *)

\* Each of the five keeps recorded and stamped batches in the table.
LEMMA LossStep ==
  ASSUME Recorded, ~Dedup, IInv, LossInv, [Next]_vars
  PROVE  LossInv'
<1>t. TypeOK /\ LogInv /\ TaskInv
  BY Zenon DEF IInv
<1>1. CASE Advances
  BY Zenon, <1>1 DEF Advances, LossInv, Written
<1>2. CASE Extends
  BY Zenon, <1>2 DEF Extends, LossInv, Written
<1>3. CASE Marks
  BY Zenon, <1>3 DEF Marks, LossInv, Written
<1>4. CASE Keeps
  <2>0. Written' = Written
    BY Zenon, <1>4 DEF Keeps, Written
  <2>1. CASE pc' \notin {"write", "commit"} \/ UNCHANGED <<pc, rows, range>>
    BY Zenon, <1>4, <2>0, <2>1 DEF Keeps, LossInv
  <2>2. CASE PollRange
    <3>1. rows' = range \ Blank /\ range' = range
      BY Zenon, <2>2 DEF PollRange, Deduplicated, batch
    <3>2. pc' = "commit" => rows' = {}
      BY Zenon, <2>2 DEF PollRange
    <3>3. range = Extent
      BY Zenon, <2>2, <1>t DEF PollRange, TaskInv
    <3> QED
      BY Zenon, <1>4, <2>0, <3>1, <3>2, <3>3 DEF Keeps, LossInv
  <2>3. CASE WriteBatch /\ Recognized(id)
    <3>1. id = Last + 1 /\ app = ckpt.query_id /\ ckpt.query_id # 0 /\ sinkTxn <= logTxn[app]
      BY Zenon, <2>3, <1>t DEF WriteBatch, TaskInv, Running, id
    <3>2. Stamp
      BY SMTT(60), <2>3, <3>1, <1>t, DiskTypes DEF Recognized, Stamp, TypeOK
    <3> QED
      BY Zenon, <1>4, <2>0, <2>3, <3>2 DEF WriteBatch, Keeps, LossInv
  <2> QED
    BY Zenon, <1>4, <2>1, <2>2, <2>3 DEF Keeps
<1>5. CASE Lands
  <2>1. rows = Extent \ Blank
    BY Zenon, <1>5, <1>t DEF Lands, TaskInv, LossInv
  <2>2. \A r \in Records : copies'[r] = IF r \in rows THEN copies[r] + 1 ELSE copies[r]
    BY Zenon, <1>5 DEF Lands, Land
  <2>3. Written \cup rows \subseteq Written'
    BY <2>2, <1>t DEF Written, TypeOK
  <2> QED
    BY Zenon, <1>5, <2>1, <2>3 DEF Lands, LossInv
<1> QED
  BY Zenon, <1>1, <1>2, <1>3, <1>4, <1>5, DiskStep

\* So recorded and stamped batches are always in the table.
LEMMA LossAlways == ASSUME Recorded, ~Dedup PROVE Spec => [](IInv /\ LossInv)
<1>1. Init => LossInv
  <2> SUFFICES ASSUME Init PROVE LossInv
    BY Zenon
  <2>1. Extent = {} /\ ckpt.offsets = {}
    BY Zenon DEF Init, NoCheckpoint, Extent
  <2> QED
    BY Zenon, <2>1 DEF Init, LossInv
<1>2. IInv /\ LossInv /\ [Next]_vars => LossInv'
  BY Zenon, LossStep
<1> QED
  BY <1>1, <1>2, IInvAlways, PTL DEF Spec

\* Exactly-once, the lower half: through the same crashes and errors, lost
\* acknowledgements included, a record the query will not read again, or that the
\* upstream server may discard, is in the table.
THEOREM NothingLost == ASSUME Recorded, ~Dedup PROVE Spec => []NoLoss
<1>1. IInv /\ LossInv => NoLoss
  BY Zenon DEF IInv, LogInv, LossInv, Written, NoLoss
<1> QED
  BY <1>1, LossAlways, PTL

\* A batch the table carries ahead of the resume record keeps its offset-log entry,
\* so a restart replays it under its id with the rows it committed.
THEOREM StampedStaysReplayable == ASSUME Recorded, ~Dedup PROVE Spec => []StampedExtent
<1>1. IInv /\ LossInv => StampedExtent
  <2> SUFFICES ASSUME IInv, LossInv, NEW i \in Ids, NEW q \in Apps,
                      q = ckpt.query_id, ckpt.committed < i, i <= logTxn[q]
               PROVE  planned[i] # {} /\ \A r \in planned[i] \ Blank : copies[r] >= 1
    BY Zenon DEF StampedExtent
  <2>1. TypeOK /\ LogInv /\ Last \in Nat /\ logTxn[q] \in Nat
    BY Zenon, DiskTypes DEF IInv, TypeOK
  <2>2. Stamp
    BY SMTT(60), <2>1 DEF Stamp, Last, Apps, Ids
  <2>3. i = Last + 1 /\ Extent = planned[i] /\ Extent # {}
    <3>1. logTxn[q] = Last + 1 /\ Extent # {}
      BY ZenonT(60), <2>1, <2>2 DEF LogInv
    <3>2. i = Last + 1
      BY SMTT(60), <2>1, <3>1 DEF Last, Ids
    <3> QED
      BY Zenon, <3>1, <3>2 DEF Extent
  <2>4. Extent \ Blank \subseteq Written
    BY Zenon, <2>2 DEF LossInv
  <2> QED
    BY Zenon, <2>3, <2>4 DEF Written
<1> QED
  BY <1>1, LossAlways, PTL

-----------------------------------------------------------------------------
(* Refinement *)

\* A query that keeps its logs in order implements Delivery: a table commit of
\* write_batch appends new records, and mark_durable lets go of written ones.
THEOREM QueryImplementsDelivery ==
  ASSUME Recorded, "ack" \notin Faults, ~Dedup PROVE Spec => ImplementsDelivery
<1>1. Init => D!Init
  BY Zenon DEF Init, D!Init
<1>2. IInv /\ OnceInv /\ LossInv /\ [Next]_vars => [D!Next]_(D!vars)
  <2> SUFFICES ASSUME IInv, OnceInv, LossInv, [Next]_vars PROVE [D!Next]_(D!vars)
    BY Zenon
  <2> USE DEF env, logs, table, task, batch
  <2>t. TypeOK /\ LogInv /\ TaskInv
    BY Zenon DEF IInv
  <2>1. ASSUME NEW r \in Records, Arrive(r) PROVE D!Next
    <3>1. D!Arrive({r}) /\ {r} \in SUBSET Records
      BY Zenon, <2>1 DEF Arrive, D!Arrive
    <3> QED
      BY Zenon, <3>1 DEF D!Next
  <2>2. CASE WriteBatch /\ ~Recognized(id) /\ Land
    <3>1. rows \subseteq arrived /\ rows \in SUBSET Records
      BY ZenonT(60), <2>2, <2>t DEF WriteBatch, TaskInv, LogInv, TypeOK
    <3>2. \A r \in rows : copies[r] = 0
      BY Zenon, <2>2, UnstampedWrite DEF WriteBatch
    <3>3. copies' = [r \in Records |-> IF r \in rows THEN 1 ELSE copies[r]]
      BY <2>2, <3>1, <3>2 DEF Land
    <3>4. D!Commit(rows)
      BY Zenon, <2>2, <3>1, <3>2, <3>3 DEF WriteBatch, D!Commit
    <3> QED
      BY Zenon, <3>1, <3>4 DEF D!Next
  <2>3. CASE MarkDurable /\ released' = released \cup pos
    <3>1. pos = ckpt.offsets /\ pos \subseteq arrived /\ pos \in SUBSET Records
      BY ZenonT(60), <2>3, <2>t DEF MarkDurable, TaskInv, LogInv, TypeOK
    <3>2. \A r \in pos \ Blank : copies[r] = 1
      BY <3>1, <2>t DEF LossInv, Written, OnceInv, AtMostOnce, TypeOK
    <3>3. D!Release(pos)
      BY Zenon, <2>3, <3>1, <3>2 DEF MarkDurable, D!Release
    <3> QED
      BY Zenon, <3>1, <3>3 DEF D!Next
  <2>4. CASE UNCHANGED <<arrived, copies, released>>
    BY Zenon, <2>4 DEF D!vars
  <2>5. CASE WriteBatch \/ WriteFails \/ MarkDurable
    <3>1. CASE WriteBatch
      BY ZenonT(60), <3>1, <2>2, <2>4 DEF WriteBatch
    <3>2. CASE WriteFails
      BY ZenonT(60), <3>2, <2>4 DEF WriteFails
    <3>3. CASE MarkDurable
      BY ZenonT(60), <3>3, <2>3, <2>4 DEF MarkDurable
    <3> QED
      BY Zenon, <2>5, <3>1, <3>2, <3>3
  <2>6. CASE Next /\ ~(WriteBatch \/ WriteFails \/ MarkDurable)
    BY ZenonT(60), <2>6, <2>1, <2>4 DEF Next, Progress, RecoverBatch, OpenSink, InitForQuery, Replay,
       PlanBatch, PollRange, SaveCommit, LoadRecord, PruneEntry, SaveRecord, IdleTrigger, vars,
       StartQuery, Stop, Crash, SourceFails, ExpectationFails
  <2> QED
    BY Zenon, <2>4, <2>5, <2>6 DEF vars
<1> QED
  BY <1>1, <1>2, OnceAlways, LossAlways, PTL DEF Spec, ImplementsDelivery, D!Spec

-----------------------------------------------------------------------------
(* Deduplication: no key is lost *)

\* The keys of a set of records.
KeysOf(R) == {KeyOf[r] : r \in R}

\* The query has no batch in hand, has not read its range yet, or has written it.
Settled == (pc = "idle" /\ active) \/ pc \in {"open", "poll", "commit", "record", "prune", "ack"}

\* A key that is remembered, recorded or committed has its row in the table, or a row
\* on its way to it.
KeptInv ==
  /\ ckpt.dedup \subseteq KeysOf(Written) /\ KeysOf(ckpt.offsets \ Blank) \subseteq KeysOf(Written)
  /\ Stamp \/ Marker # {} \/ pc = "commit" => KeysOf(Extent \ Blank) \subseteq KeysOf(Written)
  /\ Settled => dedup \subseteq KeysOf(Written)
  /\ pc = "write" => /\ dedup \subseteq KeysOf(Written) \cup KeysOf(rows)
                     /\ KeysOf(Extent \ Blank) \subseteq KeysOf(Written) \cup KeysOf(rows)
  /\ pc = "prune" => held.dedup \subseteq KeysOf(Written)

\* What the updates of a CheckpointState do to its keys.
LEMMA DedupField ==
  ASSUME NEW c \in CheckpointState
  PROVE  /\ \A n, R : WithBatch(c, n, R).dedup = c.dedup
         /\ \A q : WithQueryId(c, q).dedup = c.dedup
         /\ \A n : WithPruned(c, n).dedup = c.dedup
         /\ \A K : WithDedup(c, K).dedup = K
BY DEF CheckpointState, WithBatch, WithQueryId, WithPruned, WithDedup

LEMMA KeysOfUnion == \A R, S : KeysOf(R \cup S) = KeysOf(R) \cup KeysOf(S)
BY DEF KeysOf

LEMMA KeysOfPart == \A R, S : R \subseteq S => KeysOf(R) \subseteq KeysOf(S)
BY DEF KeysOf

\* Rows stay in the table, and a commit adds the batch's.
LEMMA RowsStay ==
  ASSUME Recorded, IInv, [Next]_vars
  PROVE  /\ KeysOf(Written) \subseteq KeysOf(Written')
         /\ Lands => KeysOf(Written') = KeysOf(Written) \cup KeysOf(rows)
         /\ copies' = copies => Written' = Written
<1>t. TypeOK
  BY Zenon DEF IInv
<1>1. copies' = copies => Written' = Written
  BY Zenon DEF Written
<1>2. Lands => Written' = Written \cup rows
  <2> SUFFICES ASSUME Lands PROVE Written' = Written \cup rows
    BY Zenon
  <2>1. /\ rows \subseteq Records /\ \A r \in Records : copies[r] \in Nat
        /\ \A r \in Records : copies'[r] = IF r \in rows THEN copies[r] + 1 ELSE copies[r]
    BY Zenon, <1>t DEF Lands, Land, TypeOK
  <2> QED
    BY <2>1 DEF Written
<1>3. Lands \/ copies' = copies
  BY Zenon, DiskStep DEF Advances, Extends, Marks, Keeps
<1>4. Lands => KeysOf(Written') = KeysOf(Written) \cup KeysOf(rows)
  BY Zenon, <1>2, KeysOfUnion
<1>5. Lands => KeysOf(Written) \subseteq KeysOf(Written')
  BY Zenon, <1>4
<1>6. copies' = copies => KeysOf(Written) \subseteq KeysOf(Written')
  BY Zenon, <1>1
<1> QED
  BY Zenon, <1>1, <1>3, <1>4, <1>5, <1>6

\* The keys on disk are the recorded ones, or those of the record being saved.
LEMMA KeysOnDisk ==
  ASSUME Recorded, IInv, [Next]_vars
  PROVE  ckpt'.dedup = ckpt.dedup \/ (SaveRecord /\ ckpt'.dedup = held.dedup)
<1>t. TypeOK /\ TaskInv
  BY Zenon DEF IInv
<1>0. ckpt \in CheckpointState /\ held \in CheckpointState
  BY Zenon, <1>t DEF TypeOK
<1>l. Loaded = {ckpt}
  BY Zenon DEF Loaded, Recorded
<1>1. CASE RecoverBatch
  <2>1. held = ckpt /\ ckpt' = WithBatch(held, held.committed + 1, commits[held.committed + 1])
    BY Zenon, <1>1, <1>t DEF RecoverBatch, TaskInv
  <2>2. \A n, R : WithBatch(ckpt, n, R).dedup = ckpt.dedup
    BY Zenon, <1>0, DedupField
  <2> QED
    BY Zenon, <2>1, <2>2
<1>2. CASE InitForQuery
  <2>1. ckpt' = WithQueryId(ckpt, AppId(ckpt))
    BY Zenon, <1>2, <1>l DEF InitForQuery
  <2>2. WithQueryId(ckpt, AppId(ckpt)).dedup = ckpt.dedup
    BY Zenon, <1>0, DedupField
  <2> QED
    BY Zenon, <2>1, <2>2
<1>3. CASE SaveRecord
  BY Zenon, <1>3 DEF SaveRecord
<1>4. CASE Next /\ ~RecoverBatch /\ ~InitForQuery /\ ~SaveRecord
  <2>1. ckpt' = ckpt
    BY ZenonT(60), <1>4 DEF Next, Progress, OpenSink, Replay, PlanBatch, PollRange, WriteBatch,
       SaveCommit, LoadRecord, PruneEntry, MarkDurable, IdleTrigger, vars, Arrive,
       StartQuery, Stop, Crash, SourceFails, ExpectationFails, WriteFails
  <2> QED
    BY Zenon, <2>1
<1> QED
  BY Zenon, <1>1, <1>2, <1>3, <1>4 DEF vars

\* What a batch keeps of a range: its keys that are not remembered yet.
LEMMA PolledKeys ==
  ASSUME IInv, PollRange
  PROVE  /\ KeysOf(range \ Blank) \subseteq dedup \cup KeysOf(rows') /\ range = Extent
         /\ dedup' \subseteq dedup \cup KeysOf(range \ Blank)
         /\ pc' = "commit" => rows' = {}
         /\ pc' \in {"write", "commit"} /\ rows' \subseteq range \ Blank
         /\ Dedup => /\ dedup' = dedup \cup KeysOf(range \ Blank)
                     /\ KeysOf(rows') = KeysOf(range \ Blank) \ dedup
                     /\ \A r, s \in rows' : KeyOf[r] = KeyOf[s] => r = s
<1>1. PICK S \in Deduplicated(range \ Blank) :
        rows' = S /\ pc' = IF S = {} THEN "commit" ELSE "write"
  BY Zenon DEF PollRange
<1>2. dedup' = IF Dedup THEN dedup \cup KeysOf(range \ Blank) ELSE dedup
  BY Zenon DEF PollRange, KeysOf
<1>3. range = Extent
  BY Zenon DEF PollRange, IInv, TaskInv
<1>4. CASE Dedup
  <2>1. /\ S \subseteq range \ Blank /\ KeysOf(S) = KeysOf(range \ Blank) \ dedup
        /\ \A r, s \in S : KeyOf[r] = KeyOf[s] => r = s
    BY Zenon, <1>4 DEF Deduplicated, KeysOf
  <2> QED
    BY Zenon, <1>1, <1>2, <1>3, <1>4, <2>1
<1>5. CASE ~Dedup
  <2>1. S = range \ Blank
    BY Zenon, <1>5 DEF Deduplicated
  <2> QED
    BY Zenon, <1>1, <1>2, <1>3, <1>5, <2>1
<1> QED
  BY Zenon, <1>4, <1>5

\* The keys in memory: read with the record, extended by a poll, else left alone.
LEMMA MemoryStep ==
  ASSUME Recorded, IInv, [Next]_vars
  PROVE  \/ PollRange \/ WriteBatch
         \/ OpenSink /\ dedup' = ckpt.dedup
         \/ /\ dedup' = dedup /\ (pc' = "write" => pc = "write")
            /\ Settled' => Settled \/ (Persistent /\ pc = "write")
         \/ ~Settled' /\ pc' # "write"
<1> USE DEF env, logs, table, task, batch
<1>t. TaskInv
  BY Zenon DEF IInv
<1>1. CASE OpenSink
  BY Zenon, <1>1, <1>t DEF OpenSink, TaskInv
<1>2. CASE RecoverBatch \/ InitForQuery \/ Replay \/ LoadRecord \/ PruneEntry
  BY Zenon, <1>2 DEF RecoverBatch, InitForQuery, Replay, LoadRecord, PruneEntry, Settled
<1>3. CASE PlanBatch \/ SaveCommit \/ SaveRecord \/ MarkDurable
  BY ZenonT(60), <1>3 DEF PlanBatch, SaveCommit, SaveRecord, MarkDurable, Abandon, Settled
<1>4. CASE SourceFails \/ ExpectationFails \/ Crash \/ StartQuery
  BY ZenonT(60), <1>4 DEF SourceFails, ExpectationFails, Crash, StartQuery, Abandon, Settled
<1>5. CASE WriteFails
  BY ZenonT(60), <1>5 DEF WriteFails, RetryOrAbandon, Abandon, Settled
<1>6. CASE Stop \/ IdleTrigger \/ UNCHANGED vars \/ \E r \in Records : Arrive(r)
  BY ZenonT(60), <1>6 DEF Stop, IdleTrigger, vars, Arrive, Settled
<1> QED
  BY ZenonT(60), <1>1, <1>2, <1>3, <1>4, <1>5, <1>6 DEF Next, Progress

\* The keys of the record in hand are the query's.
LEMMA HeldStep ==
  ASSUME Recorded, IInv, [Next]_vars, pc' = "prune"
  PROVE  \/ pc = "record" /\ held'.dedup = dedup /\ UNCHANGED dedup
         \/ pc = "prune" /\ held'.dedup = held.dedup /\ UNCHANGED dedup
<1> USE DEF env, logs, table, task, batch
<1>t. TypeOK
  BY Zenon DEF IInv
<1>0. ckpt \in CheckpointState /\ held \in CheckpointState /\ batchId \in Nat /\ pos \in SUBSET Records
  BY Zenon, <1>t DEF TypeOK
<1>1. CASE LoadRecord
  <2>1. /\ pc = "record" /\ UNCHANGED dedup
        /\ held' = WithDedup(WithBatch(ckpt, batchId, pos), dedup)
    BY Zenon, <1>1 DEF LoadRecord, Loaded, Recorded
  <2>2. WithBatch(ckpt, batchId, pos) \in CheckpointState
    BY Zenon, <1>0, WithBatchType
  <2> QED
    BY Zenon, <2>1, <2>2, DedupField
<1>2. CASE PruneEntry
  <2>1. pc = "prune" /\ UNCHANGED dedup /\ held' = WithPruned(held, held.pruned + 1)
    BY Zenon, <1>2 DEF PruneEntry
  <2>2. \A n : WithPruned(held, n).dedup = held.dedup
    BY Zenon, <1>0, DedupField
  <2> QED
    BY Zenon, <2>1, <2>2
<1>3. CASE Stop \/ UNCHANGED vars \/ \E r \in Records : Arrive(r)
  BY ZenonT(60), <1>3 DEF Stop, vars, Arrive
<1>4. ~(RecoverBatch \/ OpenSink \/ InitForQuery \/ Replay \/ PollRange \/ WriteBatch)
  BY ZenonT(60) DEF RecoverBatch, OpenSink, InitForQuery, Replay, PollRange, WriteBatch
<1>5. ~(PlanBatch \/ SaveCommit \/ SaveRecord \/ MarkDurable \/ StartQuery \/ Crash)
  BY ZenonT(60) DEF PlanBatch, SaveCommit, SaveRecord, MarkDurable, StartQuery, Crash, Abandon
<1>6. ~(SourceFails \/ ExpectationFails \/ WriteFails)
  BY ZenonT(60) DEF SourceFails, ExpectationFails, WriteFails, RetryOrAbandon, Abandon
<1>7. CASE IdleTrigger
  BY Zenon, <1>7 DEF IdleTrigger, vars
<1> QED
  BY ZenonT(60), <1>1, <1>2, <1>3, <1>4, <1>5, <1>6, <1>7 DEF Next, Progress

\* A write the sink recognizes is one the table already carries.
LEMMA RecognizedIsStamped ==
  ASSUME IInv, pc = "write", Recognized(id)
  PROVE  Stamp
<1>1. TypeOK /\ TaskInv
  BY Zenon DEF IInv
<1>2. batchId = Last /\ app = ckpt.query_id /\ ckpt.query_id # 0 /\ sinkTxn <= logTxn[app]
  BY Zenon, <1>1 DEF TaskInv, Running
<1>3. Last \in Nat /\ sinkTxn \in Nat /\ app \in Apps /\ logTxn[app] \in Nat
  <2>1. Last \in Nat /\ ckpt.query_id \in {0} \cup Apps
    BY Zenon, <1>1, DiskTypes
  <2>2. app \in Apps
    BY Zenon, <1>2, <2>1
  <2> QED
    BY Zenon, <1>1, <2>1, <2>2 DEF TypeOK
<1> QED
  BY <1>2, <1>3 DEF Recognized, id, Stamp

\* Every step keeps it: a key is remembered with the row that carries it in hand, and a
\* query that gives that row up stops, so the next one reads the keys on disk.
LEMMA KeptStep ==
  ASSUME Recorded, ~Persistent, IInv, KeptInv, [Next]_vars
  PROVE  KeptInv'
<1> DEFINE W == KeysOf(Written)
           E == KeysOf(Extent \ Blank)
<1>t. TaskInv
  BY Zenon DEF IInv
<1>w. /\ W \subseteq W'
      /\ Lands => W' = W \cup KeysOf(rows)
  BY Zenon, RowsStay
<1>r. pc = "write" => KeysOf(rows) \subseteq E
  <2>1. pc = "write" => rows \subseteq Extent \ Blank
    BY Zenon, <1>t DEF TaskInv
  <2> QED
    BY Zenon, <2>1, KeysOfPart
<1>k. /\ ckpt.dedup \subseteq W /\ KeysOf(ckpt.offsets \ Blank) \subseteq W
      /\ Stamp \/ Marker # {} \/ pc = "commit" => E \subseteq W
      /\ Settled => dedup \subseteq W
      /\ pc = "write" => dedup \subseteq W \cup KeysOf(rows) /\ E \subseteq W \cup KeysOf(rows)
      /\ pc = "prune" => held.dedup \subseteq W
  BY Zenon DEF KeptInv
<1>p. PollRange =>
        /\ dedup \subseteq W /\ E \subseteq dedup \cup KeysOf(rows') /\ dedup' \subseteq dedup \cup E
        /\ pc' = "commit" => KeysOf(rows') = {}
        /\ pc' \in {"write", "commit"}
  <2> SUFFICES ASSUME PollRange
               PROVE  /\ dedup \subseteq W /\ E \subseteq dedup \cup KeysOf(rows') /\ dedup' \subseteq dedup \cup E
                      /\ pc' = "commit" => KeysOf(rows') = {}
                      /\ pc' \in {"write", "commit"}
    BY Zenon
  <2>1. Settled
    BY Zenon DEF PollRange, Settled
  <2>2. pc' = "commit" => KeysOf(rows') = {}
    BY PolledKeys DEF KeysOf
  <2> QED
    BY Zenon, <2>1, <2>2, <1>k, PolledKeys
<1>z. pc = "write" /\ Recognized(id) => E \subseteq W
  BY Zenon, <1>k, RecognizedIsStamped
<1>1. ckpt'.dedup \subseteq W'
  <2>1. SaveRecord => pc = "prune"
    BY Zenon DEF SaveRecord
  <2> QED
    BY Zenon, <2>1, <1>w, <1>k, KeysOnDisk
<1>a. Advances => /\ ckpt'.offsets = ckpt.offsets \cup Extent /\ Marker # {}
                  /\ ~Stamp' /\ Marker' = {} /\ pc' # "write" /\ pc' # "commit"
  BY Zenon DEF Advances
<1>x. Extends => /\ ckpt'.offsets = ckpt.offsets
                 /\ ~Stamp' /\ Marker' = {} /\ pc' # "write" /\ pc' # "commit"
  BY Zenon DEF Extends
<1>l. Lands => /\ ckpt'.offsets = ckpt.offsets /\ pc = "write" /\ Extent' = Extent
               /\ pc' = "write" => rows' = rows
  BY Zenon DEF Lands
<1>m. Marks => /\ ckpt'.offsets = ckpt.offsets /\ pc = "commit" /\ Extent' = Extent
               /\ pc' # "write"
  BY Zenon DEF Marks
<1>n. Keeps => /\ ckpt'.offsets = ckpt.offsets /\ Extent' = Extent
               /\ Marker' = Marker /\ Stamp' = Stamp
               /\ pc' \in {"write", "commit"} =>
                    \/ pc' = pc /\ rows' = rows
                    \/ PollRange
                    \/ WriteBatch /\ Recognized(id)
  BY Zenon DEF Keeps
<1>e. Extent' = Extent => E' = E
  BY Zenon
<1>s. Advances \/ Extends \/ Lands \/ Marks \/ Keeps
  BY Zenon, DiskStep
<1>o. Advances => KeysOf(ckpt'.offsets \ Blank) = KeysOf(ckpt.offsets \ Blank) \cup E
  <2>1. (ckpt.offsets \cup Extent) \ Blank = (ckpt.offsets \ Blank) \cup (Extent \ Blank)
    BY Zenon
  <2>2. KeysOf((ckpt.offsets \ Blank) \cup (Extent \ Blank)) = KeysOf(ckpt.offsets \ Blank) \cup E
    BY Zenon, KeysOfUnion
  <2>3. KeysOf((ckpt.offsets \cup Extent) \ Blank) = KeysOf(ckpt.offsets \ Blank) \cup E
    <3> HIDE DEF E
    <3> QED
      BY Zenon, <2>1, <2>2
  <2>4. Advances => ckpt'.offsets = ckpt.offsets \cup Extent
    BY Zenon, <1>a
  <2> HIDE DEF E
  <2> QED
    BY Zenon, <2>3, <2>4
<1> HIDE DEF W, E
<1>2. KeysOf(ckpt'.offsets \ Blank) \subseteq W'
  BY Zenon, <1>a, <1>x, <1>l, <1>m, <1>n, <1>s, <1>o, <1>k, <1>w
<1>wb. WriteBatch => pc = "write" /\ pc' = "commit" /\ dedup' = dedup
  BY Zenon DEF WriteBatch
<1>3. (Stamp \/ Marker # {} \/ pc = "commit")' => E' \subseteq W'
  <2>1. CASE Lands
    BY Zenon, <2>1, <1>l, <1>e, <1>k, <1>w
  <2>2. CASE Marks
    BY Zenon, <2>2, <1>m, <1>e, <1>k, <1>w
  <2>3. CASE Keeps
    BY Zenon, <2>3, <1>n, <1>e, <1>k, <1>w, <1>p, <1>z, <1>wb
  <2> QED
    BY Zenon, <2>1, <2>2, <2>3, <1>s, <1>a, <1>x
<1>4. Settled' => dedup' \subseteq W'
  <2>1. CASE PollRange
    BY Zenon, <2>1, <1>p, <1>w DEF Settled
  <2>2. CASE WriteBatch
    <3>1. Recognized(id) \/ Lands
      BY Zenon, <2>2, <1>s, <1>a, <1>x, <1>l, <1>m, <1>n, <1>wb DEF PollRange
    <3> QED
      BY Zenon, <2>2, <3>1, <1>wb, <1>z, <1>r, <1>k, <1>w
  <2> QED
    BY Zenon, <2>1, <2>2, MemoryStep, <1>k, <1>w
<1>5. pc' = "write" => dedup' \subseteq W' \cup KeysOf(rows') /\ E' \subseteq W' \cup KeysOf(rows')
  <2> SUFFICES ASSUME pc' = "write"
               PROVE  dedup' \subseteq W' \cup KeysOf(rows') /\ E' \subseteq W' \cup KeysOf(rows')
    BY Zenon
  <2>0. ~OpenSink
    BY Zenon DEF OpenSink
  <2>1. CASE PollRange
    <3>1. E' = E
      BY Zenon, <2>1, <1>s, <1>a, <1>x, <1>l, <1>m, <1>n, <1>e DEF PollRange
    <3> QED
      BY Zenon, <2>1, <3>1, <1>p, <1>w
  <2>2. CASE ~PollRange
    <3>1. dedup' = dedup /\ pc = "write"
      BY Zenon, <2>0, <2>2, <1>wb, MemoryStep
    <3>2. E' = E /\ rows' = rows
      BY Zenon, <2>2, <1>wb, <1>s, <1>a, <1>x, <1>l, <1>m, <1>n, <1>e
    <3> QED
      BY Zenon, <3>1, <3>2, <1>k, <1>w
  <2> QED
    BY Zenon, <2>1, <2>2
<1>6. pc' = "prune" => held'.dedup \subseteq W'
  <2>1. pc = "record" => Settled
    BY Zenon DEF Settled
  <2> QED
    BY Zenon, <2>1, HeldStep, <1>k, <1>w
<1> QED
  BY Zenon, <1>1, <1>2, <1>3, <1>4, <1>5, <1>6 DEF KeptInv, W, E

LEMMA KeptAlways == ASSUME Recorded, ~Persistent PROVE Spec => [](IInv /\ KeptInv)
<1>1. Init => KeptInv
  <2> SUFFICES ASSUME Init PROVE KeptInv
    BY Zenon
  <2>1. /\ Extent = {} /\ ckpt.offsets = {} /\ ckpt.dedup = {} /\ pc = "down"
    BY Zenon DEF Init, NoCheckpoint, Extent
  <2> QED
    BY <2>1 DEF KeptInv, Settled, KeysOf
<1>2. IInv /\ KeptInv /\ [Next]_vars => KeptInv'
  BY Zenon, KeptStep
<1> QED
  BY <1>1, <1>2, IInvAlways, PTL DEF Spec

\* dropDuplicates drops duplicates only, whatever crashes, lost acknowledgements and
\* failed saves interrupt a batch: the keys are remembered before the row that carries
\* them is written, and an error in between stops the query and with it the memory.
THEOREM NoKeyLost == ASSUME Recorded, ~Persistent PROVE Spec => []EveryKeyKept
<1>1. IInv /\ KeptInv => EveryKeyKept
  <2> SUFFICES ASSUME IInv, KeptInv, NEW r \in ckpt.offsets \ Blank
               PROVE  \E s \in Records : KeyOf[s] = KeyOf[r] /\ copies[s] > 0
    BY Zenon DEF EveryKeyKept
  <2>1. KeyOf[r] \in KeysOf(Written)
    BY Zenon DEF KeptInv, KeysOf
  <2>2. PICK s \in Written : KeyOf[s] = KeyOf[r]
    BY Zenon, <2>1 DEF KeysOf
  <2>3. s \in Records /\ copies[s] \in Nat /\ copies[s] >= 1
    BY Zenon DEF Written, IInv, TypeOK
  <2> QED
    BY <2>2, <2>3
<1> QED
  BY <1>1, KeptAlways, PTL

-----------------------------------------------------------------------------
(* Deduplication: one row a key *)

\* Nothing comes between a batch's rows and the keys of its record.
Uninterrupted == Faults \cap {"crash", "load", "ack", "commit_log", "save"} = {}

\* The keys of the table's rows are remembered on disk, unless a batch is between its
\* rows and its record, and in memory.
SameInv ==
  /\ \A r, s \in Written : KeyOf[r] = KeyOf[s] => r = s
  /\ pc \notin {"commit", "record", "prune"} =>
       ~Stamp /\ Marker = {} /\ KeysOf(Written) \subseteq ckpt.dedup
  /\ Settled => KeysOf(Written) \subseteq dedup
  /\ pc = "write" => /\ KeysOf(Written) \cup KeysOf(rows) \subseteq dedup
                     /\ KeysOf(Written) \cap KeysOf(rows) = {}
                     /\ \A r, s \in rows : KeyOf[r] = KeyOf[s] => r = s
  /\ pc = "prune" => KeysOf(Written) \subseteq held.dedup

\* A batch whose rows are in the table goes on to its record.
LEMMA NoWayOut ==
  ASSUME Uninterrupted, IInv, [Next]_vars
  PROVE  /\ pc \in {"commit", "record", "prune"} => pc' \in {"commit", "record", "prune"} \/ SaveRecord
         /\ pc = "write" /\ ~WriteBatch => UNCHANGED <<planned, commits, ckpt, logTxn, copies>>
         /\ SaveRecord => ckpt' = held /\ pc = "prune"
<1> USE DEF env, logs, table, task, batch
<1>f. "crash" \notin Faults /\ "ack" \notin Faults /\ "commit_log" \notin Faults /\ "save" \notin Faults
  BY Zenon DEF Uninterrupted
<1>1. SaveRecord => ckpt' = held /\ pc = "prune"
  BY Zenon, <1>f DEF SaveRecord
<1>2. pc \in {"commit", "record", "prune"} => pc' \in {"commit", "record", "prune"} \/ SaveRecord
  <2> SUFFICES ASSUME pc \in {"commit", "record", "prune"}, ~SaveRecord
               PROVE  pc' \in {"commit", "record", "prune"}
    BY Zenon
  <2>1. CASE SaveCommit \/ LoadRecord \/ PruneEntry
    BY Zenon, <2>1, <1>f DEF SaveCommit, LoadRecord, PruneEntry
  <2>2. CASE Stop \/ IdleTrigger \/ UNCHANGED vars \/ \E r \in Records : Arrive(r)
    BY ZenonT(60), <2>2 DEF Stop, IdleTrigger, vars, Arrive
  <2>3. ~(RecoverBatch \/ OpenSink \/ InitForQuery \/ Replay \/ PlanBatch \/ PollRange \/ WriteBatch)
    BY ZenonT(60) DEF RecoverBatch, OpenSink, InitForQuery, Replay, PlanBatch, PollRange, WriteBatch
  <2>4. ~(MarkDurable \/ StartQuery \/ Crash \/ SourceFails \/ ExpectationFails \/ WriteFails)
    BY ZenonT(60), <1>f DEF MarkDurable, StartQuery, Crash, SourceFails, ExpectationFails, WriteFails
  <2> QED
    BY ZenonT(60), <2>1, <2>2, <2>3, <2>4 DEF Next, Progress
<1>3. pc = "write" /\ ~WriteBatch => UNCHANGED <<planned, commits, ckpt, logTxn, copies>>
  <2> SUFFICES ASSUME pc = "write", ~WriteBatch
               PROVE  UNCHANGED <<planned, commits, ckpt, logTxn, copies>>
    BY Zenon
  <2>1. CASE WriteFails \/ ExpectationFails \/ Stop
    BY Zenon, <2>1, <1>f DEF WriteFails, ExpectationFails, Stop
  <2>2. CASE IdleTrigger \/ UNCHANGED vars \/ \E r \in Records : Arrive(r)
    BY ZenonT(60), <2>2 DEF IdleTrigger, vars, Arrive
  <2>3. ~(RecoverBatch \/ OpenSink \/ InitForQuery \/ Replay \/ PlanBatch \/ PollRange \/ SaveCommit)
    BY ZenonT(60) DEF RecoverBatch, OpenSink, InitForQuery, Replay, PlanBatch, PollRange, SaveCommit
  <2>4. ~(LoadRecord \/ PruneEntry \/ SaveRecord \/ MarkDurable \/ StartQuery \/ Crash \/ SourceFails)
    BY ZenonT(60), <1>f DEF LoadRecord, PruneEntry, SaveRecord, MarkDurable, StartQuery, Crash, SourceFails
  <2> QED
    BY ZenonT(60), <2>1, <2>2, <2>3, <2>4 DEF Next, Progress
<1> QED
  BY Zenon, <1>1, <1>2, <1>3

\* Two sets of rows with different keys, each with one row a key, make one such set.
LEMMA OneRowUnion ==
  ASSUME NEW R, NEW S, KeysOf(R) \cap KeysOf(S) = {},
         \A r, s \in R : KeyOf[r] = KeyOf[s] => r = s,
         \A r, s \in S : KeyOf[r] = KeyOf[s] => r = s
  PROVE  \A r, s \in R \cup S : KeyOf[r] = KeyOf[s] => r = s
<1>1. \A r \in R, s \in S : KeyOf[r] # KeyOf[s]
  BY DEF KeysOf
<1> QED
  BY <1>1

\* Every step keeps it.
LEMMA SameStep ==
  ASSUME Dedup, Uninterrupted, IInv, SameInv, [Next]_vars
  PROVE  SameInv'
<1> DEFINE W == KeysOf(Written)
           Unique(R) == \A r, s \in R : KeyOf[r] = KeyOf[s] => r = s
<1>t. TaskInv /\ LogInv
  BY Zenon DEF IInv
<1>u. Recorded
  BY Zenon DEF Uninterrupted, Recorded
<1>s. Advances \/ Extends \/ Lands \/ Marks \/ Keeps
  BY Zenon, <1>u, DiskStep
<1>k. /\ Unique(Written)
      /\ pc \notin {"commit", "record", "prune"} => ~Stamp /\ Marker = {} /\ W \subseteq ckpt.dedup
      /\ Settled => W \subseteq dedup
      /\ pc = "write" => W \cup KeysOf(rows) \subseteq dedup /\ W \cap KeysOf(rows) = {} /\ Unique(rows)
      /\ pc = "prune" => W \subseteq held.dedup
  BY Zenon DEF SameInv
<1>wb. WriteBatch => pc = "write" /\ pc' = "commit" /\ dedup' = dedup
  BY Zenon DEF WriteBatch
<1>w. ~WriteBatch => Written' = Written
  <2> SUFFICES ASSUME ~WriteBatch PROVE Written' = Written
    BY Zenon
  <2>1. CASE pc = "write"
    BY Zenon, <2>1, NoWayOut, RowsStay, <1>u
  <2>2. CASE pc # "write"
    <3>1. copies' = copies
      BY Zenon, <2>2, <1>s DEF Advances, Extends, Lands, Marks, Keeps
    <3> QED
      BY Zenon, <3>1, RowsStay, <1>u
  <2> QED
    BY Zenon, <2>1, <2>2
<1>v. ~WriteBatch => W' = W
  BY Zenon, <1>w
<1>x. WriteBatch => W' \subseteq W \cup KeysOf(rows) /\ Unique(Written')
  <2> SUFFICES ASSUME WriteBatch PROVE W' \subseteq W \cup KeysOf(rows) /\ Unique(Written')
    BY Zenon
  <2>1. CASE UNCHANGED copies
    <3>1. Written' = Written
      BY Zenon, <2>1, RowsStay, <1>u
    <3> QED
      BY Zenon, <3>1, <1>k
  <2>2. CASE Land
    <3>1. Written' = Written \cup rows
      <4>1. /\ rows \subseteq Records /\ \A r \in Records : copies[r] \in Nat
            /\ \A r \in Records : copies'[r] = IF r \in rows THEN copies[r] + 1 ELSE copies[r]
        BY Zenon, <2>2 DEF Land, IInv, TypeOK
      <4> QED
        BY <4>1 DEF Written
    <3>2. W' = W \cup KeysOf(rows)
      BY Zenon, <3>1, KeysOfUnion
    <3>3. Unique(Written \cup rows)
      BY Zenon, <1>k, <1>wb, OneRowUnion
    <3> QED
      BY Zenon, <3>1, <3>2, <3>3
  <2> QED
    BY Zenon, <2>1, <2>2 DEF WriteBatch
<1>c. ~SaveRecord => ckpt'.dedup = ckpt.dedup
  BY Zenon, KeysOnDisk, <1>u
<1>1. Unique(Written')
  BY Zenon, <1>w, <1>x, <1>k
<1> HIDE DEF W, Unique
<1>2. pc' \notin {"commit", "record", "prune"} => ~Stamp' /\ Marker' = {} /\ W' \subseteq ckpt'.dedup
  <2> SUFFICES ASSUME pc' \notin {"commit", "record", "prune"}
               PROVE  ~Stamp' /\ Marker' = {} /\ W' \subseteq ckpt'.dedup
    BY Zenon
  <2>0. ~WriteBatch /\ W' = W
    BY Zenon, <1>wb, <1>v
  <2>1. CASE pc \in {"commit", "record", "prune"}
    <3>1. SaveRecord /\ pc = "prune" /\ ckpt' = held
      BY Zenon, <2>1, NoWayOut
    <3>2. /\ held.offsets = ckpt.offsets \cup Extent /\ Marker # {} /\ Extent # {}
          /\ Extent \cap ckpt.offsets = {}
      BY Zenon, <3>1, <1>t DEF TaskInv, LogInv
    <3>3. Advances
      <4>1. ckpt'.offsets # ckpt.offsets
        BY <3>1, <3>2
      <4> QED
        BY Zenon, <4>1, <3>1, <1>s DEF Extends, Lands, Marks, Keeps
    <3> QED
      BY Zenon, <3>1, <3>3, <2>0, <1>k DEF Advances
  <2>2. CASE pc = "write"
    <3>1. UNCHANGED <<planned, commits, ckpt, logTxn>>
      BY Zenon, <2>0, <2>2, NoWayOut
    <3>2. ~Stamp' /\ Marker' = {}
      BY <3>1, <2>2, SameDisk, <1>k
    <3> QED
      BY Zenon, <3>1, <3>2, <2>0, <2>2, <1>k
  <2>3. CASE pc \notin {"write", "commit", "record", "prune"}
    <3>1. ~Stamp /\ Marker = {} /\ W \subseteq ckpt.dedup /\ pc # "write" /\ pc # "commit"
      BY Zenon, <2>3, <1>k
    <3>2. ~Stamp' /\ Marker' = {}
      BY <3>1, <1>s DEF Advances, Extends, Lands, Marks, Keeps
    <3>3. ~SaveRecord
      BY Zenon, <2>3 DEF SaveRecord
    <3> QED
      BY Zenon, <3>1, <3>2, <3>3, <2>0, <1>c
  <2> QED
    BY Zenon, <2>1, <2>2, <2>3
<1>p. PollRange => /\ W \subseteq dedup /\ W' = W /\ dedup \cup KeysOf(rows') \subseteq dedup'
                   /\ dedup \cap KeysOf(rows') = {} /\ Unique(rows')
  <2> SUFFICES ASSUME PollRange
               PROVE  /\ W \subseteq dedup /\ W' = W /\ dedup \cup KeysOf(rows') \subseteq dedup'
                      /\ dedup \cap KeysOf(rows') = {} /\ Unique(rows')
    BY Zenon
  <2>1. Settled /\ ~WriteBatch
    BY Zenon DEF PollRange, Settled, WriteBatch
  <2>2. /\ dedup' = dedup \cup KeysOf(range \ Blank)
        /\ KeysOf(rows') = KeysOf(range \ Blank) \ dedup /\ Unique(rows')
    BY Zenon, PolledKeys DEF Unique
  <2> QED
    BY Zenon, <2>1, <2>2, <1>k, <1>v
<1>3. Settled' => W' \subseteq dedup'
  <2>1. CASE PollRange
    BY Zenon, <2>1, <1>p
  <2>2. CASE WriteBatch
    BY Zenon, <2>2, <1>wb, <1>x, <1>k
  <2>3. CASE OpenSink /\ dedup' = ckpt.dedup
    <3>1. pc = "recover" /\ ~WriteBatch
      BY Zenon, <2>3 DEF OpenSink, WriteBatch
    <3> QED
      BY Zenon, <2>3, <3>1, <1>k, <1>v
  <2> QED
    BY Zenon, <2>1, <2>2, <2>3, MemoryStep, <1>u, <1>k, <1>v
<1>4. pc' = "write" => /\ W' \cup KeysOf(rows') \subseteq dedup' /\ W' \cap KeysOf(rows') = {}
                       /\ Unique(rows')
  <2> SUFFICES ASSUME pc' = "write"
               PROVE  /\ W' \cup KeysOf(rows') \subseteq dedup' /\ W' \cap KeysOf(rows') = {}
                      /\ Unique(rows')
    BY Zenon
  <2>1. CASE PollRange
    BY Zenon, <2>1, <1>p
  <2>2. CASE ~PollRange
    <3>0. ~WriteBatch /\ ~OpenSink
      BY Zenon, <1>wb DEF OpenSink
    <3>1. dedup' = dedup /\ pc = "write"
      BY Zenon, <3>0, <2>2, MemoryStep, <1>u
    <3>2. rows' = rows
      BY Zenon, <3>0, <3>1, <2>2, <1>s DEF Advances, Extends, Lands, Marks, Keeps
    <3> QED
      BY Zenon, <3>0, <3>1, <3>2, <1>k, <1>v
  <2> QED
    BY Zenon, <2>1, <2>2
<1>5. pc' = "prune" => W' \subseteq held'.dedup
  <2>1. pc = "record" => Settled
    BY Zenon DEF Settled
  <2>2. pc' = "prune" => ~WriteBatch
    BY Zenon, <1>wb
  <2> QED
    BY Zenon, <2>1, <2>2, HeldStep, <1>u, <1>k, <1>v
<1> QED
  BY Zenon, <1>1, <1>2, <1>3, <1>4, <1>5 DEF SameInv, W, Unique

LEMMA SameAlways == ASSUME Dedup, Uninterrupted PROVE Spec => [](IInv /\ SameInv)
<1>0. Recorded
  BY Zenon DEF Uninterrupted, Recorded
<1>1. Init => SameInv
  <2> SUFFICES ASSUME Init PROVE SameInv
    BY Zenon
  <2>1. /\ ~Stamp /\ Marker = {} /\ pc = "down"
    BY Zenon DEF Init, NoCheckpoint, Marker, Stamp
  <2>2. \A r \in Records : copies[r] = 0
    BY Zenon DEF Init
  <2>3. Written = {}
    BY <2>2 DEF Written
  <2> QED
    BY <2>1, <2>3 DEF SameInv, Settled, KeysOf
<1>2. IInv /\ SameInv /\ [Next]_vars => SameInv'
  BY Zenon, SameStep
<1> QED
  BY <1>0, <1>1, <1>2, IInvAlways, PTL DEF Spec

\* With the duplicates dropped the table holds one row of a key, over every batch and every
\* restart, while nothing interrupts the steps from a batch's rows to its record:
\* run_batch_inner stores the keys that dedup_batches remembered with the record.
THEOREM OneRowForAKey == ASSUME Dedup, Uninterrupted PROVE Spec => []OneRowPerKey
<1>0. Recorded /\ "ack" \notin Faults
  BY Zenon DEF Uninterrupted, Recorded
<1>1. IInv /\ OnceInv /\ SameInv => OneRowPerKey
  <2> SUFFICES ASSUME IInv, OnceInv, SameInv PROVE OneRowPerKey
    BY Zenon
  <2>1. \A r \in Records : copies[r] \in Nat
    BY Zenon DEF IInv, TypeOK
  <2>2. \A r \in Records : copies[r] > 0 => r \in Written
    BY <2>1 DEF Written
  <2> QED
    BY Zenon, <2>2 DEF OnceInv, SameInv, OneRowPerKey
<1> QED
  BY <1>0, <1>1, OnceAlways, SameAlways, PTL
=============================================================================
