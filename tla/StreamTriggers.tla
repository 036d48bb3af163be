--------------------------- MODULE StreamTriggers ---------------------------
(***************************************************************************)
(* The callers of one streaming query: the trigger task that Spark Connect *)
(* starts (oxidant-connect/streaming.rs), ProcessAllAvailable commands,    *)
(* stop and fail, over run_batch and process_all_available                 *)
(* (oxidant-streaming/scheduler.rs).  A batch runs under the runtime lock; *)
(* is_active is under a lock of its own.  What a batch writes is that of   *)
(* MicroBatch; here it moves the source's position and then commits.       *)
(***************************************************************************)
EXTENDS Naturals, Sequences

CONSTANTS
  Clients,            \* senders of ProcessAllAvailable commands
  Task,               \* the trigger's task
  Blank,              \* source offsets that yield no row
  MaxDrainBatches,    \* MAX_DRAIN_BATCHES
  MaxOffset,          \* bound: what the source ever holds, offsets 1..MaxOffset
  MaxFailures,        \* bound: batches that fail
  MaxCommands         \* bound: ProcessAllAvailable commands of a client

ASSUME ConstantsAssumption ==
  /\ Task \notin Clients /\ Blank \subseteq Nat /\ MaxDrainBatches \in Nat \ {0}
  /\ {MaxOffset, MaxFailures, MaxCommands} \subseteq Nat

Callers == Clients \cup {Task}

VARIABLES
  trigger,  \* "ticker": processing time; "once": once or availableNow
  hasEnd,   \* available_end answers (FileSource has none)
  avail,    \* the source's end
  pos,      \* Source: committed_offsets, moved by poll_range
  planned,  \* disk: offsets/N of the batch after the last, {} or {range}
  log,      \* disk: the ranges of the committed batches, by batch id
  active,   \* status.is_active
  at,       \* where each caller is
  lock,     \* who holds the runtime lock, {} or {caller}
  drain,    \* process_all_available of each caller: boundary, batches run, ...
  left,     \* commands a client may still send
  failures, \* batches that failed
  late,     \* history: batches each caller began after the query stopped
  mishaps   \* history: what cut a drain short

source == <<trigger, hasEnd, avail>>
disk   == <<planned, log>>
vars   == <<source, pos, disk, active, at, lock, drain, left, failures, late, mishaps>>

Places == {"rest", "bound", "check", "wait", "poll", "write", "rows", "empty", "reach",
           "status", "fail", "stop", "gone"}

\* A drain: its boundary, the batches it ran, and of its first look at the source
\* the end and what was committed (history).  ok: it returned Ok.
NoDrain == [boundary |-> {}, n |-> 0, target |-> 0, from |-> 0, ok |-> FALSE]

Committed == IF log = <<>> THEN 0 ELSE log[Len(log)].to
Ranges    == [from : 0..MaxOffset, to : 0..MaxOffset]
Rows(r)   == ((r.from + 1)..r.to) \ Blank

TypeOK ==
  /\ trigger \in {"ticker", "once"} /\ hasEnd \in BOOLEAN /\ avail \in 0..MaxOffset /\ pos \in 0..avail
  /\ planned \subseteq Ranges /\ (\A r, q \in planned : r = q) /\ log \in Seq(Ranges)
  /\ active \in BOOLEAN /\ at \in [Callers -> Places]
  /\ lock \subseteq Callers /\ lock = {c \in Callers : at[c] \in {"poll", "write"}}
  /\ drain \in [Callers -> [boundary : SUBSET (0..MaxOffset), n : 0..MaxDrainBatches,
                            target : 0..MaxOffset, from : 0..MaxOffset, ok : BOOLEAN]]
  /\ left \in [Callers -> 0..MaxCommands] /\ failures \in 0..MaxFailures
  /\ late \in [Callers -> Nat] /\ mishaps \subseteq {"failed", "stopped", "blank"}

Init ==
  /\ trigger \in {"ticker", "once"} /\ hasEnd \in BOOLEAN
  /\ avail = 0 /\ pos = 0 /\ planned = {} /\ log = <<>>
  /\ active = TRUE /\ at = [c \in Callers |-> "rest"] /\ lock = {}
  /\ drain = [c \in Callers |-> NoDrain] /\ left = [c \in Callers |-> MaxCommands]
  /\ failures = 0 /\ late = [c \in Callers |-> 0] /\ mishaps = {}

Go(c, where) == at' = [at EXCEPT ![c] = where]

\* Records arrive.
Arrive == /\ avail < MaxOffset /\ avail' = avail + 1
          /\ UNCHANGED <<trigger, hasEnd, pos, disk, active, at, lock, drain, left, failures, late, mishaps>>

\* The stop command: it takes no lock of the batch.
Stop == /\ active /\ active' = FALSE /\ mishaps' = mishaps \cup {"stopped"}
        /\ UNCHANGED <<source, pos, disk, at, lock, drain, left, failures, late>>

-----------------------------------------------------------------------------
(* A caller's loop *)

\* The interval elapses, or the once task starts.
Tick(c) ==
  /\ c = Task /\ at[c] = "rest"
  /\ Go(c, IF trigger = "ticker" THEN "check" ELSE "bound")
  /\ UNCHANGED <<source, pos, disk, active, lock, drain, left, failures, late, mishaps>>

\* ProcessAllAvailable comes in.
Command(c) ==
  /\ c # Task /\ at[c] = "rest" /\ left[c] > 0
  /\ left' = [left EXCEPT ![c] = @ - 1]
  /\ Go(c, "bound") /\ drain' = [drain EXCEPT ![c] = NoDrain]
  /\ UNCHANGED <<source, pos, disk, active, lock, failures, late, mishaps>>

\* available_now_boundary, under the runtime lock.
Bound(c) ==
  /\ at[c] = "bound" /\ lock = {}
  /\ drain' = [drain EXCEPT ![c].boundary = IF hasEnd THEN {avail} ELSE {},
                            ![c].target = IF drain[c].n = 0 THEN avail ELSE @,
                            ![c].from = IF drain[c].n = 0 THEN Committed ELSE @]
  /\ Go(c, "check")
  /\ UNCHANGED <<source, pos, disk, active, lock, left, failures, late, mishaps>>

\* Mutant: run_batch does not look at the flag.
CheckNothing(c) ==
  /\ at[c] = "check"
  /\ Go(c, "wait")
  /\ UNCHANGED <<source, pos, disk, active, lock, drain, left, failures, late, mishaps>>

\* run_batch reads is_active, and only then waits for the runtime lock.
Check(c) ==
  /\ at[c] = "check"
  /\ Go(c, IF active THEN "wait" ELSE "empty")
  /\ UNCHANGED <<source, pos, disk, active, lock, drain, left, failures, late, mishaps>>

Began(c) == late' = [late EXCEPT ![c] = IF active THEN @ ELSE @ + 1]

\* plan_batch: everything up to the end, or under a budget some of it.
Plans == {[from |-> pos, to |-> e] : e \in (pos + 1)..avail}

\* Mutant: plans again after a failed batch that had moved the position.
BeginReplanning(c) ==
  /\ at[c] = "wait" /\ lock = {} /\ avail > pos
  /\ \E r \in Plans : planned' = {r}
  /\ lock' = {c} /\ Go(c, "poll") /\ Began(c)
  /\ UNCHANGED <<source, pos, log, active, drain, left, failures, mishaps>>

\* Mutant: the batch does not wait for the one in flight.
BeginAnyway(c) ==
  /\ at[c] = "wait" /\ (planned # {} \/ avail > pos)
  /\ IF planned # {} THEN UNCHANGED planned ELSE \E r \in Plans : planned' = {r}
  /\ lock' = {c} /\ Go(c, "poll") /\ Began(c)
  /\ UNCHANGED <<source, pos, log, active, drain, left, failures, mishaps>>

\* run_batch_inner has the lock: the recorded range, or a new one recorded.
Begin(c) ==
  /\ at[c] = "wait" /\ lock = {} /\ (planned # {} \/ avail > pos)
  /\ IF planned # {} THEN UNCHANGED planned ELSE \E r \in Plans : planned' = {r}
  /\ lock' = {c} /\ Go(c, "poll") /\ Began(c)
  /\ UNCHANGED <<source, pos, log, active, drain, left, failures, mishaps>>

\* Nothing recorded and nothing new.
Idle(c) ==
  /\ at[c] = "wait" /\ lock = {} /\ planned = {} /\ avail = pos
  /\ Go(c, "empty")
  /\ UNCHANGED <<source, pos, disk, active, lock, drain, left, failures, late, mishaps>>

Poll(c) ==
  /\ at[c] = "poll"
  /\ \E r \in planned : pos' = r.to
  /\ Go(c, "write")
  /\ UNCHANGED <<source, disk, active, lock, drain, left, failures, late, mishaps>>

\* The batch commits; batch_id advances; the caller learns how many rows were read.
Commit(c) ==
  /\ at[c] = "write"
  /\ \E r \in planned :
       /\ log' = Append(log, r)
       /\ Go(c, IF Rows(r) = {} THEN "empty" ELSE "rows")
       /\ mishaps' = mishaps \cup IF Rows(r) = {} THEN {"blank"} ELSE {}
  /\ planned' = {} /\ lock' = {}
  /\ UNCHANGED <<source, pos, active, drain, left, failures, late>>

\* An error before or after poll_range moved the position.
BatchFails(c) ==
  /\ at[c] \in {"poll", "write"} /\ failures < MaxFailures
  /\ failures' = failures + 1 /\ mishaps' = mishaps \cup {"failed"} /\ lock' = {}
  /\ Go(c, IF c = Task THEN "fail" ELSE "rest")
  /\ UNCHANGED <<source, pos, disk, active, drain, left, late>>

Ticks(c) == c = Task /\ trigger = "ticker"

\* process_all_available returns Ok; the once trigger then stops the query.
Return(c) ==
  /\ drain' = [drain EXCEPT ![c].ok = TRUE]
  /\ Go(c, IF c = Task THEN "stop" ELSE "rest")

\* A batch that read no row ends a drain.
Empty(c) ==
  /\ at[c] = "empty"
  /\ IF Ticks(c) THEN Go(c, "status") /\ UNCHANGED drain ELSE Return(c)
  /\ UNCHANGED <<source, pos, disk, active, lock, left, failures, late, mishaps>>

Counted(c) ==
  /\ at[c] = "rows"
  /\ IF Ticks(c)
       THEN Go(c, "status") /\ UNCHANGED drain
       ELSE Go(c, "reach") /\ drain' = [drain EXCEPT ![c].n = @ + 1]
  /\ UNCHANGED <<source, pos, disk, active, lock, left, failures, late, mishaps>>

\* Mutants: one batch is taken for the whole drain; the boundary moves with the source.
ReachedFirst(c) == drain[c].boundary # {}
ReachedNow(c) == drain[c].boundary # {} /\ pos >= avail

Reached(c) == \E b \in drain[c].boundary : pos >= b

\* reached_boundary, under the runtime lock; the next turn otherwise.
Reach(c) ==
  /\ at[c] = "reach" /\ lock = {}
  /\ IF Reached(c) \/ drain[c].n = MaxDrainBatches THEN Return(c)
     ELSE Go(c, IF drain[c].boundary = {} THEN "bound" ELSE "check") /\ UNCHANGED drain
  /\ UNCHANGED <<source, pos, disk, active, lock, left, failures, late, mishaps>>

\* The ticker ends once the query is inactive.
Status(c) ==
  /\ at[c] = "status"
  /\ Go(c, IF active THEN "rest" ELSE "gone")
  /\ UNCHANGED <<source, pos, disk, active, lock, drain, left, failures, late, mishaps>>

\* Mutant: the once trigger leaves the query active.
EndLeavingActive(c) ==
  /\ at[c] \in {"fail", "stop"}
  /\ active' = (active /\ at[c] = "stop")
  /\ mishaps' = mishaps \cup {"stopped"} /\ Go(c, "gone")
  /\ UNCHANGED <<source, pos, disk, lock, drain, left, failures, late>>

\* mgr.fail after an error, mgr.stop after a drain: the query is inactive.
End(c) ==
  /\ at[c] \in {"fail", "stop"}
  /\ active' = FALSE /\ mishaps' = mishaps \cup {"stopped"} /\ Go(c, "gone")
  /\ UNCHANGED <<source, pos, disk, lock, drain, left, failures, late>>

Step(c) == \/ Bound(c) \/ Check(c) \/ Begin(c) \/ Idle(c) \/ Poll(c) \/ Commit(c)
           \/ Empty(c) \/ Counted(c) \/ Reach(c) \/ Status(c) \/ End(c) \/ Tick(c)

Next == \/ Arrive \/ Stop
        \/ \E c \in Callers : Step(c) \/ BatchFails(c) \/ Command(c)

Spec == Init /\ [][Next]_vars

\* Tasks are scheduled, the interval elapses, and the runtime lock (tokio's Mutex
\* is first come, first served) reaches every caller that waits for it.
FairSpec == Spec /\ \A c \in Callers : SF_vars(Step(c))

-----------------------------------------------------------------------------
(* Properties *)

\* Whoever runs them, batches are committed one after another: each starts where
\* the one before it ended, and reads something.
BatchesChain ==
  \A i \in DOMAIN log :
    log[i].from < log[i].to /\ log[i].from = IF i = 1 THEN 0 ELSE log[i - 1].to

\* The query is stopped or has failed, and run_batch read is_active before that: a
\* caller then begins one batch, the one it was waiting to run, and no other.
OneLateBatch == \A c \in Callers : late[c] <= 1

\* A drain that returns Ok has committed all that was available when it started,
\* unless a batch failed, the query was stopped or a batch had no row.
DrainCovers ==
  mishaps = {} => \A c \in Callers : drain[c].ok => drain[c].target <= Committed

\* A drain follows the source no further than the end it found: every batch it runs
\* starts below that end, however fast records arrive, the first excepted.
DrainBounded ==
  \A c \in Callers : hasEnd /\ drain[c].n > 1 =>
    drain[c].n <= drain[c].target - drain[c].from

\* once and availableNow terminate the query, with its other callers about and the
\* source being written to.
OnceTerminates == trigger = "once" ~> ~active
=============================================================================
