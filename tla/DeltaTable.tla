----------------------------- MODULE DeltaTable -----------------------------
(***************************************************************************)
(* The Delta transaction log and its writers (delta_write.rs).  A commit   *)
(* is a PUT of _delta_log/N.json that fails if the object exists; a writer *)
(* keeps its view of the log in memory between commits and reads the log,  *)
(* one object at a time, when it opens and when it loses a version race.   *)
(*                                                                         *)
(* Each writer serves one caller that numbers its batches 1, 2, ... and    *)
(* offers a batch again until its write returns Ok, across crashes too:    *)
(* what MicroBatch establishes of the streaming scheduler.                 *)
(***************************************************************************)
EXTENDS Integers, Sequences, FiniteSets

CONSTANTS
  Writers,       \* DeltaTableWriter instances
  App,           \* App[w]: its app_id
  Modes,         \* Modes[w]: the calls its caller makes, of "append" and "replace"
  Interval,      \* checkpoint_interval
  CommitAttempts,\* COMMIT_ATTEMPTS
  FailureLimit,  \* CHECKPOINT_FAILURE_LIMIT
  Faults,        \* the faults of this environment, from FaultKinds
  MaxBatch,      \* bound: batches per writer
  MaxFiles       \* bound: data files per writer, and compactions

FaultKinds == {"crash",      \* a writer's process dies and reopens the table
               "put",        \* a PUT of a commit fails and did not land
               "ack",        \* a PUT of a commit lands and its answer is an error
               "read",       \* a GET fails
               "checkpoint", \* a PUT of a checkpoint or of its hint fails
               "unreadable", \* a checkpoint cannot be parsed
               "compact"}    \* another engine compacts the table

ASSUME ConstantsAssumption ==
  /\ "other" \notin Writers
  /\ DOMAIN App = Writers /\ Modes \in [Writers -> SUBSET {"append", "replace"}]
  /\ Interval \in Nat /\ {MaxBatch, MaxFiles} \subseteq Nat
  /\ {CommitAttempts, FailureLimit} \subseteq Nat \ {0}
  /\ Faults \subseteq FaultKinds

Apps  == {App[w] : w \in Writers}
Other == "other"                                  \* an engine that is not Oxidant
Files == (Writers \cup {Other}) \X (1..MaxFiles)  \* names are fresh (a uuid prefix)

\* A commit's actions, and the table's files once it is applied.
Commits == [by : Writers \cup {Other}, txn : Nat, adds : SUBSET Files,
            removes : SUBSET Files, after : SUBSET Files]

\* LogState: the next version, the live files, whether they can be trusted,
\* and the highest txn version committed under the reader's appId.
LogState == [next : Nat, live : SUBSET Files, trusted : BOOLEAN, txn : Nat]
Unread   == [next |-> 0, live |-> {}, trusted |-> TRUE, txn |-> 0]

\* The state past a checkpoint that could not be read.
Unknown(version) == [next |-> version + 1, live |-> {}, trusted |-> FALSE, txn |-> 0]

VARIABLES
  log,        \* _delta_log/N.json is log[N + 1]
  checkpoint, \* checkpoints written: version, live files, writer's appId and txn
  hint,       \* _last_checkpoint: a version, or -1
  pc,         \* where each writer is
  view,       \* next_version, live_files, committed_txn of each writer
  scan,       \* LogState::read in progress
  adds,       \* files of the write in progress
  replacing,  \* writers whose write in progress is a replace
  attempt,    \* commit_inner: attempts made
  failures,   \* checkpoint_failures; FailureLimit switches checkpoints off
  written,    \* data files each writer (and the other engine) has written
  acked       \* the last batch the caller knows to be written

disk  == <<log, checkpoint, hint>>
write == <<adds, replacing>>
vars  == <<disk, pc, view, scan, write, attempt, failures, written, acked>>

TypeOK ==
  /\ log \in Seq(Commits)
  /\ checkpoint \subseteq [version : Nat, live : SUBSET Files, app : Apps, txn : Nat]
  /\ hint \in Nat \cup {-1}
  /\ pc \in [Writers -> {"closed", "opening", "idle", "commit", "rereading", "checkpoint", "hint", "done"}]
  /\ view \in [Writers -> LogState] /\ scan \in [Writers -> LogState]
  /\ adds \in [Writers -> SUBSET Files] /\ replacing \subseteq Writers
  /\ attempt \in [Writers -> 0..(CommitAttempts - 1)]
  /\ failures \in [Writers -> 0..FailureLimit]
  /\ written \in [Writers \cup {Other} -> Nat] /\ acked \in [Writers -> Nat]

Init ==
  /\ log = <<>> /\ checkpoint = {} /\ hint = -1
  /\ pc = [w \in Writers |-> "closed"]
  /\ view = [w \in Writers |-> Unread] /\ scan = [w \in Writers |-> Unread]
  /\ adds = [w \in Writers |-> {}] /\ replacing = {}
  /\ attempt = [w \in Writers |-> 0] /\ failures = [w \in Writers |-> 0]
  /\ written = [w \in Writers \cup {Other} |-> 0]
  /\ acked = [w \in Writers |-> 0]

\* The table's files after the first n commits.
After(n) == IF n = 0 THEN {} ELSE log[n].after

Max(m, n) == IF m < n THEN n ELSE m

\* The object of a version is written; version Len(log) is the next one.
Commit(version, by, txn, new, gone) ==
  log' = [n \in 1..Max(Len(log), version + 1) |->
            IF n # version + 1 THEN log[n]
            ELSE [by |-> by, txn |-> txn, adds |-> new, removes |-> gone,
                  after |-> (After(version) \ gone) \cup new]]

-----------------------------------------------------------------------------
(* LogState::read *)

\* A checkpoint object: the state it restores for a reader, whose own txn it
\* carries only if the reader's appId wrote it.
FromCheckpoint(w, c) ==
  [next |-> c.version + 1, live |-> c.live, trusted |-> TRUE,
   txn |-> IF c.app = App[w] THEN c.txn ELSE 0]

\* Mutant: a checkpoint that cannot be read leaves an empty, trusted table.
StartsTrusting(w) ==
  (IF hint = -1 \/ "read" \in Faults THEN {Unread} ELSE {})
  \cup {FromCheckpoint(w, c) : c \in {d \in checkpoint : d.version = hint}}
  \cup (IF hint # -1 /\ Faults \cap {"read", "unreadable"} # {}
        THEN {[Unread EXCEPT !.next = hint + 1]} ELSE {})

\* Where a read starts: the hinted checkpoint; nothing, from version 0, if there
\* is no hint or it cannot be read; nothing, past the checkpoint and not to be
\* trusted, if the checkpoint cannot be read.
Starts(w) ==
  (IF hint = -1 \/ "read" \in Faults THEN {Unread} ELSE {})
  \cup {FromCheckpoint(w, c) : c \in {d \in checkpoint : d.version = hint}}
  \cup (IF hint # -1 /\ Faults \cap {"read", "unreadable"} # {}
        THEN {Unknown(hint)} ELSE {})

\* Mutant: the txn of any appId is taken for ours.
ReplayedAnyApp(w, s, c) ==
  [next |-> s.next + 1, live |-> (s.live \ c.removes) \cup c.adds,
   trusted |-> s.trusted /\ c.removes \subseteq s.live, txn |-> Max(s.txn, c.txn)]

\* One commit replayed over the state so far.
Replayed(w, s, c) ==
  [next |-> s.next + 1,
   live |-> (s.live \ c.removes) \cup c.adds,
   trusted |-> s.trusted /\ c.removes \subseteq s.live,
   txn |-> IF c.by # Other /\ App[c.by] = App[w] THEN Max(s.txn, c.txn) ELSE s.txn]

Open(w) ==
  /\ pc[w] = "closed"
  /\ \E s \in Starts(w) : scan' = [scan EXCEPT ![w] = s]
  /\ pc' = [pc EXCEPT ![w] = "opening"]
  /\ UNCHANGED <<disk, view, write, attempt, failures, written, acked>>

ReadCommit(w) ==
  /\ pc[w] \in {"opening", "rereading"} /\ scan[w].next < Len(log)
  /\ scan' = [scan EXCEPT ![w] = Replayed(w, scan[w], log[scan[w].next + 1])]
  /\ UNCHANGED <<disk, pc, view, write, attempt, failures, written, acked>>

\* Mutant: a re-read refreshes the version and not the live set.
ReadEndStale(w) ==
  /\ pc[w] \in {"opening", "rereading"} /\ scan[w].next = Len(log)
  /\ view' = [view EXCEPT ![w] = IF pc[w] = "opening" THEN scan[w]
                                 ELSE [@ EXCEPT !.next = scan[w].next]]
  /\ scan' = [scan EXCEPT ![w] = Unread]
  /\ pc' = [pc EXCEPT ![w] = IF pc[w] = "opening" THEN "idle" ELSE "commit"]
  /\ UNCHANGED <<disk, write, attempt, failures, written, acked>>

\* NotFound ends the read: the writer opens, or goes back to its commit.
ReadEnd(w) ==
  /\ pc[w] \in {"opening", "rereading"} /\ scan[w].next = Len(log)
  /\ view' = [view EXCEPT ![w] = scan[w]] /\ scan' = [scan EXCEPT ![w] = Unread]
  /\ pc' = [pc EXCEPT ![w] = IF pc[w] = "opening" THEN "idle" ELSE "commit"]
  /\ UNCHANGED <<disk, write, attempt, failures, written, acked>>

-----------------------------------------------------------------------------
(* append and replace *)

batch(w) == acked[w] + 1

EndWrite(w) == adds' = [adds EXCEPT ![w] = {}] /\ replacing' = replacing \ {w}

\* The caller's batch is one this appId already committed: Ok, nothing written.
Deduplicated(w) ==
  /\ pc[w] = "idle" /\ batch(w) <= MaxBatch
  /\ batch(w) <= view[w].txn
  /\ pc' = [pc EXCEPT ![w] = "done"]
  /\ UNCHANGED <<disk, view, scan, write, attempt, failures, written, acked>>

\* replace refuses without an authoritative live set.
MayWrite(w) == w \in replacing => view[w].trusted

\* Mutant: no look at the txn stamp.
WriteFilesAgain(w) ==
  /\ pc[w] = "idle" /\ batch(w) <= MaxBatch /\ written[w] < MaxFiles
  /\ written' = [written EXCEPT ![w] = @ + 1]
  /\ adds' = [adds EXCEPT ![w] = {<<w, written[w] + 1>>}]
  /\ pc' = [pc EXCEPT ![w] = "commit"] /\ attempt' = [attempt EXCEPT ![w] = 0]
  /\ UNCHANGED <<disk, view, scan, replacing, failures, acked>>

\* append or replace is called: the txn check, then write_data_files.  A replace
\* may have no rows, and needs a live set to retire.
WriteFiles(w) ==
  /\ pc[w] = "idle" /\ batch(w) <= MaxBatch /\ batch(w) > view[w].txn
  /\ \/ "append" \in Modes[w] /\ UNCHANGED replacing
     \/ "replace" \in Modes[w] /\ view[w].trusted /\ replacing' = replacing \cup {w}
  /\ \/ /\ written[w] < MaxFiles
        /\ written' = [written EXCEPT ![w] = @ + 1]
        /\ adds' = [adds EXCEPT ![w] = {<<w, written[w] + 1>>}]
     \/ /\ w \in replacing'
        /\ adds' = [adds EXCEPT ![w] = {}] /\ UNCHANGED written
  /\ pc' = [pc EXCEPT ![w] = "commit"] /\ attempt' = [attempt EXCEPT ![w] = 0]
  /\ UNCHANGED <<disk, view, scan, failures, acked>>

\* The remove list of this attempt: every file live in the writer's view.
Removes(w) == IF w \in replacing THEN view[w].live ELSE {}

\* PutMode::Create: the version is free.
Free(w) == view[w].next = Len(log)

\* The write's files and, when they replace the table, what they retire.
Put(w) == Commit(view[w].next, w, batch(w), adds[w], Removes(w))

\* Mutant: a checkpoint of a live set that cannot be trusted.
DueAnyway(w, version) == /\ Interval # 0 /\ failures[w] < FailureLimit
                         /\ (version + 1) % Interval = 0

Due(w, version) == /\ Interval # 0 /\ failures[w] < FailureLimit
                   /\ (version + 1) % Interval = 0
                   /\ view[w].trusted

\* The view once its commit landed.
Moved(w) == [next |-> view[w].next + 1, live |-> (view[w].live \ Removes(w)) \cup adds[w],
             trusted |-> view[w].trusted, txn |-> batch(w)]

\* The commit lands and is acknowledged; the view moves to it.
CommitLands(w) ==
  /\ pc[w] = "commit" /\ MayWrite(w) /\ Free(w)
  /\ Put(w)
  /\ view' = [view EXCEPT ![w] = Moved(w)]
  /\ pc' = [pc EXCEPT ![w] = IF Due(w, view[w].next) THEN "checkpoint" ELSE "done"]
  /\ UNCHANGED <<checkpoint, hint, scan, write, attempt, failures, written, acked>>

\* The write returns an error: refused, a failed PUT, a failed GET while
\* re-reading, or the last version race lost.  The caller will offer it again.
WriteError(w) ==
  /\ \/ pc[w] = "commit" /\ ("put" \in Faults \/ ~MayWrite(w))
     \/ pc[w] = "commit" /\ ~Free(w) /\ attempt[w] + 1 >= CommitAttempts
     \/ pc[w] = "rereading" /\ "read" \in Faults
  /\ pc' = [pc EXCEPT ![w] = "idle"] /\ scan' = [scan EXCEPT ![w] = Unread]
  /\ EndWrite(w)
  /\ UNCHANGED <<disk, view, attempt, failures, written, acked>>

\* The commit lands, and what comes back is a transport error, or - the store's
\* client having retried the PUT by itself - AlreadyExists.
CommitUnacknowledged(w) ==
  /\ pc[w] = "commit" /\ MayWrite(w) /\ Free(w) /\ "ack" \in Faults
  /\ Put(w)
  /\ \/ pc' = [pc EXCEPT ![w] = "idle"] /\ EndWrite(w)
     \/ UNCHANGED <<pc, write>>
  /\ UNCHANGED <<checkpoint, hint, view, scan, attempt, failures, written, acked>>

\* AlreadyExists: re-read the log, then try the next free version.
VersionTaken(w) ==
  /\ pc[w] = "commit" /\ MayWrite(w) /\ ~Free(w) /\ attempt[w] + 1 < CommitAttempts
  /\ \E s \in Starts(w) : scan' = [scan EXCEPT ![w] = s]
  /\ attempt' = [attempt EXCEPT ![w] = @ + 1]
  /\ pc' = [pc EXCEPT ![w] = "rereading"]
  /\ UNCHANGED <<disk, view, write, failures, written, acked>>

-----------------------------------------------------------------------------
(* write_checkpoint: the object, then the hint; a failure never fails the write *)

PutCheckpoint(w) ==
  /\ pc[w] = "checkpoint"
  /\ checkpoint' = {c \in checkpoint : c.version # view[w].next - 1} \cup
                   {[version |-> view[w].next - 1, live |-> view[w].live,
                     app |-> App[w], txn |-> view[w].txn]}
  /\ pc' = [pc EXCEPT ![w] = "hint"]
  /\ UNCHANGED <<log, hint, view, scan, write, attempt, failures, written, acked>>

PutHint(w) ==
  /\ pc[w] = "hint"
  /\ hint' = view[w].next - 1
  /\ failures' = [failures EXCEPT ![w] = 0]
  /\ pc' = [pc EXCEPT ![w] = "done"]
  /\ UNCHANGED <<log, checkpoint, view, scan, write, attempt, written, acked>>

CheckpointFails(w) ==
  /\ pc[w] \in {"checkpoint", "hint"} /\ "checkpoint" \in Faults
  /\ failures' = [failures EXCEPT ![w] = @ + 1]
  /\ pc' = [pc EXCEPT ![w] = "done"]
  /\ UNCHANGED <<disk, view, scan, write, attempt, written, acked>>

\* The write returned Ok and the caller has made that durable (its commit log).
CallerRecords(w) ==
  /\ pc[w] = "done"
  /\ acked' = [acked EXCEPT ![w] = batch(w)]
  /\ pc' = [pc EXCEPT ![w] = "idle"] /\ EndWrite(w)
  /\ UNCHANGED <<disk, view, scan, attempt, failures, written>>

-----------------------------------------------------------------------------
\* The writer's process dies, or its open fails.
Crash(w) ==
  /\ "crash" \in Faults /\ pc[w] # "closed"
  /\ pc' = [pc EXCEPT ![w] = "closed"]
  /\ view' = [view EXCEPT ![w] = Unread] /\ scan' = [scan EXCEPT ![w] = Unread]
  /\ EndWrite(w) /\ attempt' = [attempt EXCEPT ![w] = 0]
  /\ failures' = [failures EXCEPT ![w] = 0]
  /\ UNCHANGED <<disk, written, acked>>

\* Another engine rewrites some live files as one.
Compact ==
  /\ "compact" \in Faults /\ written[Other] < MaxFiles
  /\ \E gone \in SUBSET After(Len(log)) :
       gone # {} /\ Commit(Len(log), Other, 0, {<<Other, written[Other] + 1>>}, gone)
  /\ written' = [written EXCEPT ![Other] = @ + 1]
  /\ UNCHANGED <<checkpoint, hint, pc, view, scan, write, attempt, failures, acked>>

Step(w) == \/ Open(w) \/ ReadCommit(w) \/ ReadEnd(w)
           \/ Deduplicated(w) \/ WriteFiles(w) \/ CommitLands(w) \/ VersionTaken(w)
           \/ PutCheckpoint(w) \/ PutHint(w) \/ CallerRecords(w)
           \/ WriteError(w) \/ CommitUnacknowledged(w) \/ CheckpointFails(w) \/ Crash(w)

Next == Compact \/ \E w \in Writers : Step(w)

Spec == Init /\ [][Next]_vars

-----------------------------------------------------------------------------
(* Properties *)

\* A writer that trusts its live set has exactly the table's files as of the
\* version it expects to commit next: through appends, overwrites, lost races,
\* checkpoints and other writers' removes, live_files is never off by a file.
LiveViewExact ==
  \A w \in Writers :
    /\ view[w].next <= Len(log)
    /\ pc[w] \notin {"closed", "opening"} /\ view[w].trusted
         => view[w].live = After(view[w].next)

\* A checkpoint holds exactly the files of the version it is written for: a
\* reader that starts from it sees the table the log describes.
CheckpointExact ==
  \A c \in checkpoint : c.version < Len(log) /\ c.live = After(c.version + 1)

\* A replace leaves its own files and nothing else, and an append retires
\* nothing, whichever writers it raced with (commit_inner's retire_live).
CommitExact ==
  [][\A n \in DOMAIN log' \ DOMAIN log :
       LET c == log'[n] IN
         /\ c.by \in replacing => c.after = c.adds
         /\ c.by \in Writers \ replacing => After(Len(log)) \subseteq c.after]_vars

\* A committed version is never rewritten or lost, and versions have no gap.
LogAppendOnly ==
  [][log' # log => /\ Len(log') = Len(log) + 1
                   /\ \A n \in DOMAIN log : log'[n] = log[n]]_vars

\* The txn stamp: no batch of an appId is in the log twice.
BatchOnce ==
  \A m, n \in DOMAIN log :
    /\ log[m].by # Other /\ log[n].by # Other
    /\ App[log[m].by] = App[log[n].by] /\ log[m].txn = log[n].txn
    => m = n

\* A write that returned Ok is in the log: a batch the caller will not offer
\* again was committed, not dropped as a replay of something else.
AckedIsCommitted ==
  \A w \in Writers : \A k \in 1..acked[w] :
    \E n \in DOMAIN log : log[n].by # Other /\ App[log[n].by] = App[w] /\ log[n].txn = k
=============================================================================
