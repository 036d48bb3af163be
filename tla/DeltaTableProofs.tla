-------------------------- MODULE DeltaTableProofs --------------------------
(***************************************************************************)
(* Proofs about DeltaTable, for any writers, appIds, checkpoint interval   *)
(* and limits, and in every environment: the log, the views and the        *)
(* checkpoints are exact; what a writer was told is committed is in the    *)
(* log, and where the txn stamp can be read back, once.                    *)
(***************************************************************************)
EXTENDS DeltaTable, TLAPS

-----------------------------------------------------------------------------
(* The inductive invariant *)

\* The files after n commits of a log L; a log state that is exact for L, if trusted.
AfterIn(L, n) == IF n = 0 THEN {} ELSE L[n].after
Exact(L, s) == s.next <= Len(L) /\ (s.trusted => s.live = AfterIn(L, s.next))

\* Each commit applies its actions to the version before it.
ChainInv == \A n \in 1..Len(log) :
              log[n].after = (AfterIn(log, n - 1) \ log[n].removes) \cup log[n].adds

StateInv == \A w \in Writers : Exact(log, view[w]) /\ Exact(log, scan[w])

\* Only a trusted view that committed something is checkpointed.
PhaseInv == \A w \in Writers :
              pc[w] \in {"checkpoint", "hint"} =>
                failures[w] < FailureLimit /\ view[w].trusted /\ view[w].next >= 1

IInv == TypeOK /\ ChainInv /\ StateInv /\ PhaseInv /\ CheckpointExact /\ hint < Len(log)

-----------------------------------------------------------------------------
(* Facts about the log *)

\* The constants' types, one by one.
LEMMA ConstantTypes ==
  /\ Other \notin Writers /\ DOMAIN App = Writers
  /\ Interval \in Nat /\ MaxBatch \in Nat /\ MaxFiles \in Nat
  /\ CommitAttempts \in Nat \ {0} /\ FailureLimit \in Nat \ {0}
BY Zenon, ConstantsAssumption DEF Other

\* A read that has not started is a log state.
LEMMA UnreadType == Unread \in LogState
BY Zenon DEF Unread, LogState

\* The fields of a log state.
LEMMA StateFields ==
  ASSUME NEW s \in LogState
  PROVE  s.next \in Nat /\ s.live \subseteq Files /\ s.trusted \in BOOLEAN /\ s.txn \in Nat
BY Zenon DEF LogState

\* The fields of a commit.
LEMMA CommitFields ==
  ASSUME NEW c \in Commits
  PROVE  /\ c.by \in Writers \cup {Other} /\ c.txn \in Nat /\ c.adds \subseteq Files
         /\ c.removes \subseteq Files /\ c.after \subseteq Files
BY Zenon DEF Commits

\* The table's files are files, at every version.
LEMMA AfterType ==
  ASSUME log \in Seq(Commits), NEW n \in 0..Len(log)
  PROVE  After(n) \subseteq Files
BY CommitFields DEF After

\* What a sequence is as a function.
LEMMA AsFunction ==
  ASSUME NEW S, NEW s \in Seq(S)
  PROVE  DOMAIN s = 1..Len(s) /\ Len(s) \in Nat
OBVIOUS

\* A commit at the first free version extends the log by one entry.
LEMMA CommitAppends ==
  ASSUME log \in Seq(Commits), NEW by \in Writers \cup {Other}, NEW txn \in Nat,
         NEW new \in SUBSET Files, NEW gone \in SUBSET Files,
         Commit(Len(log), by, txn, new, gone)
  PROVE  /\ log' \in Seq(Commits) /\ Len(log') = Len(log) + 1
         /\ \A n \in 1..Len(log) : log'[n] = log[n]
         /\ log'[Len(log) + 1] = [by |-> by, txn |-> txn, adds |-> new, removes |-> gone,
                                  after |-> (After(Len(log)) \ gone) \cup new]
<1>1. Len(log) \in Nat /\ Max(Len(log), Len(log) + 1) = Len(log) + 1
  BY DEF Max
<1> DEFINE c == [by |-> by, txn |-> txn, adds |-> new, removes |-> gone,
                 after |-> (After(Len(log)) \ gone) \cup new]
<1>2. log' = [n \in 1..(Len(log) + 1) |-> IF n # Len(log) + 1 THEN log[n] ELSE c]
  BY Zenon, <1>1 DEF Commit
<1>3. c \in Commits
  BY <1>1, AfterType DEF Commits
<1> HIDE DEF c
<1>4. \A n \in 1..(Len(log) + 1) : (IF n # Len(log) + 1 THEN log[n] ELSE c) \in Commits
  BY <1>1, <1>3
<1>5. log' \in Seq(Commits) /\ Len(log') = Len(log) + 1
  <2>1. log' \in [1..(Len(log) + 1) -> Commits]
    BY Zenon, <1>2, <1>4
  <2>2. log' \in Seq(Commits)
    BY <1>1, <2>1
  <2>3. DOMAIN log' = 1..Len(log') /\ Len(log') \in Nat
    BY Zenon, <2>2, AsFunction
  <2> QED
    BY <1>1, <2>1, <2>2, <2>3
<1>6. (\A n \in 1..Len(log) : log'[n] = log[n]) /\ log'[Len(log) + 1] = c
  BY <1>1, <1>2
<1> QED
  BY Zenon, <1>5, <1>6 DEF c

\* What a replace retires are files.
LEMMA RemovesType ==
  ASSUME TypeOK, NEW w \in Writers PROVE Removes(w) \in SUBSET Files
BY Zenon, StateFields DEF TypeOK, Removes

\* commit_inner's PUT on a free version appends its entry.
LEMMA PutAppends ==
  ASSUME TypeOK, NEW w \in Writers, Free(w), Put(w)
  PROVE  /\ log' \in Seq(Commits) /\ Len(log') = Len(log) + 1
         /\ \A n \in 1..Len(log) : log'[n] = log[n]
         /\ log'[Len(log) + 1] =
              [by |-> w, txn |-> batch(w), adds |-> adds[w], removes |-> Removes(w),
               after |-> (After(Len(log)) \ Removes(w)) \cup adds[w]]
<1>1. log \in Seq(Commits) /\ batch(w) \in Nat /\ adds[w] \in SUBSET Files
  BY DEF TypeOK, batch
<1>2. Commit(Len(log), w, batch(w), adds[w], Removes(w))
  BY Zenon DEF Put, Free
<1> QED
  BY <1>1, <1>2, RemovesType, CommitAppends

\* Another engine's compaction appends its entry.
LEMMA CompactAppends ==
  ASSUME TypeOK, Compact
  PROVE  \E gone \in SUBSET After(Len(log)) :
         /\ log' \in Seq(Commits) /\ Len(log') = Len(log) + 1
         /\ \A n \in 1..Len(log) : log'[n] = log[n]
         /\ log'[Len(log) + 1] =
              [by |-> Other, txn |-> 0, adds |-> {<<Other, written[Other] + 1>>},
               removes |-> gone,
               after |-> (After(Len(log)) \ gone) \cup {<<Other, written[Other] + 1>>}]
<1>1. PICK gone \in SUBSET After(Len(log)) :
        Commit(Len(log), Other, 0, {<<Other, written[Other] + 1>>}, gone)
  BY Zenon DEF Compact
<1>2. log \in Seq(Commits) /\ Len(log) \in 0..Len(log)
  BY DEF TypeOK
<1>3. gone \in SUBSET Files
  BY Zenon, <1>2, AfterType
<1>4. {<<Other, written[Other] + 1>>} \in SUBSET Files
  BY ConstantTypes DEF TypeOK, Compact, Files
<1> DEFINE new == {<<Other, written[Other] + 1>>}
<1>5. new \in SUBSET Files /\ Commit(Len(log), Other, 0, new, gone)
  BY Zenon, <1>1, <1>4
<1>6. 0 \in Nat /\ Other \in Writers \cup {Other}
  BY Zenon
<1> HIDE DEF new
<1>7. /\ log' \in Seq(Commits) /\ Len(log') = Len(log) + 1
      /\ \A n \in 1..Len(log) : log'[n] = log[n]
      /\ log'[Len(log) + 1] =
           [by |-> Other, txn |-> 0, adds |-> new, removes |-> gone,
            after |-> (After(Len(log)) \ gone) \cup new]
  BY <1>2, <1>3, <1>5, <1>6, CommitAppends, SMTT(60)
<1> QED
  BY ZenonT(30), <1>7 DEF new

\* What a read starts from is a log state.
LEMMA StartsType ==
  ASSUME TypeOK, NEW w \in Writers, NEW s \in Starts(w) PROVE s \in LogState
<1>1. CASE s = Unread
  BY Zenon, <1>1, UnreadType
<1>2. ASSUME NEW c \in checkpoint, s = FromCheckpoint(w, c) PROVE s \in LogState
  <2>1. c.version \in Nat /\ c.live \in SUBSET Files /\ c.txn \in Nat
    BY DEF TypeOK
  <2> QED
    BY <1>2, <2>1 DEF FromCheckpoint, LogState
<1>3. CASE s = Unknown(hint) /\ hint # -1
  <2>1. hint + 1 \in Nat
    BY <1>3 DEF TypeOK
  <2> QED
    BY <1>3, <2>1 DEF Unknown, LogState
<1> QED
  BY Zenon, <1>1, <1>2, <1>3 DEF Starts

\* Replaying a commit gives a log state.
LEMMA ReplayedType ==
  ASSUME NEW w \in Writers, NEW s \in LogState, NEW c \in Commits
  PROVE  Replayed(w, s, c) \in LogState
BY StateFields, CommitFields DEF Replayed, LogState, Max

\* The view after a commit is a log state.
LEMMA MovedType ==
  ASSUME TypeOK, NEW w \in Writers PROVE Moved(w) \in LogState
<1>1. view[w] \in LogState /\ adds[w] \in SUBSET Files /\ acked[w] \in Nat
  BY Zenon DEF TypeOK
<1> QED
  BY <1>1, StateFields DEF Moved, LogState, batch

-----------------------------------------------------------------------------
(* Type correctness *)

\* The state before any writer opens is well typed.
LEMMA TypeInit == Init => TypeOK /\ PhaseInv
<1> SUFFICES ASSUME Init PROVE TypeOK /\ PhaseInv
  BY Zenon
<1>1. view \in [Writers -> LogState] /\ scan \in [Writers -> LogState]
  BY Zenon, UnreadType DEF Init
<1>2. log \in Seq(Commits)
  BY DEF Init
<1> QED
  BY <1>1, <1>2, ConstantTypes DEF Init, TypeOK, PhaseInv

\* Every step keeps the types, and checkpoints only what is trusted.
LEMMA TypeStep == TypeOK /\ PhaseInv /\ [Next]_vars => TypeOK' /\ PhaseInv'
<1> SUFFICES ASSUME TypeOK, PhaseInv, [Next]_vars PROVE TypeOK' /\ PhaseInv'
  BY Zenon
<1> USE DEF disk, write
<1>c. /\ \A w \in Writers : App[w] \in Apps
      /\ 0 \in 0..(CommitAttempts - 1) /\ 0 \in 0..FailureLimit /\ Other \notin Writers
  BY ConstantTypes DEF Apps
<1>t. /\ view \in [Writers -> LogState] /\ scan \in [Writers -> LogState]
      /\ failures \in [Writers -> 0..FailureLimit] /\ acked \in [Writers -> Nat]
      /\ attempt \in [Writers -> 0..(CommitAttempts - 1)] /\ adds \in [Writers -> SUBSET Files]
      /\ written \in [Writers \cup {Other} -> Nat] /\ log \in Seq(Commits)
      /\ replacing \subseteq Writers
  BY Zenon DEF TypeOK
<1>v. ASSUME NEW w \in Writers PROVE view[w] \in LogState /\ view[w].next \in Nat
  BY <1>t, StateFields
\* A write ends.
<1>e. ASSUME NEW w \in Writers, EndWrite(w)
      PROVE  adds' \in [Writers -> SUBSET Files] /\ replacing' \subseteq Writers
  BY Zenon, <1>e, <1>t DEF EndWrite
\* A writer moves on to a phase that writes no checkpoint.
<1>p. ASSUME NEW w \in Writers,
             NEW p \in {"closed", "opening", "idle", "commit", "rereading", "done"},
             pc' = [pc EXCEPT ![w] = p],
             \A u \in Writers \ {w} : failures'[u] = failures[u] /\ view'[u] = view[u]
      PROVE  /\ pc' \in [Writers -> {"closed", "opening", "idle", "commit", "rereading",
                                     "checkpoint", "hint", "done"}]
             /\ PhaseInv'
  <2>1. /\ pc' \in [Writers -> {"closed", "opening", "idle", "commit", "rereading",
                                "checkpoint", "hint", "done"}]
        /\ pc'[w] = p /\ \A u \in Writers \ {w} : pc'[u] = pc[u]
    BY Zenon, <1>p DEF TypeOK
  <2>2. p \notin {"checkpoint", "hint"}
    OBVIOUS
  <2> QED
    BY Zenon, <1>p, <2>1, <2>2 DEF PhaseInv
<1>1. CASE Compact
  <2>1. log' \in Seq(Commits)
    BY Zenon, <1>1, CompactAppends
  <2>2. written' \in [Writers \cup {Other} -> Nat]
    <3>1. written' = [written EXCEPT ![Other] = written[Other] + 1]
      BY Zenon, <1>1 DEF Compact
    <3> QED
      BY <3>1, <1>t
  <2> QED
    BY Zenon, <1>1, <2>1, <2>2 DEF Compact, TypeOK, PhaseInv
<1>2. ASSUME NEW w \in Writers, Open(w) PROVE TypeOK' /\ PhaseInv'
  <2>1. scan' \in [Writers -> LogState]
    BY Zenon, <1>2, <1>t, StartsType DEF Open
  <2> QED
    BY Zenon, <1>2, <1>p, <2>1 DEF Open, TypeOK
<1>3. ASSUME NEW w \in Writers, ReadCommit(w) PROVE TypeOK' /\ PhaseInv'
  <2>1. scan[w].next + 1 \in 1..Len(log) /\ scan[w] \in LogState
    BY <1>3, <1>t, StateFields DEF ReadCommit
  <2>2. Replayed(w, scan[w], log[scan[w].next + 1]) \in LogState
    BY <1>t, <2>1, ReplayedType
  <2>3. scan' \in [Writers -> LogState]
    BY Zenon, <1>3, <1>t, <2>2 DEF ReadCommit
  <2> QED
    BY Zenon, <1>3, <2>3 DEF ReadCommit, TypeOK, PhaseInv
<1>4. ASSUME NEW w \in Writers, ReadEnd(w) PROVE TypeOK' /\ PhaseInv'
  <2>1. scan' \in [Writers -> LogState] /\ view' \in [Writers -> LogState]
    BY Zenon, <1>4, <1>t, UnreadType DEF ReadEnd
  <2>2. \E p \in {"idle", "commit"} : pc' = [pc EXCEPT ![w] = p]
    BY Zenon, <1>4 DEF ReadEnd
  <2>3. \A u \in Writers \ {w} : view'[u] = view[u] /\ failures'[u] = failures[u]
    BY Zenon, <1>4, <1>t DEF ReadEnd
  <2> QED
    BY Zenon, <1>4, <1>p, <2>1, <2>2, <2>3 DEF ReadEnd, TypeOK
<1>5. ASSUME NEW w \in Writers, Deduplicated(w) PROVE TypeOK' /\ PhaseInv'
  BY Zenon, <1>5, <1>p DEF Deduplicated, TypeOK
<1>6. ASSUME NEW w \in Writers, WriteFiles(w) PROVE TypeOK' /\ PhaseInv'
  <2>1. /\ adds' \in [Writers -> SUBSET Files]
        /\ written' \in [Writers \cup {Other} -> Nat]
    <3>1. CASE /\ written[w] < MaxFiles
               /\ written' = [written EXCEPT ![w] = written[w] + 1]
               /\ adds' = [adds EXCEPT ![w] = {<<w, written[w] + 1>>}]
      <4>1. {<<w, written[w] + 1>>} \in SUBSET Files
        BY <1>t, <3>1, ConstantTypes DEF Files
      <4> QED
        BY <1>t, <3>1, <4>1
    <3>2. CASE adds' = [adds EXCEPT ![w] = {}] /\ UNCHANGED written
      BY Zenon, <1>t, <3>2
    <3> QED
      BY ZenonT(30), <1>6, <3>1, <3>2 DEF WriteFiles
  <2>2. replacing' \subseteq Writers /\ attempt' \in [Writers -> 0..(CommitAttempts - 1)]
    BY Zenon, <1>6, <1>c, <1>t DEF WriteFiles
  <2>3. /\ pc' = [pc EXCEPT ![w] = "commit"]
        /\ UNCHANGED <<disk, view, scan, failures, acked>>
    BY Zenon, <1>6 DEF WriteFiles
  <2> QED
    BY Zenon, <1>p, <2>1, <2>2, <2>3 DEF TypeOK
<1>7. ASSUME NEW w \in Writers, CommitLands(w) PROVE TypeOK' /\ PhaseInv'
  <2>1. log' \in Seq(Commits)
    BY ZenonT(30), <1>7, PutAppends DEF CommitLands
  <2>2. view' = [view EXCEPT ![w] = Moved(w)] /\ Moved(w) \in LogState
    BY Zenon, <1>7, MovedType DEF CommitLands
  <2>3. Moved(w).trusted = view[w].trusted /\ Moved(w).next >= 1
    BY <1>v DEF Moved
  <2>4. /\ pc' = [pc EXCEPT ![w] = IF Due(w, view[w].next) THEN "checkpoint" ELSE "done"]
        /\ UNCHANGED <<checkpoint, hint, scan, write, attempt, failures, written, acked>>
    BY Zenon, <1>7 DEF CommitLands
  <2>5. TypeOK'
    BY Zenon, <2>1, <2>2, <2>4 DEF TypeOK
  <2>6. PhaseInv'
    <3>1. CASE Due(w, view[w].next)
      <4>1. failures[w] < FailureLimit /\ view[w].trusted
        BY Zenon, <3>1 DEF Due
      <4> QED
        BY Zenon, <1>t, <2>2, <2>3, <2>4, <4>1 DEF PhaseInv, TypeOK
    <3>2. CASE ~Due(w, view[w].next)
      BY Zenon, <1>p, <1>t, <2>2, <2>4, <3>2
    <3> QED
      BY Zenon, <3>1, <3>2
  <2> QED
    BY Zenon, <2>5, <2>6
<1>8. ASSUME NEW w \in Writers, VersionTaken(w) PROVE TypeOK' /\ PhaseInv'
  <2>1. scan' \in [Writers -> LogState]
    BY Zenon, <1>8, <1>t, StartsType DEF VersionTaken
  <2>2. attempt' \in [Writers -> 0..(CommitAttempts - 1)]
    <3>1. attempt[w] + 1 < CommitAttempts /\ attempt' = [attempt EXCEPT ![w] = attempt[w] + 1]
      BY Zenon, <1>8 DEF VersionTaken
    <3> QED
      BY <1>t, <3>1, ConstantTypes
  <2> QED
    BY Zenon, <1>8, <1>p, <2>1, <2>2 DEF VersionTaken, TypeOK
<1>9. ASSUME NEW w \in Writers, PutCheckpoint(w) PROVE TypeOK' /\ PhaseInv'
  <2>1. pc[w] = "checkpoint" /\ pc' = [pc EXCEPT ![w] = "hint"]
    BY Zenon, <1>9 DEF PutCheckpoint
  <2>2. view[w].next - 1 \in Nat /\ view[w].live \subseteq Files /\ view[w].txn \in Nat
    BY <1>v, <2>1, StateFields DEF PhaseInv
  <2>3. [version |-> view[w].next - 1, live |-> view[w].live, app |-> App[w],
         txn |-> view[w].txn] \in [version : Nat, live : SUBSET Files, app : Apps, txn : Nat]
    BY <1>c, <2>2
  <2>4. checkpoint' \subseteq [version : Nat, live : SUBSET Files, app : Apps, txn : Nat]
    BY Zenon, <1>9, <2>3 DEF PutCheckpoint, TypeOK
  <2>5. TypeOK'
    BY Zenon, <1>9, <2>4 DEF PutCheckpoint, TypeOK
  <2>6. PhaseInv'
    BY Zenon, <1>9, <2>1 DEF PutCheckpoint, PhaseInv, TypeOK
  <2> QED
    BY Zenon, <2>5, <2>6
<1>10. ASSUME NEW w \in Writers, PutHint(w) PROVE TypeOK' /\ PhaseInv'
  <2>1. /\ pc[w] = "hint" /\ pc' = [pc EXCEPT ![w] = "done"] /\ hint' = view[w].next - 1
        /\ failures' = [failures EXCEPT ![w] = 0]
    BY Zenon, <1>10 DEF PutHint
  <2>2. hint' \in Nat \cup {-1}
    BY <1>v, <2>1 DEF PhaseInv
  <2>3. /\ failures' \in [Writers -> 0..FailureLimit]
        /\ \A u \in Writers \ {w} : failures'[u] = failures[u]
    BY Zenon, <1>c, <1>t, <2>1
  <2> QED
    BY Zenon, <1>10, <1>p, <2>1, <2>2, <2>3 DEF PutHint, TypeOK
<1>11. ASSUME NEW w \in Writers, CallerRecords(w) PROVE TypeOK' /\ PhaseInv'
  <2>1. acked' \in [Writers -> Nat]
    <3>1. acked' = [acked EXCEPT ![w] = acked[w] + 1]
      BY Zenon, <1>11 DEF CallerRecords, batch
    <3> QED
      BY <1>t, <3>1
  <2> QED
    BY Zenon, <1>11, <1>e, <1>p, <2>1 DEF CallerRecords, TypeOK
<1>12. ASSUME NEW w \in Writers, WriteError(w) PROVE TypeOK' /\ PhaseInv'
  <2>1. scan' \in [Writers -> LogState]
    BY Zenon, <1>12, <1>t, UnreadType DEF WriteError
  <2> QED
    BY Zenon, <1>12, <1>e, <1>p, <2>1 DEF WriteError, TypeOK
<1>13. ASSUME NEW w \in Writers, CommitUnacknowledged(w) PROVE TypeOK' /\ PhaseInv'
  <2>1. log' \in Seq(Commits)
    BY ZenonT(30), <1>13, PutAppends DEF CommitUnacknowledged
  <2>2. UNCHANGED <<checkpoint, hint, view, scan, attempt, failures, written, acked>>
    BY Zenon, <1>13 DEF CommitUnacknowledged
  <2>3. CASE pc' = [pc EXCEPT ![w] = "idle"] /\ EndWrite(w)
    BY Zenon, <1>e, <1>p, <2>1, <2>2, <2>3 DEF TypeOK
  <2>4. CASE UNCHANGED <<pc, write>>
    BY Zenon, <2>1, <2>2, <2>4 DEF TypeOK, PhaseInv
  <2> QED
    BY Zenon, <1>13, <2>3, <2>4 DEF CommitUnacknowledged
<1>14. ASSUME NEW w \in Writers, CheckpointFails(w) PROVE TypeOK' /\ PhaseInv'
  <2>1. failures[w] < FailureLimit /\ failures' = [failures EXCEPT ![w] = failures[w] + 1]
    BY Zenon, <1>14 DEF CheckpointFails, PhaseInv
  <2>2. failures' \in [Writers -> 0..FailureLimit]
    BY <1>t, <2>1, ConstantTypes
  <2>3. \A u \in Writers \ {w} : failures'[u] = failures[u]
    BY Zenon, <1>t, <2>1
  <2> QED
    BY Zenon, <1>14, <1>p, <2>2, <2>3 DEF CheckpointFails, TypeOK
<1>15. ASSUME NEW w \in Writers, Crash(w) PROVE TypeOK' /\ PhaseInv'
  <2>1. /\ scan' \in [Writers -> LogState] /\ view' \in [Writers -> LogState]
        /\ attempt' \in [Writers -> 0..(CommitAttempts - 1)]
        /\ failures' \in [Writers -> 0..FailureLimit]
    BY Zenon, <1>15, <1>c, <1>t, UnreadType DEF Crash
  <2>2. \A u \in Writers \ {w} : failures'[u] = failures[u] /\ view'[u] = view[u]
    BY Zenon, <1>15, <1>t DEF Crash
  <2> QED
    BY Zenon, <1>15, <1>e, <1>p, <2>1, <2>2 DEF Crash, TypeOK
<1>16. CASE UNCHANGED vars
  BY Zenon, <1>16 DEF vars, TypeOK, PhaseInv
<1> QED
  BY Zenon, <1>1, <1>2, <1>3, <1>4, <1>5, <1>6, <1>7, <1>8, <1>9, <1>10, <1>11, <1>12, <1>13,
     <1>14, <1>15, <1>16 DEF Next, Step

\* Type correctness, with the bounds of commit_inner's attempts and of the
\* consecutive checkpoint failures.
THEOREM TypeCorrect == Spec => []TypeOK
<1>1. TypeOK /\ PhaseInv /\ [Next]_vars => (TypeOK /\ PhaseInv)'
  BY Zenon, TypeStep
<1> QED
  BY <1>1, TypeInit, PTL DEF Spec

-----------------------------------------------------------------------------
(* The log grows by one commit, which applies to the version before it *)

Grows == /\ Len(log') = Len(log) + 1
         /\ \A n \in 1..Len(log) : log'[n] = log[n]
         /\ log'[Len(log) + 1].after =
              (After(Len(log)) \ log'[Len(log) + 1].removes) \cup log'[Len(log) + 1].adds

\* The fields of the entry commit_inner writes.
LEMMA PutEntry ==
  ASSUME TypeOK, NEW w \in Writers, Free(w), Put(w)
  PROVE  /\ log'[Len(log) + 1].by = w /\ log'[Len(log) + 1].txn = batch(w)
         /\ log'[Len(log) + 1].adds = adds[w] /\ log'[Len(log) + 1].removes = Removes(w)
         /\ log'[Len(log) + 1].after = (After(Len(log)) \ Removes(w)) \cup adds[w]
<1>1. log'[Len(log) + 1] =
        [by |-> w, txn |-> batch(w), adds |-> adds[w], removes |-> Removes(w),
         after |-> (After(Len(log)) \ Removes(w)) \cup adds[w]]
  BY Zenon, PutAppends
<1> QED
  BY <1>1

\* commit_inner's PUT extends the chain of table states.
LEMMA PutGrows ==
  ASSUME TypeOK, NEW w \in Writers, Free(w), Put(w) PROVE Grows
BY Zenon, PutEntry, PutAppends DEF Grows

\* So does another engine's compaction.
LEMMA CompactGrows ==
  ASSUME TypeOK, Compact PROVE Grows /\ log'[Len(log) + 1].by = Other
<1>1. PICK gone \in SUBSET After(Len(log)) :
        /\ Len(log') = Len(log) + 1
        /\ \A n \in 1..Len(log) : log'[n] = log[n]
        /\ log'[Len(log) + 1] =
              [by |-> Other, txn |-> 0, adds |-> {<<Other, written[Other] + 1>>},
               removes |-> gone,
               after |-> (After(Len(log)) \ gone) \cup {<<Other, written[Other] + 1>>}]
  BY ZenonT(30), CompactAppends
<1>2. /\ log'[Len(log) + 1].after =
           (After(Len(log)) \ gone) \cup {<<Other, written[Other] + 1>>}
      /\ log'[Len(log) + 1].removes = gone /\ log'[Len(log) + 1].by = Other
      /\ log'[Len(log) + 1].adds = {<<Other, written[Other] + 1>>}
  BY <1>1
<1> QED
  BY Zenon, <1>1, <1>2 DEF Grows

\* Nothing else touches the log.
LEMMA LogStep ==
  ASSUME TypeOK, [Next]_vars PROVE log' = log \/ Grows
<1> USE DEF disk
<1>1. CASE Compact
  BY Zenon, <1>1, CompactGrows
<1>2. ASSUME NEW w \in Writers, CommitLands(w) PROVE Grows
  BY Zenon, <1>2, PutGrows DEF CommitLands
<1>3. ASSUME NEW w \in Writers, CommitUnacknowledged(w) PROVE Grows
  BY Zenon, <1>3, PutGrows DEF CommitUnacknowledged
<1>4. ASSUME NEW w \in Writers, Step(w), ~CommitLands(w), ~CommitUnacknowledged(w)
      PROVE  log' = log
  BY ZenonT(30), <1>4 DEF Step, Open, ReadCommit, ReadEnd, Deduplicated, WriteFiles, VersionTaken,
     PutCheckpoint, PutHint, CallerRecords, WriteError, CheckpointFails, Crash
<1>5. CASE UNCHANGED vars
  BY Zenon, <1>5 DEF vars
<1> QED
  BY Zenon, <1>1, <1>2, <1>3, <1>4, <1>5 DEF Next

\* A committed version is final, in every environment: commit_inner's conditional
\* PUT adds one object after the last and never touches another.
THEOREM CommittedIsFinal == Spec => LogAppendOnly
<1>1. TypeOK /\ TypeOK' /\ [Next]_vars
      => [log' # log => Len(log') = Len(log) + 1 /\ \A n \in DOMAIN log : log'[n] = log[n]]_vars
  <2> SUFFICES ASSUME TypeOK, TypeOK', [Next]_vars, log' # log
               PROVE  Len(log') = Len(log) + 1 /\ \A n \in DOMAIN log : log'[n] = log[n]
    BY Zenon
  <2>1. Grows /\ log \in Seq(Commits)
    BY Zenon, LogStep DEF TypeOK
  <2> QED
    BY Zenon, <2>1, AsFunction DEF Grows
<1> QED
  BY <1>1, TypeCorrect, PTL DEF Spec, LogAppendOnly

\* An exact log state stays exact while the log grows.
LEMMA ExactStays ==
  ASSUME TypeOK, log' = log \/ Grows, NEW s \in LogState, Exact(log, s)
  PROVE  Exact(log', s)
<1>1. s.next \in Nat /\ Len(log) \in Nat /\ s.next <= Len(log)
  BY StateFields DEF TypeOK, Exact
<1>2. CASE log' = log
  BY Zenon, <1>2 DEF Exact, AfterIn
<1>3. CASE Grows
  <2>1. s.next <= Len(log')
    BY <1>1, <1>3 DEF Grows
  <2>2. AfterIn(log', s.next) = AfterIn(log, s.next)
    BY <1>1, <1>3 DEF Grows, AfterIn
  <2> QED
    BY Zenon, <2>1, <2>2 DEF Exact
<1> QED
  BY Zenon, <1>2, <1>3

\* Entries keep describing the table they leave behind.
LEMMA ChainStep ==
  ASSUME TypeOK, ChainInv, log' = log \/ Grows
  PROVE  ChainInv'
<1>1. CASE log' = log
  BY Zenon, <1>1 DEF ChainInv, AfterIn
<1>2. CASE Grows
  <2>1. Len(log) \in Nat /\ Len(log') = Len(log) + 1
    BY <1>2 DEF TypeOK, Grows
  <2> SUFFICES ASSUME NEW n \in 1..(Len(log) + 1)
               PROVE  log'[n].after = (AfterIn(log', n - 1) \ log'[n].removes) \cup log'[n].adds
    BY Zenon, <2>1 DEF ChainInv
  <2>2. AfterIn(log', n - 1) = AfterIn(log, n - 1)
    BY <1>2, <2>1 DEF Grows, AfterIn
  <2>3. CASE n \in 1..Len(log)
    BY Zenon, <1>2, <2>2, <2>3 DEF Grows, ChainInv
  <2>4. CASE n = Len(log) + 1
    BY <1>2, <2>1, <2>2, <2>4 DEF Grows, After, AfterIn
  <2> QED
    BY <2>1, <2>3, <2>4
<1> QED
  BY Zenon, <1>1, <1>2

-----------------------------------------------------------------------------
(* Views, reads and checkpoints are exact *)

\* A read starts exact, from a checkpoint, from nothing or untrusted.
LEMMA StartsExact ==
  ASSUME IInv, NEW w \in Writers, NEW s \in Starts(w) PROVE Exact(log, s)
<1>t. TypeOK /\ Len(log) \in Nat
  BY DEF IInv, TypeOK
<1>1. CASE s = Unread
  BY <1>1, <1>t DEF Unread, Exact, AfterIn
<1>2. ASSUME NEW c \in checkpoint, s = FromCheckpoint(w, c) PROVE Exact(log, s)
  <2>1. c.version \in Nat /\ c.version < Len(log) /\ c.live = AfterIn(log, c.version + 1)
    BY Zenon, <1>t DEF IInv, CheckpointExact, TypeOK, After, AfterIn
  <2>2. s.next = c.version + 1 /\ s.live = c.live
    BY Zenon, <1>2 DEF FromCheckpoint
  <2> QED
    BY <2>1, <2>2, <1>t DEF Exact
<1>3. CASE s = Unknown(hint) /\ hint # -1
  BY <1>3, <1>t DEF IInv, TypeOK, Unknown, Exact
<1> QED
  BY Zenon, <1>1, <1>2, <1>3 DEF Starts

\* Replaying the next commit keeps a read exact: a remove of an unknown file ends trust.
LEMMA ReplayedExact ==
  ASSUME IInv, NEW w \in Writers, NEW s \in LogState, Exact(log, s), s.next < Len(log)
  PROVE  Exact(log, Replayed(w, s, log[s.next + 1]))
<1>1. s.next \in Nat /\ Len(log) \in Nat /\ s.next + 1 \in 1..Len(log)
  BY StateFields DEF IInv, TypeOK
<1> DEFINE c == log[s.next + 1]
           t == Replayed(w, s, c)
<1>2. t.next = s.next + 1 /\ t.live = (s.live \ c.removes) \cup c.adds /\ (t.trusted => s.trusted)
  BY ZenonT(30) DEF Replayed
<1>3. c.after = (AfterIn(log, s.next) \ c.removes) \cup c.adds
  BY <1>1 DEF IInv, ChainInv
<1>4. AfterIn(log, s.next + 1) = c.after
  BY <1>1 DEF AfterIn
<1> HIDE DEF c, t
<1>5. Exact(log, t)
  BY <1>1, <1>2, <1>3, <1>4 DEF Exact
<1> QED
  BY Zenon, <1>5 DEF t, c

\* A view that moves over its own commit stays exact.
LEMMA MovedExact ==
  ASSUME IInv, NEW w \in Writers, Free(w), Put(w) PROVE Exact(log', Moved(w))
<1>1. /\ TypeOK /\ view[w] \in LogState /\ Exact(log, view[w]) /\ view[w].next = Len(log)
  BY Zenon DEF IInv, TypeOK, StateInv, Free
<1>2. /\ Len(log') = Len(log) + 1
      /\ log'[Len(log) + 1].after = (After(Len(log)) \ Removes(w)) \cup adds[w]
  BY ZenonT(30), <1>1, PutEntry, PutAppends
<1>5. Len(log) \in Nat
  BY <1>1 DEF TypeOK
<1>3. /\ Moved(w).next = Len(log) + 1 /\ Moved(w).trusted = view[w].trusted
      /\ Moved(w).live = (view[w].live \ Removes(w)) \cup adds[w]
  BY Zenon, <1>1 DEF Moved
<1>4. view[w].trusted => view[w].live = After(Len(log))
  BY Zenon, <1>1 DEF Exact, After, AfterIn
<1> QED
  BY <1>2, <1>3, <1>4, <1>5 DEF Exact, AfterIn

\* Every step keeps views and reads in progress exact.
LEMMA StateStep ==
  ASSUME IInv, TypeOK', [Next]_vars PROVE StateInv'
<1>t. TypeOK /\ StateInv /\ (log' = log \/ Grows)
  BY Zenon, LogStep DEF IInv
<1>u. Exact(log', Unread)
  BY <1>t DEF Unread, Exact, AfterIn, TypeOK
<1>s. \A v \in Writers : Exact(log', view[v]) /\ Exact(log', scan[v])
  BY Zenon, <1>t, ExactStays DEF StateInv, TypeOK
\* A step that changes the state of one writer.
<1>w. ASSUME NEW w \in Writers, NEW s, NEW t, Exact(log', s), Exact(log', t),
             view' = [view EXCEPT ![w] = s], scan' = [scan EXCEPT ![w] = t]
      PROVE  StateInv'
  BY ZenonT(30), <1>w, <1>s, <1>t DEF StateInv, TypeOK
<1>k. ASSUME UNCHANGED <<view, scan>> PROVE StateInv'
  BY Zenon, <1>k, <1>s DEF StateInv
<1> USE DEF disk, write
<1>1. CASE Compact
  BY Zenon, <1>1, <1>k DEF Compact
<1>2. ASSUME NEW w \in Writers, Open(w) \/ VersionTaken(w) PROVE StateInv'
  <2>1. PICK s \in Starts(w) : scan' = [scan EXCEPT ![w] = s]
    BY Zenon, <1>2 DEF Open, VersionTaken
  <2>2. log' = log /\ view' = view
    BY Zenon, <1>2 DEF Open, VersionTaken
  <2> QED
    BY Zenon, <2>1, <2>2, <1>s, <1>t, StartsExact DEF StateInv, TypeOK
<1>3. ASSUME NEW w \in Writers, ReadCommit(w) PROVE StateInv'
  <2>1. Exact(log', Replayed(w, scan[w], log[scan[w].next + 1]))
    BY Zenon, <1>3, <1>t, ReplayedExact DEF ReadCommit, StateInv, TypeOK
  <2> QED
    BY Zenon, <1>3, <2>1, <1>s, <1>t DEF ReadCommit, StateInv, TypeOK
<1>4. ASSUME NEW w \in Writers, ReadEnd(w) PROVE StateInv'
  BY Zenon, <1>4, <1>u, <1>s, <1>w DEF ReadEnd
<1>5. ASSUME NEW w \in Writers, CommitLands(w) PROVE StateInv'
  <2>1. Exact(log', Moved(w))
    BY Zenon, <1>5, MovedExact DEF CommitLands
  <2> QED
    BY Zenon, <1>5, <2>1, <1>s, <1>t DEF CommitLands, StateInv, TypeOK
<1>6. ASSUME NEW w \in Writers, WriteError(w) PROVE StateInv'
  BY Zenon, <1>6, <1>u, <1>s, <1>t DEF WriteError, StateInv, TypeOK
<1>7. ASSUME NEW w \in Writers, Crash(w) PROVE StateInv'
  BY ZenonT(30), <1>7, <1>u, <1>w DEF Crash
<1>8. ASSUME NEW w \in Writers,
             \/ Deduplicated(w) \/ WriteFiles(w) \/ PutCheckpoint(w) \/ PutHint(w)
             \/ CallerRecords(w) \/ CommitUnacknowledged(w) \/ CheckpointFails(w)
      PROVE  StateInv'
  BY Zenon, <1>8, <1>k DEF Deduplicated, WriteFiles, PutCheckpoint, PutHint, CallerRecords,
     CommitUnacknowledged, CheckpointFails
<1>9. CASE UNCHANGED vars
  BY Zenon, <1>9, <1>k DEF vars
<1> QED
  BY Zenon, <1>1, <1>2, <1>3, <1>4, <1>5, <1>6, <1>7, <1>8, <1>9 DEF Next, Step

\* Every step keeps checkpoints exact and the hint within the log.
LEMMA CheckpointStep ==
  ASSUME IInv, TypeOK', [Next]_vars PROVE CheckpointExact' /\ (hint < Len(log))'
<1>0. log \in Seq(Commits) /\ hint \in Nat \cup {-1}
  BY Zenon DEF IInv, TypeOK
<1>t. /\ TypeOK /\ StateInv /\ PhaseInv /\ CheckpointExact /\ hint < Len(log)
      /\ (log' = log \/ Grows)
  BY Zenon, LogStep DEF IInv
<1>n. Len(log) \in Nat
  BY Zenon, <1>0, AsFunction
<1>l. Len(log') \in Nat /\ Len(log) <= Len(log')
  BY <1>t, <1>n DEF Grows
<1>c. \A c \in checkpoint : c.version < Len(log') /\ c.live = AfterIn(log', c.version + 1)
  <2> SUFFICES ASSUME NEW c \in checkpoint
               PROVE  c.version < Len(log') /\ c.live = AfterIn(log', c.version + 1)
    BY Zenon
  <2>1. c.version \in Nat /\ c.version < Len(log) /\ c.live = AfterIn(log, c.version + 1)
    BY Zenon, <1>t, <1>n DEF CheckpointExact, TypeOK, After, AfterIn
  <2> QED
    BY <2>1, <1>t, <1>n, <1>l DEF Grows, AfterIn
<1>k. ASSUME UNCHANGED <<checkpoint, hint>> PROVE CheckpointExact' /\ (hint < Len(log))'
  BY <1>k, <1>c, <1>l, <1>t, <1>n DEF CheckpointExact, After, AfterIn, TypeOK
<1> USE DEF disk, write
<1>1. ASSUME NEW w \in Writers, PutCheckpoint(w) PROVE CheckpointExact' /\ (hint < Len(log))'
  <2>1. /\ view[w].next \in Nat /\ view[w].next >= 1 /\ view[w].next <= Len(log)
        /\ view[w].live = AfterIn(log, view[w].next)
    BY Zenon, <1>1, <1>t, <1>n, StateFields DEF PutCheckpoint, PhaseInv, StateInv, Exact, TypeOK
  <2>2. log' = log /\ hint' = hint
    BY Zenon, <1>1 DEF PutCheckpoint
  <2> DEFINE c == [version |-> view[w].next - 1, live |-> view[w].live,
                   app |-> App[w], txn |-> view[w].txn]
  <2>3. c.version = view[w].next - 1 /\ c.live = view[w].live
    BY Zenon
  <2>4. checkpoint' \subseteq checkpoint \cup {c}
    BY Zenon, <1>1 DEF PutCheckpoint
  <2> HIDE DEF c
  <2>5. c.version < Len(log') /\ c.live = AfterIn(log', c.version + 1)
    BY <2>1, <2>2, <2>3, <1>t, <1>n
  <2>6. CheckpointExact'
    BY Zenon, <2>4, <2>5, <1>c DEF CheckpointExact, After, AfterIn
  <2> QED
    BY Zenon, <2>2, <2>6, <1>t, <1>n
<1>2. ASSUME NEW w \in Writers, PutHint(w) PROVE CheckpointExact' /\ (hint < Len(log))'
  <2>1. view[w].next \in Nat /\ view[w].next <= Len(log)
    BY Zenon, <1>t, <1>n, StateFields DEF StateInv, Exact, TypeOK
  <2>2. log' = log /\ hint' = view[w].next - 1 /\ checkpoint' = checkpoint
    BY Zenon, <1>2 DEF PutHint
  <2>3. CheckpointExact'
    BY Zenon, <2>2, <1>c DEF CheckpointExact, After, AfterIn
  <2> QED
    BY <2>1, <2>2, <2>3, <1>t, <1>n
<1>3. ASSUME NEW w \in Writers, Step(w), ~PutCheckpoint(w), ~PutHint(w)
      PROVE  UNCHANGED <<checkpoint, hint>>
  BY Zenon, <1>3 DEF Step, Open, ReadCommit, ReadEnd, Deduplicated, WriteFiles, CommitLands,
     VersionTaken, CallerRecords, WriteError, CommitUnacknowledged, CheckpointFails, Crash
<1>4. CASE Compact \/ UNCHANGED vars
  BY Zenon, <1>4, <1>k DEF Compact, vars
<1> QED
  BY Zenon, <1>k, <1>1, <1>2, <1>3, <1>4 DEF Next

\* The inductive invariant always holds.
LEMMA IInvAlways == Spec => []IInv
<1>1. Init => IInv
  <2> SUFFICES ASSUME Init PROVE ChainInv /\ StateInv /\ CheckpointExact /\ hint < Len(log)
    BY Zenon, TypeInit DEF IInv
  <2>1. Len(log) = 0
    BY Zenon DEF Init
  <2>2. Exact(log, Unread)
    BY <2>1 DEF Unread, Exact, AfterIn
  <2> QED
    BY <2>1, <2>2 DEF Init, ChainInv, StateInv, CheckpointExact
<1>2. IInv /\ [Next]_vars => IInv'
  BY Zenon, TypeStep, LogStep, ChainStep, StateStep, CheckpointStep DEF IInv
<1> QED
  BY <1>1, <1>2, PTL DEF Spec

\* A writer that trusts its live set has exactly the table's files as of the version
\* it will commit next, whatever it raced with, lost, crashed on or could not read.
THEOREM TrustedViewIsExact == Spec => []LiveViewExact
<1>1. IInv => LiveViewExact
  BY Zenon DEF IInv, StateInv, Exact, LiveViewExact, After, AfterIn
<1> QED
  BY <1>1, IInvAlways, PTL

\* Every checkpoint write_checkpoint leaves behind holds the files of its version.
THEOREM CheckpointsAreExact == Spec => []CheckpointExact
<1>1. IInv => CheckpointExact
  BY Zenon DEF IInv
<1> QED
  BY <1>1, IInvAlways, PTL

\* A replace leaves its own files and an append retires none, whichever commits
\* landed between its read of the log and its conditional PUT.
THEOREM CommitsAreExact == Spec => CommitExact
<1> DEFINE Entry(n) == LET c == log'[n] IN
                         /\ c.by \in replacing => c.after = c.adds
                         /\ c.by \in Writers \ replacing => After(Len(log)) \subseteq c.after
<1>1. IInv /\ IInv' /\ [Next]_vars => [\A n \in DOMAIN log' \ DOMAIN log : Entry(n)]_vars
  <2> SUFFICES ASSUME IInv, IInv', [Next]_vars, NEW n \in DOMAIN log' \ DOMAIN log PROVE Entry(n)
    BY Zenon
  <2>t. TypeOK /\ StateInv /\ log \in Seq(Commits) /\ log' \in Seq(Commits)
    BY Zenon DEF IInv, TypeOK
  <2>1. DOMAIN log = 1..Len(log) /\ DOMAIN log' = 1..Len(log') /\ Len(log) \in Nat
    BY <2>t
  <2>2. log' # log /\ Grows
    BY Zenon, <2>t, LogStep
  <2>3. n = Len(log) + 1
    BY <2>1, <2>2 DEF Grows
  <2>4. ASSUME NEW w \in Writers, Free(w), MayWrite(w), Put(w) PROVE Entry(n)
    <3>1. /\ log'[n].by = w /\ log'[n].adds = adds[w]
          /\ log'[n].after = (After(Len(log)) \ Removes(w)) \cup adds[w]
      BY Zenon, <2>4, <2>3, <2>t, PutEntry
    <3>2. w \in replacing => Removes(w) = After(Len(log))
      BY Zenon, <2>4, <2>t DEF MayWrite, Free, StateInv, Exact, Removes, After, AfterIn
    <3>3. w \notin replacing => Removes(w) = {}
      BY Zenon DEF Removes
    <3> QED
      BY Zenon, <3>1, <3>2, <3>3
  <2>5. CASE Compact
    <3>1. log'[n].by = Other
      BY Zenon, <2>5, <2>3, <2>t, CompactGrows
    <3> QED
      BY Zenon, <3>1, <2>t, ConstantTypes DEF TypeOK
  <2>6. ASSUME NEW w \in Writers, Step(w) PROVE Entry(n)
    <3>1. CommitLands(w) \/ CommitUnacknowledged(w)
      BY Zenon, <2>2, <2>6 DEF disk, Step, Open, ReadCommit, ReadEnd, Deduplicated, WriteFiles,
         VersionTaken, PutCheckpoint, PutHint, CallerRecords, WriteError, CheckpointFails, Crash
    <3> QED
      BY Zenon, <3>1, <2>4 DEF CommitLands, CommitUnacknowledged
  <2> QED
    BY Zenon, <2>2, <2>5, <2>6 DEF Next, vars, disk
<1> QED
  BY <1>1, IInvAlways, PTL DEF Spec, CommitExact

-----------------------------------------------------------------------------
(* Stamps and acknowledgements *)

\* Log L holds batch k of appId a; all its batches up to m.
Has(L, a, k)  == \E n \in DOMAIN L : L[n].by # Other /\ App[L[n].by] = a /\ L[n].txn = k
Upto(L, a, m) == \A k \in 1..m : Has(L, a, k)

\* Every txn version known to a reader, to a checkpoint or to a caller stands for a
\* prefix of the appId's batches.
TxnInv ==
  /\ \A n \in DOMAIN log : log[n].by # Other => Upto(log, App[log[n].by], log[n].txn)
  /\ \A c \in checkpoint : Upto(log, c.app, c.txn)
  /\ \A w \in Writers : /\ Upto(log, App[w], view[w].txn) /\ Upto(log, App[w], scan[w].txn)
                        /\ Upto(log, App[w], acked[w])
                        /\ pc[w] \in {"checkpoint", "hint", "done"}
                             => Upto(log, App[w], batch(w))

\* What is committed stays committed.
LEMMA UptoStays ==
  ASSUME TypeOK, TypeOK', log' = log \/ Grows, NEW a, NEW m, Upto(log, a, m)
  PROVE  Upto(log', a, m)
<1>1. DOMAIN log = 1..Len(log) /\ DOMAIN log' = 1..Len(log') /\ Len(log) \in Nat
  <2>1. log \in Seq(Commits) /\ log' \in Seq(Commits)
    BY Zenon DEF TypeOK
  <2> QED
    BY Zenon, <2>1, AsFunction
<1>2. \A n \in DOMAIN log : n \in DOMAIN log' /\ log'[n] = log[n]
  <2>1. CASE log' = log
    BY Zenon, <2>1
  <2>2. CASE Grows
    BY <1>1, <2>2 DEF Grows
  <2> QED
    BY Zenon, <2>1, <2>2
<1> QED
  BY Zenon, <1>2 DEF Upto, Has

\* A commit adds the caller's batch to what is committed.
LEMMA UptoNext ==
  ASSUME TypeOK, TypeOK', NEW w \in Writers, Free(w), Put(w), Upto(log, App[w], acked[w])
  PROVE  Upto(log', App[w], batch(w))
<1>0. Grows
  BY Zenon, PutGrows
<1>1. Upto(log', App[w], acked[w])
  BY Zenon, <1>0, UptoStays
<1>2. Has(log', App[w], batch(w))
  <2>1. Len(log) + 1 \in DOMAIN log'
    <3>1. log \in Seq(Commits) /\ log' \in Seq(Commits)
      BY Zenon DEF TypeOK
    <3>2. DOMAIN log' = 1..Len(log') /\ Len(log) \in Nat
      BY Zenon, <3>1, AsFunction
    <3>3. Len(log') = Len(log) + 1
      BY ZenonT(30), PutAppends
    <3> QED
      BY <3>2, <3>3
  <2> QED
    BY Zenon, <2>1, PutEntry, ConstantTypes DEF Has
<1>3. acked[w] \in Nat /\ batch(w) = acked[w] + 1
  BY Zenon DEF TypeOK, batch
<1> QED
  BY <1>1, <1>2, <1>3 DEF Upto

\* Before its first batch a caller knows of no commit.
LEMMA UptoZero == ASSUME NEW L, NEW a PROVE Upto(L, a, 0)
BY DEF Upto

\* No stamp is known before anything is committed.
LEMMA TxnInit == Init => TxnInv
<1> SUFFICES ASSUME Init PROVE TxnInv
  BY Zenon
<1>1. DOMAIN log = {} /\ checkpoint = {}
  BY DEF Init
<1>2. \A w \in Writers : view[w].txn = 0 /\ scan[w].txn = 0 /\ acked[w] = 0 /\ pc[w] = "closed"
  BY Zenon DEF Init, Unread
<1> QED
  BY Zenon, <1>1, <1>2, UptoZero DEF TxnInv

\* A read starts from a known txn version, and replaying a commit keeps it known.
LEMMA StartsKnown ==
  ASSUME TxnInv, NEW w \in Writers, NEW s \in Starts(w) PROVE Upto(log, App[w], s.txn)
<1>1. CASE s = Unread \/ s = Unknown(hint)
  <2>1. s.txn = 0
    BY <1>1 DEF Unread, Unknown
  <2> QED
    BY Zenon, <2>1, UptoZero
<1>2. ASSUME NEW c \in checkpoint, s = FromCheckpoint(w, c) PROVE Upto(log, App[w], s.txn)
  <2>1. s.txn = IF c.app = App[w] THEN c.txn ELSE 0
    BY Zenon, <1>2 DEF FromCheckpoint
  <2> QED
    BY Zenon, <2>1, UptoZero DEF TxnInv
<1> QED
  BY Zenon, <1>1, <1>2 DEF Starts

\* Replaying a commit takes over no stamp but our appId's.
LEMMA ReplayedKnown ==
  ASSUME TxnInv, NEW w \in Writers, NEW s, NEW n \in DOMAIN log, Upto(log, App[w], s.txn)
  PROVE  Upto(log, App[w], Replayed(w, s, log[n]).txn)
<1>1. Replayed(w, s, log[n]).txn \in {s.txn, log[n].txn}
  BY Zenon DEF Replayed, Max
<1>2. Replayed(w, s, log[n]).txn # s.txn => log[n].by # Other /\ App[log[n].by] = App[w]
  BY Zenon DEF Replayed
<1> QED
  BY Zenon, <1>1, <1>2 DEF TxnInv

\* Every step keeps stamps and acknowledgements behind what is committed.
LEMMA TxnStep ==
  ASSUME TypeOK, TypeOK', TxnInv, [Next]_vars PROVE TxnInv'
<1>g. log' = log \/ Grows
  BY Zenon, LogStep
<1>u. \A a : \A m : Upto(log, a, m) => Upto(log', a, m)
  BY Zenon, <1>g, UptoStays
<1>t. /\ view \in [Writers -> LogState] /\ scan \in [Writers -> LogState]
      /\ acked \in [Writers -> Nat] /\ DOMAIN pc = Writers
      /\ log \in Seq(Commits) /\ log' \in Seq(Commits)
  BY Zenon DEF TypeOK
<1>d. DOMAIN log = 1..Len(log) /\ DOMAIN log' = 1..Len(log') /\ Len(log) \in Nat
  BY Zenon, <1>t, AsFunction
\* The parts of the invariant, in the next state.
<1> DEFINE LogKnown == \A n \in DOMAIN log' : log'[n].by # Other => Upto(log', App[log'[n].by], log'[n].txn)
           CheckpointsKnown == \A c \in checkpoint' : Upto(log', c.app, c.txn)
           Known(w, v, s, a) == /\ Upto(log', App[w], v.txn) /\ Upto(log', App[w], s.txn)
                                /\ Upto(log', App[w], a)
           Finished(w) == pc'[w] \in {"checkpoint", "hint", "done"}
                            => Upto(log', App[w], acked'[w] + 1)
<1>n. ASSUME LogKnown, CheckpointsKnown,
             \A w \in Writers : Known(w, view'[w], scan'[w], acked'[w]) /\ Finished(w)
      PROVE  TxnInv'
  BY Zenon, <1>n DEF TxnInv, batch
<1>o. \A w \in Writers : Known(w, view[w], scan[w], acked[w])
  BY ZenonT(30), <1>u DEF TxnInv
<1>f. \A w \in Writers : pc[w] \in {"checkpoint", "hint", "done"} => Upto(log', App[w], acked[w] + 1)
  BY Zenon, <1>u DEF TxnInv, batch
<1>c. checkpoint' = checkpoint => CheckpointsKnown
  BY Zenon, <1>u DEF TxnInv
<1>l. log' = log => LogKnown
  BY Zenon DEF TxnInv
<1>a. ASSUME Grows, LET c == log'[Len(log) + 1] IN c.by # Other => Upto(log', App[c.by], c.txn)
      PROVE  LogKnown
  <2>1. \A n \in 1..Len(log) : log'[n].by # Other => Upto(log', App[log'[n].by], log'[n].txn)
    BY Zenon, <1>a, <1>d, <1>u DEF TxnInv, Grows
  <2> QED
    BY <1>a, <1>d, <2>1 DEF Grows
\* A step of one writer.
<1>w. ASSUME NEW w \in Writers, LogKnown, CheckpointsKnown,
             \A v \in Writers \ {w} : /\ view'[v] = view[v] /\ scan'[v] = scan[v]
                                      /\ acked'[v] = acked[v] /\ pc'[v] = pc[v],
             Known(w, view'[w], scan'[w], acked'[w]), Finished(w)
      PROVE  TxnInv'
  <2>1. \A v \in Writers \ {w} : Known(v, view'[v], scan'[v], acked'[v]) /\ Finished(v)
    BY Zenon, <1>w, <1>o, <1>f
  <2> QED
    BY Zenon, <1>w, <1>n, <2>1
<1> HIDE DEF LogKnown, CheckpointsKnown
<1> USE DEF disk, write
<1>1. CASE Compact
  <2>1. Grows /\ log'[Len(log) + 1].by = Other
    BY Zenon, <1>1, CompactGrows
  <2>2. UNCHANGED <<checkpoint, view, scan, acked, pc>>
    BY Zenon, <1>1 DEF Compact
  <2> QED
    BY Zenon, <2>1, <2>2, <1>a, <1>c, <1>n, <1>o, <1>f
<1>2. ASSUME NEW w \in Writers, Open(w) \/ VersionTaken(w) PROVE TxnInv'
  <2>1. PICK s \in Starts(w) : scan' = [scan EXCEPT ![w] = s]
    BY Zenon, <1>2 DEF Open, VersionTaken
  <2>2. /\ UNCHANGED <<log, checkpoint, view, acked>>
        /\ \E p \in {"opening", "rereading"} : pc' = [pc EXCEPT ![w] = p]
    BY Zenon, <1>2 DEF Open, VersionTaken
  <2>3. Upto(log, App[w], s.txn)
    BY Zenon, StartsKnown
  <2> QED
    BY <2>1, <2>2, <2>3, <1>c, <1>l, <1>o, <1>t, <1>w
<1>3. ASSUME NEW w \in Writers, ReadCommit(w) PROVE TxnInv'
  <2>1. scan[w].next + 1 \in DOMAIN log
    BY SMTT(30), <1>3, <1>t, <1>d, StateFields DEF ReadCommit
  <2> DEFINE s == Replayed(w, scan[w], log[scan[w].next + 1])
  <2>2. Upto(log, App[w], s.txn)
    BY ZenonT(30), <2>1, ReplayedKnown DEF TxnInv
  <2>3. /\ UNCHANGED <<log, checkpoint, view, acked, pc>> /\ scan' = [scan EXCEPT ![w] = s]
        /\ pc[w] \in {"opening", "rereading"}
    BY Zenon, <1>3 DEF ReadCommit
  <2> HIDE DEF s
  <2> QED
    BY Zenon, <2>2, <2>3, <1>c, <1>l, <1>o, <1>t, <1>w
<1>4. ASSUME NEW w \in Writers, ReadEnd(w) PROVE TxnInv'
  <2>1. /\ UNCHANGED <<log, checkpoint, acked>>
        /\ view' = [view EXCEPT ![w] = scan[w]] /\ scan' = [scan EXCEPT ![w] = Unread]
        /\ \E p \in {"idle", "commit"} : pc' = [pc EXCEPT ![w] = p]
    BY ZenonT(30), <1>4 DEF ReadEnd
  <2>2. Upto(log', App[w], Unread.txn)
    BY Zenon, UptoZero DEF Unread
  <2> QED
    BY <2>1, <2>2, <1>c, <1>l, <1>o, <1>t, <1>w
<1>5. ASSUME NEW w \in Writers, Deduplicated(w) PROVE TxnInv'
  <2>1. /\ UNCHANGED <<log, checkpoint, view, scan, acked>> /\ pc' = [pc EXCEPT ![w] = "done"]
    BY Zenon, <1>5 DEF Deduplicated
  <2>2. acked[w] + 1 <= view[w].txn /\ view[w].txn \in Nat /\ acked[w] \in Nat
    BY Zenon, <1>5, <1>t, StateFields DEF Deduplicated, batch
  <2>3. Upto(log', App[w], acked[w] + 1)
    BY <2>2, <1>o DEF Upto
  <2> QED
    BY Zenon, <2>1, <2>3, <1>c, <1>l, <1>o, <1>t, <1>w
<1>6. ASSUME NEW w \in Writers, WriteFiles(w) PROVE TxnInv'
  <2>1. /\ UNCHANGED <<log, checkpoint, view, scan, acked>> /\ pc' = [pc EXCEPT ![w] = "commit"]
    BY Zenon, <1>6 DEF WriteFiles
  <2> QED
    BY Zenon, <2>1, <1>c, <1>l, <1>o, <1>t, <1>w
\* The commit of a batch whose predecessors were all acknowledged.
<1>p. ASSUME NEW w \in Writers, Free(w), Put(w)
      PROVE  LogKnown /\ Upto(log', App[w], acked[w] + 1)
  <2>1. Upto(log', App[w], batch(w))
    BY Zenon, <1>p, UptoNext DEF TxnInv
  <2>2. Grows /\ log'[Len(log) + 1].by = w /\ log'[Len(log) + 1].txn = batch(w)
    BY Zenon, <1>p, PutEntry, PutGrows
  <2> QED
    BY Zenon, <2>1, <2>2, <1>a DEF batch
<1>7. ASSUME NEW w \in Writers, CommitLands(w) PROVE TxnInv'
  <2>1. LogKnown /\ Upto(log', App[w], acked[w] + 1)
    BY Zenon, <1>7, <1>p DEF CommitLands
  <2>2. /\ UNCHANGED <<checkpoint, scan, acked>> /\ view' = [view EXCEPT ![w] = Moved(w)]
        /\ \E p \in {"checkpoint", "done"} : pc' = [pc EXCEPT ![w] = p]
    BY ZenonT(30), <1>7 DEF CommitLands
  <2>3. Moved(w).txn = acked[w] + 1
    BY Zenon DEF Moved, batch
  <2>4. \A v \in Writers \ {w} : view'[v] = view[v] /\ pc'[v] = pc[v]
    BY Zenon, <1>t, <2>2
  <2>5. view'[w].txn = acked[w] + 1
    BY Zenon, <1>t, <2>2, <2>3
  <2>6. Known(w, view'[w], scan'[w], acked'[w]) /\ Finished(w)
    BY Zenon, <1>o, <2>1, <2>2, <2>5
  <2> QED
    BY Zenon, <2>1, <2>2, <2>4, <2>6, <1>c, <1>w
<1>8. ASSUME NEW w \in Writers, CommitUnacknowledged(w) PROVE TxnInv'
  <2>1. LogKnown
    BY Zenon, <1>8, <1>p DEF CommitUnacknowledged
  <2>2. /\ UNCHANGED <<checkpoint, view, scan, acked>> /\ pc[w] = "commit"
        /\ (pc' = [pc EXCEPT ![w] = "idle"] \/ pc' = pc)
    BY Zenon, <1>8 DEF CommitUnacknowledged
  <2>3. pc'[w] \in {"commit", "idle"} /\ \A v \in Writers \ {w} : pc'[v] = pc[v]
    BY Zenon, <1>t, <2>2
  <2>4. Finished(w)
    BY <2>3
  <2> QED
    BY Zenon, <2>1, <2>2, <2>3, <2>4, <1>c, <1>o, <1>w
<1>9. ASSUME NEW w \in Writers, PutCheckpoint(w) PROVE TxnInv'
  <2> DEFINE c == [version |-> view[w].next - 1, live |-> view[w].live,
                   app |-> App[w], txn |-> view[w].txn]
  <2>1. c.app = App[w] /\ c.txn = view[w].txn
    BY Zenon
  <2>2. /\ UNCHANGED <<log, view, scan, acked>> /\ pc[w] = "checkpoint"
        /\ pc' = [pc EXCEPT ![w] = "hint"] /\ checkpoint' \subseteq checkpoint \cup {c}
    BY Zenon, <1>9 DEF PutCheckpoint
  <2> HIDE DEF c
  <2>3. CheckpointsKnown
    BY ZenonT(30), <2>1, <2>2, <1>u DEF CheckpointsKnown, TxnInv
  <2> QED
    BY Zenon, <2>2, <2>3, <1>l, <1>o, <1>f, <1>t, <1>w
<1>10. ASSUME NEW w \in Writers, PutHint(w) \/ CheckpointFails(w) PROVE TxnInv'
  <2>1. /\ UNCHANGED <<log, checkpoint, view, scan, acked>> /\ pc[w] \in {"checkpoint", "hint"}
        /\ pc' = [pc EXCEPT ![w] = "done"]
    BY Zenon, <1>10 DEF PutHint, CheckpointFails
  <2> QED
    BY Zenon, <2>1, <1>c, <1>l, <1>o, <1>f, <1>t, <1>w
<1>11. ASSUME NEW w \in Writers, CallerRecords(w) PROVE TxnInv'
  <2>1. /\ UNCHANGED <<log, checkpoint, view, scan>> /\ pc[w] = "done"
        /\ pc' = [pc EXCEPT ![w] = "idle"] /\ acked' = [acked EXCEPT ![w] = acked[w] + 1]
    BY Zenon, <1>11 DEF CallerRecords, batch
  <2> QED
    BY Zenon, <2>1, <1>c, <1>l, <1>o, <1>f, <1>t, <1>w
<1>12. ASSUME NEW w \in Writers, WriteError(w) \/ Crash(w) PROVE TxnInv'
  <2>1. /\ UNCHANGED <<log, checkpoint, acked>> /\ scan' = [scan EXCEPT ![w] = Unread]
        /\ (view' = view \/ view' = [view EXCEPT ![w] = Unread])
        /\ \E p \in {"idle", "closed"} : pc' = [pc EXCEPT ![w] = p]
    BY Zenon, <1>12 DEF WriteError, Crash
  <2>2. Upto(log', App[w], Unread.txn)
    BY Zenon, UptoZero DEF Unread
  <2> QED
    BY <2>1, <2>2, <1>c, <1>l, <1>o, <1>t, <1>w
<1>13. CASE UNCHANGED vars
  BY Zenon, <1>13, <1>c, <1>l, <1>n, <1>o, <1>f DEF vars
<1> QED
  BY Zenon, <1>1, <1>2, <1>3, <1>4, <1>5, <1>6, <1>7, <1>8, <1>9, <1>10, <1>11, <1>12, <1>13
     DEF Next, Step

\* A batch whose write returned Ok is in the log, in every environment: append and
\* replace never drop as a replay a batch that was not committed, even when a read
\* fails, a checkpoint is lost or another writer shares the appId.
THEOREM AcknowledgedIsCommitted == Spec => []AckedIsCommitted
<1>1. TypeOK /\ TypeOK' /\ TxnInv /\ [Next]_vars => TxnInv'
  BY Zenon, TxnStep
<1>2. TxnInv => AckedIsCommitted
  BY ZenonT(30) DEF TxnInv, Upto, Has, AckedIsCommitted
<1> QED
  BY <1>1, <1>2, TxnInit, TypeCorrect, PTL DEF Spec

-----------------------------------------------------------------------------
(* No batch is committed twice *)

\* Where a writer can always read back its own stamp: writers have appIds of their own,
\* one that checkpoints has the table to itself, and no commit or checkpoint that is
\* there is reported as missing.
StampsReadable ==
  /\ \A v, w \in Writers : App[v] = App[w] => v = w
  /\ Interval = 0 \/ \A v, w \in Writers : v = w
  /\ Faults \cap {"ack", "read", "unreadable"} = {}

\* Among the first n commits of L, those of writer w are stamped at most m.
Below(L, w, n, m) == \A k \in 1..n : L[k].by = w => L[k].txn <= m

\* What writer w at p, with view v, read s and acknowledgement a, knows of its stamps:
\* while it writes, its batch is not in the log.
Stamped(L, w, p, v, s, a) ==
  /\ p \in {"opening", "rereading"} => Below(L, w, s.next, s.txn)
  /\ p \notin {"closed", "opening"} => Below(L, w, Len(L), v.txn)
  /\ Below(L, w, Len(L), a + 1)
  /\ p \in {"commit", "rereading"} => Below(L, w, Len(L), a)

\* A checkpoint carries the stamp of every writer there is.
CheckpointStamped(L, c) ==
  \A w \in Writers : c.app = App[w] /\ Below(L, w, c.version + 1, c.txn)

OnceIn(L) == \A m, n \in 1..Len(L) :
               L[m].by \in Writers /\ L[m].by = L[n].by /\ L[m].txn = L[n].txn => m = n

OnceInv ==
  /\ OnceIn(log)
  /\ Interval = 0 => checkpoint = {} /\ \A w \in Writers : pc[w] # "checkpoint"
  /\ \A c \in checkpoint : CheckpointStamped(log, c)
  /\ \A w \in Writers : Stamped(log, w, pc[w], view[w], scan[w], acked[w])

\* Nothing is known of a writer's stamps before anything is committed.
LEMMA OnceInit == Init => OnceInv
<1> SUFFICES ASSUME Init PROVE OnceInv
  BY Zenon
<1>1. Len(log) = 0 /\ checkpoint = {} /\ \A w \in Writers : pc[w] = "closed"
  BY DEF Init
<1>2. \A w \in Writers : \A m : Below(log, w, Len(log), m)
  BY <1>1 DEF Below
<1> QED
  BY <1>1, <1>2 DEF OnceInv, OnceIn, Stamped

\* What is known of a prefix of the log stays true, and of the whole log unless the
\* writer's own commit is added.
LEMMA BelowStays ==
  ASSUME TypeOK, log' = log \/ Grows, NEW w, NEW m
  PROVE  /\ \A n \in 0..Len(log) : Below(log, w, n, m) => Below(log', w, n, m)
         /\ (Grows => log'[Len(log) + 1].by # w) /\ Below(log, w, Len(log), m)
              => Below(log', w, Len(log'), m)
<1>1. Len(log) \in Nat
  <2>1. log \in Seq(Commits)
    BY Zenon DEF TypeOK
  <2> QED
    BY Zenon, <2>1, AsFunction
<1>2. CASE log' = log
  <2>1. ~Grows
    BY <1>1, <1>2 DEF Grows
  <2> QED
    BY Zenon, <1>2, <2>1
<1>3. CASE Grows
  <2>1. \A n \in 1..Len(log) : log'[n] = log[n]
    BY Zenon, <1>3 DEF Grows
  <2>2. Len(log') = Len(log) + 1
    BY Zenon, <1>3 DEF Grows
  <2>3. \A n \in 0..Len(log) : Below(log, w, n, m) => Below(log', w, n, m)
    BY <1>1, <2>1 DEF Below
  <2>4. ASSUME log'[Len(log) + 1].by # w, Below(log, w, Len(log), m)
        PROVE  Below(log', w, Len(log'), m)
    BY <1>1, <2>1, <2>2, <2>4 DEF Below
  <2> QED
    BY Zenon, <1>3, <2>3, <2>4
<1> QED
  BY Zenon, <1>2, <1>3

\* The batch a writer commits is new: no earlier commit of its own carries its stamp.
LEMMA OnceGrows ==
  ASSUME TypeOK, Grows, OnceIn(log), NEW w, log'[Len(log) + 1].by = w,
         NEW a \in Nat, w \in Writers => log'[Len(log) + 1].txn = a + 1,
         w \in Writers => Below(log, w, Len(log), a)
  PROVE  /\ OnceIn(log')
         /\ w \in Writers => Below(log', w, Len(log'), a + 1)
<1>1. log \in Seq(Commits)
  BY Zenon DEF TypeOK
<1>2. Len(log) \in Nat /\ Len(log') = Len(log) + 1 /\ \A n \in 1..Len(log) : log'[n] = log[n]
  BY Zenon, <1>1, AsFunction DEF Grows
<1>3. \A n \in 1..Len(log) : log[n].txn \in Nat
  BY <1>1, CommitFields
<1>4. OnceIn(log')
  <2> SUFFICES ASSUME NEW m \in 1..(Len(log) + 1), NEW n \in 1..(Len(log) + 1),
                      log'[m].by \in Writers, log'[m].by = log'[n].by,
                      log'[m].txn = log'[n].txn
               PROVE  m = n
    BY Zenon, <1>2 DEF OnceIn
  <2>1. CASE m \in 1..Len(log) /\ n \in 1..Len(log)
    BY Zenon, <1>2, <2>1 DEF OnceIn
  <2>2. ASSUME NEW k \in 1..Len(log), log'[k].by = w, w \in Writers PROVE log'[k].txn # a + 1
    BY <1>2, <1>3, <2>2 DEF Below
  <2>3. CASE m = Len(log) + 1 /\ n \in 1..Len(log)
    BY Zenon, <2>2, <2>3
  <2>4. CASE n = Len(log) + 1 /\ m \in 1..Len(log)
    BY Zenon, <2>2, <2>4
  <2>5. m \in 1..Len(log) \/ m = Len(log) + 1
    BY <1>2
  <2>6. n \in 1..Len(log) \/ n = Len(log) + 1
    BY <1>2
  <2> QED
    BY Zenon, <2>1, <2>3, <2>4, <2>5, <2>6
<1>5. ASSUME w \in Writers PROVE Below(log', w, Len(log'), a + 1)
  BY <1>2, <1>3, <1>5 DEF Below
<1> QED
  BY Zenon, <1>4, <1>5

\* A read starts from what a checkpoint says of the reader's own stamps.
LEMMA StartsStamped ==
  ASSUME StampsReadable, OnceInv, NEW w \in Writers, NEW s \in Starts(w)
  PROVE  Below(log, w, s.next, s.txn)
<1>1. CASE s = Unread
  BY <1>1 DEF Unread, Below
<1>2. ASSUME NEW c \in checkpoint, s = FromCheckpoint(w, c) PROVE Below(log, w, s.next, s.txn)
  <2>1. c.app = App[w] /\ Below(log, w, c.version + 1, c.txn)
    BY Zenon DEF OnceInv, CheckpointStamped
  <2>2. s.next = c.version + 1 /\ s.txn = c.txn
    BY <1>2, <2>1 DEF FromCheckpoint
  <2> QED
    BY Zenon, <2>1, <2>2
<1> QED
  BY Zenon, <1>1, <1>2 DEF Starts, StampsReadable

\* Replaying a commit takes over the stamp of the reader's own.
LEMMA ReplayedStamped ==
  ASSUME TypeOK, NEW w \in Writers, NEW s \in LogState, s.next < Len(log),
         Below(log, w, s.next, s.txn)
  PROVE  LET t == Replayed(w, s, log[s.next + 1]) IN Below(log, w, t.next, t.txn)
<1> DEFINE c == log[s.next + 1]
           t == Replayed(w, s, c)
<1>1. log \in Seq(Commits) /\ s.next \in Nat /\ s.txn \in Nat
  BY Zenon, StateFields DEF TypeOK
<1>2. s.next + 1 \in 1..Len(log) /\ Other # w
  BY <1>1, AsFunction, ConstantTypes
<1>3. c.txn \in Nat
  BY <1>1, <1>2, CommitFields
<1>4. t.next = s.next + 1 /\ s.txn <= t.txn /\ (c.by = w => c.txn <= t.txn)
  BY <1>1, <1>2, <1>3 DEF Replayed, Max
<1>5. t.txn \in Nat
  BY <1>1, <1>3 DEF Replayed, Max
<1>6. \A k \in 1..s.next : log[k].txn \in Nat
  BY <1>1, <1>2, CommitFields
<1> HIDE DEF t
<1>7. Below(log, w, t.next, t.txn)
  BY <1>1, <1>3, <1>4, <1>5, <1>6 DEF Below
<1> QED
  BY Zenon, <1>7 DEF t

\* Every step keeps the stamps a writer can read back those it has committed.
LEMMA OnceStep ==
  ASSUME StampsReadable, IInv, TypeOK', OnceInv, [Next]_vars PROVE OnceInv'
<1>t. /\ TypeOK /\ StateInv /\ log \in Seq(Commits)
      /\ view \in [Writers -> LogState] /\ scan \in [Writers -> LogState]
      /\ acked \in [Writers -> Nat] /\ DOMAIN pc = Writers
  BY Zenon DEF IInv, TypeOK
<1>n. Len(log) \in Nat
  BY Zenon, <1>t, AsFunction
<1>g. log' = log \/ Grows
  BY Zenon, <1>t, LogStep
<1>i. OnceIn(log) /\ \A w \in Writers : Stamped(log, w, pc[w], view[w], scan[w], acked[w])
  BY Zenon DEF OnceInv
\* What stays known of a writer that commits nothing.
<1>s. ASSUME NEW w \in Writers, Grows => log'[Len(log) + 1].by # w
      PROVE  Stamped(log', w, pc[w], view[w], scan[w], acked[w])
  <2>1. scan[w].next \in 0..Len(log)
    <3>1. scan[w].next <= Len(log)
      BY Zenon, <1>t DEF StateInv, Exact
    <3>2. scan[w].next \in Nat
      BY Zenon, <1>t, StateFields
    <3> QED
      BY <1>n, <3>1, <3>2
  <2>2. \A m : Below(log, w, scan[w].next, m) => Below(log', w, scan[w].next, m)
    BY Zenon, <1>g, <1>t, <2>1, BelowStays
  <2>3. \A m : Below(log, w, Len(log), m) => Below(log', w, Len(log'), m)
    BY Zenon, <1>g, <1>s, <1>t, BelowStays
  <2> QED
    BY Zenon, <1>i, <2>2, <2>3 DEF Stamped
\* Checkpoints that are not written stay what they are.
<1> DEFINE CheckpointsStamped == \A c \in checkpoint' : CheckpointStamped(log', c)
<1>c. \A c \in checkpoint : CheckpointStamped(log', c)
  <2> SUFFICES ASSUME NEW c \in checkpoint, NEW w \in Writers
               PROVE  c.app = App[w] /\ Below(log', w, c.version + 1, c.txn)
    BY Zenon DEF CheckpointStamped
  <2>1. c.app = App[w] /\ Below(log, w, c.version + 1, c.txn)
    BY Zenon DEF OnceInv, CheckpointStamped
  <2>2. c.version \in Nat /\ c.version < Len(log)
    BY <1>t DEF IInv, CheckpointExact, TypeOK
  <2>3. c.version + 1 \in 0..Len(log)
    BY <1>n, <2>2
  <2> QED
    BY Zenon, <1>g, <1>t, <2>1, <2>3, BelowStays
<1>d. checkpoint' = checkpoint => CheckpointsStamped
  BY Zenon, <1>c
<1>e. OnceIn(log) /\ log' = log => OnceIn(log')
  BY Zenon
\* A step of one writer.
<1> DEFINE Alone(w) == \A v \in Writers \ {w} : /\ view'[v] = view[v] /\ scan'[v] = scan[v]
                                                /\ acked'[v] = acked[v] /\ pc'[v] = pc[v]
<1>w. ASSUME NEW w \in Writers, OnceIn(log'), CheckpointsStamped,
             Interval = 0 => checkpoint' = {} /\ pc'[w] # "checkpoint",
             Alone(w), Grows => log'[Len(log) + 1].by = w,
             Stamped(log', w, pc'[w], view'[w], scan'[w], acked'[w])
      PROVE  OnceInv'
  <2>1. \A v \in Writers \ {w} : Stamped(log', v, pc'[v], view'[v], scan'[v], acked'[v])
    BY Zenon, <1>w, <1>s
  <2>2. \A v \in Writers : Stamped(log', v, pc'[v], view'[v], scan'[v], acked'[v])
    BY Zenon, <1>w, <2>1
  <2>3. Interval = 0 => \A v \in Writers : pc'[v] # "checkpoint"
    BY Zenon, <1>w DEF OnceInv
  <2> QED
    BY Zenon, <1>w, <2>2, <2>3 DEF OnceInv
<1>x. Interval = 0 => checkpoint = {} /\ \A w \in Writers : pc[w] # "checkpoint"
  BY Zenon DEF OnceInv
\* A step of one writer that leaves log and checkpoints alone.
<1>q. ASSUME NEW w \in Writers, UNCHANGED <<log, checkpoint>>, Alone(w),
             pc'[w] # "checkpoint", Stamped(log, w, pc'[w], view'[w], scan'[w], acked'[w])
      PROVE  OnceInv'
  <2>1. ~Grows
    BY <1>n, <1>q DEF Grows
  <2>2. Stamped(log', w, pc'[w], view'[w], scan'[w], acked'[w])
    BY Zenon, <1>q
  <2>3. Interval = 0 => checkpoint' = {} /\ pc'[w] # "checkpoint"
    BY Zenon, <1>q, <1>x
  <2>4. OnceIn(log') /\ CheckpointsStamped
    BY Zenon, <1>d, <1>e, <1>i, <1>q
  <2> HIDE DEF CheckpointsStamped
  <2> QED
    BY Zenon, <1>q, <1>w, <2>1, <2>2, <2>3, <2>4
<1> USE DEF disk, write
<1>z. ASSUME NEW w \in Writers PROVE Stamped(log, w, pc[w], view[w], scan[w], acked[w])
  BY Zenon, <1>i
<1>1. CASE Compact
  <2>1. Grows /\ log'[Len(log) + 1].by = Other /\ Other \notin Writers
    BY Zenon, <1>1, <1>t, CompactGrows, ConstantTypes
  <2>2. UNCHANGED <<checkpoint, view, scan, acked, pc>>
    BY Zenon, <1>1 DEF Compact
  <2>3. OnceIn(log')
    <3>1. 0 \in Nat
      OBVIOUS
    <3> QED
      BY Zenon, <1>i, <1>t, <2>1, <3>1, OnceGrows
  <2>4. \A w \in Writers : Stamped(log', w, pc'[w], view'[w], scan'[w], acked'[w])
    BY Zenon, <1>s, <2>1, <2>2
  <2> QED
    BY Zenon, <1>d, <1>x, <2>2, <2>3, <2>4 DEF OnceInv
<1>2. ASSUME NEW w \in Writers, Open(w) \/ VersionTaken(w) PROVE OnceInv'
  <2>1. PICK s \in Starts(w) : scan' = [scan EXCEPT ![w] = s]
    BY Zenon, <1>2 DEF Open, VersionTaken
  <2>2. Below(log, w, s.next, s.txn)
    BY Zenon, StartsStamped
  <2>3. /\ UNCHANGED <<log, checkpoint, view, acked>>
        /\ \/ pc' = [pc EXCEPT ![w] = "opening"]
           \/ pc[w] = "commit" /\ pc' = [pc EXCEPT ![w] = "rereading"]
    BY Zenon, <1>2 DEF Open, VersionTaken
  <2>4. Alone(w)
    BY Zenon, <1>t, <2>1, <2>3
  <2>5. /\ scan'[w] = s /\ view'[w] = view[w] /\ acked'[w] = acked[w]
        /\ \/ pc'[w] = "opening"
           \/ pc[w] = "commit" /\ pc'[w] = "rereading"
    BY Zenon, <1>t, <2>1, <2>3
  <2>6. Stamped(log, w, pc'[w], view'[w], scan'[w], acked'[w])
    <3>1. CASE pc'[w] = "opening"
      BY <1>z, <2>2, <2>5, <3>1 DEF Stamped
    <3>2. CASE pc[w] = "commit" /\ pc'[w] = "rereading"
      BY <1>z, <2>2, <2>5, <3>2 DEF Stamped
    <3> QED
      BY Zenon, <2>5, <3>1, <3>2
  <2> QED
    BY Zenon, <1>q, <2>3, <2>4, <2>5, <2>6
<1>3. ASSUME NEW w \in Writers, ReadCommit(w) PROVE OnceInv'
  <2> DEFINE s == Replayed(w, scan[w], log[scan[w].next + 1])
  <2>1. /\ UNCHANGED <<log, checkpoint, pc, view, acked>> /\ scan' = [scan EXCEPT ![w] = s]
        /\ pc[w] \in {"opening", "rereading"} /\ scan[w].next < Len(log)
    BY Zenon, <1>3 DEF ReadCommit
  <2>2. Below(log, w, s.next, s.txn)
    <3>1. Below(log, w, scan[w].next, scan[w].txn) /\ scan[w] \in LogState
      BY Zenon, <1>t, <1>z, <2>1 DEF Stamped
    <3> QED
      BY Zenon, <1>t, <2>1, <3>1, ReplayedStamped
  <2> HIDE DEF s
  <2>3. Alone(w) /\ scan'[w] = s
    BY Zenon, <1>t, <2>1
  <2>4. Stamped(log, w, pc'[w], view'[w], scan'[w], acked'[w]) /\ pc'[w] # "checkpoint"
    BY <1>z, <2>1, <2>2, <2>3 DEF Stamped
  <2> QED
    BY Zenon, <1>q, <2>1, <2>3, <2>4
<1>4. ASSUME NEW w \in Writers, ReadEnd(w) PROVE OnceInv'
  <2>1. /\ UNCHANGED <<log, checkpoint, acked>>
        /\ view' = [view EXCEPT ![w] = scan[w]] /\ scan' = [scan EXCEPT ![w] = Unread]
        /\ pc' = [pc EXCEPT ![w] = IF pc[w] = "opening" THEN "idle" ELSE "commit"]
        /\ pc[w] \in {"opening", "rereading"} /\ scan[w].next = Len(log)
    BY Zenon, <1>4 DEF ReadEnd
  <2>2. Alone(w)
    BY Zenon, <1>t, <2>1
  <2>3. /\ view'[w] = scan[w] /\ acked'[w] = acked[w]
        /\ pc'[w] = IF pc[w] = "opening" THEN "idle" ELSE "commit"
    BY Zenon, <1>t, <2>1
  <2>4. Stamped(log, w, pc'[w], view'[w], scan'[w], acked'[w]) /\ pc'[w] # "checkpoint"
    BY <1>z, <2>1, <2>3 DEF Stamped
  <2> QED
    BY Zenon, <1>q, <2>1, <2>2, <2>4
<1>5. ASSUME NEW w \in Writers, Deduplicated(w) PROVE OnceInv'
  <2>1. /\ UNCHANGED <<log, checkpoint, view, scan, acked>> /\ pc' = [pc EXCEPT ![w] = "done"]
        /\ pc[w] = "idle"
    BY Zenon, <1>5 DEF Deduplicated
  <2>2. Alone(w) /\ pc'[w] = "done"
    BY Zenon, <1>t, <2>1
  <2>3. Stamped(log, w, pc'[w], view'[w], scan'[w], acked'[w])
    BY <1>z, <2>1, <2>2 DEF Stamped
  <2> QED
    BY Zenon, <1>q, <2>1, <2>2, <2>3
<1>6. ASSUME NEW w \in Writers, WriteFiles(w) PROVE OnceInv'
  <2>1. /\ UNCHANGED <<log, checkpoint, view, scan, acked>> /\ pc' = [pc EXCEPT ![w] = "commit"]
        /\ pc[w] = "idle" /\ acked[w] + 1 > view[w].txn
    BY Zenon, <1>6 DEF WriteFiles, batch
  <2>2. Alone(w) /\ pc'[w] = "commit"
    BY Zenon, <1>t, <2>1
  <2>3. Below(log, w, Len(log), view[w].txn)
    BY <1>z, <2>1 DEF Stamped
  <2>4. Below(log, w, Len(log), acked[w])
    <3>1. view[w].txn \in Nat /\ acked[w] \in Nat
      BY Zenon, <1>t, StateFields
    <3>2. \A k \in 1..Len(log) : log[k].txn \in Nat
      BY <1>t, CommitFields
    <3> QED
      BY <2>1, <2>3, <3>1, <3>2 DEF Below
  <2>5. Stamped(log, w, pc'[w], view'[w], scan'[w], acked'[w])
    BY <1>z, <2>1, <2>2, <2>4 DEF Stamped
  <2> QED
    BY Zenon, <1>q, <2>1, <2>2, <2>5
<1>7. ASSUME NEW w \in Writers, CommitLands(w) PROVE OnceInv'
  <2>1. /\ UNCHANGED <<checkpoint, scan, acked>> /\ view' = [view EXCEPT ![w] = Moved(w)]
        /\ pc' = [pc EXCEPT ![w] = IF Due(w, view[w].next) THEN "checkpoint" ELSE "done"]
        /\ Free(w) /\ Put(w) /\ pc[w] = "commit"
    BY Zenon, <1>7 DEF CommitLands
  <2>2. Grows /\ log'[Len(log) + 1].by = w /\ log'[Len(log) + 1].txn = acked[w] + 1
    BY Zenon, <1>t, <2>1, PutEntry, PutGrows DEF batch
  <2>3. OnceIn(log') /\ Below(log', w, Len(log'), acked[w] + 1)
    <3>1. Below(log, w, Len(log), acked[w]) /\ acked[w] \in Nat
      BY <1>t, <1>z, <2>1 DEF Stamped
    <3> QED
      BY Zenon, <1>i, <1>t, <2>2, <3>1, OnceGrows
  <2>4. Moved(w).txn = acked[w] + 1
    BY DEF Moved, batch
  <2>5. pc'[w] \in {"checkpoint", "done"} /\ view'[w] = Moved(w) /\ acked'[w] = acked[w]
    BY Zenon, <1>t, <2>1
  <2>6. Stamped(log', w, pc'[w], view'[w], scan'[w], acked'[w])
    BY <2>3, <2>4, <2>5 DEF Stamped
  <2>7. Interval = 0 => checkpoint' = {} /\ pc'[w] # "checkpoint"
    <3>1. Interval = 0 => ~Due(w, view[w].next)
      BY Zenon DEF Due
    <3> QED
      BY Zenon, <1>t, <1>x, <2>1, <3>1
  <2>8. CheckpointsStamped
    BY Zenon, <1>d, <2>1
  <2>9. Alone(w)
    BY Zenon, <1>t, <2>1
  <2> HIDE DEF CheckpointsStamped
  <2> QED
    BY Zenon, <1>w, <2>2, <2>3, <2>6, <2>7, <2>8, <2>9
<1>8. ASSUME NEW w \in Writers, CommitUnacknowledged(w) PROVE OnceInv'
  BY Zenon, <1>8 DEF CommitUnacknowledged, StampsReadable
<1>9. ASSUME NEW w \in Writers, PutCheckpoint(w) PROVE OnceInv'
  <2> DEFINE c == [version |-> view[w].next - 1, live |-> view[w].live,
                   app |-> App[w], txn |-> view[w].txn]
  <2>1. c.app = App[w] /\ c.txn = view[w].txn /\ c.version = view[w].next - 1
    OBVIOUS
  <2>2. /\ UNCHANGED <<log, view, scan, acked>> /\ pc[w] = "checkpoint"
        /\ pc' = [pc EXCEPT ![w] = "hint"] /\ checkpoint' \subseteq checkpoint \cup {c}
    BY Zenon, <1>9 DEF PutCheckpoint
  <2> HIDE DEF c
  <2>3. view[w].next \in Nat /\ view[w].next <= Len(log)
    BY Zenon, <1>t, StateFields DEF StateInv, Exact
  <2>4. CheckpointStamped(log', c)
    <3>1. \A v \in Writers : v = w
      BY Zenon, <1>x, <2>2 DEF StampsReadable
    <3>2. Below(log, w, Len(log), view[w].txn)
      BY <1>z, <2>2 DEF Stamped
    <3>3. Below(log, w, c.version + 1, c.txn)
      BY <1>n, <2>1, <2>3, <3>2 DEF Below
    <3> QED
      BY Zenon, <2>1, <2>2, <3>1, <3>3 DEF CheckpointStamped
  <2>5. CheckpointsStamped
    BY Zenon, <1>c, <2>2, <2>4
  <2>6. pc'[w] = "hint" /\ Interval # 0
    BY Zenon, <1>t, <1>x, <2>2
  <2>7. Stamped(log', w, pc'[w], view'[w], scan'[w], acked'[w])
    <3>1. Stamped(log, w, "hint", view[w], scan[w], acked[w])
      BY <1>z, <2>2 DEF Stamped
    <3> QED
      BY Zenon, <2>2, <2>6, <3>1
  <2>8. Alone(w)
    BY Zenon, <1>t, <2>2
  <2>9. ~Grows /\ OnceIn(log')
    <3>1. ~Grows
      BY <1>n, <2>2 DEF Grows
    <3> QED
      BY Zenon, <1>i, <2>2, <3>1
  <2> HIDE DEF CheckpointsStamped
  <2> QED
    BY Zenon, <1>w, <2>5, <2>6, <2>7, <2>8, <2>9
<1>10. ASSUME NEW w \in Writers, PutHint(w) \/ CheckpointFails(w) PROVE OnceInv'
  <2>1. /\ UNCHANGED <<log, checkpoint, view, scan, acked>> /\ pc[w] \in {"checkpoint", "hint"}
        /\ pc' = [pc EXCEPT ![w] = "done"]
    BY Zenon, <1>10 DEF PutHint, CheckpointFails
  <2>2. Alone(w) /\ pc'[w] = "done"
    BY Zenon, <1>t, <2>1
  <2>3. Stamped(log, w, pc'[w], view'[w], scan'[w], acked'[w])
    BY <1>z, <2>1, <2>2 DEF Stamped
  <2> QED
    BY Zenon, <1>q, <2>1, <2>2, <2>3
<1>11. ASSUME NEW w \in Writers, CallerRecords(w) PROVE OnceInv'
  <2>1. /\ UNCHANGED <<log, checkpoint, view, scan>> /\ pc[w] = "done"
        /\ pc' = [pc EXCEPT ![w] = "idle"] /\ acked' = [acked EXCEPT ![w] = acked[w] + 1]
    BY Zenon, <1>11 DEF CallerRecords, batch
  <2>2. Alone(w) /\ pc'[w] = "idle" /\ acked'[w] = acked[w] + 1
    BY Zenon, <1>t, <2>1
  <2>3. Below(log, w, Len(log), acked[w] + 1)
    BY Zenon, <1>z DEF Stamped
  <2>4. Below(log, w, Len(log), acked[w] + 1 + 1)
    <3>1. acked[w] \in Nat /\ \A k \in 1..Len(log) : log[k].txn \in Nat
      BY <1>t, CommitFields
    <3> QED
      BY <2>3, <3>1 DEF Below
  <2>5. Stamped(log, w, pc'[w], view'[w], scan'[w], acked'[w])
    BY <1>z, <2>1, <2>2, <2>4 DEF Stamped
  <2> QED
    BY Zenon, <1>q, <2>1, <2>2, <2>5
<1>12. ASSUME NEW w \in Writers, WriteError(w) PROVE OnceInv'
  <2>1. /\ UNCHANGED <<log, checkpoint, view, acked>> /\ scan' = [scan EXCEPT ![w] = Unread]
        /\ pc' = [pc EXCEPT ![w] = "idle"] /\ pc[w] \in {"commit", "rereading"}
    BY Zenon, <1>12 DEF WriteError
  <2>2. Alone(w) /\ pc'[w] = "idle"
    BY Zenon, <1>t, <2>1
  <2>3. Stamped(log, w, pc'[w], view'[w], scan'[w], acked'[w])
    BY <1>z, <2>1, <2>2 DEF Stamped
  <2> QED
    BY Zenon, <1>q, <2>1, <2>2, <2>3
<1>13. ASSUME NEW w \in Writers, Crash(w) PROVE OnceInv'
  <2>1. /\ UNCHANGED <<log, checkpoint, acked>> /\ scan' = [scan EXCEPT ![w] = Unread]
        /\ pc' = [pc EXCEPT ![w] = "closed"] /\ view' = [view EXCEPT ![w] = Unread]
    BY Zenon, <1>13 DEF Crash
  <2>2. Alone(w) /\ pc'[w] = "closed"
    BY Zenon, <1>t, <2>1
  <2>3. Stamped(log, w, pc'[w], view'[w], scan'[w], acked'[w])
    BY <1>z, <2>1, <2>2 DEF Stamped
  <2> QED
    BY Zenon, <1>q, <2>1, <2>2, <2>3
<1>14. CASE UNCHANGED vars
  BY Zenon, <1>14 DEF vars, OnceInv
<1> QED
  BY Zenon, <1>1, <1>2, <1>3, <1>4, <1>5, <1>6, <1>7, <1>8, <1>9, <1>10, <1>11, <1>12, <1>13,
     <1>14 DEF Next, Step

\* No batch is in the log twice, whatever crashed, was refused or was compacted, where
\* the stamps can be read back (StampsReadable): the txn action of a commit is found
\* again by the next open, from the log or from the writer's own checkpoint.
THEOREM BatchesCommitOnce ==
  ASSUME StampsReadable PROVE Spec => []BatchOnce
<1>1. IInv /\ IInv' /\ OnceInv /\ [Next]_vars => OnceInv'
  BY Zenon, OnceStep DEF IInv
<1>2. IInv /\ OnceInv => BatchOnce
  <2> SUFFICES ASSUME IInv, OnceInv, NEW m \in DOMAIN log, NEW n \in DOMAIN log,
                      log[m].by # Other, log[n].by # Other,
                      App[log[m].by] = App[log[n].by], log[m].txn = log[n].txn
               PROVE  m = n
    BY Zenon DEF BatchOnce
  <2>1. log \in Seq(Commits)
    BY Zenon DEF IInv, TypeOK
  <2>2. DOMAIN log = 1..Len(log)
    BY Zenon, <2>1, AsFunction
  <2>3. log[m].by \in Writers /\ log[n].by \in Writers
    BY <2>1, <2>2, CommitFields
  <2>4. log[m].by = log[n].by
    BY Zenon, <2>3 DEF StampsReadable
  <2> QED
    BY Zenon, <2>2, <2>3, <2>4 DEF OnceInv, OnceIn
<1> QED
  BY <1>1, <1>2, OnceInit, IInvAlways, PTL DEF Spec
=============================================================================
