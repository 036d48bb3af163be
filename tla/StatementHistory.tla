-------------------------- MODULE StatementHistory --------------------------
(***************************************************************************)
(* The durable statement history of a server: the statement store (rest.rs) *)
(* hands records to the journal's one writer thread (history/journal.rs),   *)
(* a spill thread writes result files (history/results.rs), sweeps evict    *)
(* statements, and a crash may come between any two steps; a boot reads     *)
(* the files back (history/mod.rs).                                         *)
(*                                                                          *)
(* A handler changes the store under its mutex, releases it, and only then  *)
(* reaches the journal: `hands' holds the records between the two.          *)
(***************************************************************************)
EXTENDS Journal

CONSTANTS
  Spillable,          \* the statements whose result has rows to spill
  Capacity,           \* of the writer channel (CHANNEL_CAPACITY)
  OverflowCapacity,   \* of the overflow queue (OVERFLOW_CAPACITY)
  MaxCrashes,         \* bounds the crashes
  MaxRefusals,        \* bounds the writes the disk refuses
  MaxRolls,           \* bounds the segments that reach their size
  Faults              \* "torn": a refused or a cut write may leave a fragment

ASSUME ConstantsAssumption ==
  /\ Spillable \subseteq Ids
  /\ Capacity \in Nat \ {0} /\ OverflowCapacity \in Nat
  /\ MaxCrashes \in Nat /\ MaxRefusals \in Nat /\ MaxRolls \in Nat
  /\ Faults \subseteq {"torn"}

VARIABLES
  phase,     \* "down", "boot" (inside HistoryRuntime::boot) or "up"
  store,     \* the statements either tier of the store knows
  unused,    \* the ids not yet minted
  key,       \* the last sequence taken for a record of a statement
  hands,     \* records a thread has built and not yet handed over
  queue,     \* the writer channel and the overflow queue
  ack,       \* the durability ack parked on a statement
  told,      \* what the client waiting on a statement was answered
  degraded,  \* the journal's degraded flag
  spill,     \* where the spill of a statement's result is
  evicting,  \* out of the store, the result file not yet unlinked
  writer,    \* the writer thread: its segment, unsynced lines, its compaction pass
  disk,      \* segments, generations, swap markers, what is synced
  results,   \* the statements with a published result file
  past       \* what has happened, for the properties and the bounds

vars == <<phase, store, unused, key, hands, queue, ack, told, degraded, spill,
          evicting, writer, disk, results, past>>

Unknown == [status |-> "none", sql |-> FALSE, file |-> FALSE]

Alive == {i \in Ids : store[i] # Unknown}

\* A record on its way to the writer, and whether an ack waits on it.
Parcels == [rec : Records, ack : BOOLEAN]
Parcel(rec, waits) == [rec |-> rec, ack |-> waits]

Names == ({"gen"} \X Nat) \cup ({"seg"} \X Nat)

IsDirectory(dir) ==
  /\ DOMAIN dir \subseteq Nat
  /\ \A n \in DOMAIN dir : ToSet(dir[n]) \subseteq Records \cup {Torn}

TypeOK ==
  /\ phase \in {"down", "boot", "up"}
  /\ store \in [Ids -> [status : Statuses, sql : BOOLEAN, file : BOOLEAN]]
  /\ unused \subseteq Ids
  /\ key \in [Ids -> Nat]
  /\ hands \subseteq Parcels
  /\ ToSet(queue.chan) \cup ToSet(queue.over) \subseteq Parcels
  /\ Len(queue.chan) <= Capacity /\ Len(queue.over) <= OverflowCapacity
  /\ ack \in [Ids -> {"none", "parked", "acked", "lost"}]
  /\ told \in [Ids -> {"no", "waiting", "durable", "degraded"}]
  /\ degraded \in BOOLEAN
  /\ spill \in [Ids -> {"no", "queued", "writing", "landed", "handing"}]
  /\ evicting \subseteq Ids /\ results \subseteq Ids
  /\ writer \in [segment : Nat, dirty : BOOLEAN,
                 swap : {"idle", "start", "renamed", "marked"}]
  /\ IsDirectory(disk.segs) /\ IsDirectory(disk.gens)
  /\ disk.synced \in Nat /\ disk.marked \subseteq Names
  /\ past \in [evicted : SUBSET Ids, buried : SUBSET Ids, early : SUBSET Ids,
               unwritten : SUBSET Ids, torn : BOOLEAN, crashes : 0..MaxCrashes,
               refusals : 0..MaxRefusals, rolls : 0..MaxRolls]

EmptyQueue == [chan |-> <<>>, over |-> <<>>]

Init ==
  /\ phase = "up"
  /\ store = [i \in Ids |-> Unknown]
  /\ unused = Ids
  /\ key = [i \in Ids |-> 0]
  /\ hands = {} /\ queue = EmptyQueue
  /\ ack = [i \in Ids |-> "none"] /\ told = [i \in Ids |-> "no"]
  /\ degraded = FALSE
  /\ spill = [i \in Ids |-> "no"] /\ evicting = {}
  /\ writer = [segment |-> 0, dirty |-> FALSE, swap |-> "idle"]
  /\ disk = [segs |-> <<>>, gens |-> <<>>, synced |-> 0, marked |-> {}]
  /\ results = {}
  /\ past = [evicted |-> {}, buried |-> {}, early |-> {}, unwritten |-> {},
             torn |-> FALSE, crashes |-> 0, refusals |-> 0, rolls |-> 0]

-----------------------------------------------------------------------------
(* The statement store: each handler ends by holding a record.              *)

\* insert_from.  The client waits for its statement (?wait=true, or Connect).
Submit(i) ==
  /\ phase = "up" /\ i \in unused
  /\ unused' = unused \ {i}
  /\ store' = [store EXCEPT ![i] = [status |-> "pending", sql |-> TRUE, file |-> FALSE]]
  /\ key' = [key EXCEPT ![i] = 1]
  /\ hands' = hands \cup {Parcel(Record("submitted", i, 1, "pending", FALSE), FALSE)}
  /\ told' = [told EXCEPT ![i] = "waiting"]
  /\ UNCHANGED <<phase, queue, ack, degraded, spill, evicting, writer, disk, results, past>>

InHands(i) == {h \in hands : h.rec.id = i}

\* mark_running, by the execution insert_from's caller spawns when it returns.
MarkRunning(i) ==
  /\ phase = "up" /\ store[i].status = "pending" /\ InHands(i) = {}
  /\ store' = [store EXCEPT ![i].status = "running"]
  /\ hands' = hands \cup {Parcel(Record("running", i, key[i], "running", FALSE), FALSE)}
  /\ UNCHANGED <<phase, unused, key, queue, ack, told, degraded, spill, evicting,
                 writer, disk, results, past>>

\* finish, and cancel, which may come before the submitted record is handed over.
Finish(i) ==
  /\ phase = "up" /\ store[i].status \in {"pending", "running"}
  /\ store' = [store EXCEPT ![i].status = "done"]
  /\ key' = [key EXCEPT ![i] = @ + 1]
  /\ hands' = hands \cup {Parcel(Record("snapshot", i, key'[i], "done", FALSE), TRUE)}
  /\ UNCHANGED <<phase, unused, queue, ack, told, degraded, spill, evicting,
                 writer, disk, results, past>>

\* Any sweep of the history or of the disk: a terminal statement leaves the
\* store under the mutex; its file and its tombstone follow.
Evict(i) ==
  /\ phase = "up" /\ Terminal(store[i].status)
  /\ store' = [store EXCEPT ![i] = Unknown]
  /\ evicting' = evicting \cup {i}
  /\ ack' = [ack EXCEPT ![i] = "none"]
  /\ told' = [told EXCEPT ![i] = IF @ = "waiting" THEN "no" ELSE @]
  /\ past' = [past EXCEPT !.evicted = @ \cup {i}]
  /\ UNCHANGED <<phase, unused, key, hands, queue, degraded, spill, writer, disk, results>>

UnlinkEvicted(i) ==
  /\ i \in evicting
  /\ evicting' = evicting \ {i}
  /\ results' = results \ {i}
  /\ key' = [key EXCEPT ![i] = @ + 1]
  /\ hands' = hands \cup {Parcel(Record("tombstone", i, key'[i], "none", FALSE), FALSE)}
  /\ UNCHANGED <<phase, store, unused, queue, ack, told, degraded, spill, writer, disk, past>>

\* The channel takes a parcel while it has room.  Past that, a running record
\* is dropped and any other goes to the overflow queue, up to its own bound.
Takes(q, p) ==
  IF Len(q.chan) < Capacity THEN "chan"
  ELSE IF p.rec.kind = "running" \/ Len(q.over) >= OverflowCapacity THEN "drop"
  ELSE "over"

Push(q, p) ==
  CASE Takes(q, p) = "chan" -> [q EXCEPT !.chan = Append(@, p)]
    [] Takes(q, p) = "over" -> [q EXCEPT !.over = Append(@, p)]
    [] Takes(q, p) = "drop" -> q

Missed(p, missed) == past' = [past EXCEPT !.unwritten = IF missed THEN @ \cup {p.rec.id} ELSE @]

\* append, append_retained and append_durable.  A terminal record parks its ack
\* on the statement and lets the spill of its rows be queued; a record with a
\* pointer ends a spill, which reports to the store.
HandOver(p) ==
  LET i == p.rec.id
      dropped == Takes(queue, p) = "drop"
  IN  /\ p \in hands
      /\ hands' = hands \ {p}
      /\ queue' = Push(queue, p)
      /\ degraded' = (degraded \/ dropped)
      /\ ack' = [ack EXCEPT ![i] = IF p.ack /\ ~dropped /\ i \in Alive THEN "parked" ELSE @]
      /\ \/ p.ack /\ i \in Spillable /\ spill' = [spill EXCEPT ![i] = "queued"]
         \/ p.rec.file /\ spill' = [spill EXCEPT ![i] = "no"]
         \/ ~p.rec.file /\ UNCHANGED spill
      /\ store' = [store EXCEPT ![i].file = @ \/ (p.rec.file /\ i \in Alive)]
      /\ Missed(p, dropped)
      /\ UNCHANGED <<phase, unused, key, told, evicting, writer, disk, results>>

\* await_durable, once wait_terminal has seen a terminal status: the ack decides
\* if one is parked; without one the flag does.  A parked ack may time out.
Answered(i, answer) == told' = [told EXCEPT ![i] = answer]
ByFlag == IF degraded THEN "degraded" ELSE "durable"

AwaitDurable(i) ==
  /\ phase = "up" /\ told[i] = "waiting" /\ Terminal(store[i].status)
  /\ \/ /\ ack[i] = "none"
        /\ Answered(i, ByFlag)
        /\ past' = [past EXCEPT !.early = IF degraded THEN @ ELSE @ \cup {i}]
        /\ UNCHANGED degraded
     \/ /\ ack[i] = "acked"
        /\ Answered(i, ByFlag)
        /\ UNCHANGED <<past, degraded>>
     \/ /\ ack[i] \in {"parked", "lost"}
        /\ Answered(i, "degraded")
        /\ degraded' = TRUE
        /\ UNCHANGED past
  /\ ack' = [ack EXCEPT ![i] = "none"]
  /\ UNCHANGED <<phase, store, unused, key, hands, queue, spill, evicting, writer, disk, results>>

-----------------------------------------------------------------------------
(* The spill thread: one job at a time.                                     *)

Spilling == {i \in Ids : spill[i] \in {"writing", "landed", "handing"}}

SetSpill(i, stage) == spill' = [spill EXCEPT ![i] = stage]

\* still_live before the encode.
SpillBegin(i) ==
  /\ spill[i] = "queued" /\ Spilling = {}
  /\ SetSpill(i, IF i \in Alive THEN "writing" ELSE "no")
  /\ UNCHANGED <<phase, store, unused, key, hands, queue, ack, told, degraded, evicting,
                 writer, disk, results, past>>

\* The file is published by a durable rename; or it is past the size cap, which
\* is journaled; or the disk refuses it.
SpillWrite(i) ==
  /\ spill[i] = "writing"
  /\ \/ /\ SetSpill(i, "landed")
        /\ results' = results \cup {i}
        /\ UNCHANGED <<key, hands>>
     \/ /\ SetSpill(i, "no")
        /\ key' = [key EXCEPT ![i] = @ + 1]
        /\ hands' = hands \cup {Parcel(Record("snapshot", i, key'[i], "done", FALSE), FALSE)}
        /\ UNCHANGED results
     \/ /\ past.refusals < MaxRefusals
        /\ SetSpill(i, "no")
        /\ UNCHANGED <<key, hands, results>>
  /\ UNCHANGED <<phase, store, unused, queue, ack, told, degraded, evicting, writer, disk, past>>

\* A pointer journaled without the second look.
SpillPublishBlind(i) ==
  /\ spill[i] = "landed"
  /\ SetSpill(i, "handing")
  /\ key' = [key EXCEPT ![i] = @ + 1]
  /\ hands' = hands \cup {Parcel(Record("snapshot", i, key'[i], "done", TRUE), FALSE)}
  /\ UNCHANGED <<phase, store, unused, queue, ack, told, degraded, evicting, writer, disk,
                 results, past>>

\* still_live again: the pointer is journaled, or the file is taken back.
SpillPublish(i) ==
  /\ spill[i] = "landed"
  /\ \/ /\ i \in Alive
        /\ SetSpill(i, "handing")
        /\ key' = [key EXCEPT ![i] = @ + 1]
        /\ hands' = hands \cup {Parcel(Record("snapshot", i, key'[i], "done", TRUE), FALSE)}
        /\ UNCHANGED results
     \/ /\ i \notin Alive
        /\ SetSpill(i, "no")
        /\ results' = results \ {i}
        /\ UNCHANGED <<key, hands>>
  /\ UNCHANGED <<phase, store, unused, queue, ack, told, degraded, evicting, writer, disk, past>>

-----------------------------------------------------------------------------
(* The writer thread: the overflow queue goes before the channel, whose     *)
(* capacity counts the message the writer has received and not yet written. *)

Current == IF writer.segment \in DOMAIN disk.segs THEN disk.segs[writer.segment] ELSE <<>>

Waiting == queue.over \o queue.chan
Popped == IF queue.over # <<>> THEN [queue EXCEPT !.over = Tail(@)]
                               ELSE [queue EXCEPT !.chan = Tail(@)]

Append1(d, line) ==
  [d EXCEPT !.segs = [n \in DOMAIN @ \cup {writer.segment} |->
                        IF n = writer.segment THEN Append(Current, line) ELSE @[n]]]

\* A sync that never reaches the disk, and the sync.
SyncedNever(d) == d
Synced(d) == [d EXCEPT !.synced = Len(d.segs[writer.segment])]

\* Records of a statement that may still be written.
ToCome(i) ==
  \/ i \in evicting \/ spill[i] # "no"
  \/ \E p \in hands \cup ToSet(queue'.chan) \cup ToSet(queue'.over) : p.rec.id = i

\* After a sync: the evicted statements whose tombstone is now durable, with
\* nothing after it.
Buried(lines) ==
  {r.id : r \in {l \in ToSet(lines) \ {Torn} : l.kind = "tombstone" /\ ~ToCome(l.id)}}

Settled(i, p, outcome) ==
  ack' = [ack EXCEPT ![i] = IF p.ack /\ @ = "parked" THEN outcome ELSE @]

\* handle_append: the line, the sync an ack waits for and then the ack.  The
\* segment may have reached its size: it is synced and sealed, and a compaction
\* pass begins.
Write ==
  /\ phase # "down" /\ writer.swap = "idle" /\ Waiting # <<>>
  /\ LET p == Head(Waiting)
         d == Append1(disk, p.rec)
     IN  \E roll \in BOOLEAN :
           /\ roll => past.rolls < MaxRolls
           /\ queue' = Popped
           /\ disk' = IF roll THEN [d EXCEPT !.synced = 0]
                      ELSE IF p.ack THEN Synced(d) ELSE d
           /\ writer' = IF roll
                        THEN [segment |-> writer.segment + 1, dirty |-> FALSE, swap |-> "start"]
                        ELSE [writer EXCEPT !.dirty = ~p.ack]
           /\ Settled(p.rec.id, p, "acked")
           /\ degraded' = FALSE
           /\ past' = [past EXCEPT !.rolls = IF roll THEN @ + 1 ELSE @,
                         !.buried = IF roll \/ p.ack THEN @ \cup Buried(d.segs[writer.segment]) ELSE @]
           /\ UNCHANGED <<phase, store, unused, key, hands, told, spill, evicting, results>>

Refused(unwritten, torn, full) ==
  past' = [past EXCEPT !.refusals = @ + 1, !.unwritten = unwritten, !.torn = torn,
                       !.rolls = IF full THEN @ + 1 ELSE @]

\* The disk refuses the line, the sync an ack waits for or the sync of a full
\* segment: the ack is dropped, and the next append opens the same segment again.
\* A full segment starts a pass even though it is not sealed.
Refuse ==
  /\ phase # "down" /\ writer.swap = "idle" /\ Waiting # <<>>
  /\ past.refusals < MaxRefusals
  /\ LET p == Head(Waiting)
         lost == past.unwritten \cup {p.rec.id}
     IN  \E full \in BOOLEAN :
           /\ full => past.rolls < MaxRolls
           /\ \/ disk' = disk /\ ~full /\ Refused(lost, past.torn, full)
              \/ /\ "torn" \in Faults /\ ~full
                 /\ disk' = Append1(disk, Torn)
                 /\ Refused(lost, TRUE, full)
              \/ /\ p.ack \/ full
                 /\ disk' = Append1(disk, p.rec)
                 /\ Refused(past.unwritten, past.torn, full)
           /\ queue' = Popped
           /\ Settled(p.rec.id, p, "lost")
           /\ writer' = [writer EXCEPT !.dirty = FALSE,
                                       !.swap = IF full THEN "start" ELSE @]
  /\ degraded' = TRUE
  /\ UNCHANGED <<phase, store, unused, key, hands, told, spill, evicting, results>>

\* The flush interval has passed.
Flush ==
  /\ phase # "down" /\ writer.swap = "idle" /\ writer.dirty
  /\ UNCHANGED queue
  /\ \/ /\ disk' = Synced(disk)
        /\ writer' = [writer EXCEPT !.dirty = FALSE]
        /\ degraded' = FALSE
        /\ past' = [past EXCEPT !.buried = @ \cup Buried(Current)]
     \/ /\ past.refusals < MaxRefusals
        /\ writer' = [writer EXCEPT !.dirty = FALSE]
        /\ degraded' = TRUE
        /\ Refused(past.unwritten, past.torn, FALSE)
        /\ UNCHANGED disk
  /\ UNCHANGED <<phase, store, unused, key, hands, ack, told, spill, evicting, results>>

-----------------------------------------------------------------------------
(* Compaction, on the writer thread: fold the sealed files, and if half of  *)
(* their records are superseded publish one generation and swap it in.      *)

Sealed == {n \in DOMAIN disk.segs : n < writer.segment}

WithoutCorrupt(dir, read) ==
  Restrict(dir, {n \in DOMAIN dir : n \in read => ~Corrupt(dir[n])})

Superseded(fold) == 2 * Cardinality(Known(fold.entry)) <= fold.count /\ fold.count > 0

SetSwap(stage) == writer' = [writer EXCEPT !.swap = stage]

\* The readers rename a corrupt file away, whatever the pass then does.
CompactSealed ==
  /\ phase # "down" /\ writer.swap = "start"
  /\ LET fold == Compaction(disk.gens, Restrict(disk.segs, Sealed))
         read == [disk EXCEPT !.gens = Quarantined(@), !.segs = WithoutCorrupt(@, Sealed)]
         new == NextName(disk.gens)
     IN  \/ /\ Sealed = {} \/ ~Superseded(fold)
            /\ SetSwap("idle")
            /\ disk' = IF Sealed = {} THEN disk ELSE read
            /\ UNCHANGED past
         \/ /\ Sealed # {} /\ Superseded(fold)
            /\ SetSwap("renamed")
            /\ disk' = [read EXCEPT !.gens = (new :> Generation(fold)) @@ @]
            /\ UNCHANGED past
         \/ /\ Sealed # {} /\ Superseded(fold)
            /\ past.refusals < MaxRefusals
            /\ SetSwap("idle")
            /\ disk' = read
            /\ past' = [past EXCEPT !.refusals = @ + 1]
  /\ UNCHANGED <<phase, store, unused, key, hands, queue, ack, told, degraded, spill,
                 evicting, results>>

Listed(kind, dir) ==
  LET names == Ascending(dir)
  IN  [k \in DOMAIN names |-> <<kind, names[k]>>]

OldGenerations == Restrict(disk.gens, DOMAIN disk.gens \ {Max(DOMAIN disk.gens)})

\* A marker that lists the segments before the older generations.
InputsSegmentsFirst ==
  Listed("seg", Restrict(disk.segs, Sealed)) \o Listed("gen", OldGenerations)

\* The names the marker lists, in its order: a tombstone after what it retires.
Inputs ==
  Listed("gen", OldGenerations) \o Listed("seg", Restrict(disk.segs, Sealed))

Without(d, names) ==
  [d EXCEPT !.gens = Restrict(@, {n \in DOMAIN @ : <<"gen", n>> \notin names}),
            !.segs = Restrict(@, {n \in DOMAIN @ : <<"seg", n>> \notin names})]

Mark ==
  /\ phase # "down" /\ writer.swap = "renamed"
  /\ SetSwap("marked")
  /\ disk' = [disk EXCEPT !.marked = @ \cup ToSet(Inputs)]
  /\ UNCHANGED <<phase, store, unused, key, hands, queue, ack, told, degraded, spill,
                 evicting, results, past>>

UnlinkInputs ==
  /\ phase # "down" /\ writer.swap = "marked"
  /\ SetSwap("idle")
  /\ disk' = [Without(disk, ToSet(Inputs)) EXCEPT !.marked = {}]
  /\ UNCHANGED <<phase, store, unused, key, hands, queue, ack, told, degraded, spill,
                 evicting, results, past>>

\* The disk refuses the marker, of which the first lines may be left.
MarkerLines == {ToSet(names) : names \in Prefixes(Inputs)}

GiveUp ==
  /\ phase # "down" /\ writer.swap = "renamed"
  /\ past.refusals < MaxRefusals
  /\ SetSwap("idle")
  /\ past' = [past EXCEPT !.refusals = @ + 1]
  /\ \E names \in MarkerLines : disk' = [disk EXCEPT !.marked = @ \cup names]
  /\ UNCHANGED <<phase, store, unused, key, hands, queue, ack, told, degraded, spill,
                 evicting, results>>

-----------------------------------------------------------------------------
(* Crash and boot.                                                          *)

\* Of the lines not synced a crash keeps the first ones, and may cut one.
CutSegment(d) ==
  IF writer.segment \notin DOMAIN d.segs THEN {d}
  ELSE LET kept(n, tail) == [d EXCEPT !.segs[writer.segment] = SubSeq(@, 1, n) \o tail]
       IN  {kept(n, <<>>) : n \in d.synced..Len(Current)}
           \cup (IF "torn" \in Faults
                 THEN {kept(n, <<Torn>>) : n \in d.synced..(Len(Current) - 1)} ELSE {})

\* Of a swap it keeps the first lines of the marker, or some of the unlinks.
CutSwap(d) ==
  CASE writer.swap = "renamed" -> {[d EXCEPT !.marked = @ \cup names] : names \in MarkerLines}
    [] writer.swap = "marked"  -> {Without(d, names) : names \in SUBSET ToSet(Inputs)}
    [] OTHER -> {d}

Crash ==
  /\ phase # "down" /\ past.crashes < MaxCrashes
  /\ phase' = "down"
  /\ store' = [i \in Ids |-> Unknown]
  /\ key' = [i \in Ids |-> 0]
  /\ hands' = {} /\ queue' = EmptyQueue
  /\ ack' = [i \in Ids |-> "none"]
  /\ told' = [i \in Ids |-> IF told[i] = "waiting" THEN "no" ELSE told[i]]
  /\ degraded' = FALSE
  /\ spill' = [i \in Ids |-> "no"] /\ evicting' = {}
  /\ \E cut \in CutSegment(disk) : \E d \in CutSwap(cut) :
       /\ disk' = [d EXCEPT !.synced = 0]
       /\ past' = [past EXCEPT !.crashes = @ + 1,
                               !.torn = @ \/ \E n \in DOMAIN d.segs : Corrupt(d.segs[n])]
  /\ writer' = [segment |-> 0, dirty |-> FALSE, swap |-> "idle"]
  /\ UNCHANGED <<unused, results>>

\* Journal::open and the correction of HistoryRuntime::boot: redo the unlinks a
\* marker names, fold every file, mark what was running as interrupted and queue
\* the correction.  The writer begins with a compaction pass.
Boot ==
  /\ phase = "down"
  /\ phase' = "boot"
  /\ LET swept == Without(disk, disk.marked)
         entry == Replay(swept.gens, swept.segs).entry
         segs == Quarantined(swept.segs)
         cut == {i \in Known(entry) : ~Terminal(entry[i].status)}
         status == [i \in Ids |-> IF i \in cut THEN "interrupted" ELSE entry[i].status]
         fixes == LET ids == SetToSeq(cut)
                  IN  [k \in DOMAIN ids |->
                         Parcel([Snapshot(ids[k], entry[ids[k]]) EXCEPT
                                   !.key = @ + 1, !.status = "interrupted"], FALSE)]
     IN  /\ disk' = [segs |-> segs, gens |-> Quarantined(swept.gens), synced |-> 0, marked |-> {}]
         /\ store' = [i \in Ids |-> [status |-> status[i], sql |-> entry[i].sql,
                                     file |-> entry[i].file]]
         /\ key' = [i \in Ids |-> IF i \in cut THEN entry[i].key + 1 ELSE entry[i].key]
         /\ queue' = FoldLeft(Push, EmptyQueue, fixes)
         /\ writer' = [segment |-> NextName(segs), dirty |-> FALSE,
                       swap |-> "start"]
  /\ UNCHANGED <<unused, hands, ack, told, degraded, spill, evicting, results, past>>

\* A reconcile that runs before the store is loaded.
ServeUnread ==
  /\ phase = "boot" /\ Waiting = <<>> /\ ~writer.dirty
  /\ phase' = "up"
  /\ results' = {}
  /\ UNCHANGED <<store, unused, key, hands, queue, ack, told, degraded, spill, evicting,
                 writer, disk, past>>

\* The rest of boot: the corrections are synced, and result files nobody names
\* are unlinked.
Serve ==
  /\ phase = "boot" /\ Waiting = <<>> /\ ~writer.dirty
  /\ phase' = "up"
  /\ results' = results \cap Alive
  /\ UNCHANGED <<store, unused, key, hands, queue, ack, told, degraded, spill, evicting,
                 writer, disk, past>>

-----------------------------------------------------------------------------
StoreStep ==
  \/ \E i \in Ids : Submit(i) \/ MarkRunning(i) \/ Finish(i) \/ AwaitDurable(i)
  \/ \E i \in Ids : Evict(i) \/ UnlinkEvicted(i)
  \/ \E p \in hands : HandOver(p)

SpillStep == \E i \in Ids : SpillBegin(i) \/ SpillWrite(i) \/ SpillPublish(i)

WriterStep == Write \/ Refuse \/ Flush \/ CompactSealed \/ Mark \/ UnlinkInputs \/ GiveUp

Next == StoreStep \/ SpillStep \/ WriterStep \/ Crash \/ Boot \/ Serve

Spec == Init /\ [][Next]_vars

-----------------------------------------------------------------------------
(* Properties *)

\* What a boot would now read back, the unlinks of a marker redone.
Recovered ==
  LET swept == Without(disk, disk.marked)
  IN  Replay(swept.gens, swept.segs).entry

\* A client that was answered, on the ack of its statement's terminal record,
\* that the statement finished finds it finished after a crash at any point,
\* however it cuts the journal or a compaction swap, and until retention removes
\* it (handle_append, compact_sealed, recover_swap, replay).
ToldSurvives ==
  ~past.torn =>
    \A i \in Ids \ (past.early \cup past.evicted) :
      told[i] = "durable" => Recovered[i].status = "done"

\* The same of every client told so: the terminal record is durable by then.
ToldIsDurable ==
  \A i \in Ids \ past.evicted : told[i] = "durable" => Recovered[i].status = "done"

\* A statement whose tombstone is durable, with none of its records still on
\* their way to the writer, never comes back, wherever a crash or a refusal cuts
\* a swap: a tombstone goes only after everything it retires (compact_sealed,
\* recover_swap).
BuriedStaysGone == ~past.torn => \A i \in past.buried : Recovered[i] = Absent

\* A statement read back has its SQL, unless it was evicted before or one of its
\* records was dropped or refused: a running record carries none and may be read first
\* (FoldedStatement::backfill, to_snapshot).
SqlKept ==
  phase # "down" /\ ~past.torn =>
    \A i \in Alive \ (past.unwritten \cup past.evicted) : store[i].sql

\* The order in which the files a crash leaves are read does not change what they
\* say: replay reads newest first, compaction oldest first (Fold::apply).
OrderIndependent ==
  phase = "down" =>
    Replay(disk.gens, disk.segs).entry = Compaction(disk.gens, disk.segs).entry

\* A result file belongs to a statement of the store, to an eviction that will
\* unlink it or to a spill that will look again (SpillWriter::handle, reconcile).
NoOrphan ==
  phase = "up" => results \subseteq Alive \cup evicting \cup {i \in Ids : spill[i] = "landed"}

\* A pointer names a file that is there: it is journaled after the rename.
PointerHasFile ==
  phase = "up" => \A i \in Alive \ past.evicted : store[i].file => i \in results
=============================================================================
