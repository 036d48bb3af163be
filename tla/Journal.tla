------------------------------ MODULE Journal ------------------------------
(***************************************************************************)
(* The records of the statement journal, and the fold that turns the       *)
(* records of its files back into statements (history/record.rs, and the   *)
(* readers of history/journal.rs).                                         *)
(*                                                                         *)
(* Of a record the fold tells apart its statement, its kind, the sequence  *)
(* it is ordered by, the status, and whether it carries the SQL text and a *)
(* pointer to a result file; the other optional fields are treated like    *)
(* one of these two.  Sequences are compared only between records of one   *)
(* statement, so the global counter is a counter for each statement.       *)
(***************************************************************************)
EXTENDS Naturals, Sequences, FiniteSets, SequencesExt

CONSTANT Ids        \* the engine-minted ids of the statements

Statuses == {"none", "pending", "running", "done", "interrupted"}
Terminal(status) == status \in {"done", "interrupted"}

Kinds == {"submitted", "running", "snapshot", "tombstone"}

\* Breaks the tie between two records of one sequence.
Rank(kind) ==
  CASE kind = "submitted" -> 0
    [] kind = "running"   -> 1
    [] kind = "snapshot"  -> 2
    [] kind = "tombstone" -> 3

Records == [kind : Kinds, id : Ids, key : Nat, status : Statuses,
            sql : BOOLEAN, file : BOOLEAN]

Record(kind, i, key, status, file) ==
  [kind |-> kind, id |-> i, key |-> key, status |-> status,
   sql |-> kind \in {"submitted", "snapshot"}, file |-> file]

\* A line that does not parse: the fragment a refused or a cut append leaves.
Torn == [kind |-> "torn"]

-----------------------------------------------------------------------------
(* A statement as it is folded, and the fold itself.                        *)

Entries == [key : Nat, rank : 0..3, status : Statuses, sql : BOOLEAN, file : BOOLEAN]

Absent == [key |-> 0, rank |-> 0, status |-> "none", sql |-> FALSE, file |-> FALSE]

EmptyFold == [entry |-> [i \in Ids |-> Absent], dead |-> {}, count |-> 0]

Older(r, e) == r.key < e.key \/ (r.key = e.key /\ Rank(r.kind) < e.rank)

\* An older record that changes nothing: the fold before it learned to backfill.
BackfillNothing(e, r) == e

\* An older record supplies what the newer ones left absent.  The pointer of a
\* snapshot is never backfilled: its absence says there is no result.
Backfill(e, r) ==
  [e EXCEPT !.sql = @ \/ r.sql,
            !.file = @ \/ (e.rank < Rank("snapshot") /\ r.file)]

\* A newer record that clears what it does not carry.
OverwriteAll(e, r) ==
  [key |-> r.key, rank |-> Rank(r.kind), status |-> r.status, sql |-> r.sql, file |-> r.file]

\* A newer record: fields it does not carry keep their value, except that a
\* snapshot is complete.
Overwrite(e, r) ==
  [key |-> r.key, rank |-> Rank(r.kind), status |-> r.status,
   sql |-> IF r.kind = "running" THEN e.sql ELSE r.sql,
   file |-> r.file \/ (e.file /\ r.kind # "snapshot")]

Apply(fold, r) ==
  LET counted == [fold EXCEPT !.count = @ + 1]
  IN  IF r.id \in fold.dead THEN counted
      ELSE IF r.kind = "tombstone"
      THEN [counted EXCEPT !.dead = @ \cup {r.id}, !.entry[r.id] = Absent]
      ELSE [counted EXCEPT !.entry[r.id] =
              IF Older(r, @) THEN Backfill(@, r) ELSE Overwrite(@, r)]

Snapshot(i, e) ==
  [kind |-> "snapshot", id |-> i, key |-> e.key, status |-> e.status,
   sql |-> e.sql, file |-> e.file]

Known(entry) == {i \in Ids : entry[i] # Absent}

-----------------------------------------------------------------------------
(* Files: a directory is a function from file numbers to lines.             *)

Corrupt(lines) == Torn \in ToSet(lines)

\* read_into: the lines before the first that does not parse.
Parsed(lines) ==
  IF Corrupt(lines)
  THEN SubSeq(lines, 1, SelectInSeq(lines, LAMBDA r : r = Torn) - 1)
  ELSE lines

Ascending(dir) == SetToSortSeq(DOMAIN dir, <)

InOrder(dir, names) == FlattenSeq([k \in DOMAIN names |-> Parsed(dir[names[k]])])

Fold(records) == FoldLeft(Apply, EmptyFold, records)

\* replay: live segments newest first, then generations newest first.
Replay(gens, segs) ==
  Fold(InOrder(segs, Reverse(Ascending(segs))) \o InOrder(gens, Reverse(Ascending(gens))))

\* compact_sealed: generations oldest first, then segments oldest first.
Compaction(gens, segs) ==
  Fold(InOrder(gens, Ascending(gens)) \o InOrder(segs, Ascending(segs)))

\* A corrupt file is renamed out of the directory by whoever reads it.
Quarantined(dir) == Restrict(dir, {n \in DOMAIN dir : ~Corrupt(dir[n])})

NextName(dir) == IF DOMAIN dir = {} THEN 0 ELSE 1 + Max(DOMAIN dir)

\* One self-contained snapshot for each surviving statement.
Generation(fold) ==
  LET ids == SetToSeq(Known(fold.entry))
  IN  [k \in DOMAIN ids |-> Snapshot(ids[k], fold.entry[ids[k]])]
=============================================================================
