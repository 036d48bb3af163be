---------------------------- MODULE PostgresCdc ----------------------------
(***************************************************************************)
(* The Postgres change-data-capture source (postgres_cdc.rs): a publisher  *)
(* with its write-ahead log and one replication slot, and the source that  *)
(* snapshots the tables inside the slot's transaction and then streams.    *)
(*                                                                         *)
(* Transaction n of the log changes rows at LSN n and its commit ends at   *)
(* LSN n + 1, where the next record begins.  A transaction changes a key   *)
(* at most once; its changes to keys of published tables are a function to *)
(* "U" (insert or update), "D", "T" (all tables truncated) and "-".  An    *)
(* UPDATE that moves a row's key is a "D" of one key and a "U" of another. *)
(* LSN 0 is the None of an Option<Lsn> and the LSN of a source that has    *)
(* opened nothing.                                                         *)
(***************************************************************************)
EXTENDS Naturals, Sequences, FiniteSetsExt

CONSTANTS
  Keys,
  Tables,         \* number of source tables
  TableOf,        \* the table, from 0, a key belongs to
  MaxSlotBytes,   \* max_slot_bytes, in LSNs
  MaxLsn          \* bound: transactions of the publisher

ASSUME SourceAssumption ==
  /\ Tables \in Nat \ {0} /\ MaxLsn \in Nat /\ MaxSlotBytes \in Nat
  /\ TableOf \in [Keys -> 0..(Tables - 1)]

VARIABLES
  wal,    \* publisher: its committed transactions
  slot,   \* publisher: the replication slot
  src     \* PostgresCdcSource

Transactions == [Keys -> {"-", "U", "D"}] \cup {[k \in Keys |-> "T"]}
Lsns == 0..(MaxLsn + 1)

\* A slot: confirmed_flush_lsn, and the consistent point it was created at.
Slots  == [exists : BOOLEAN, confirmed : Lsns, point : Lsns]
NoSlot == [exists |-> FALSE, confirmed |-> 0, point |-> 0]

\* BatchRange: a source table and the consistent point it is to be read at, or
\* the LSNs from start to end.
Ranges  == [snapshot : BOOLEAN, start : Lsns \cup 0..Tables, end : Lsns \cup 0..Tables, at : Lsns]
NoRange == [snapshot |-> FALSE, start |-> 0, end |-> 0, at |-> 0]

\* PostgresCdcSource; of its session, whether it streams and which transaction
\* the socket delivers next.
Sources == [opened : BOOLEAN, snapshot_open : BOOLEAN, snapshot_done : 0..Tables,
            position : Lsns, stream_at : Lsns, socket : 0..(MaxLsn + 2), streaming : BOOLEAN,
            planned : [range : Ranges, txns : SUBSET Lsns]]
NoPlan == [range |-> NoRange, txns |-> {}]

\* with_wire, then restore_offsets.
NewSource(done, lsn) ==
  [opened |-> FALSE, snapshot_open |-> FALSE, snapshot_done |-> done, position |-> lsn,
   stream_at |-> 0, socket |-> 0, streaming |-> FALSE, planned |-> NoPlan]

SourceTypeOK == /\ wal \in Seq(Transactions) /\ Len(wal) <= MaxLsn
                /\ slot \in Slots /\ src \in Sources

-----------------------------------------------------------------------------
(* The publisher *)

WalEnd == Len(wal) + 1               \* pg_current_wal_flush_lsn
Published(n) == \E k \in Keys : wal[n][k] # "-"

\* The transaction that wrote the row of k as of an LSN; 0 when there is none.
RowAt(k, lsn) ==
  LET touched == {n \in 1..(lsn - 1) : wal[n][k] # "-"}
      last    == Max({0} \cup touched)
  IN  IF last > 0 /\ wal[last][k] = "U" THEN last ELSE 0

\* The publisher commits a transaction; a delete needs a row.
Commit(t) ==
  /\ Len(wal) < MaxLsn
  /\ \A k \in Keys : t[k] = "D" => RowAt(k, WalEnd) # 0
  /\ wal' = Append(wal, t)

\* read_table: one table in the snapshot transaction, stamped one LSN below
\* the consistent point.
SnapshotRows(table, at) ==
  {[op |-> "S", key |-> k, seq |-> at - 1, val |-> RowAt(k, at)] :
     k \in {x \in Keys : TableOf[x] = table /\ RowAt(x, at) # 0}}

\* push_change, push_row: the events of some transactions, at their own LSN.
Changes(txns) ==
  UNION {{[op |-> wal[n][k], key |-> k, seq |-> n, val |-> n] :
            k \in {x \in Keys : wal[n][x] # "-"}} : n \in txns}

\* Mutant: what was received is confirmed, not what was committed.
ConfirmReceived(sl, s) ==
  IF s.streaming /\ s.stream_at > sl.confirmed
  THEN [sl EXCEPT !.confirmed = s.stream_at] ELSE sl

\* Standby status update: the slot moves forward to the position, if there is
\* a stream to send it on.
Confirm(sl, s) ==
  IF s.streaming /\ s.position > sl.confirmed
  THEN [sl EXCEPT !.confirmed = s.position] ELSE sl

-----------------------------------------------------------------------------
(* The source.  Each operation is the set of its outcomes that are not     *)
(* errors: the source and the slot it leaves, and what it returns.         *)

\* ensure_open and open_slot: a complete snapshot needs its slot; anything else
\* drops the slot and takes a new one with a new snapshot, from table 0.
EnsureOpen(s) ==
  IF s.opened THEN {[src |-> s, slot |-> slot]}
  ELSE IF s.snapshot_done >= Tables
  THEN IF slot.exists THEN {[src |-> [s EXCEPT !.opened = TRUE], slot |-> slot]} ELSE {}
  ELSE {[src  |-> [s EXCEPT !.opened = TRUE, !.snapshot_done = 0, !.position = WalEnd,
                            !.snapshot_open = TRUE, !.stream_at = 0],
         slot |-> [exists |-> TRUE, confirmed |-> WalEnd, point |-> WalEnd]]}

\* finish_snapshot
FinishSnapshot(s) ==
  IF s.snapshot_open /\ s.snapshot_done >= Tables
  THEN [s EXCEPT !.snapshot_open = FALSE] ELSE s

\* ensure_stream
EnsureStream(s, start) ==
  LET f == FinishSnapshot(s)
  IN  IF f.stream_at = start THEN f
      ELSE [f EXCEPT !.stream_at = start, !.streaming = TRUE]

\* The first transaction of the read: the server starts a stream no earlier than
\* what was confirmed, and an open socket goes on where it is.
FirstSent(s, sl, start) ==
  IF s.stream_at = start THEN s.socket ELSE Max({start, sl.confirmed})

\* Mutant: the open transaction is not remembered.
StreamAtEnd(inTxn, end) == end

\* Where read_forward says the stream stands: nowhere, inside a transaction.
StreamAt(inTxn, end) == IF inTxn THEN 0 ELSE end

\* read_forward from an LSN: the loop reads whole transactions while what it has
\* observed is below `stop`, and may end early (the byte budget, a quiet
\* publisher), also inside a transaction.  The commits below `upto` were
\* received; `observed` is that, or the end of a keepalive, which has nothing
\* published before it that was not sent.
ReadForward(s, sl, from, stop) ==
  LET e       == EnsureStream(s, from)
      first   == FirstSent(s, sl, from)
      seen(n) == IF n = first THEN from ELSE n
      reads   == {r \in [upto : first..WalEnd, inTxn : BOOLEAN, observed : Lsns] :
                    /\ r.upto > first => seen(r.upto - 1) < stop
                    /\ r.inTxn => r.upto < WalEnd /\ seen(r.upto) < stop
                    /\ \/ r.observed = seen(r.upto)
                       \/ /\ seen(r.upto) < stop /\ r.observed \in r.upto..WalEnd
                          /\ \A n \in r.upto..(r.observed - 1) : ~Published(n)}
      txns(r) == {n \in first..(r.upto - 1) : Published(n) /\ n >= from}
      end(r)  == Max({from, IF txns(r) = {} /\ ~r.inTxn THEN r.observed ELSE seen(r.upto)})
      at(r)   == StreamAt(r.inTxn, end(r))
      next(r) == IF at(r) = 0 THEN 0 ELSE IF r.inTxn THEN r.upto + 1 ELSE Max({r.upto, end(r)})
  IN  {[src  |-> [e EXCEPT !.stream_at = at(r), !.socket = next(r)],
        txns |-> txns(r), end |-> end(r)] : r \in IF e.streaming THEN reads ELSE {}}

\* A socket error: the session and the claim about where it stood are forgotten.
Disconnected(s) == [s EXCEPT !.stream_at = 0, !.socket = 0, !.streaming = FALSE]

\* The replication slot may be read on: guard_slot.
SlotInBounds(sl) == WalEnd - sl.confirmed <= MaxSlotBytes

\* The ranges plan_batch describes.
SnapshotRange(s) == [snapshot |-> TRUE, start |-> s.snapshot_done,
                     end |-> s.snapshot_done + 1, at |-> s.position]
StreamRange(s, end) == [snapshot |-> FALSE, start |-> s.position, end |-> end, at |-> 0]

\* plan_batch: the next table while the snapshot lasts; then what the stream has,
\* remembered for the poll.  A stretch with nothing published moves the position
\* and yields no range, and the heartbeat may confirm it; so may the answer to a
\* keepalive, before the position moves.
Plan(s) ==
  UNION {LET c == {o.slot, Confirm(o.slot, [o.src EXCEPT !.streaming = TRUE])} IN
    IF ~SlotInBounds(o.slot) THEN {}
    ELSE IF o.src.snapshot_done < Tables
    THEN {[src |-> o.src, slot |-> o.slot, range |-> SnapshotRange(o.src)]}
    ELSE UNION {
      IF r.txns = {}
      THEN LET moved == [r.src EXCEPT !.position = Max({@, r.end})]
           IN  {[src |-> moved, slot |-> sl, range |-> NoRange] :
                  sl \in c \cup {Confirm(o.slot, moved)}}
      ELSE LET g == StreamRange(o.src, r.end)
           IN  {[src |-> [r.src EXCEPT !.planned = [range |-> g, txns |-> r.txns]],
                 slot |-> sl, range |-> g] : sl \in c}
      : r \in ReadForward(o.src, o.slot, o.src.position, WalEnd)}
    : o \in EnsureOpen(s)}

\* Mutant: a table counts whatever consistent point it was planned at.
HonourableAlways(s, range) == TRUE

\* A snapshot range planned against the slot that is open now.
Honourable(s, range) == range.at = s.position

\* poll_snapshot: the table is read either way, and counts if honourable; else
\* the pass starts over.
PollSnapshot(s, range) ==
  IF ~s.snapshot_open THEN {}
  ELSE {[src |-> [s EXCEPT !.snapshot_done = IF Honourable(s, range) THEN range.start + 1 ELSE 0],
         slot |-> slot, batch |-> SnapshotRows(range.start, s.position)]}

\* poll_range of a stream range: what planning decoded, or the same stretch read
\* again, during which the server may want an answer.  The position moves to its
\* end before anything is written.
PollStream(s, sl, range, replies) ==
  LET taken == [s EXCEPT !.planned = NoPlan]
      moved(t) == [t EXCEPT !.position = range.end]
  IN  IF s.planned.range = range
      THEN {[src |-> moved(taken), slot |-> sl, batch |-> Changes(s.planned.txns)]}
      ELSE UNION {{[src |-> moved(r.src), slot |-> c,
                    batch |-> Changes({n \in r.txns : n < range.end})] :
                     c \in IF replies THEN {sl, Confirm(sl, [taken EXCEPT !.streaming = TRUE])}
                                      ELSE {sl}} :
                    r \in {x \in ReadForward(taken, sl, range.start, range.end) : x.end >= range.end}}

\* poll_range
Poll(s, range, replies) ==
  UNION {IF range.snapshot
         THEN {[x EXCEPT !.slot = o.slot] : x \in PollSnapshot(o.src, range)}
         ELSE PollStream(o.src, o.slot, range, replies) : o \in EnsureOpen(s)}

\* What a failed plan leaves: nothing happened, the slot was dropped and not
\* recreated, the slot was opened, or the stream broke.
FailedPlan(s) ==
  {[src |-> s, slot |-> slot]} \cup EnsureOpen(s)
  \cup (IF ~s.opened /\ s.snapshot_done < Tables THEN {[src |-> s, slot |-> NoSlot]} ELSE {})
  \cup {[src |-> Disconnected(FinishSnapshot(o.src)), slot |-> o.slot] :
          o \in {x \in EnsureOpen(s) : x.src.snapshot_done >= Tables}}

\* What a failed poll leaves: the decoded events are gone; a failed snapshot read
\* forgets that the slot was ever opened.
FailedPoll(s, range) ==
  LET taken == [s EXCEPT !.planned = IF range.snapshot THEN @ ELSE NoPlan]
  IN  IF ~range.snapshot THEN FailedPlan(taken)
      ELSE EnsureOpen(s) \cup
        {[src  |-> [Disconnected(o.src) EXCEPT !.opened = FALSE, !.snapshot_open = FALSE,
                      !.snapshot_done = IF Honourable(o.src, range) THEN @ ELSE 0],
          slot |-> o.slot] : o \in {x \in EnsureOpen(s) : x.src.snapshot_open}}

\* mark_durable: the snapshot transaction ends with its last table durable, and
\* the position is confirmed.
Durable(s) ==
  LET f == IF s.opened THEN FinishSnapshot(s) ELSE s
  IN  [src |-> f, slot |-> IF s.opened THEN Confirm(slot, f) ELSE slot]
=============================================================================
