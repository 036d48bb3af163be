------------------------- MODULE CdcPipelineProofs -------------------------
(***************************************************************************)
(* Proofs of CdcPipeline: the slot is confirmed no further than the        *)
(* checkpoint, a recorded range reads back as it was planned, and the      *)
(* cached contents are the table's, for any keys, tables, logs and faults. *)
(***************************************************************************)
EXTENDS CdcPipeline, TLAPS

-----------------------------------------------------------------------------
(* Maxima of two numbers, and stretches of the log *)

LEMMA MaxOfTwo ==
  ASSUME NEW a \in Nat, NEW b \in Nat
  PROVE  Max({a, b}) = IF a >= b THEN a ELSE b
<1>1. CASE a >= b
  <2>1. \A x \in {a, b} : a >= x
    BY <1>1
  <2>2. \A x \in {a, b} : (\A y \in {a, b} : x >= y) => x = a
    BY <1>1
  <2> QED
    BY <1>1, <2>1, <2>2 DEF Max
<1>2. CASE ~(a >= b)
  <2>1. \A x \in {a, b} : b >= x
    BY <1>2
  <2>2. \A x \in {a, b} : (\A y \in {a, b} : x >= y) => x = b
    BY Zenon, <1>2
  <2> QED
    BY Zenon, <1>2, <2>1, <2>2 DEF Max
<1> QED
  BY Zenon, <1>1, <1>2

\* Nothing published is in the log from a to below b.
Quiet(a, b) == \A n \in a..(b - 1) : ~Published(n)

\* The transactions published from a to below b.
Txns(a, b) == {n \in a..(b - 1) : Published(n)}

LEMMA QuietJoins ==
  ASSUME NEW a \in Nat, NEW b \in Nat, NEW c \in Nat, Quiet(a, b), Quiet(b, c)
  PROVE  Quiet(a, c)
BY DEF Quiet

LEMMA QuietPart ==
  ASSUME NEW a \in Nat, NEW b \in Nat, NEW c \in Nat, NEW d \in Nat, Quiet(a, b), a <= c, d <= b
  PROVE  Quiet(c, d)
BY DEF Quiet

LEMMA QuietNone ==
  ASSUME NEW a \in Nat, NEW b \in Nat, b <= a PROVE Quiet(a, b)
BY DEF Quiet

-----------------------------------------------------------------------------
(* The source and its slot *)

RangeType  == [snapshot : BOOLEAN, start : Nat, end : Nat, at : Nat]
PlanType   == [range : RangeType, txns : SUBSET Nat]
SlotType   == [exists : BOOLEAN, confirmed : Nat, point : Nat]
SourceType == [opened : BOOLEAN, snapshot_open : BOOLEAN, snapshot_done : 0..Tables,
               position : Nat, stream_at : Nat, socket : Nat, streaming : BOOLEAN,
               planned : PlanType]

\* A range of the stream that lies in the log.
InLog(r) == ~r.snapshot /\ 1 <= r.start /\ r.start < r.end /\ r.end <= WalEnd

\* Between what the stream has been read to and where its socket stands nothing is
\* published.
SocketInv(s) ==
  s.stream_at # 0 => /\ s.stream_at <= s.socket /\ s.socket <= WalEnd
                     /\ Quiet(s.stream_at, s.socket)

\* What planning decoded is what the log holds in the planned range.
PlannedInv(p) == p = NoPlan \/ (InLog(p.range) /\ p.txns = Txns(p.range.start, p.range.end))

\* An open snapshot is at the slot's point, which nothing has moved.
SnapshotInv(s, sl) ==
  /\ s.snapshot_open => s.opened /\ ~s.streaming /\ s.position = sl.confirmed
  /\ s.opened /\ s.snapshot_done < Tables => s.snapshot_open
  /\ ~s.opened => ~s.streaming
  /\ (s.snapshot_open \/ s.snapshot_done = Tables) => s.position >= 1
  /\ s.position <= WalEnd /\ sl.confirmed <= WalEnd

SourceOK(s, sl) ==
  /\ s \in SourceType /\ sl \in SlotType
  /\ SocketInv(s) /\ PlannedInv(s.planned) /\ SnapshotInv(s, sl)

LEMMA Constants == Tables \in Nat \ {0} /\ MaxLsn \in Nat /\ MaxBatch \in Nat
BY Zenon, SourceAssumption, PipelineAssumption

\* The end of the log is a number, and the log's part before it does not change.
LEMMA LogEnd ==
  ASSUME wal \in Seq(Transactions) PROVE WalEnd \in Nat /\ WalEnd >= 1
BY DEF WalEnd

\* ensure_open: a complete snapshot keeps its slot, any other is taken anew.
Opened(s, o) ==
  /\ SourceOK(o.src, o.slot) /\ o.src.opened /\ o.src.planned = s.planned
  /\ s.snapshot_done = Tables =>
       /\ o.slot = slot /\ o.src.snapshot_done = Tables /\ o.src.position = s.position
       /\ o.src.stream_at = s.stream_at /\ o.src.socket = s.socket
       /\ o.src.snapshot_open = s.snapshot_open
  /\ s.snapshot_done # Tables => o.src.snapshot_done # Tables
  /\ s.opened => o.src = s /\ o.slot = slot

LEMMA Opening ==
  ASSUME wal \in Seq(Transactions), NEW s, SourceOK(s, slot), NEW o \in EnsureOpen(s)
  PROVE  Opened(s, o)
<1> SUFFICES /\ SourceOK(o.src, o.slot) /\ o.src.opened /\ o.src.planned = s.planned
             /\ s.snapshot_done = Tables =>
                  /\ o.slot = slot /\ o.src.snapshot_done = Tables /\ o.src.position = s.position
                  /\ o.src.stream_at = s.stream_at /\ o.src.socket = s.socket
                  /\ o.src.snapshot_open = s.snapshot_open
             /\ s.snapshot_done # Tables => o.src.snapshot_done # Tables
             /\ s.opened => o.src = s /\ o.slot = slot
  BY Zenon DEF Opened
<1>0. /\ s \in SourceType /\ slot \in SlotType /\ WalEnd \in Nat /\ WalEnd >= 1 /\ Tables \in Nat \ {0}
      /\ s.snapshot_done \in 0..Tables
  BY Zenon, LogEnd, Constants DEF SourceOK, SourceType
<1>1. CASE s.opened
  <2>1. o = [src |-> s, slot |-> slot]
    BY Zenon, <1>1 DEF EnsureOpen
  <2>2. o.src = s /\ o.slot = slot
    BY Zenon, <2>1
  <2> QED
    BY Zenon, <1>1, <2>2
<1>2. CASE ~s.opened /\ s.snapshot_done >= Tables
  <2>1. o = [src |-> [s EXCEPT !.opened = TRUE], slot |-> slot]
    BY Zenon, <1>2 DEF EnsureOpen
  <2> DEFINE t == [s EXCEPT !.opened = TRUE]
  <2>2. o.src = t /\ o.slot = slot
    BY Zenon, <2>1
  <2>3. /\ t \in SourceType /\ t.opened /\ t.planned = s.planned /\ t.snapshot_done = s.snapshot_done
        /\ t.position = s.position /\ t.stream_at = s.stream_at /\ t.socket = s.socket
        /\ t.snapshot_open = s.snapshot_open /\ t.streaming = s.streaming
    BY Zenon, <1>0 DEF SourceType
  <2> HIDE DEF t
  <2>4. s.snapshot_done = Tables
    BY <1>0, <1>2
  <2>5. SnapshotInv(t, slot)
    BY <1>0, <1>2, <2>3, <2>4 DEF SnapshotInv, SourceOK
  <2>6. SocketInv(t) /\ PlannedInv(t.planned)
    BY Zenon, <2>3 DEF SocketInv, SourceOK
  <2> QED
    BY Zenon, <1>0, <1>2, <2>2, <2>3, <2>4, <2>5, <2>6 DEF SourceOK
<1>3. CASE ~s.opened /\ ~(s.snapshot_done >= Tables)
  <2> DEFINE t == [s EXCEPT !.opened = TRUE, !.snapshot_done = 0, !.position = WalEnd,
                            !.snapshot_open = TRUE, !.stream_at = 0]
             sl == [exists |-> TRUE, confirmed |-> WalEnd, point |-> WalEnd]
  <2>1. o = [src |-> t, slot |-> sl]
    BY Zenon, <1>3 DEF EnsureOpen
  <2>2. o.src = t /\ o.slot = sl
    BY Zenon, <2>1
  <2>3. /\ t \in SourceType /\ t.opened /\ t.planned = s.planned /\ t.snapshot_done = 0
        /\ t.position = WalEnd /\ t.stream_at = 0
        /\ t.snapshot_open /\ t.streaming = s.streaming
    <3>1. t.opened /\ t.planned = s.planned /\ t.snapshot_done = 0
      BY Zenon, <1>0 DEF SourceType
    <3>2. t.position = WalEnd /\ t.stream_at = 0
      BY Zenon, <1>0 DEF SourceType
    <3>3. t.snapshot_open /\ t.streaming = s.streaming
      BY Zenon, <1>0 DEF SourceType
    <3>4. t \in SourceType
      <4>0. 0 \in 0..Tables /\ TRUE \in BOOLEAN
        BY <1>0
      <4> QED
        BY Zenon, <1>0, <4>0 DEF SourceType
    <3> QED
      BY Zenon, <3>1, <3>2, <3>3, <3>4
  <2>4. sl \in SlotType /\ sl.confirmed = WalEnd
    BY Zenon, <1>0 DEF SlotType
  <2> HIDE DEF t, sl
  <2>5. SnapshotInv(t, sl)
    BY <1>0, <1>3, <2>3, <2>4 DEF SnapshotInv, SourceOK
  <2>6. SocketInv(t) /\ PlannedInv(t.planned)
    BY Zenon, <2>3 DEF SocketInv, SourceOK
  <2>7. s.snapshot_done # Tables /\ t.snapshot_done # Tables
    BY <1>0, <1>3, <2>3
  <2> QED
    BY Zenon, <1>0, <1>3, <2>2, <2>3, <2>4, <2>5, <2>6, <2>7 DEF SourceOK
<1> QED
  BY Zenon, <1>1, <1>2, <1>3

\* ensure_stream leaves an open stream and, if the tables are read, no snapshot.
LEMMA Streaming ==
  ASSUME NEW s \in SourceType, NEW from \in Nat, EnsureStream(s, from).streaming,
         s.snapshot_done = Tables
  PROVE  LET e == EnsureStream(s, from)
         IN  /\ e \in SourceType /\ e.opened = s.opened /\ e.position = s.position
             /\ e.snapshot_done = s.snapshot_done /\ e.planned = s.planned /\ ~e.snapshot_open
<1> DEFINE f == FinishSnapshot(s)
           e == EnsureStream(s, from)
<1>1. /\ f \in SourceType /\ f.opened = s.opened /\ f.position = s.position
      /\ f.snapshot_done = s.snapshot_done /\ f.planned = s.planned /\ ~f.snapshot_open
  <2>1. Tables >= Tables
    BY Constants
  <2>2. CASE s.snapshot_open
    <3>1. f = [s EXCEPT !.snapshot_open = FALSE]
      BY Zenon, <2>1, <2>2 DEF FinishSnapshot
    <3> HIDE DEF f
    <3> QED
      BY Zenon, <3>1 DEF SourceType
  <2>3. CASE ~s.snapshot_open
    BY Zenon, <2>3 DEF FinishSnapshot
  <2> QED
    BY Zenon, <2>2, <2>3
<1>2. e = f \/ e = [f EXCEPT !.stream_at = from, !.streaming = TRUE]
  BY Zenon DEF EnsureStream
<1> HIDE DEF f, e
<1>3. CASE e = f
  BY Zenon, <1>1, <1>3 DEF e
<1>4. CASE e = [f EXCEPT !.stream_at = from, !.streaming = TRUE]
  <2>1. /\ e \in SourceType /\ e.opened = f.opened /\ e.position = f.position
        /\ e.snapshot_done = f.snapshot_done /\ e.planned = f.planned
        /\ e.snapshot_open = f.snapshot_open
    BY Zenon, <1>1, <1>4 DEF SourceType
  <2> QED
    BY Zenon, <1>1, <2>1 DEF e
<1> QED
  BY Zenon, <1>2, <1>3, <1>4

\* A stream starts behind nothing that was published from where it is asked for.
LEMMA Starting ==
  ASSUME wal \in Seq(Transactions), NEW s \in SourceType, NEW sl \in SlotType, SocketInv(s),
         NEW from \in Nat, 1 <= from, from <= WalEnd,
         sl.confirmed <= WalEnd, Quiet(from, sl.confirmed)
  PROVE  LET first == FirstSent(s, sl, from)
         IN  first \in Nat /\ from <= first /\ first <= WalEnd /\ Quiet(from, first)
<1>1. s.stream_at \in Nat /\ s.socket \in Nat /\ sl.confirmed \in Nat /\ WalEnd \in Nat
  BY Zenon, LogEnd DEF SourceType, SlotType
<1>2. CASE s.stream_at = from
  <2>1. FirstSent(s, sl, from) = s.socket
    BY Zenon, <1>2 DEF FirstSent
  <2>2. s.stream_at # 0
    BY <1>2
  <2> QED
    BY Zenon, <1>1, <1>2, <2>1, <2>2 DEF SocketInv
<1>3. CASE s.stream_at # from
  <2>1. FirstSent(s, sl, from) = IF from >= sl.confirmed THEN from ELSE sl.confirmed
    BY Zenon, <1>1, <1>3, MaxOfTwo DEF FirstSent
  <2>2. CASE from >= sl.confirmed
    <3>1. FirstSent(s, sl, from) = from /\ from <= from
      BY <2>1, <2>2
    <3> QED
      BY Zenon, <1>1, <3>1, QuietNone
  <2>3. CASE ~(from >= sl.confirmed)
    BY <1>1, <2>1, <2>3
  <2> QED
    BY Zenon, <2>2, <2>3
<1> QED
  BY Zenon, <1>2, <1>3

\* What a read has found when it ends: the transactions up to the end it reports, and
\* nothing published between that and where the socket stands.
Found(from, txns, end, upto, inTxn) ==
  /\ end \in Nat /\ from <= end /\ end <= WalEnd /\ txns = Txns(from, end)
  /\ ~inTxn => LET next == Max({upto, end})
               IN  next \in Nat /\ end <= next /\ next <= WalEnd /\ Quiet(end, next)

\* read_forward, in numbers: whatever ended the read, it has what the log holds up to
\* the end it reports, and the socket stands behind nothing published after that.
LEMMA ReadsAll ==
  ASSUME wal \in Seq(Transactions), NEW from \in Nat, NEW first \in Nat, NEW upto \in Nat,
         NEW observed \in Nat, NEW inTxn \in BOOLEAN, NEW txns, NEW end,
         from <= first, first <= upto, upto <= WalEnd, observed <= WalEnd, Quiet(from, first),
         observed = (IF upto = first THEN from ELSE upto) \/ (upto <= observed /\ Quiet(upto, observed)),
         txns = {n \in first..(upto - 1) : Published(n) /\ n >= from},
         end = Max({from, IF txns = {} /\ ~inTxn THEN observed
                                                 ELSE IF upto = first THEN from ELSE upto})
  PROVE  Found(from, txns, end, upto, inTxn)
<1> DEFINE seen == IF upto = first THEN from ELSE upto
<1>0. WalEnd \in Nat /\ seen \in Nat /\ seen <= upto
  BY LogEnd
<1>1. txns = Txns(from, upto)
  BY DEF Txns, Quiet
<1>2. CASE txns # {}
  <2>1. PICK n \in first..(upto - 1) : TRUE
    BY Zenon, <1>2
  <2>2. seen = upto /\ from <= upto
    BY <2>1
  <2>3. end = upto
    BY <1>2, <2>2, MaxOfTwo
  <2>4. Max({upto, end}) = upto
    <3>1. Max({upto, upto}) = IF upto >= upto THEN upto ELSE upto
      BY Zenon, MaxOfTwo
    <3> QED
      BY Zenon, <2>3, <3>1
  <2> QED
    BY Zenon, <1>0, <1>1, <2>2, <2>3, <2>4, QuietNone DEF Found
<1>3. CASE txns = {}
  <2>1. Quiet(from, upto)
    BY Zenon, <1>1, <1>3 DEF Txns, Quiet
  <2> DEFINE m == IF ~inTxn THEN observed ELSE seen
  <2>2. m \in Nat /\ m <= WalEnd /\ end = IF from >= m THEN from ELSE m
    <3>1. m \in Nat /\ m <= WalEnd
      BY <1>0
    <3>2. end = Max({from, m})
      BY Zenon, <1>3
    <3> HIDE DEF m
    <3> QED
      BY Zenon, <3>1, <3>2, MaxOfTwo
  <2>4. m <= upto \/ (m = observed /\ Quiet(upto, observed))
    BY Zenon, <1>0
  <2> HIDE DEF m
  <2>3. end \in Nat /\ from <= end /\ end <= WalEnd
    BY <1>0, <2>2
  <2>5. Quiet(from, end)
    <3>1. CASE m <= upto
      <4>1. end <= upto
        BY <1>0, <2>2, <3>1
      <4> QED
        BY <2>1, <2>3, <4>1 DEF Quiet
    <3>2. CASE ~(m <= upto)
      <4>1. end = m
        BY <1>0, <2>2, <3>2
      <4> QED
        BY Zenon, <2>1, <2>4, <3>2, <4>1, QuietJoins
    <3> QED
      BY Zenon, <3>1, <3>2
  <2>6. txns = Txns(from, end)
    BY Zenon, <1>3, <2>3, <2>5 DEF Txns, Quiet
  <2>7. Max({upto, end}) = IF upto >= end THEN upto ELSE end
    BY Zenon, <2>3, MaxOfTwo
  <2>8. CASE upto >= end
    <3>1. Quiet(end, upto) /\ end <= upto
      <4>1. end <= upto /\ upto <= upto
        BY <2>3, <2>8
      <4> QED
        BY Zenon, <2>1, <2>3, <4>1, QuietPart
    <3> QED
      BY Zenon, <2>3, <2>6, <2>7, <2>8, <3>1 DEF Found
  <2>9. CASE ~(upto >= end)
    <3>1. Quiet(end, end) /\ end <= end
      BY <2>3, QuietNone
    <3> QED
      BY Zenon, <2>3, <2>6, <2>7, <2>9, <3>1 DEF Found
  <2> QED
    BY Zenon, <2>8, <2>9
<1> QED
  BY Zenon, <1>2, <1>3

\* read_forward: the outcome x of a read by s from an LSN.
Reads(s, from, x) ==
  /\ x.end \in Nat /\ from <= x.end /\ x.end <= WalEnd /\ x.txns = Txns(from, x.end)
  /\ x.src \in SourceType /\ SocketInv(x.src)
  /\ x.src.opened = s.opened /\ x.src.position = s.position
  /\ x.src.snapshot_done = s.snapshot_done /\ x.src.planned = s.planned
  /\ ~x.src.snapshot_open

LEMMA Reading ==
  ASSUME wal \in Seq(Transactions), NEW s \in SourceType, NEW sl \in SlotType, SocketInv(s),
         NEW from \in Nat, 1 <= from, from <= WalEnd, NEW stop,
         sl.confirmed <= WalEnd, Quiet(from, sl.confirmed), s.snapshot_done = Tables,
         NEW x \in ReadForward(s, sl, from, stop)
  PROVE  Reads(s, from, x)
<1> DEFINE e       == EnsureStream(s, from)
           first   == FirstSent(s, sl, from)
           seen(n) == IF n = first THEN from ELSE n
           txns(r) == {n \in first..(r.upto - 1) : Published(n) /\ n >= from}
           end(r)  == Max({from, IF txns(r) = {} /\ ~r.inTxn THEN r.observed ELSE seen(r.upto)})
           at(r)   == StreamAt(r.inTxn, end(r))
           next(r) == IF at(r) = 0 THEN 0 ELSE IF r.inTxn THEN r.upto + 1 ELSE Max({r.upto, end(r)})
<1>1. PICK r \in [upto : first..WalEnd, inTxn : BOOLEAN, observed : Lsns] :
        /\ \/ r.observed = seen(r.upto)
           \/ /\ r.observed \in r.upto..WalEnd /\ \A n \in r.upto..(r.observed - 1) : ~Published(n)
        /\ x = [src |-> [e EXCEPT !.stream_at = at(r), !.socket = next(r)], txns |-> txns(r), end |-> end(r)]
        /\ e.streaming
  BY Zenon DEF ReadForward
<1>2. /\ first \in Nat /\ from <= first /\ first <= WalEnd /\ Quiet(from, first)
      /\ WalEnd \in Nat
  BY Zenon, Starting, LogEnd
<1>3. /\ e \in SourceType /\ e.opened = s.opened /\ e.position = s.position
      /\ e.snapshot_done = s.snapshot_done /\ e.planned = s.planned /\ ~e.snapshot_open
  BY Zenon, <1>1, Streaming
<1> HIDE DEF e, first
<1>4. /\ r.upto \in first..WalEnd /\ r.inTxn \in BOOLEAN /\ r.observed \in Lsns
      /\ r.observed = seen(r.upto) \/ (r.observed \in r.upto..WalEnd /\ Quiet(r.upto, r.observed))
  BY Zenon, <1>1 DEF Quiet
<1>5. /\ r.upto \in Nat /\ first <= r.upto /\ r.upto <= WalEnd /\ r.observed \in Nat
      /\ r.observed <= WalEnd
      /\ r.observed = seen(r.upto) \/ (r.upto <= r.observed /\ Quiet(r.upto, r.observed))
  BY <1>2, <1>4, Constants DEF Lsns
<1>6. Found(from, txns(r), end(r), r.upto, r.inTxn)
  <2>1. /\ txns(r) = {n \in first..(r.upto - 1) : Published(n) /\ n >= from}
        /\ end(r) = Max({from, IF txns(r) = {} /\ ~r.inTxn THEN r.observed
                                 ELSE IF r.upto = first THEN from ELSE r.upto})
    BY Zenon
  <2> HIDE DEF end, txns
  <2> QED
    BY ZenonT(60), <1>2, <1>4, <1>5, <2>1, ReadsAll
<1> HIDE DEF end, txns
<1>7. /\ at(r) \in Nat /\ next(r) \in Nat
      /\ at(r) # 0 => at(r) <= next(r) /\ next(r) <= WalEnd /\ Quiet(at(r), next(r))
  <2>1. CASE r.inTxn
    BY Zenon, <2>1 DEF StreamAt
  <2>2. CASE ~r.inTxn
    <3>1. at(r) = end(r) /\ next(r) = Max({r.upto, end(r)}) /\ end(r) # 0
      BY <1>6, <2>2 DEF StreamAt, Found
    <3> QED
      BY Zenon, <1>6, <2>2, <3>1 DEF Found
  <2> QED
    BY Zenon, <2>1, <2>2
<1> HIDE DEF at, next
<1>8. x.end = end(r) /\ x.txns = txns(r) /\ x.src = [e EXCEPT !.stream_at = at(r), !.socket = next(r)]
  BY Zenon, <1>1
<1>9. /\ x.src \in SourceType /\ x.src.opened = e.opened /\ x.src.position = e.position
      /\ x.src.snapshot_done = e.snapshot_done /\ x.src.planned = e.planned
      /\ x.src.snapshot_open = e.snapshot_open
      /\ x.src.stream_at = at(r) /\ x.src.socket = next(r)
  BY Zenon, <1>3, <1>7, <1>8 DEF SourceType
<1> QED
  BY Zenon, <1>3, <1>6, <1>7, <1>8, <1>9 DEF SocketInv, Found, Reads

\* A status update moves the slot to the position or leaves it.
LEMMA Confirming ==
  ASSUME NEW sl \in SlotType, NEW t \in SourceType
  PROVE  /\ Confirm(sl, t) \in SlotType
         /\ Confirm(sl, t).confirmed = sl.confirmed \/ Confirm(sl, t).confirmed = t.position
<1>1. CASE t.streaming /\ t.position > sl.confirmed
  <2>1. Confirm(sl, t) = [sl EXCEPT !.confirmed = t.position]
    BY Zenon, <1>1 DEF Confirm
  <2> QED
    BY Zenon, <2>1 DEF SlotType, SourceType
<1>2. CASE ~(t.streaming /\ t.position > sl.confirmed)
  BY Zenon, <1>2 DEF Confirm
<1> QED
  BY Zenon, <1>1, <1>2

\* What plan_batch may return.  It plans the next table of a snapshot;
PlansTable(s, p) ==
  /\ s.snapshot_done # Tables /\ p.src.snapshot_done # Tables /\ p.src.snapshot_open
  /\ p.range = SnapshotRange(p.src)
\* finds nothing published and moves its position, which may be confirmed;
FindsNothing(s, p) ==
  /\ s.snapshot_done = Tables /\ p.src.snapshot_done = Tables /\ p.range = NoRange
  /\ s.position <= p.src.position /\ Quiet(s.position, p.src.position)
  /\ p.slot.confirmed \in {slot.confirmed, s.position, p.src.position}
\* or plans a range of the stream.
PlansRange(s, p) ==
  /\ s.snapshot_done = Tables /\ p.src.snapshot_done = Tables
  /\ p.range \in RangeType /\ InLog(p.range) /\ p.range.start = s.position
  /\ p.src.position = s.position /\ p.slot.confirmed \in {slot.confirmed, s.position}
  /\ ~p.src.snapshot_open

\* A source that streams, with another plan, position or slot.
LEMMA StreamingOK ==
  ASSUME wal \in Seq(Transactions), NEW t \in SourceType, NEW sl \in SlotType, SocketInv(t),
         PlannedInv(t.planned), t.opened, ~t.snapshot_open, t.snapshot_done = Tables,
         1 <= t.position, t.position <= WalEnd, sl.confirmed <= WalEnd
  PROVE  SourceOK(t, sl)
<1>1. Tables \in Nat /\ t.position \in Nat
  BY Zenon, Constants DEF SourceType
<1>2. SnapshotInv(t, sl)
  BY <1>1 DEF SnapshotInv
<1> QED
  BY Zenon, <1>2 DEF SourceOK

LEMMA Planning ==
  ASSUME wal \in Seq(Transactions), NEW s, SourceOK(s, slot),
         s.snapshot_done = Tables => Quiet(s.position, slot.confirmed), NEW p \in Plan(s)
  PROVE  /\ SourceOK(p.src, p.slot)
         /\ PlansTable(s, p) \/ FindsNothing(s, p) \/ PlansRange(s, p)
<1> DEFINE c(o) == {o.slot, Confirm(o.slot, [o.src EXCEPT !.streaming = TRUE])}
           moved(r) == [r.src EXCEPT !.position = Max({@, r.end})]
           kept(r, g) == [r.src EXCEPT !.planned = [range |-> g, txns |-> r.txns]]
<1>0. /\ s \in SourceType /\ slot \in SlotType /\ WalEnd \in Nat /\ Tables \in Nat \ {0}
      /\ s.position \in Nat /\ s.snapshot_done \in 0..Tables
  BY Zenon, LogEnd, Constants DEF SourceOK, SourceType
<1>1. PICK o \in EnsureOpen(s) :
        \/ /\ o.src.snapshot_done < Tables
           /\ p = [src |-> o.src, slot |-> o.slot, range |-> SnapshotRange(o.src)]
        \/ /\ ~(o.src.snapshot_done < Tables)
           /\ \E r \in ReadForward(o.src, o.slot, o.src.position, WalEnd) :
                \/ /\ r.txns = {}
                   /\ \E sl \in c(o) \cup {Confirm(o.slot, moved(r))} :
                        p = [src |-> moved(r), slot |-> sl, range |-> NoRange]
                \/ /\ r.txns # {}
                   /\ \E sl \in c(o) :
                        p = [src |-> kept(r, StreamRange(o.src, r.end)), slot |-> sl,
                             range |-> StreamRange(o.src, r.end)]
  <2> DEFINE idle(o, r) == {[src |-> moved(r), slot |-> sl, range |-> NoRange] :
                              sl \in c(o) \cup {Confirm(o.slot, moved(r))}}
             busy(o, r) == {[src |-> kept(r, StreamRange(o.src, r.end)), slot |-> sl,
                             range |-> StreamRange(o.src, r.end)] : sl \in c(o)}
             read(o)    == UNION {IF r.txns = {} THEN idle(o, r) ELSE busy(o, r) :
                                    r \in ReadForward(o.src, o.slot, o.src.position, WalEnd)}
             table(o)   == {[src |-> o.src, slot |-> o.slot, range |-> SnapshotRange(o.src)]}
  <2>1. Plan(s) = UNION {IF ~SlotInBounds(o.slot) THEN {}
                         ELSE IF o.src.snapshot_done < Tables THEN table(o) ELSE read(o) :
                           o \in EnsureOpen(s)}
    BY Zenon DEF Plan
  <2> HIDE DEF read, table
  <2>2. PICK o \in EnsureOpen(s) :
          \/ o.src.snapshot_done < Tables /\ p \in table(o)
          \/ ~(o.src.snapshot_done < Tables) /\ p \in read(o)
    BY Zenon, <2>1
  <2>3. CASE o.src.snapshot_done < Tables /\ p \in table(o)
    BY Zenon, <2>3 DEF table
  <2>4. CASE ~(o.src.snapshot_done < Tables) /\ p \in read(o)
    <3>1. PICK r \in ReadForward(o.src, o.slot, o.src.position, WalEnd) :
            p \in IF r.txns = {} THEN idle(o, r) ELSE busy(o, r)
      BY Zenon, <2>4 DEF read
    <3>2. CASE r.txns = {}
      BY Zenon, <2>4, <3>1, <3>2
    <3>3. CASE r.txns # {}
      BY Zenon, <2>4, <3>1, <3>3
    <3> QED
      BY Zenon, <3>2, <3>3
  <2> QED
    BY Zenon, <2>2, <2>3, <2>4
<1>o. Opened(s, o)
  BY Zenon, Opening
<1>2. /\ SourceOK(o.src, o.slot) /\ o.src.opened /\ o.src.planned = s.planned
      /\ s.snapshot_done = Tables => /\ o.slot = slot /\ o.src.snapshot_done = Tables
                                     /\ o.src.position = s.position
      /\ s.snapshot_done # Tables => o.src.snapshot_done # Tables
      /\ o.src \in SourceType /\ o.slot \in SlotType /\ o.src.snapshot_done \in 0..Tables
  <2>1. SourceOK(o.src, o.slot)
    BY Zenon, <1>o DEF Opened
  <2>2. o.src \in SourceType /\ o.slot \in SlotType
    BY Zenon, <2>1 DEF SourceOK
  <2>3. o.src.snapshot_done \in 0..Tables
    BY <2>2 DEF SourceType
  <2> QED
    BY Zenon, <1>o, <2>2, <2>3 DEF Opened
<1>3. CASE o.src.snapshot_done < Tables
  <2>1. p = [src |-> o.src, slot |-> o.slot, range |-> SnapshotRange(o.src)]
    BY Zenon, <1>1, <1>3
  <2>4. p.src = o.src /\ p.slot = o.slot /\ p.range = SnapshotRange(o.src)
    BY Zenon, <2>1
  <2>2. s.snapshot_done # Tables /\ o.src.snapshot_done # Tables
    BY <1>0, <1>2, <1>3
  <2>3. o.src.snapshot_open
    BY Zenon, <1>2, <1>3 DEF SourceOK, SnapshotInv
  <2> QED
    BY Zenon, <1>2, <2>4, <2>2, <2>3 DEF PlansTable
<1>4. CASE ~(o.src.snapshot_done < Tables)
  <2>1. s.snapshot_done = Tables /\ o.src.snapshot_done = Tables
    BY <1>0, <1>2, <1>4
  <2> DEFINE n == s.position
  <2>2. /\ n \in Nat /\ 1 <= n /\ n <= WalEnd /\ slot.confirmed \in Nat /\ slot.confirmed <= WalEnd
        /\ Quiet(n, slot.confirmed)
    BY Zenon, <1>0, <2>1 DEF SourceOK, SnapshotInv, SlotType
  <2>3. PICK r \in ReadForward(o.src, slot, n, WalEnd) :
           \/ /\ r.txns = {}
              /\ \E sl \in c(o) \cup {Confirm(o.slot, moved(r))} :
                   p = [src |-> moved(r), slot |-> sl, range |-> NoRange]
           \/ /\ r.txns # {}
              /\ \E sl \in c(o) :
                   p = [src |-> kept(r, StreamRange(o.src, r.end)), slot |-> sl,
                        range |-> StreamRange(o.src, r.end)]
    BY Zenon, <1>1, <1>2, <1>4, <2>1
  <2>4. /\ r.end \in Nat /\ n <= r.end /\ r.end <= WalEnd /\ r.txns = Txns(n, r.end)
        /\ r.src \in SourceType /\ SocketInv(r.src) /\ r.src.opened /\ r.src.position = n
        /\ r.src.snapshot_done = Tables /\ r.src.planned = s.planned /\ ~r.src.snapshot_open
    <3>1. SocketInv(o.src)
      BY Zenon, <1>2 DEF SourceOK
    <3>2. Reads(o.src, n, r)
      BY Zenon, <1>0, <1>2, <2>1, <2>2, <3>1, Reading
    <3> QED
      BY Zenon, <1>2, <2>1, <3>2 DEF Reads
  <2>5. ASSUME NEW sl \in c(o)
        PROVE  /\ sl \in SlotType /\ sl.confirmed \in {slot.confirmed, n}
               /\ sl.confirmed \in Nat /\ sl.confirmed <= WalEnd
    <3>1. [o.src EXCEPT !.streaming = TRUE] \in SourceType
          /\ [o.src EXCEPT !.streaming = TRUE].position = n
      BY Zenon, <1>2, <2>1 DEF SourceType
    <3> DEFINE t == [o.src EXCEPT !.streaming = TRUE]
    <3>2. sl = o.slot \/ sl = Confirm(o.slot, t)
      BY Zenon, <2>5
    <3> HIDE DEF t
    <3>3. /\ Confirm(o.slot, t) \in SlotType
          /\ Confirm(o.slot, t).confirmed = o.slot.confirmed \/ Confirm(o.slot, t).confirmed = n
      BY Zenon, <1>2, <3>1, Confirming DEF t
    <3>4. sl \in SlotType /\ sl.confirmed \in {slot.confirmed, n}
      BY Zenon, <1>2, <2>1, <3>2, <3>3
    <3> QED
      BY Zenon, <2>1, <2>2, <3>4
  <2>6. CASE r.txns = {}
    <3>1. PICK sl \in c(o) \cup {Confirm(o.slot, moved(r))} :
            p = [src |-> moved(r), slot |-> sl, range |-> NoRange]
      BY Zenon, <2>3, <2>6
    <3> DEFINE m == moved(r)
    <3>2. m.position = r.end
      <4>1. r.src \in SourceType /\ r.src.position = n /\ n \in Nat /\ r.end \in Nat /\ n <= r.end
        BY Zenon, <2>2, <2>4
      <4>2. Max({n, r.end}) = r.end
        BY <4>1, MaxOfTwo
      <4>3. m.position = Max({r.src.position, r.end})
        BY Zenon, <4>1 DEF SourceType
      <4> QED
        BY Zenon, <4>1, <4>2, <4>3
    <3>3. /\ m \in SourceType /\ m.opened /\ m.snapshot_done = Tables /\ m.planned = s.planned
          /\ ~m.snapshot_open /\ m.stream_at = r.src.stream_at /\ m.socket = r.src.socket
      BY Zenon, <2>2, <2>4, MaxOfTwo DEF SourceType
    <3>4. p.src = m /\ p.slot = sl /\ p.range = NoRange
      BY Zenon, <3>1
    <3> HIDE DEF m
    <3>5. /\ sl \in SlotType /\ sl.confirmed \in {slot.confirmed, n, r.end}
      <4>1. /\ Confirm(o.slot, m) \in SlotType
            /\ Confirm(o.slot, m).confirmed = o.slot.confirmed \/ Confirm(o.slot, m).confirmed = r.end
        BY Zenon, <1>2, <3>2, <3>3, Confirming
      <4>2. sl \in c(o) \/ sl = Confirm(o.slot, m)
        BY Zenon, <3>1 DEF m
      <4> HIDE DEF c
      <4> QED
        BY Zenon, <1>2, <2>1, <2>5, <4>1, <4>2
    <3>6. sl.confirmed <= WalEnd /\ 1 <= r.end
      BY <1>0, <2>2, <2>4, <3>5
    <3>7. Quiet(n, r.end)
      BY Zenon, <2>4, <2>6 DEF Txns, Quiet
    <3>8. SocketInv(m) /\ PlannedInv(m.planned)
      BY Zenon, <2>4, <3>3 DEF SocketInv, SourceOK
    <3>9. SourceOK(m, sl)
      BY Zenon, <2>4, <3>2, <3>3, <3>5, <3>6, <3>8, StreamingOK
    <3> QED
      BY Zenon, <2>1, <2>4, <3>2, <3>3, <3>4, <3>5, <3>7, <3>9 DEF FindsNothing
  <2>7. CASE r.txns # {}
    <3> DEFINE g == StreamRange(o.src, r.end)
               m == kept(r, g)
    <3>1. PICK sl \in c(o) : p = [src |-> m, slot |-> sl, range |-> g]
      BY Zenon, <2>3, <2>7
    <3>2. p.src = m /\ p.slot = sl /\ p.range = g
      BY Zenon, <3>1
    <3>3. /\ g \in RangeType /\ g.start = n /\ g.end = r.end /\ g.snapshot = FALSE
      BY Zenon, <1>2, <2>1, <2>2, <2>4 DEF StreamRange, RangeType
    <3>4. InLog(g) /\ r.txns = Txns(g.start, g.end) /\ r.txns \in SUBSET Nat
      <4>1. n < r.end /\ r.txns \in SUBSET Nat
        BY <2>2, <2>4, <2>7 DEF Txns
      <4> HIDE DEF g
      <4> QED
        BY Zenon, <2>2, <2>4, <3>3, <4>1 DEF InLog
    <3> HIDE DEF g
    <3>5. [range |-> g, txns |-> r.txns] \in PlanType
      BY Zenon, <3>3, <3>4 DEF PlanType
    <3>6. /\ m \in SourceType /\ m.opened /\ m.snapshot_done = Tables /\ m.position = n
          /\ m.planned.range = g /\ m.planned.txns = r.txns
          /\ ~m.snapshot_open /\ m.stream_at = r.src.stream_at /\ m.socket = r.src.socket
      BY Zenon, <2>4, <3>5 DEF SourceType
    <3> HIDE DEF m
    <3>7. SocketInv(m) /\ PlannedInv(m.planned)
      BY Zenon, <2>4, <3>4, <3>6 DEF SocketInv, PlannedInv
    <3>8. SourceOK(m, sl)
      BY Zenon, <2>2, <2>5, <3>1, <3>6, <3>7, StreamingOK
    <3> QED
      BY Zenon, <2>1, <2>5, <3>1, <3>2, <3>3, <3>4, <3>6, <3>8 DEF PlansRange
  <2> QED
    BY Zenon, <2>6, <2>7
<1> QED
  BY Zenon, <1>3, <1>4

\* poll_snapshot reads a table in the open snapshot, and counts it if it was planned
\* in the same one.
LEMMA PollingTable ==
  ASSUME wal \in Seq(Transactions), NEW s, SourceOK(s, slot), NEW replies,
         NEW range \in RangeType, range.snapshot, range.start < Tables,
         NEW p \in Poll(s, range, replies)
  PROVE  /\ SourceOK(p.src, p.slot) /\ p.src.snapshot_open
         /\ p.src.snapshot_done = IF Honourable(p.src, range) THEN range.start + 1 ELSE 0
         /\ s.snapshot_done = Tables => p.slot = slot /\ p.src.position = s.position
<1>0. /\ Tables \in Nat \ {0} /\ range.start \in Nat
  BY Zenon, Constants DEF RangeType
<1>1. PICK o \in EnsureOpen(s) : \E x \in PollSnapshot(o.src, range) : p = [x EXCEPT !.slot = o.slot]
  BY Zenon DEF Poll
<1>2. PICK x \in PollSnapshot(o.src, range) : p = [x EXCEPT !.slot = o.slot]
  BY Zenon, <1>1
<1> DEFINE n == IF Honourable(o.src, range) THEN range.start + 1 ELSE 0
           t == [o.src EXCEPT !.snapshot_done = n]
<1>3. /\ o.src.snapshot_open
      /\ x = [src |-> t, slot |-> slot, batch |-> SnapshotRows(range.start, o.src.position)]
  BY Zenon, <1>2 DEF PollSnapshot
<1>4. p.src = t /\ p.slot = o.slot
  <2> HIDE DEF t
  <2> QED
    BY Zenon, <1>2, <1>3
<1>o. Opened(s, o)
  BY Zenon, Opening
<1>5. /\ SourceOK(o.src, o.slot) /\ o.src.planned = s.planned
      /\ s.snapshot_done = Tables => o.slot = slot /\ o.src.position = s.position
      /\ o.src \in SourceType /\ o.slot \in SlotType
  BY Zenon, <1>o DEF Opened, SourceOK
<1>6. n \in 0..Tables
  BY <1>0
<1>7. /\ t \in SourceType /\ t.snapshot_open /\ t.opened = o.src.opened /\ t.streaming = o.src.streaming
      /\ t.position = o.src.position /\ t.planned = o.src.planned /\ t.stream_at = o.src.stream_at
      /\ t.socket = o.src.socket /\ t.snapshot_done = n
  <2> HIDE DEF n
  <2> QED
    BY Zenon, <1>3, <1>5, <1>6 DEF SourceType
<1> HIDE DEF t
<1>8. SnapshotInv(t, o.slot)
  BY Zenon, <1>5, <1>7, <1>3 DEF SnapshotInv, SourceOK
<1>9. SocketInv(t) /\ PlannedInv(t.planned)
  BY Zenon, <1>5, <1>7 DEF SocketInv, SourceOK
<1>10. Honourable(t, range) = Honourable(o.src, range)
  BY Zenon, <1>7 DEF Honourable
<1> QED
  BY Zenon, <1>4, <1>5, <1>7, <1>8, <1>9, <1>10 DEF SourceOK

\* A source that drops its plan.
LEMMA Dropping ==
  ASSUME NEW s, SourceOK(s, slot)
  PROVE  LET t == [s EXCEPT !.planned = NoPlan]
         IN  /\ SourceOK(t, slot) /\ t.snapshot_done = s.snapshot_done /\ t.position = s.position
             /\ t.snapshot_open = s.snapshot_open /\ t.opened = s.opened
<1> DEFINE t == [s EXCEPT !.planned = NoPlan]
<1>1. NoPlan \in PlanType
  BY Zenon DEF NoPlan, PlanType, NoRange, RangeType
<1>2. /\ t \in SourceType /\ t.snapshot_open = s.snapshot_open /\ t.opened = s.opened
      /\ t.streaming = s.streaming /\ t.position = s.position /\ t.planned = NoPlan
      /\ t.stream_at = s.stream_at /\ t.socket = s.socket /\ t.snapshot_done = s.snapshot_done
  BY Zenon, <1>1 DEF SourceOK, SourceType
<1> HIDE DEF t
<1>3. SocketInv(t) /\ PlannedInv(t.planned) /\ SnapshotInv(t, slot)
  BY Zenon, <1>2 DEF SourceOK, SocketInv, PlannedInv, SnapshotInv
<1> QED
  BY Zenon, <1>2, <1>3 DEF SourceOK, t

\* poll_range of the stream returns what the log holds in the range.
LEMMA PollingRange ==
  ASSUME wal \in Seq(Transactions), NEW s, SourceOK(s, slot), NEW range \in RangeType,
         InLog(range), s.snapshot_done = Tables, ~s.snapshot_open,
         Quiet(range.start, slot.confirmed), NEW p \in Poll(s, range, FALSE)
  PROVE  /\ SourceOK(p.src, p.slot) /\ p.slot = slot /\ p.src.position = range.end
         /\ p.src.snapshot_done = Tables /\ ~p.src.snapshot_open
         /\ p.batch = Changes(Txns(range.start, range.end))
<1>0. /\ Tables \in Nat \ {0} /\ range.start \in Nat /\ range.end \in Nat /\ WalEnd \in Nat
      /\ ~range.snapshot /\ 1 <= range.start /\ range.start < range.end /\ range.end <= WalEnd
  BY Zenon, Constants, LogEnd DEF RangeType, InLog
<1>1. PICK o \in EnsureOpen(s) : p \in PollStream(o.src, o.slot, range, FALSE)
  BY Zenon, <1>0 DEF Poll
<1>o. Opened(s, o)
  BY Zenon, Opening
<1>2. /\ SourceOK(o.src, slot) /\ o.slot = slot /\ o.src.snapshot_done = Tables
      /\ o.src.opened /\ ~o.src.snapshot_open /\ o.src.position = s.position
  BY Zenon, <1>o DEF Opened
<1> DEFINE taken == [o.src EXCEPT !.planned = NoPlan]
           moved(t) == [t EXCEPT !.position = range.end]
<1>3. /\ SourceOK(taken, slot) /\ taken.snapshot_done = Tables /\ taken.opened
      /\ ~taken.snapshot_open
  BY Zenon, <1>2, Dropping
<1> HIDE DEF taken
\* A source moved to the end of the range.
<1>m. ASSUME NEW t \in SourceType, SocketInv(t), PlannedInv(t.planned), t.opened,
             ~t.snapshot_open, t.snapshot_done = Tables
      PROVE  /\ SourceOK(moved(t), slot) /\ moved(t).position = range.end
             /\ moved(t).snapshot_done = Tables /\ ~moved(t).snapshot_open
  <2> DEFINE u == moved(t)
  <2>1. /\ u \in SourceType /\ u.snapshot_open = t.snapshot_open /\ u.opened = t.opened
        /\ u.position = range.end /\ u.planned = t.planned
        /\ u.stream_at = t.stream_at /\ u.socket = t.socket /\ u.snapshot_done = t.snapshot_done
    BY Zenon, <1>0, <1>m DEF SourceType
  <2> HIDE DEF u
  <2>2. SocketInv(u) /\ PlannedInv(u.planned)
    BY Zenon, <1>m, <2>1 DEF SocketInv
  <2>3. 1 <= range.end /\ slot \in SlotType /\ slot.confirmed <= WalEnd
    BY <1>0, <1>2 DEF SourceOK, SnapshotInv
  <2>4. SourceOK(u, slot)
    BY Zenon, <1>0, <1>m, <2>1, <2>2, <2>3, StreamingOK
  <2> QED
    BY Zenon, <1>m, <2>1, <2>4 DEF u
<1>4. CASE o.src.planned.range = range
  <2>1. p = [src |-> moved(taken), slot |-> slot, batch |-> Changes(o.src.planned.txns)]
    <3>1. p \in PollStream(o.src, slot, range, FALSE)
      BY Zenon, <1>1, <1>2
    <3>2. PollStream(o.src, slot, range, FALSE)
            = {[src |-> moved(taken), slot |-> slot, batch |-> Changes(o.src.planned.txns)]}
      BY Zenon, <1>4 DEF PollStream, taken
    <3> QED
      BY Zenon, <3>1, <3>2
  <2>2. p.src = moved(taken) /\ p.slot = slot /\ p.batch = Changes(o.src.planned.txns)
    BY Zenon, <2>1
  <2>3. o.src.planned.txns = Txns(range.start, range.end)
    <3>1. range # NoRange
      BY <1>0 DEF NoRange
    <3>2. o.src.planned # NoPlan
      BY <1>4, <3>1 DEF NoPlan
    <3> QED
      BY Zenon, <1>2, <1>4, <3>2 DEF SourceOK, PlannedInv
  <2> QED
    BY Zenon, <1>3, <1>m, <2>2, <2>3 DEF SourceOK
<1>5. CASE o.src.planned.range # range
  <2>1. PICK r \in ReadForward(taken, slot, range.start, range.end) :
          /\ r.end >= range.end
          /\ p = [src |-> moved(r.src), slot |-> slot,
                  batch |-> Changes({n \in r.txns : n < range.end})]
    <3>1. p \in PollStream(o.src, slot, range, FALSE)
      BY Zenon, <1>1, <1>2
    <3> DEFINE R == {x \in ReadForward(taken, slot, range.start, range.end) : x.end >= range.end}
               out(r, c) == [src |-> moved(r.src), slot |-> c,
                             batch |-> Changes({n \in r.txns : n < range.end})]
    <3>2. PollStream(o.src, slot, range, FALSE) = UNION {{out(r, c) : c \in {slot}} : r \in R}
      BY <1>5 DEF PollStream, taken
    <3>3. \E r \in R : p = out(r, slot)
      <4> HIDE DEF R, out
      <4> QED
        BY Zenon, <3>1, <3>2
    <3> QED
      BY Zenon, <3>3
  <2>2. p.src = moved(r.src) /\ p.slot = slot /\ p.batch = Changes({n \in r.txns : n < range.end})
    BY Zenon, <2>1
  <2>3. /\ r.end \in Nat /\ r.txns = Txns(range.start, r.end)
        /\ r.src \in SourceType /\ SocketInv(r.src) /\ r.src.opened = taken.opened
        /\ r.src.snapshot_done = taken.snapshot_done /\ r.src.planned = taken.planned
        /\ ~r.src.snapshot_open
    <3>1. /\ taken \in SourceType /\ slot \in SlotType /\ SocketInv(taken)
          /\ slot.confirmed <= WalEnd /\ range.start <= WalEnd
      BY <1>0, <1>3 DEF SourceOK, SnapshotInv
    <3>2. Reads(taken, range.start, r)
      BY Zenon, <1>0, <1>3, <3>1, Reading
    <3> QED
      BY Zenon, <1>3, <3>2 DEF Reads
  <2>4. {n \in r.txns : n < range.end} = Txns(range.start, range.end)
    BY <1>0, <2>1, <2>3 DEF Txns
  <2> QED
    BY Zenon, <1>3, <1>m, <2>2, <2>3, <2>4 DEF SourceOK
<1> QED
  BY Zenon, <1>4, <1>5

\* finish_snapshot, of a source whose tables are read.
LEMMA Finishing ==
  ASSUME NEW s \in SourceType, NEW sl, SourceOK(s, sl), s.snapshot_done = Tables
  PROVE  LET f == FinishSnapshot(s)
         IN  /\ SourceOK(f, sl) /\ f.opened = s.opened /\ f.position = s.position
             /\ f.snapshot_done = Tables /\ ~f.snapshot_open
<1> DEFINE f == FinishSnapshot(s)
<1>0. Tables >= Tables
  BY Constants
<1>1. CASE s.snapshot_open
  <2>1. f = [s EXCEPT !.snapshot_open = FALSE]
    BY Zenon, <1>0, <1>1 DEF FinishSnapshot
  <2> HIDE DEF f
  <2>2. /\ f \in SourceType /\ ~f.snapshot_open /\ f.opened = s.opened
        /\ f.streaming = s.streaming /\ f.position = s.position /\ f.planned = s.planned
        /\ f.stream_at = s.stream_at /\ f.socket = s.socket /\ f.snapshot_done = s.snapshot_done
    BY Zenon, <2>1 DEF SourceType
  <2>3. SocketInv(f) /\ PlannedInv(f.planned)
    BY Zenon, <2>2 DEF SourceOK, SocketInv
  <2>4. SnapshotInv(f, sl)
    <3>1. ~(s.snapshot_done < Tables)
      BY Constants
    <3> QED
      BY Zenon, <2>2, <3>1 DEF SourceOK, SnapshotInv
  <2> QED
    BY Zenon, <2>2, <2>3, <2>4 DEF SourceOK, f
<1>2. CASE ~s.snapshot_open
  BY Zenon, <1>2 DEF FinishSnapshot
<1> QED
  BY Zenon, <1>1, <1>2

\* A source that lost its session.
LEMMA Disconnecting ==
  ASSUME NEW s \in SourceType, NEW sl, SourceOK(s, sl)
  PROVE  LET f == Disconnected(s)
         IN  /\ SourceOK(f, sl) /\ f.opened = s.opened /\ f.position = s.position
             /\ f.snapshot_done = s.snapshot_done /\ f.snapshot_open = s.snapshot_open
<1> DEFINE f == Disconnected(s)
<1>1. /\ f \in SourceType /\ f.snapshot_open = s.snapshot_open /\ f.opened = s.opened
      /\ ~f.streaming /\ f.position = s.position /\ f.planned = s.planned
      /\ f.stream_at = 0 /\ f.snapshot_done = s.snapshot_done
  BY Zenon DEF Disconnected, SourceType
<1> HIDE DEF f
<1>2. SocketInv(f) /\ PlannedInv(f.planned) /\ SnapshotInv(f, sl)
  BY Zenon, <1>1 DEF SourceOK, SocketInv, SnapshotInv
<1> QED
  BY Zenon, <1>1, <1>2 DEF SourceOK, f

\* What a failed call leaves of a source.
Failed(s, f) ==
  /\ SourceOK(f.src, f.slot)
  /\ s.snapshot_done = Tables =>
       /\ f.slot = slot /\ f.src.snapshot_done = Tables /\ f.src.position = s.position
       /\ ~s.snapshot_open => ~f.src.snapshot_open
  /\ s.snapshot_done # Tables => f.src.snapshot_done # Tables

LEMMA FailingPlan ==
  ASSUME wal \in Seq(Transactions), NEW s, SourceOK(s, slot), NEW f \in FailedPlan(s)
  PROVE  Failed(s, f)
<1>1. CASE f \in {[src |-> s, slot |-> slot]}
  <2>0. f = [src |-> s, slot |-> slot]
    BY Zenon, <1>1
  <2>1. f.src = s /\ f.slot = slot
    BY Zenon, <2>0
  <2> QED
    BY Zenon, <2>1 DEF Failed
<1>2. CASE f \in EnsureOpen(s)
  <2>1. Opened(s, f)
    BY Zenon, <1>2, Opening
  <2> QED
    BY Zenon, <2>1 DEF Opened, Failed
<1>3. CASE /\ ~s.opened /\ s.snapshot_done < Tables
           /\ f = [src |-> s, slot |-> NoSlot]
  <2>1. f.src = s /\ f.slot = NoSlot
    BY Zenon, <1>3
  <2>2. s.snapshot_done # Tables
    BY <1>3, Constants
  <2>3. NoSlot \in SlotType /\ NoSlot.confirmed <= WalEnd
    BY LogEnd DEF NoSlot, SlotType
  <2>4. SnapshotInv(s, NoSlot)
    BY Zenon, <1>3, <2>3 DEF SnapshotInv, SourceOK
  <2> QED
    BY Zenon, <2>1, <2>2, <2>3, <2>4 DEF Failed, SourceOK
<1>4. CASE \E o \in EnsureOpen(s) : /\ o.src.snapshot_done >= Tables
             /\ f = [src |-> Disconnected(FinishSnapshot(o.src)), slot |-> o.slot]
  <2>1. PICK o \in EnsureOpen(s) : /\ o.src.snapshot_done >= Tables
             /\ f = [src |-> Disconnected(FinishSnapshot(o.src)), slot |-> o.slot]
    BY Zenon, <1>4
  <2>2. f.src = Disconnected(FinishSnapshot(o.src)) /\ f.slot = o.slot
    BY Zenon, <2>1
  <2>o. Opened(s, o)
    BY Zenon, Opening
  <2>3. /\ SourceOK(o.src, o.slot) /\ o.src \in SourceType
        /\ s.snapshot_done = Tables => o.slot = slot /\ o.src.position = s.position
        /\ s.snapshot_done # Tables => o.src.snapshot_done # Tables
    BY Zenon, <2>o DEF Opened, SourceOK
  <2>4. o.src.snapshot_done = Tables
    BY <2>1, <2>3, Constants DEF SourceType
  <2> DEFINE g == FinishSnapshot(o.src)
  <2>5. /\ SourceOK(g, o.slot) /\ g.position = o.src.position
        /\ g.snapshot_done = Tables /\ ~g.snapshot_open
    BY Zenon, <2>3, <2>4, Finishing
  <2> HIDE DEF g
  <2>6. /\ SourceOK(Disconnected(g), o.slot) /\ Disconnected(g).position = o.src.position
        /\ Disconnected(g).snapshot_done = Tables /\ ~Disconnected(g).snapshot_open
    BY Zenon, <2>5, Disconnecting DEF SourceOK
  <2> QED
    BY Zenon, <2>2, <2>3, <2>4, <2>6 DEF Failed, g
<1> QED
  BY Zenon, <1>1, <1>2, <1>3, <1>4 DEF FailedPlan

\* A failed poll of a stream range drops the plan.
LEMMA FailingRange ==
  ASSUME wal \in Seq(Transactions), NEW s, SourceOK(s, slot), NEW range, ~range.snapshot,
         NEW f \in FailedPoll(s, range)
  PROVE  Failed(s, f)
<1> DEFINE t == [s EXCEPT !.planned = NoPlan]
<1>1. f \in FailedPlan(t)
  BY Zenon DEF FailedPoll
<1>2. /\ SourceOK(t, slot) /\ t.snapshot_done = s.snapshot_done /\ t.position = s.position
      /\ t.snapshot_open = s.snapshot_open
  BY Zenon, Dropping
<1> HIDE DEF t
<1>3. Failed(t, f)
  BY Zenon, <1>1, <1>2, FailingPlan
<1> QED
  BY Zenon, <1>2, <1>3 DEF Failed

\* A failed read of a table forgets the slot, and keeps the count of an honourable one.
LEMMA FailingTable ==
  ASSUME wal \in Seq(Transactions), NEW s, SourceOK(s, slot), NEW range, range.snapshot,
         NEW f \in FailedPoll(s, range)
  PROVE  /\ SourceOK(f.src, f.slot)
         /\ s.snapshot_done = Tables => f.slot = slot /\ f.src.position = s.position
         /\ s.snapshot_done = Tables /\ Honourable(s, range) => f.src.snapshot_done = Tables
         /\ s.snapshot_done # Tables => f.src.snapshot_done # Tables
<1>1. CASE f \in EnsureOpen(s)
  <2>1. Opened(s, f)
    BY Zenon, <1>1, Opening
  <2> QED
    BY Zenon, <2>1 DEF Opened
<1>2. CASE f \notin EnsureOpen(s)
  <2> DEFINE g(o) == [Disconnected(o.src) EXCEPT !.opened = FALSE, !.snapshot_open = FALSE,
                        !.snapshot_done = IF Honourable(o.src, range) THEN @ ELSE 0]
  <2>1. PICK o \in EnsureOpen(s) : o.src.snapshot_open /\ f = [src |-> g(o), slot |-> o.slot]
    <3> HIDE DEF g
    <3>1. FailedPoll(s, range) = EnsureOpen(s) \cup {[src |-> g(o), slot |-> o.slot] :
                                   o \in {x \in EnsureOpen(s) : x.src.snapshot_open}}
      BY Zenon DEF FailedPoll, g
    <3> QED
      BY Zenon, <1>2, <3>1
  <2>2. f.src = g(o) /\ f.slot = o.slot
    BY Zenon, <2>1
  <2>o. Opened(s, o)
    BY Zenon, Opening
  <2>3. /\ SourceOK(o.src, o.slot) /\ o.src \in SourceType
        /\ s.snapshot_done = Tables => /\ o.slot = slot /\ o.src.position = s.position
                                       /\ o.src.snapshot_done = Tables
        /\ s.snapshot_done # Tables => o.src.snapshot_done # Tables
    BY Zenon, <2>o DEF Opened, SourceOK
  <2> DEFINE d == Disconnected(o.src)
             n == IF Honourable(o.src, range) THEN d.snapshot_done ELSE 0
  <2>4. /\ SourceOK(d, o.slot) /\ d.position = o.src.position /\ d \in SourceType
        /\ d.snapshot_done = o.src.snapshot_done /\ d.snapshot_open
    BY Zenon, <2>1, <2>3, Disconnecting DEF SourceOK
  <2>5. n \in 0..Tables
    <3>1. 0 \in 0..Tables /\ d.snapshot_done \in 0..Tables
      BY <2>4, Constants DEF SourceType
    <3> QED
      BY Zenon, <3>1
  <2> DEFINE t == [d EXCEPT !.opened = FALSE, !.snapshot_open = FALSE, !.snapshot_done = n]
  <2>6. g(o) = t
    BY Zenon, <2>4 DEF SourceType
  <2> HIDE DEF d, g
  <2>7. /\ t \in SourceType /\ ~t.snapshot_open /\ ~t.opened /\ t.streaming = d.streaming
        /\ t.position = d.position /\ t.planned = d.planned /\ t.stream_at = d.stream_at
        /\ t.socket = d.socket /\ t.snapshot_done = n
    <3> HIDE DEF n
    <3> QED
      BY Zenon, <2>4, <2>5 DEF SourceType
  <2> HIDE DEF t
  <2>8. SocketInv(t) /\ PlannedInv(t.planned) /\ SnapshotInv(t, o.slot)
    BY Zenon, <2>4, <2>7 DEF SourceOK, SocketInv, SnapshotInv
  <2>9. o.slot \in SlotType
    BY Zenon, <2>3 DEF SourceOK
  <2>10. Tables # 0
    BY Zenon, Constants
  <2>11. s.snapshot_done = Tables /\ Honourable(s, range) => n = Tables
    BY Zenon, <2>3, <2>4 DEF Honourable
  <2>12. s.snapshot_done # Tables => n # Tables
    BY Zenon, <2>3, <2>4, <2>10
  <2> HIDE DEF n
  <2>13. SourceOK(t, o.slot)
    BY Zenon, <2>7, <2>8, <2>9 DEF SourceOK
  <2>14. f.src = t /\ t.position = o.src.position
    BY Zenon, <2>2, <2>4, <2>6, <2>7
  <2> QED
    BY Zenon, <2>2, <2>3, <2>7, <2>11, <2>12, <2>13, <2>14
<1> QED
  BY Zenon, <1>1, <1>2

-----------------------------------------------------------------------------
(* The inductive invariant *)

Phases == {"down", "idle", "poll", "write", "commit", "durable"}

\* The checkpoint: what a start resumes from is not behind the slot, and the batch
\* after it, if its range is recorded, continues there.
Kept(ol, res, sl) ==
  /\ res.lsn <= WalEnd
  /\ res.snapshot = Tables => 1 <= res.lsn /\ Quiet(res.lsn, sl.confirmed)
  /\ ol.range.snapshot => ol.range.start < Tables
  /\ ol.id <= res.batch + 1
  /\ ol.id = res.batch + 1 /\ ol.range.snapshot => res.snapshot # Tables
  /\ ol.id = res.batch + 1 /\ ~ol.range.snapshot =>
       res.snapshot = Tables /\ InLog(ol.range) /\ res.lsn <= ol.range.start

\* The query's batch id b is the checkpoint's; after a commit that landed and was
\* answered by an error it is one behind, and the batch in hand is the recorded one.
Ids(ol, res, p, b) ==
  /\ b = res.batch \/ (b + 1 = res.batch /\ ol.id = b + 1 /\ p # "durable")
  /\ p \in {"poll", "write", "commit"} => ol.id = b + 1
  /\ p = "durable" => ol.id # b + 1

\* No batch in hand: between the record and the position nothing is published.
AtRest(res, s) ==
  s.snapshot_done = Tables =>
    res.snapshot = Tables /\ res.lsn <= s.position /\ Quiet(res.lsn, s.position)

\* A range of the stream in hand: nothing in it is confirmed.
InStream(ol, res, sl, s, p) ==
  /\ res.snapshot = Tables /\ InLog(ol.range) /\ Quiet(ol.range.start, sl.confirmed)
  /\ ~s.snapshot_open
  /\ p \in {"write", "commit"} => s.position = ol.range.end

\* A table of a snapshot in hand.
InSnapshot(ol, res, s, p) ==
  /\ res.snapshot = Tables => Honourable(s, ol.range) /\ ol.range.start + 1 = Tables
  /\ p \in {"write", "commit"} =>
       /\ s.snapshot_open
       /\ s.snapshot_done = IF Honourable(s, ol.range) THEN ol.range.start + 1 ELSE 0

Serving(ol, res, sl, s, p, b) ==
  /\ res.snapshot = Tables => s.snapshot_done = Tables
  /\ Ids(ol, res, p, b)
  /\ ol.id # b + 1 => AtRest(res, s)
  /\ ol.id = b + 1 /\ ~ol.range.snapshot => InStream(ol, res, sl, s, p)
  /\ ol.id = b + 1 /\ ol.range.snapshot => InSnapshot(ol, res, s, p)

\* The rows in hand are those of the recorded range.
Reproduced(ol, p, rows) ==
  p \in {"write", "commit"} /\ ~ol.range.snapshot =>
    rows = Changes(Txns(ol.range.start, ol.range.end))

Consistent(ol, res, sl, s, p, b, rows) ==
  /\ ol \in [id : Nat, range : RangeType] /\ p \in Phases /\ b \in Nat
  /\ res \in [batch : Nat, snapshot : 0..Tables, lsn : Nat]
  /\ SourceOK(s, sl) /\ Kept(ol, res, sl)
  /\ p # "down" => Serving(ol, res, sl, s, p, b) /\ Reproduced(ol, p, rows)

IInv ==
  /\ wal \in Seq(Transactions)
  /\ Consistent(offsetLog, resume, slot, src, pc, batchId, batch)

\* The log's transactions stay where they are, so what is said of a stretch of it
\* stays true as the log grows.
LEMMA LogGrows ==
  ASSUME wal \in Seq(Transactions), wal' = wal \/ \E t \in Transactions : wal' = Append(wal, t)
  PROVE  /\ wal' \in Seq(Transactions) /\ Len(wal') \in Nat /\ Len(wal') >= Len(wal)
         /\ \A n \in 1..Len(wal) : wal'[n] = wal[n]
OBVIOUS

LEMMA QuietStays ==
  ASSUME wal \in Seq(Transactions), \A n \in 1..Len(wal) : wal'[n] = wal[n],
         NEW a \in Nat, NEW b \in Nat, 1 <= a, b <= WalEnd, Quiet(a, b)
  PROVE  \A n \in a..(b - 1) : ~\E k \in Keys : wal'[n][k] # "-"
<1> SUFFICES ASSUME NEW n \in a..(b - 1) PROVE ~\E k \in Keys : wal'[n][k] # "-"
  BY Zenon
<1>1. n \in 1..Len(wal)
  BY DEF WalEnd
<1>2. ~\E k \in Keys : wal[n][k] # "-"
  BY Zenon DEF Quiet, Published
<1> QED
  BY Zenon, <1>1, <1>2

LEMMA TxnsStay ==
  ASSUME wal \in Seq(Transactions), \A n \in 1..Len(wal) : wal'[n] = wal[n],
         NEW a \in Nat, NEW b \in Nat, 1 <= a, b <= WalEnd
  PROVE  /\ {n \in a..(b - 1) : \E k \in Keys : wal'[n][k] # "-"} = Txns(a, b)
         /\ UNION {{[op |-> wal'[n][k], key |-> k, seq |-> n, val |-> n] :
                      k \in {x \in Keys : wal'[n][x] # "-"}} : n \in Txns(a, b)} = Changes(Txns(a, b))
<1>1. \A n \in a..(b - 1) : wal'[n] = wal[n]
  BY DEF WalEnd
<1>2. Txns(a, b) = {n \in a..(b - 1) : \E k \in Keys : wal[n][k] # "-"}
  BY Zenon DEF Txns, Published
<1>3. \A n \in a..(b - 1) : (\E k \in Keys : wal'[n][k] # "-") <=> (\E k \in Keys : wal[n][k] # "-")
  BY Zenon, <1>1
<1>4. \A n \in Txns(a, b) : wal'[n] = wal[n]
  BY Zenon, <1>1, <1>2
<1> DEFINE F(w, n) == {[op |-> w[n][k], key |-> k, seq |-> n, val |-> n] :
                         k \in {x \in Keys : w[n][x] # "-"}}
<1>5. \A n \in Txns(a, b) : F(wal', n) = F(wal, n)
  BY Zenon, <1>4
<1>6. Changes(Txns(a, b)) = UNION {F(wal, n) : n \in Txns(a, b)}
  BY Zenon DEF Changes
<1>7. UNION {F(wal', n) : n \in Txns(a, b)} = UNION {F(wal, n) : n \in Txns(a, b)}
  <2> HIDE DEF F
  <2> QED
    BY Zenon, <1>5
<1>8. {n \in a..(b - 1) : \E k \in Keys : wal'[n][k] # "-"}
        = {n \in a..(b - 1) : \E k \in Keys : wal[n][k] # "-"}
  <2> DEFINE P(n) == \E k \in Keys : wal'[n][k] # "-"
             R(n) == \E k \in Keys : wal[n][k] # "-"
  <2>1. \A n \in a..(b - 1) : P(n) <=> R(n)
    BY Zenon, <1>3
  <2> HIDE DEF P, R
  <2>2. {n \in a..(b - 1) : P(n)} = {n \in a..(b - 1) : R(n)}
    BY Zenon, <2>1
  <2> QED
    BY Zenon, <2>2 DEF P, R
<1> QED
  BY Zenon, <1>2, <1>6, <1>7, <1>8

\* An invariant of the new state that speaks of the old log holds of the new log.
LEMMA LogStep ==
  ASSUME wal \in Seq(Transactions), wal' = wal \/ \E t \in Transactions : wal' = Append(wal, t),
         Consistent(offsetLog', resume', slot', src', pc', batchId', batch')
  PROVE  IInv'
<1> DEFINE ol == offsetLog'
           res == resume'
           sl == slot'
           s == src'
           p == pc'
           b == batchId'
           rows == batch'
           W == Len(wal') + 1
           P(n) == \E k \in Keys : wal'[n][k] # "-"
           Q(x, y) == \A n \in x..(y - 1) : ~P(n)
           T(x, y) == {n \in x..(y - 1) : P(n)}
           C(S) == UNION {{[op |-> wal'[n][k], key |-> k, seq |-> n, val |-> n] :
                             k \in {x \in Keys : wal'[n][x] # "-"}} : n \in S}
<1>1. /\ wal' \in Seq(Transactions) /\ Len(wal') \in Nat /\ Len(wal') >= Len(wal)
      /\ \A n \in 1..Len(wal) : wal'[n] = wal[n]
  BY Zenon, LogGrows
<1>2. W \in Nat /\ WalEnd \in Nat /\ WalEnd <= W
  BY <1>1 DEF WalEnd
<1>3. ASSUME NEW x \in Nat, NEW y \in Nat, 1 <= x, y <= WalEnd, Quiet(x, y) PROVE Q(x, y)
  BY Zenon, <1>1, <1>3, QuietStays
<1>4. ASSUME NEW x \in Nat, NEW y \in Nat, 1 <= x, y <= WalEnd
      PROVE  T(x, y) = Txns(x, y) /\ C(Txns(x, y)) = Changes(Txns(x, y))
  BY Zenon, <1>1, <1>4, TxnsStay
<1>5. /\ ol \in [id : Nat, range : RangeType] /\ p \in Phases /\ b \in Nat
      /\ res \in [batch : Nat, snapshot : 0..Tables, lsn : Nat]
      /\ SourceOK(s, sl) /\ Kept(ol, res, sl)
      /\ p # "down" => Serving(ol, res, sl, s, p, b) /\ Reproduced(ol, p, rows)
  BY Zenon DEF Consistent
<1>6. /\ s \in SourceType /\ sl \in SlotType
      /\ SocketInv(s) /\ PlannedInv(s.planned) /\ SnapshotInv(s, sl)
  BY Zenon, <1>5 DEF SourceOK
<1>7. /\ res.lsn \in Nat /\ ol.range \in RangeType /\ ol.range.start \in Nat /\ ol.range.end \in Nat
      /\ s.position \in Nat /\ s.stream_at \in Nat /\ s.socket \in Nat /\ sl.confirmed \in Nat
      /\ s.planned \in PlanType /\ s.planned.range \in RangeType
      /\ s.planned.range.start \in Nat /\ s.planned.range.end \in Nat
  BY Zenon, <1>5, <1>6 DEF SourceType, SlotType, PlanType, RangeType
<1> HIDE DEF ol, res, sl, s, p, b, rows, W, P, Q, T, C
\* A range of the log is one of the longer log.
<1>8. ASSUME NEW r, r.end \in Nat, InLog(r)
      PROVE  ~r.snapshot /\ 1 <= r.start /\ r.start < r.end /\ r.end <= W
  BY <1>2, <1>8 DEF InLog
<1>9. s.stream_at # 0 =>
        s.stream_at <= s.socket /\ s.socket <= W /\ Q(s.stream_at, s.socket)
  <2>1. SUFFICES ASSUME s.stream_at # 0 PROVE s.socket <= W /\ Q(s.stream_at, s.socket)
    BY Zenon, <1>6 DEF SocketInv
  <2>2. s.socket <= WalEnd /\ Quiet(s.stream_at, s.socket)
    BY Zenon, <1>6, <2>1 DEF SocketInv
  <2>3. 1 <= s.stream_at /\ s.socket <= W
    <3>1. \A x \in Nat : (x # 0 => 1 <= x) /\ (x <= WalEnd => x <= W)
      BY <1>2
    <3> QED
      BY Zenon, <1>7, <2>1, <2>2, <3>1
  <2> QED
    BY Zenon, <1>3, <1>7, <2>2, <2>3
<1>10. \/ s.planned = NoPlan
       \/ LET r == s.planned.range
          IN  /\ ~r.snapshot /\ 1 <= r.start /\ r.start < r.end /\ r.end <= W
              /\ s.planned.txns = T(r.start, r.end)
  <2>1. SUFFICES ASSUME s.planned # NoPlan
                 PROVE  LET r == s.planned.range
                        IN  /\ ~r.snapshot /\ 1 <= r.start /\ r.start < r.end /\ r.end <= W
                            /\ s.planned.txns = T(r.start, r.end)
    BY Zenon
  <2>2. InLog(s.planned.range)
        /\ s.planned.txns = Txns(s.planned.range.start, s.planned.range.end)
    BY Zenon, <1>6, <2>1 DEF PlannedInv
  <2>3. 1 <= s.planned.range.start /\ s.planned.range.end <= WalEnd
    BY Zenon, <2>2 DEF InLog
  <2> QED
    BY Zenon, <1>4, <1>7, <1>8, <2>2, <2>3
<1>11. /\ s.snapshot_open => s.opened /\ ~s.streaming /\ s.position = sl.confirmed
       /\ s.opened /\ s.snapshot_done < Tables => s.snapshot_open
       /\ ~s.opened => ~s.streaming
       /\ (s.snapshot_open \/ s.snapshot_done = Tables) => s.position >= 1
       /\ s.position <= W /\ sl.confirmed <= W
  <2>1. s.position <= WalEnd /\ sl.confirmed <= WalEnd
    BY Zenon, <1>6 DEF SnapshotInv
  <2>2. s.position <= W /\ sl.confirmed <= W
    <3>1. \A x \in Nat : x <= WalEnd => x <= W
      BY <1>2
    <3> QED
      BY Zenon, <1>7, <2>1, <3>1
  <2> QED
    BY Zenon, <1>6, <2>2 DEF SnapshotInv
<1>12. SourceOK(src, slot)'
  BY Zenon, <1>6, <1>9, <1>10, <1>11
     DEF s, sl, W, P, Q, T, SourceOK, SocketInv, PlannedInv, SnapshotInv, InLog, Quiet, Txns,
         Published, WalEnd
<1>13. sl.confirmed <= WalEnd /\ s.position <= WalEnd
  BY Zenon, <1>6 DEF SnapshotInv
<1>14. res.lsn <= W /\ (res.snapshot = Tables => 1 <= res.lsn /\ Q(res.lsn, sl.confirmed))
  <2>1. res.lsn <= WalEnd
    BY Zenon, <1>5 DEF Kept
  <2>2. res.lsn <= W
    BY <1>2, <1>7, <2>1
  <2>3. res.snapshot = Tables => 1 <= res.lsn /\ Quiet(res.lsn, sl.confirmed)
    BY Zenon, <1>5 DEF Kept
  <2> QED
    BY Zenon, <1>3, <1>7, <1>13, <2>2, <2>3
<1>15. Kept(offsetLog, resume, slot)'
  <2>1. InLog(ol.range) => /\ ~ol.range.snapshot /\ 1 <= ol.range.start
                           /\ ol.range.start < ol.range.end /\ ol.range.end <= W
    BY Zenon, <1>7, <1>8
  <2> QED
    BY Zenon, <1>5, <1>14, <2>1 DEF ol, res, sl, W, P, Q, Kept, InLog, Quiet, Published, WalEnd
<1>16. ASSUME p # "down"
       PROVE  (Serving(offsetLog, resume, slot, src, pc, batchId) /\ Reproduced(offsetLog, pc, batch))'
  <2>0. Serving(ol, res, sl, s, p, b) /\ Reproduced(ol, p, rows)
    BY Zenon, <1>5, <1>16
  <2>1. InLog(ol.range) => /\ ~ol.range.snapshot /\ 1 <= ol.range.start
                           /\ ol.range.start < ol.range.end /\ ol.range.end <= W
    BY Zenon, <1>7, <1>8
  <2>2. res.snapshot = Tables => s.snapshot_done = Tables
    BY Zenon, <2>0 DEF Serving
  <2>3. Ids(offsetLog, resume, pc, batchId)'
    BY Zenon, <2>0 DEF ol, res, p, b, Ids, Serving
  <2>4. ol.id # b + 1 => (s.snapshot_done = Tables =>
            res.snapshot = Tables /\ res.lsn <= s.position /\ Q(res.lsn, s.position))
    <3>1. SUFFICES ASSUME ol.id # b + 1, s.snapshot_done = Tables
                   PROVE  res.snapshot = Tables /\ res.lsn <= s.position /\ Q(res.lsn, s.position)
      BY Zenon
    <3>2. res.snapshot = Tables /\ res.lsn <= s.position /\ Quiet(res.lsn, s.position)
      BY Zenon, <2>0, <3>1 DEF Serving, AtRest
    <3> QED
      BY Zenon, <1>3, <1>7, <1>13, <1>14, <3>2
  <2>5. ASSUME ol.id = b + 1, ~ol.range.snapshot
        PROVE  /\ res.snapshot = Tables /\ InLog(ol.range) /\ Q(ol.range.start, sl.confirmed)
               /\ ~s.snapshot_open
               /\ p \in {"write", "commit"} => s.position = ol.range.end
    <3>1. InStream(ol, res, sl, s, p)
      BY Zenon, <2>0, <2>5 DEF Serving
    <3>2. Quiet(ol.range.start, sl.confirmed) /\ InLog(ol.range)
      BY Zenon, <3>1 DEF InStream
    <3> QED
      BY Zenon, <1>3, <1>7, <1>13, <2>1, <3>1, <3>2 DEF InStream
  <2>6. ol.id = b + 1 /\ ol.range.snapshot => InSnapshot(offsetLog, resume, src, pc)'
    BY Zenon, <2>0 DEF ol, res, s, p, b, Serving, InSnapshot, Honourable
  <2>7. p \in {"write", "commit"} /\ ~ol.range.snapshot => rows = C(T(ol.range.start, ol.range.end))
    <3>1. SUFFICES ASSUME p \in {"write", "commit"}, ~ol.range.snapshot
                   PROVE  rows = C(T(ol.range.start, ol.range.end))
      BY Zenon
    <3>2. rows = Changes(Txns(ol.range.start, ol.range.end))
      BY Zenon, <2>0, <3>1 DEF Reproduced
    <3>3. ol.id = b + 1
      BY Zenon, <2>0, <3>1 DEF Serving, Ids
    <3>4. InLog(ol.range)
      BY Zenon, <2>5, <3>1, <3>3
    <3>5. 1 <= ol.range.start /\ ol.range.end <= WalEnd
      BY Zenon, <3>4 DEF InLog
    <3> QED
      BY Zenon, <1>4, <1>7, <3>2, <3>5
  <2>8. Reproduced(offsetLog, pc, batch)'
    BY Zenon, <2>7 DEF ol, p, rows, C, T, P, Reproduced, Changes, Txns, Published
  <2>9. AtRest(resume, src)' \/ ~(ol.id # b + 1)
    BY Zenon, <2>4 DEF res, s, P, Q, AtRest, Quiet, Published
  <2>10. (ol.id = b + 1 /\ ~ol.range.snapshot) => InStream(offsetLog, resume, slot, src, pc)'
    BY Zenon, <2>5, <2>1 DEF ol, res, sl, s, p, P, Q, W, InStream, InLog, Quiet, Published, WalEnd
  <2> QED
    BY Zenon, <2>2, <2>3, <2>6, <2>8, <2>9, <2>10 DEF ol, res, sl, s, p, b, Serving
<1>17. Consistent(offsetLog, resume, slot, src, pc, batchId, batch)'
  BY Zenon, <1>5, <1>12, <1>15, <1>16 DEF ol, res, p, b, Consistent
<1> QED
  BY Zenon, <1>1, <1>17 DEF IInv

-----------------------------------------------------------------------------
(* The invariant holds initially and across restarts *)

\* A source that has opened nothing, restored from a checkpoint.
LEMMA Restoring ==
  ASSUME wal \in Seq(Transactions), NEW done \in 0..Tables, NEW lsn \in Nat, lsn <= WalEnd,
         done = Tables => 1 <= lsn, NEW sl \in SlotType, sl.confirmed <= WalEnd
  PROVE  LET s == NewSource(done, lsn)
         IN  SourceOK(s, sl) /\ s.snapshot_done = done /\ s.position = lsn /\ ~s.snapshot_open
<1> DEFINE s == NewSource(done, lsn)
<1>1. NoRange \in RangeType /\ {} \in SUBSET Nat
  BY Zenon DEF NoRange, RangeType
<1>2. NoPlan \in PlanType
  BY Zenon, <1>1 DEF NoPlan, PlanType
<1>3. /\ s \in SourceType /\ s.snapshot_done = done /\ s.position = lsn /\ ~s.snapshot_open
      /\ ~s.opened /\ ~s.streaming /\ s.stream_at = 0 /\ s.planned = NoPlan
  BY Zenon, <1>2 DEF NewSource, SourceType
<1> HIDE DEF s
<1>4. SocketInv(s) /\ PlannedInv(s.planned)
  BY Zenon, <1>3 DEF SocketInv, PlannedInv
<1>5. SnapshotInv(s, sl)
  BY Zenon, <1>3 DEF SnapshotInv
<1> QED
  BY Zenon, <1>3, <1>4, <1>5 DEF s, SourceOK

LEMMA InitConsistent == Init => IInv
<1> SUFFICES ASSUME Init PROVE IInv
  BY Zenon
<1>0. Tables \in Nat \ {0}
  BY Zenon, Constants
<1>1. wal = <<>> /\ wal \in Seq(Transactions) /\ WalEnd = 1
  BY DEF Init, WalEnd
<1>2. slot = NoSlot /\ src = NewSource(0, 0) /\ pc = "down" /\ offsetLog = NoLog /\ resume = Fresh
      /\ batchId = 0
  BY Zenon DEF Init
<1>3. slot \in SlotType /\ slot.confirmed = 0
  BY Zenon, <1>2 DEF NoSlot, SlotType
<1>4. /\ resume \in [batch : Nat, snapshot : 0..Tables, lsn : Nat]
      /\ resume.snapshot = 0 /\ resume.batch = 0 /\ resume.lsn = 0
  BY <1>0, <1>2 DEF Fresh
<1>5. /\ offsetLog \in [id : Nat, range : RangeType] /\ offsetLog.id = 0
      /\ offsetLog.range = NoRange /\ ~NoRange.snapshot
  BY Zenon, <1>2 DEF NoLog, NoRange, RangeType
<1>6. Kept(offsetLog, resume, slot)
  BY <1>0, <1>1, <1>4, <1>5 DEF Kept
<1>7. SourceOK(src, slot)
  <2>1. 0 \in 0..Tables /\ 0 <= WalEnd /\ 0 # Tables /\ slot.confirmed <= WalEnd
    BY <1>0, <1>1, <1>3
  <2> QED
    BY Zenon, <1>1, <1>2, <1>3, <2>1, Restoring, 0 \in Nat
<1> QED
  BY Zenon, <1>1, <1>2, <1>4, <1>5, <1>6, <1>7, 0 \in Nat DEF IInv, Consistent, Phases

\* What the invariant says of the types and of the source.
LEMMA Views ==
  ASSUME IInv
  PROVE  /\ wal \in Seq(Transactions) /\ WalEnd \in Nat /\ WalEnd >= 1 /\ Tables \in Nat \ {0}
         /\ offsetLog \in [id : Nat, range : RangeType] /\ offsetLog.id \in Nat
         /\ offsetLog.range \in RangeType
         /\ resume \in [batch : Nat, snapshot : 0..Tables, lsn : Nat] /\ resume.batch \in Nat
         /\ resume.snapshot \in 0..Tables /\ resume.lsn \in Nat /\ resume.lsn <= WalEnd
         /\ batchId \in Nat /\ slot \in SlotType /\ slot.confirmed \in Nat /\ slot.confirmed <= WalEnd
         /\ src \in SourceType /\ src.snapshot_done \in 0..Tables /\ src.position \in Nat
         /\ SourceOK(src, slot) /\ Kept(offsetLog, resume, slot)
<1>1. /\ wal \in Seq(Transactions) /\ Consistent(offsetLog, resume, slot, src, pc, batchId, batch)
  BY Zenon DEF IInv
<1>2. /\ offsetLog \in [id : Nat, range : RangeType] /\ batchId \in Nat
      /\ resume \in [batch : Nat, snapshot : 0..Tables, lsn : Nat]
      /\ SourceOK(src, slot) /\ Kept(offsetLog, resume, slot)
  BY Zenon, <1>1 DEF Consistent
<1>3. src \in SourceType /\ slot \in SlotType /\ SnapshotInv(src, slot)
  BY Zenon, <1>2 DEF SourceOK
<1>4. slot.confirmed <= WalEnd /\ resume.lsn <= WalEnd
  BY Zenon, <1>2, <1>3 DEF SnapshotInv, Kept
<1>5. /\ offsetLog.id \in Nat /\ offsetLog.range \in RangeType /\ resume.batch \in Nat
      /\ resume.snapshot \in 0..Tables /\ resume.lsn \in Nat /\ slot.confirmed \in Nat
      /\ src.snapshot_done \in 0..Tables /\ src.position \in Nat
  BY Zenon, <1>2, <1>3 DEF SourceType, SlotType
<1> QED
  BY Zenon, <1>1, <1>2, <1>3, <1>4, <1>5, LogEnd, Constants

LEMMA PublishStep == IInv /\ Publish => IInv'
<1> SUFFICES ASSUME IInv, Publish PROVE IInv'
  BY Zenon
<1>1. \E t \in Transactions : wal' = Append(wal, t)
  BY Zenon DEF Publish, Commit
<1>2. /\ slot' = slot /\ src' = src /\ pc' = pc /\ offsetLog' = offsetLog /\ resume' = resume
      /\ batchId' = batchId /\ batch' = batch
  BY Zenon DEF Publish, checkpoint
<1>3. Consistent(offsetLog', resume', slot', src', pc', batchId', batch')
  BY Zenon, <1>2 DEF IInv
<1> QED
  BY Zenon, <1>1, <1>3, LogStep DEF IInv

\* The process ends, with the checkpoint as it is or deleted.
LEMMA DownStep ==
  ASSUME IInv, Down, wal' = wal, slot' = slot,
         \/ offsetLog' = offsetLog /\ resume' = resume
         \/ offsetLog' = NoLog /\ resume' = Fresh
  PROVE  IInv'
<1>1. /\ wal \in Seq(Transactions) /\ WalEnd \in Nat /\ WalEnd >= 1 /\ Tables \in Nat \ {0}
      /\ slot \in SlotType /\ slot.confirmed \in Nat /\ slot.confirmed <= WalEnd
  BY Zenon, Views
<1>2. pc' = "down" /\ src' = NewSource(0, 0) /\ batchId' = 0
  BY Zenon DEF Down
<1>3. 0 \in 0..Tables /\ 0 <= WalEnd /\ 0 # Tables /\ 0 \in Nat
  BY <1>1
<1>4. SourceOK(src', slot')
  BY Zenon, <1>1, <1>2, <1>3, Restoring
<1>5. /\ offsetLog' \in [id : Nat, range : RangeType]
      /\ resume' \in [batch : Nat, snapshot : 0..Tables, lsn : Nat] /\ Kept(offsetLog', resume', slot')
  <2>1. CASE offsetLog' = offsetLog /\ resume' = resume
    BY Zenon, <2>1, Views
  <2>2. CASE offsetLog' = NoLog /\ resume' = Fresh
    <3>1. /\ resume' \in [batch : Nat, snapshot : 0..Tables, lsn : Nat]
          /\ resume'.snapshot = 0 /\ resume'.batch = 0 /\ resume'.lsn = 0
      BY <1>1, <2>2 DEF Fresh
    <3>2. /\ offsetLog' \in [id : Nat, range : RangeType] /\ offsetLog'.id = 0
          /\ offsetLog'.range = NoRange /\ ~NoRange.snapshot
      BY Zenon, <2>2 DEF NoLog, NoRange, RangeType
    <3>3. Kept(offsetLog', resume', slot')
      BY <1>1, <3>1, <3>2 DEF Kept
    <3> QED
      BY Zenon, <3>1, <3>2, <3>3
  <2> QED
    BY Zenon, <2>1, <2>2
<1>6. Consistent(offsetLog', resume', slot', src', pc', batchId', batch')
  BY Zenon, <1>2, <1>3, <1>4, <1>5 DEF Consistent, Phases
<1> QED
  BY Zenon, <1>1, <1>6, LogStep

\* A start resumes from the checkpoint.
LEMMA StartStep == IInv /\ StartStream => IInv'
<1> SUFFICES ASSUME IInv, StartStream PROVE IInv'
  BY Zenon
<1>1. /\ pc' = "idle" /\ src' = NewSource(resume.snapshot, resume.lsn) /\ batchId' = resume.batch
      /\ wal' = wal /\ slot' = slot /\ offsetLog' = offsetLog /\ resume' = resume
  BY Zenon DEF StartStream, publisher, checkpoint
<1>2. /\ wal \in Seq(Transactions) /\ WalEnd \in Nat /\ WalEnd >= 1 /\ Tables \in Nat \ {0}
      /\ slot \in SlotType /\ slot.confirmed \in Nat /\ slot.confirmed <= WalEnd
      /\ resume.snapshot \in 0..Tables /\ resume.lsn \in Nat /\ resume.lsn <= WalEnd
      /\ resume.batch \in Nat /\ Kept(offsetLog, resume, slot)
      /\ offsetLog \in [id : Nat, range : RangeType] /\ offsetLog.id \in Nat
      /\ resume \in [batch : Nat, snapshot : 0..Tables, lsn : Nat]
  BY Zenon, Views
<1>3. resume.snapshot = Tables => 1 <= resume.lsn /\ Quiet(resume.lsn, slot.confirmed)
  BY Zenon, <1>2 DEF Kept
<1>4. /\ SourceOK(src', slot) /\ src'.snapshot_done = resume.snapshot /\ src'.position = resume.lsn
      /\ ~src'.snapshot_open
  <2> DEFINE t == NewSource(resume.snapshot, resume.lsn)
  <2>1. /\ SourceOK(t, slot) /\ t.snapshot_done = resume.snapshot /\ t.position = resume.lsn
        /\ ~t.snapshot_open
    <3>1. resume.snapshot = Tables => 1 <= resume.lsn
      BY Zenon, <1>3
    <3> QED
      BY <1>2, <3>1, Restoring
  <2> QED
    BY Zenon, <1>1, <2>1
<1> DEFINE ol == offsetLog
           res == resume
           s == src'
<1>5. Ids(ol, res, "idle", res.batch)
  BY Zenon DEF Ids
<1>6. AtRest(res, s)
  <2>1. res.lsn <= res.lsn /\ Quiet(res.lsn, res.lsn)
    BY <1>2, QuietNone
  <2> QED
    BY Zenon, <1>4, <2>1 DEF AtRest
<1>7. ol.id = res.batch + 1 /\ ~ol.range.snapshot => InStream(ol, res, slot, s, "idle")
  <2> SUFFICES ASSUME ol.id = res.batch + 1, ~ol.range.snapshot PROVE InStream(ol, res, slot, s, "idle")
    BY Zenon
  <2>1. res.snapshot = Tables /\ InLog(ol.range) /\ res.lsn <= ol.range.start
    BY Zenon, <1>2 DEF Kept
  <2>2. ol.range.start \in Nat
    BY Zenon, <1>2 DEF RangeType
  <2>3. Quiet(ol.range.start, slot.confirmed)
    <3>1. slot.confirmed <= slot.confirmed
      BY <1>2
    <3> QED
      BY Zenon, <1>2, <1>3, <2>1, <2>2, <3>1, QuietPart
  <2> QED
    BY Zenon, <1>4, <2>1, <2>3 DEF InStream
<1>8. ol.id = res.batch + 1 /\ ol.range.snapshot => InSnapshot(ol, res, s, "idle")
  BY Zenon, <1>2 DEF Kept, InSnapshot
<1>9. Serving(ol, res, slot, s, "idle", res.batch)
  BY Zenon, <1>4, <1>5, <1>6, <1>7, <1>8 DEF Serving
<1>10. Reproduced(ol, "idle", batch')
  BY Zenon DEF Reproduced
<1>11. Consistent(offsetLog', resume', slot', src', pc', batchId', batch')
  BY Zenon, <1>1, <1>2, <1>4, <1>9, <1>10 DEF Consistent, Phases
<1> QED
  BY Zenon, <1>1, <1>2, <1>11, LogStep

-----------------------------------------------------------------------------
(* The steps of a batch preserve the invariant *)

LEMMA KeptSlot ==
  ASSUME NEW ol, NEW res, NEW sl, NEW sn, Kept(ol, res, sl),
         res.snapshot = Tables => Quiet(res.lsn, sn.confirmed)
  PROVE  Kept(ol, res, sn)
BY Zenon DEF Kept

LEMMA InHand ==
  ASSUME IInv, pc # "down"
  PROVE  /\ Serving(offsetLog, resume, slot, src, pc, batchId) /\ Reproduced(offsetLog, pc, batch)
         /\ resume.snapshot = Tables => src.snapshot_done = Tables
         /\ Ids(offsetLog, resume, pc, batchId)
         /\ ~Recorded => AtRest(resume, src)
         /\ Recorded /\ ~offsetLog.range.snapshot => InStream(offsetLog, resume, slot, src, pc)
         /\ Recorded /\ offsetLog.range.snapshot => InSnapshot(offsetLog, resume, src, pc)
<1>1. Serving(offsetLog, resume, slot, src, pc, batchId) /\ Reproduced(offsetLog, pc, batch)
  BY Zenon DEF IInv, Consistent
<1> QED
  BY Zenon, <1>1 DEF Serving, Recorded, id

\* A step that moves on from one state of the query to another: a replay begins, a
\* write is done, or a batch is abandoned.
LEMMA MovingStep ==
  ASSUME IInv, wal' = wal, slot' = slot, src' = src, offsetLog' = offsetLog, resume' = resume,
         batchId' = batchId,
         \/ pc # "down" /\ pc' = "idle"
         \/ pc = "idle" /\ Recorded /\ pc' = "poll"
         \/ pc = "write" /\ pc' \in {"write", "commit"} /\ batch' = batch
  PROVE  IInv'
<1>1. pc # "down" /\ pc' \in Phases
  BY Zenon DEF Phases
<1>2. Serving(offsetLog, resume, slot, src, pc, batchId) /\ Reproduced(offsetLog, pc, batch)
  BY Zenon, <1>1, InHand
<1>3. /\ wal \in Seq(Transactions) /\ offsetLog \in [id : Nat, range : RangeType] /\ batchId \in Nat
      /\ resume \in [batch : Nat, snapshot : 0..Tables, lsn : Nat]
      /\ SourceOK(src, slot) /\ Kept(offsetLog, resume, slot)
  BY Zenon, Views
<1>4. Ids(offsetLog, resume, pc', batchId)
  BY Zenon, <1>2 DEF Serving, Ids, Recorded, id
<1>5. pc' \in {"write", "commit"} => pc \in {"write", "commit"} /\ batch' = batch
  BY Zenon
<1>6. /\ InStream(offsetLog, resume, slot, src, pc) => InStream(offsetLog, resume, slot, src, pc')
      /\ InSnapshot(offsetLog, resume, src, pc) => InSnapshot(offsetLog, resume, src, pc')
  BY Zenon, <1>5 DEF InStream, InSnapshot
<1>7. Serving(offsetLog, resume, slot, src, pc', batchId)
  BY Zenon, <1>2, <1>4, <1>6 DEF Serving
<1>8. Reproduced(offsetLog, pc', batch')
  BY Zenon, <1>2, <1>5 DEF Reproduced
<1>9. Consistent(offsetLog', resume', slot', src', pc', batchId', batch')
  BY Zenon, <1>1, <1>3, <1>7, <1>8 DEF Consistent
<1> QED
  BY Zenon, <1>3, <1>9, LogStep

LEMMA ReplayStep == IInv /\ Replay => IInv'
<1> SUFFICES ASSUME IInv, Replay PROVE IInv'
  BY Zenon
<1>1. /\ pc = "idle" /\ Recorded /\ pc' = "poll" /\ wal' = wal /\ slot' = slot /\ src' = src
      /\ offsetLog' = offsetLog /\ resume' = resume /\ batchId' = batchId
  BY Zenon DEF Replay, publisher, checkpoint
<1> QED
  BY Zenon, <1>1, MovingStep

LEMMA WriteStep == IInv /\ (WriteBatch \/ WriteFails) => IInv'
<1> SUFFICES ASSUME IInv, WriteBatch \/ WriteFails PROVE IInv'
  BY Zenon
<1>1. CASE WriteBatch
  <2>1. /\ pc = "write" /\ pc' = "commit" /\ wal' = wal /\ slot' = slot /\ src' = src
        /\ offsetLog' = offsetLog /\ resume' = resume /\ batchId' = batchId /\ batch' = batch
    BY Zenon, <1>1 DEF WriteBatch, publisher, checkpoint
  <2>2. pc' \in {"write", "commit"}
    BY Zenon, <2>1
  <2> QED
    BY Zenon, <2>1, <2>2, MovingStep
<1>2. CASE WriteFails
  <2>1. /\ pc = "write" /\ wal' = wal /\ slot' = slot /\ src' = src
        /\ offsetLog' = offsetLog /\ resume' = resume /\ batchId' = batchId
        /\ Abandon \/ (pc' = pc /\ batch' = batch)
    BY Zenon, <1>2 DEF WriteFails, publisher, checkpoint
  <2>2. pc # "down" /\ (pc' = "idle" \/ (pc' \in {"write", "commit"} /\ batch' = batch))
    BY Zenon, <2>1 DEF Abandon
  <2> QED
    BY Zenon, <2>1, <2>2, MovingStep
<1> QED
  BY Zenon, <1>1, <1>2

\* Planning: the slot and the position move over stretches with nothing published,
\* and a range is recorded that begins where the checkpoint's position leads.
LEMMA PlanStep == IInv /\ PlanBatch => IInv'
<1> SUFFICES ASSUME IInv, PlanBatch PROVE IInv'
  BY Zenon
<1> DEFINE ol == offsetLog
           res == resume
<1>1. pc = "idle" /\ ~Recorded /\ wal' = wal /\ resume' = resume /\ batchId' = batchId
  BY Zenon DEF PlanBatch
<1>2. /\ wal \in Seq(Transactions) /\ WalEnd \in Nat /\ Tables \in Nat \ {0}
      /\ ol \in [id : Nat, range : RangeType] /\ ol.id \in Nat
      /\ res \in [batch : Nat, snapshot : 0..Tables, lsn : Nat] /\ res.batch \in Nat
      /\ res.lsn \in Nat /\ batchId \in Nat /\ slot.confirmed \in Nat
      /\ src.position \in Nat /\ SourceOK(src, slot) /\ Kept(ol, res, slot)
  BY Zenon, Views
<1>3. /\ res.snapshot = Tables => src.snapshot_done = Tables
      /\ Ids(ol, res, pc, batchId) /\ AtRest(res, src)
  BY Zenon, <1>1, InHand, pc # "down"
<1>4. batchId = res.batch
  BY Zenon, <1>1, <1>3 DEF Ids, Recorded, id
<1>5. src.snapshot_done = Tables =>
        /\ res.snapshot = Tables /\ res.lsn <= src.position /\ Quiet(res.lsn, src.position)
        /\ Quiet(res.lsn, slot.confirmed) /\ Quiet(src.position, slot.confirmed)
  <2> SUFFICES ASSUME src.snapshot_done = Tables
               PROVE  /\ res.snapshot = Tables /\ res.lsn <= src.position /\ Quiet(res.lsn, src.position)
                      /\ Quiet(res.lsn, slot.confirmed) /\ Quiet(src.position, slot.confirmed)
    BY Zenon
  <2>1. res.snapshot = Tables /\ res.lsn <= src.position /\ Quiet(res.lsn, src.position)
    BY Zenon, <1>3 DEF AtRest
  <2>2. Quiet(res.lsn, slot.confirmed)
    BY Zenon, <1>2, <2>1 DEF Kept
  <2>3. slot.confirmed <= slot.confirmed
    BY <1>2
  <2>4. Quiet(src.position, slot.confirmed)
    BY Zenon, <1>2, <2>1, <2>2, <2>3, QuietPart
  <2> QED
    BY Zenon, <2>1, <2>2, <2>4
<1>6. PICK p \in Plan(src) :
        /\ slot' = p.slot /\ src' = p.src
        /\ \/ p.range = NoRange /\ UNCHANGED <<pc, offsetLog, batch>>
           \/ /\ p.range # NoRange /\ pc' = "poll" /\ UNCHANGED batch
              /\ offsetLog' = [id |-> id, range |-> p.range]
           \/ /\ p.range # NoRange /\ "log" \in Faults /\ Abandon
              /\ offsetLog' \in {offsetLog, [id |-> id, range |-> p.range]}
  BY Zenon DEF PlanBatch
<1> DEFINE new == [id |-> res.batch + 1, range |-> p.range]
<1>7. /\ slot' = p.slot /\ src' = p.src
      /\ \/ offsetLog' = ol /\ pc' = "idle"
         \/ offsetLog' = new /\ p.range # NoRange /\ pc' \in {"idle", "poll"}
  <2>1. new = [id |-> id, range |-> p.range]
    BY Zenon, <1>4 DEF id
  <2> HIDE DEF new
  <2> QED
    BY Zenon, <1>1, <1>6, <2>1 DEF Abandon
<1>8. SourceOK(p.src, p.slot) /\ (PlansTable(src, p) \/ FindsNothing(src, p) \/ PlansRange(src, p))
  BY Zenon, <1>2, <1>5, Planning
<1>9. p.src.position \in Nat /\ p.slot.confirmed \in Nat /\ p.src.snapshot_done \in 0..Tables
  BY Zenon, <1>8 DEF SourceOK, SourceType, SlotType
\* The slot stays within what the checkpoint covers.
<1>10. src.snapshot_done = Tables => Quiet(res.lsn, p.slot.confirmed)
  <2> SUFFICES ASSUME src.snapshot_done = Tables PROVE Quiet(res.lsn, p.slot.confirmed)
    BY Zenon
  <2>1. CASE FindsNothing(src, p)
    <3>1. Quiet(src.position, p.src.position)
          /\ p.slot.confirmed \in {slot.confirmed, src.position, p.src.position}
      BY Zenon, <2>1 DEF FindsNothing
    <3>2. Quiet(res.lsn, p.src.position)
      BY Zenon, <1>2, <1>5, <1>9, <3>1, QuietJoins
    <3> QED
      BY Zenon, <1>5, <3>1, <3>2
  <2>2. CASE PlansRange(src, p)
    <3>1. p.slot.confirmed \in {slot.confirmed, src.position}
      BY Zenon, <2>2 DEF PlansRange
    <3> QED
      BY Zenon, <1>5, <3>1
  <2> QED
    BY Zenon, <1>8, <2>1, <2>2 DEF PlansTable
<1>11. Kept(ol, res, p.slot)
  BY Zenon, <1>2, <1>3, <1>10, KeptSlot
<1>12. res.snapshot = Tables => p.src.snapshot_done = Tables
  BY Zenon, <1>3, <1>8 DEF PlansTable, FindsNothing, PlansRange
<1>13. AtRest(res, p.src)
  <2>1. CASE PlansTable(src, p)
    BY Zenon, <2>1 DEF PlansTable, AtRest
  <2>2. CASE FindsNothing(src, p)
    <3>1. /\ src.snapshot_done = Tables /\ src.position <= p.src.position
          /\ Quiet(src.position, p.src.position)
      BY Zenon, <2>2 DEF FindsNothing
    <3>2. Quiet(res.lsn, p.src.position)
      BY Zenon, <1>2, <1>5, <1>9, <3>1, QuietJoins
    <3>3. res.lsn <= p.src.position
      BY <1>2, <1>5, <1>9, <3>1
    <3> QED
      BY Zenon, <1>5, <3>1, <3>2, <3>3 DEF AtRest
  <2>3. CASE PlansRange(src, p)
    BY Zenon, <1>3, <2>3 DEF PlansRange, AtRest
  <2> QED
    BY Zenon, <1>8, <2>1, <2>2, <2>3
<1>14. CASE offsetLog' = ol /\ pc' = "idle"
  <2>1. Ids(ol, res, "idle", batchId)
    BY Zenon, <1>1, <1>3
  <2>2. Serving(ol, res, p.slot, p.src, "idle", batchId)
    BY Zenon, <1>1, <1>12, <1>13, <2>1 DEF Serving, Recorded, id
  <2>3. Reproduced(ol, "idle", batch')
    BY Zenon DEF Reproduced
  <2>4. Consistent(offsetLog', resume', slot', src', pc', batchId', batch')
    BY Zenon, <1>1, <1>2, <1>7, <1>8, <1>11, <1>14, <2>2, <2>3 DEF Consistent, Phases
  <2> QED
    BY Zenon, <1>1, <1>2, <2>4, LogStep
<1>15. CASE offsetLog' = new /\ p.range # NoRange /\ pc' \in {"idle", "poll"}
  <2>0. new.id = res.batch + 1 /\ new.range = p.range
    BY Zenon
  <2>1. p.range \in RangeType
    <3>1. CASE PlansTable(src, p)
      BY <1>9, <3>1 DEF PlansTable, SnapshotRange, RangeType
    <3> QED
      BY Zenon, <1>8, <1>15, <3>1 DEF FindsNothing, PlansRange
  <2>2. new \in [id : Nat, range : RangeType]
    BY <1>2, <2>1
  <2> HIDE DEF new
  <2>3. /\ Kept(new, res, p.slot)
        /\ p.range.snapshot => InSnapshot(new, res, p.src, pc')
        /\ ~p.range.snapshot => InStream(new, res, p.slot, p.src, pc')
    <3>1. CASE PlansTable(src, p)
      <4>1. /\ res.snapshot # Tables /\ p.src.snapshot_done # Tables /\ p.range = SnapshotRange(p.src)
        BY Zenon, <1>3, <3>1 DEF PlansTable
      <4>2. p.range.snapshot /\ p.range.start = p.src.snapshot_done
        BY <4>1 DEF SnapshotRange
      <4>3. p.range.start < Tables
        BY <1>2, <1>9, <4>1, <4>2
      <4>4. res.lsn <= WalEnd
        BY Zenon, <1>2 DEF Kept
      <4>5. new.id <= res.batch + 1
        BY <1>2, <2>0
      <4>6. Kept(new, res, p.slot)
        BY Zenon, <2>0, <4>1, <4>2, <4>3, <4>4, <4>5 DEF Kept
      <4>7. InSnapshot(new, res, p.src, pc')
        BY Zenon, <1>15, <4>1 DEF InSnapshot
      <4> QED
        BY Zenon, <4>2, <4>6, <4>7
    <3>2. CASE PlansRange(src, p)
      <4>1. /\ src.snapshot_done = Tables /\ InLog(p.range) /\ p.range.start = src.position
            /\ p.slot.confirmed \in {slot.confirmed, src.position} /\ ~p.src.snapshot_open
        BY Zenon, <3>2 DEF PlansRange
      <4>2. ~p.range.snapshot
        BY Zenon, <4>1 DEF InLog
      <4>3. Quiet(p.range.start, p.slot.confirmed)
        <5>1. src.position <= src.position
          BY <1>2
        <5>2. Quiet(src.position, src.position)
          BY Zenon, <1>2, <5>1, QuietNone
        <5> QED
          BY Zenon, <1>5, <4>1, <5>2
      <4>4. res.lsn <= WalEnd /\ (res.snapshot = Tables => 1 <= res.lsn)
        BY Zenon, <1>2 DEF Kept
      <4>5. new.id <= res.batch + 1
        BY <1>2, <2>0
      <4>6. Kept(new, res, p.slot)
        BY Zenon, <1>5, <1>10, <2>0, <4>1, <4>2, <4>4, <4>5 DEF Kept
      <4>7. pc' \notin {"write", "commit"}
        BY Zenon, <1>15
      <4>8. InStream(new, res, p.slot, p.src, pc')
        BY Zenon, <1>5, <2>0, <4>1, <4>3, <4>7 DEF InStream
      <4> QED
        BY Zenon, <4>2, <4>6, <4>8
    <3> QED
      BY Zenon, <1>8, <1>15, <3>1, <3>2 DEF FindsNothing
  <2>4. pc' \notin {"write", "commit", "down", "durable"} /\ pc' \in Phases
    BY Zenon, <1>15 DEF Phases
  <2>5. Ids(new, res, pc', batchId)
    BY Zenon, <1>4, <2>0, <2>4 DEF Ids
  <2>6. Serving(new, res, p.slot, p.src, pc', batchId)
    BY Zenon, <1>4, <1>12, <2>0, <2>3, <2>5 DEF Serving
  <2>7. Reproduced(new, pc', batch')
    BY Zenon, <2>4 DEF Reproduced
  <2>8. Consistent(offsetLog', resume', slot', src', pc', batchId', batch')
    BY Zenon, <1>1, <1>2, <1>7, <1>8, <1>15, <2>2, <2>3, <2>4, <2>6, <2>7 DEF Consistent
  <2> QED
    BY Zenon, <1>1, <1>2, <2>8, LogStep
<1> QED
  BY Zenon, <1>7, <1>14, <1>15

\* Polling: a table is read at the slot's point, a range of the stream as recorded.
\* While a range is read again no answer to the server may confirm its end.
LEMMA PollStep == ASSUME "reply" \notin Faults PROVE IInv /\ PollRange => IInv'
<1> SUFFICES ASSUME IInv, PollRange PROVE IInv'
  BY Zenon
<1> DEFINE ol == offsetLog
           res == resume
<1>1. /\ pc = "poll" /\ wal' = wal /\ ol' = ol /\ res' = res /\ batchId' = batchId
  BY Zenon DEF PollRange, checkpoint
<1>2. PICK p \in Poll(src, ol.range, FALSE) :
        /\ src' = p.src /\ slot' = p.slot /\ batch' = p.batch
        /\ pc' = IF p.batch = {} THEN "commit" ELSE "write"
  <2>1. ("reply" \in Faults) = FALSE
    BY SMT
  <2> QED
    BY Zenon, <2>1 DEF PollRange
<1>3. pc' \in {"write", "commit"} /\ pc' \in Phases
  BY Zenon, <1>2 DEF Phases
<1>4. /\ wal \in Seq(Transactions) /\ Tables \in Nat \ {0}
      /\ ol \in [id : Nat, range : RangeType] /\ ol.range \in RangeType
      /\ res \in [batch : Nat, snapshot : 0..Tables, lsn : Nat]
      /\ batchId \in Nat /\ SourceOK(src, slot) /\ Kept(ol, res, slot)
  BY Zenon, Views
<1>5. /\ res.snapshot = Tables => src.snapshot_done = Tables
      /\ Ids(ol, res, pc, batchId)
      /\ Recorded /\ ~ol.range.snapshot => InStream(ol, res, slot, src, pc)
      /\ Recorded /\ ol.range.snapshot => InSnapshot(ol, res, src, pc)
  BY Zenon, <1>1, InHand, pc # "down"
<1>6. ol.id = batchId + 1 /\ Recorded
  BY Zenon, <1>1, <1>5 DEF Ids, Recorded, id
<1>7. Ids(ol, res, pc', batchId)
  <2>1. pc' # "durable"
    BY Zenon, <1>3
  <2> QED
    BY Zenon, <1>1, <1>5, <1>6, <2>1 DEF Ids
<1>8. CASE ol.range.snapshot
  <2>1. ol.range.start < Tables
    BY Zenon, <1>4, <1>8 DEF Kept
  <2>2. /\ SourceOK(p.src, p.slot) /\ p.src.snapshot_open
        /\ p.src.snapshot_done = IF Honourable(p.src, ol.range) THEN ol.range.start + 1 ELSE 0
        /\ src.snapshot_done = Tables => p.slot = slot /\ p.src.position = src.position
    BY Zenon, <1>4, <1>8, <2>1, PollingTable
  <2>3. res.snapshot = Tables =>
          /\ p.slot = slot /\ Honourable(p.src, ol.range) /\ ol.range.start + 1 = Tables
    BY Zenon, <1>5, <1>6, <1>8, <2>2 DEF InSnapshot, Honourable
  <2>4. InSnapshot(ol, res, p.src, pc')
    BY Zenon, <2>2, <2>3 DEF InSnapshot
  <2>5. Kept(ol, res, p.slot)
    BY Zenon, <1>4, <2>3 DEF Kept
  <2>6. res.snapshot = Tables => p.src.snapshot_done = Tables
    BY Zenon, <2>2, <2>3
  <2>7. Serving(ol, res, p.slot, p.src, pc', batchId)
    BY Zenon, <1>6, <1>7, <1>8, <2>4, <2>6 DEF Serving
  <2>8. Reproduced(ol, pc', p.batch)
    BY Zenon, <1>8 DEF Reproduced
  <2>9. Consistent(offsetLog', resume', slot', src', pc', batchId', batch')
    BY Zenon, <1>1, <1>2, <1>3, <1>4, <2>2, <2>5, <2>7, <2>8 DEF Consistent
  <2> QED
    BY Zenon, <1>1, <1>4, <2>9, LogStep
<1>9. CASE ~ol.range.snapshot
  <2>1. /\ res.snapshot = Tables /\ InLog(ol.range) /\ Quiet(ol.range.start, slot.confirmed)
        /\ ~src.snapshot_open /\ src.snapshot_done = Tables
    BY Zenon, <1>5, <1>6, <1>9 DEF InStream
  <2>2. /\ SourceOK(p.src, p.slot) /\ p.slot = slot /\ p.src.position = ol.range.end
        /\ p.src.snapshot_done = Tables /\ ~p.src.snapshot_open
        /\ p.batch = Changes(Txns(ol.range.start, ol.range.end))
    BY Zenon, <1>4, <2>1, PollingRange
  <2>3. InStream(ol, res, p.slot, p.src, pc')
    BY Zenon, <2>1, <2>2 DEF InStream
  <2>4. Serving(ol, res, p.slot, p.src, pc', batchId)
    BY Zenon, <1>6, <1>7, <1>9, <2>2, <2>3 DEF Serving
  <2>5. Reproduced(ol, pc', p.batch)
    BY Zenon, <2>2 DEF Reproduced
  <2>6. Consistent(offsetLog', resume', slot', src', pc', batchId', batch')
    BY Zenon, <1>1, <1>2, <1>3, <1>4, <2>2, <2>4, <2>5 DEF Consistent
  <2> QED
    BY Zenon, <1>1, <1>4, <2>6, LogStep
<1> QED
  BY Zenon, <1>8, <1>9

\* A failed plan or poll leaves the slot where it was, once the snapshot is complete.
LEMMA FailStep == IInv /\ SourceFails => IInv'
<1> SUFFICES ASSUME IInv, SourceFails PROVE IInv'
  BY Zenon
<1> DEFINE ol == offsetLog
           res == resume
<1>1. /\ wal' = wal /\ ol' = ol /\ res' = res /\ batchId' = batchId
      /\ Abandon \/ (pc' = pc /\ batch' = batch)
  BY Zenon DEF SourceFails, checkpoint
<1>2. PICK f \in CASE pc = "idle" /\ ~Recorded -> FailedPlan(src)
                   [] pc = "poll" -> FailedPoll(src, ol.range)
                   [] OTHER -> {} :
        src' = f.src /\ slot' = f.slot
  BY Zenon DEF SourceFails
<1>3. \/ pc = "idle" /\ ~Recorded /\ f \in FailedPlan(src)
      \/ pc = "poll" /\ f \in FailedPoll(src, ol.range)
  <2>1. CASE pc = "idle" /\ ~Recorded
    BY Zenon, <1>2, <2>1
  <2>2. CASE ~(pc = "idle" /\ ~Recorded) /\ pc = "poll"
    BY Zenon, <1>2, <2>2
  <2>3. CASE ~(pc = "idle" /\ ~Recorded) /\ pc # "poll"
    BY Zenon, <1>2, <2>3
  <2> QED
    BY Zenon, <2>1, <2>2, <2>3
<1>4. /\ wal \in Seq(Transactions) /\ ol \in [id : Nat, range : RangeType]
      /\ res \in [batch : Nat, snapshot : 0..Tables, lsn : Nat]
      /\ batchId \in Nat /\ SourceOK(src, slot) /\ Kept(ol, res, slot)
  BY Zenon, Views
<1>5. /\ res.snapshot = Tables => src.snapshot_done = Tables
      /\ Ids(ol, res, pc, batchId)
      /\ ~Recorded => AtRest(res, src)
      /\ Recorded /\ ~ol.range.snapshot => InStream(ol, res, slot, src, pc)
      /\ Recorded /\ ol.range.snapshot => InSnapshot(ol, res, src, pc)
  BY Zenon, <1>3, InHand, "idle" # "down", "poll" # "down"
<1>6. pc' \in {"idle", "poll"} /\ (pc' = "poll" => pc = "poll")
  BY Zenon, <1>1, <1>3 DEF Abandon
<1>7. pc' \in Phases /\ pc' \notin {"write", "commit", "durable", "down"}
  BY Zenon, <1>6 DEF Phases
<1>8. Ids(ol, res, pc', batchId)
  BY Zenon, <1>3, <1>5, <1>6, <1>7 DEF Ids
<1>9. Reproduced(ol, pc', batch')
  BY Zenon, <1>7 DEF Reproduced
<1>10. ASSUME SourceOK(f.src, f.slot), Kept(ol, res, f.slot),
              Serving(ol, res, f.slot, f.src, pc', batchId)
       PROVE  IInv'
  <2>1. Consistent(offsetLog', resume', slot', src', pc', batchId', batch')
    BY Zenon, <1>1, <1>2, <1>4, <1>7, <1>9, <1>10 DEF Consistent
  <2> QED
    BY Zenon, <1>1, <1>4, <2>1, LogStep
<1>11. CASE pc = "idle" /\ ~Recorded /\ f \in FailedPlan(src)
  <2>1. Failed(src, f)
    BY Zenon, <1>4, <1>11, FailingPlan
  <2>2. Kept(ol, res, f.slot) /\ (res.snapshot = Tables => f.src.snapshot_done = Tables)
    BY Zenon, <1>4, <1>5, <2>1 DEF Failed, Kept
  <2>3. AtRest(res, f.src)
    BY Zenon, <1>5, <1>11, <2>1 DEF Failed, AtRest
  <2>4. Serving(ol, res, f.slot, f.src, pc', batchId)
    BY Zenon, <1>8, <1>11, <2>2, <2>3 DEF Serving, Recorded, id
  <2> QED
    BY Zenon, <1>10, <2>1, <2>2, <2>4 DEF Failed
<1>12. ASSUME pc = "poll" PROVE ol.id = batchId + 1 /\ Recorded
  BY Zenon, <1>5, <1>12 DEF Ids, Recorded, id
<1>13. CASE pc = "poll" /\ f \in FailedPoll(src, ol.range) /\ ~ol.range.snapshot
  <2>1. Failed(src, f)
    BY Zenon, <1>4, <1>13, FailingRange
  <2>2. InStream(ol, res, slot, src, pc)
    BY Zenon, <1>5, <1>12, <1>13
  <2>3. /\ Kept(ol, res, f.slot) /\ f.src.snapshot_done = Tables
        /\ InStream(ol, res, f.slot, f.src, pc')
    BY Zenon, <1>4, <1>5, <1>7, <2>1, <2>2 DEF Failed, InStream
  <2>4. Serving(ol, res, f.slot, f.src, pc', batchId)
    BY Zenon, <1>8, <1>12, <1>13, <2>3 DEF Serving
  <2> QED
    BY Zenon, <1>10, <2>1, <2>3, <2>4 DEF Failed
<1>14. CASE pc = "poll" /\ f \in FailedPoll(src, ol.range) /\ ol.range.snapshot
  <2>1. /\ SourceOK(f.src, f.slot)
        /\ src.snapshot_done = Tables => f.slot = slot /\ f.src.position = src.position
        /\ src.snapshot_done = Tables /\ Honourable(src, ol.range) => f.src.snapshot_done = Tables
    BY <1>4, <1>14, FailingTable
  <2>2. InSnapshot(ol, res, src, pc)
    BY Zenon, <1>5, <1>12, <1>14
  <2>3. /\ Kept(ol, res, f.slot) /\ InSnapshot(ol, res, f.src, pc')
        /\ res.snapshot = Tables => f.src.snapshot_done = Tables
    BY Zenon, <1>4, <1>5, <1>7, <2>1, <2>2 DEF InSnapshot, Honourable, Kept
  <2>4. Serving(ol, res, f.slot, f.src, pc', batchId)
    BY Zenon, <1>8, <1>12, <1>14, <2>3 DEF Serving
  <2> QED
    BY Zenon, <1>10, <2>1, <2>3, <2>4
<1> QED
  BY Zenon, <1>3, <1>11, <1>13, <1>14

\* The commit: the position it records is not behind the slot.
LEMMA CommitStep == IInv /\ SaveCommit => IInv'
<1> SUFFICES ASSUME IInv, SaveCommit PROVE IInv'
  BY Zenon
<1> DEFINE ol == offsetLog
           done == [batch |-> id, snapshot |-> src.snapshot_done, lsn |-> src.position]
<1>1. /\ pc = "commit" /\ wal' = wal /\ slot' = slot /\ src' = src /\ ol' = ol
      /\ \/ resume' = done /\ batchId' = id /\ pc' = "durable"
         \/ resume' \in {resume, done} /\ pc' = "idle" /\ batchId' = batchId
  BY Zenon DEF SaveCommit, publisher, Abandon
<1>2. /\ wal \in Seq(Transactions) /\ WalEnd \in Nat /\ Tables \in Nat \ {0}
      /\ ol \in [id : Nat, range : RangeType] /\ ol.range \in RangeType
      /\ resume.batch \in Nat /\ batchId \in Nat /\ slot.confirmed \in Nat
      /\ src.snapshot_done \in 0..Tables /\ src.position \in Nat
      /\ SourceOK(src, slot) /\ Kept(ol, resume, slot)
  BY Zenon, Views
<1>3. id \in Nat /\ id = batchId + 1
  BY <1>2 DEF id
<1>4. /\ done \in [batch : Nat, snapshot : 0..Tables, lsn : Nat] /\ done.batch = id
      /\ done.snapshot = src.snapshot_done /\ done.lsn = src.position
  BY Zenon, <1>2, <1>3
<1> HIDE DEF done
<1>5. /\ resume.snapshot = Tables => src.snapshot_done = Tables
      /\ Ids(ol, resume, pc, batchId)
      /\ Recorded /\ ~ol.range.snapshot => InStream(ol, resume, slot, src, pc)
      /\ Recorded /\ ol.range.snapshot => InSnapshot(ol, resume, src, pc)
  BY Zenon, <1>1, InHand, pc # "down"
<1>6. ol.id = id /\ Recorded
  BY Zenon, <1>1, <1>3, <1>5 DEF Ids, Recorded
<1>7. SnapshotInv(src, slot)
  BY Zenon, <1>2 DEF SourceOK
<1>8. src.snapshot_done = Tables => 1 <= src.position /\ Quiet(src.position, slot.confirmed)
  <2> SUFFICES ASSUME src.snapshot_done = Tables
               PROVE  1 <= src.position /\ Quiet(src.position, slot.confirmed)
    BY Zenon
  <2>1. 1 <= src.position
    BY Zenon, <1>2, <1>7 DEF SnapshotInv
  <2>2. CASE ol.range.snapshot
    <3>1. src.snapshot_open
      BY Zenon, <1>1, <1>5, <1>6, <2>2, pc \in {"write", "commit"} DEF InSnapshot
    <3>2. slot.confirmed <= src.position
      BY <1>2, <1>7, <3>1 DEF SnapshotInv
    <3> QED
      BY Zenon, <1>2, <2>1, <3>2, QuietNone
  <2>3. CASE ~ol.range.snapshot
    <3>1. InLog(ol.range) /\ Quiet(ol.range.start, slot.confirmed) /\ src.position = ol.range.end
      BY Zenon, <1>1, <1>5, <1>6, <2>3, pc \in {"write", "commit"} DEF InStream
    <3>2. ol.range.start \in Nat /\ ol.range.end \in Nat
      BY Zenon, <1>2 DEF RangeType
    <3>3. ol.range.start <= src.position /\ slot.confirmed <= slot.confirmed
      BY <1>2, <3>1, <3>2 DEF InLog
    <3> QED
      BY Zenon, <1>2, <2>1, <3>1, <3>2, <3>3, QuietPart
  <2> QED
    BY Zenon, <2>2, <2>3
<1>9. Kept(ol, done, slot)
  <2>1. src.position <= WalEnd /\ (ol.range.snapshot => ol.range.start < Tables)
    BY Zenon, <1>2, <1>7 DEF SnapshotInv, Kept
  <2>2. ol.id <= done.batch + 1 /\ ol.id # done.batch + 1
    BY <1>3, <1>4, <1>6
  <2> QED
    BY Zenon, <1>4, <1>8, <2>1, <2>2 DEF Kept
<1>10. CASE resume' = done /\ batchId' = id /\ pc' = "durable"
  <2>1. ol.id # id + 1 /\ "durable" \in Phases
    BY <1>3, <1>6 DEF Phases
  <2>2. Ids(ol, done, "durable", id)
    BY Zenon, <1>4, <2>1 DEF Ids
  <2>3. AtRest(done, src)
    <3>1. src.position <= src.position
      BY <1>2
    <3>2. Quiet(src.position, src.position)
      BY Zenon, <1>2, <3>1, QuietNone
    <3> QED
      BY Zenon, <1>4, <3>1, <3>2 DEF AtRest
  <2>4. Serving(ol, done, slot, src, "durable", id)
    BY Zenon, <1>4, <2>1, <2>2, <2>3 DEF Serving
  <2>5. Reproduced(ol, "durable", batch')
    BY Zenon DEF Reproduced
  <2>6. Consistent(offsetLog', resume', slot', src', pc', batchId', batch')
    BY Zenon, <1>1, <1>2, <1>3, <1>4, <1>9, <1>10, <2>1, <2>4, <2>5 DEF Consistent
  <2> QED
    BY Zenon, <1>1, <1>2, <2>6, LogStep
<1>11. CASE resume' = done /\ pc' = "idle" /\ batchId' = batchId
  <2>1. Ids(ol, done, "idle", batchId)
    BY Zenon, <1>3, <1>4, <1>6 DEF Ids
  <2>2. ~ol.range.snapshot => InStream(ol, done, slot, src, "idle")
    BY Zenon, <1>4, <1>5, <1>6 DEF InStream
  <2>3. ol.range.snapshot => InSnapshot(ol, done, src, "idle")
    <3> SUFFICES ASSUME ol.range.snapshot PROVE InSnapshot(ol, done, src, "idle")
      BY Zenon
    <3>1. src.snapshot_done = IF Honourable(src, ol.range) THEN ol.range.start + 1 ELSE 0
      BY Zenon, <1>1, <1>5, <1>6, pc \in {"write", "commit"} DEF InSnapshot
    <3>2. 0 # Tables
      BY Zenon, <1>2
    <3> QED
      BY Zenon, <1>4, <3>1, <3>2 DEF InSnapshot
  <2>4. Serving(ol, done, slot, src, "idle", batchId)
    BY Zenon, <1>3, <1>4, <1>6, <2>1, <2>2, <2>3 DEF Serving
  <2>5. Reproduced(ol, "idle", batch')
    BY Zenon DEF Reproduced
  <2>6. Consistent(offsetLog', resume', slot', src', pc', batchId', batch')
    BY Zenon, <1>1, <1>2, <1>4, <1>9, <1>11, <2>4, <2>5 DEF Consistent, Phases
  <2> QED
    BY Zenon, <1>1, <1>2, <2>6, LogStep
<1>12. CASE resume' = resume /\ pc' = "idle" /\ batchId' = batchId
  BY Zenon, <1>1, <1>12, MovingStep, pc # "down"
<1> QED
  BY Zenon, <1>1, <1>10, <1>11, <1>12

\* mark_durable: the position confirmed is the one the commit recorded.
LEMMA DurableStep == IInv /\ MarkDurable => IInv'
<1> SUFFICES ASSUME IInv, MarkDurable PROVE IInv'
  BY Zenon
<1>1. /\ pc = "durable" /\ pc' = "idle" /\ wal' = wal /\ offsetLog' = offsetLog /\ resume' = resume
      /\ batchId' = batchId
      /\ \/ src' = Durable(src).src /\ slot' = Durable(src).slot
         \/ src' = [src EXCEPT !.streaming = FALSE] /\ slot' = slot
  BY Zenon DEF MarkDurable, checkpoint
<1>2. /\ wal \in Seq(Transactions) /\ WalEnd \in Nat /\ Tables \in Nat \ {0}
      /\ offsetLog \in [id : Nat, range : RangeType]
      /\ resume \in [batch : Nat, snapshot : 0..Tables, lsn : Nat]
      /\ batchId \in Nat /\ slot \in SlotType /\ slot.confirmed \in Nat
      /\ src \in SourceType /\ src.snapshot_done \in 0..Tables /\ src.position \in Nat
      /\ SourceOK(src, slot) /\ Kept(offsetLog, resume, slot)
  BY Zenon, Views
<1>3. /\ resume.snapshot = Tables => src.snapshot_done = Tables
      /\ Ids(offsetLog, resume, pc, batchId) /\ (~Recorded => AtRest(resume, src))
  BY Zenon, <1>1, InHand, pc # "down"
<1>4. offsetLog.id # batchId + 1 /\ ~Recorded
  BY Zenon, <1>1, <1>3 DEF Ids, Recorded, id
<1>5. SocketInv(src) /\ PlannedInv(src.planned) /\ SnapshotInv(src, slot)
  BY Zenon, <1>2 DEF SourceOK
\* Whatever becomes of the session, the source is where it was, and the slot where
\* it was or, with the snapshot complete, at the source's position.
<1>6. /\ SourceOK(src', slot') /\ src'.snapshot_done = src.snapshot_done
      /\ src'.position = src.position
      /\ \/ slot' = slot
         \/ src.snapshot_done = Tables /\ slot'.confirmed \in {slot.confirmed, src.position}
  <2>1. CASE src' = [src EXCEPT !.streaming = FALSE] /\ slot' = slot
    <3>1. /\ src' \in SourceType /\ src'.snapshot_done = src.snapshot_done /\ ~src'.streaming
          /\ src'.position = src.position /\ src'.planned = src.planned /\ src'.opened = src.opened
          /\ src'.stream_at = src.stream_at /\ src'.socket = src.socket
          /\ src'.snapshot_open = src.snapshot_open
      BY Zenon, <1>2, <2>1 DEF SourceType
    <3>2. SnapshotInv(src', slot')
      BY Zenon, <1>5, <2>1, <3>1 DEF SnapshotInv
    <3>3. SocketInv(src') /\ PlannedInv(src'.planned)
      BY Zenon, <1>5, <3>1 DEF SocketInv
    <3> QED
      BY Zenon, <1>2, <2>1, <3>1, <3>2, <3>3 DEF SourceOK
  <2>2. CASE /\ src' = Durable(src).src /\ slot' = Durable(src).slot
             /\ ~src.opened
    <3>1. src' = src /\ slot' = slot
      BY Zenon, <2>2 DEF Durable
    <3> QED
      BY Zenon, <1>2, <3>1
  <2>3. CASE /\ src' = Durable(src).src /\ slot' = Durable(src).slot
             /\ src.opened /\ src.snapshot_done # Tables
    <3>1. src' = FinishSnapshot(src) /\ slot' = Confirm(slot, FinishSnapshot(src))
      BY Zenon, <2>3 DEF Durable
    <3>2. src.snapshot_done < Tables /\ ~(src.snapshot_done >= Tables)
      BY <1>2, <2>3
    <3>3. FinishSnapshot(src) = src /\ ~src.streaming
      BY Zenon, <1>5, <2>3, <3>2 DEF FinishSnapshot, SnapshotInv
    <3>4. src' = src /\ slot' = slot
      BY Zenon, <3>1, <3>3 DEF Confirm
    <3> QED
      BY Zenon, <1>2, <3>4
  <2>4. CASE /\ src' = Durable(src).src /\ slot' = Durable(src).slot
             /\ src.opened /\ src.snapshot_done = Tables
    <3> DEFINE f == FinishSnapshot(src)
    <3>1. src' = f /\ slot' = Confirm(slot, f)
      BY Zenon, <2>4 DEF Durable
    <3>2. /\ SourceOK(f, slot) /\ f.opened = src.opened /\ f.position = src.position
          /\ f.snapshot_done = Tables /\ ~f.snapshot_open
      BY Zenon, <1>2, <2>4, Finishing
    <3> HIDE DEF f
    <3>3. f \in SourceType /\ SocketInv(f) /\ PlannedInv(f.planned) /\ SnapshotInv(f, slot)
      BY Zenon, <3>2 DEF SourceOK
    <3>4. /\ slot' \in SlotType
          /\ slot'.confirmed = slot.confirmed \/ slot'.confirmed = f.position
      BY Zenon, <1>2, <3>1, <3>3, Confirming
    <3>5. 1 <= f.position /\ f.position <= WalEnd /\ slot'.confirmed <= WalEnd
      BY Zenon, <1>2, <3>2, <3>3, <3>4 DEF SnapshotInv
    <3>6. SourceOK(f, slot')
      BY Zenon, <1>2, <2>4, <3>2, <3>3, <3>4, <3>5, StreamingOK
    <3>7. slot'.confirmed \in {slot.confirmed, src.position}
      BY Zenon, <3>2, <3>4
    <3> QED
      BY Zenon, <2>4, <3>1, <3>2, <3>6, <3>7
  <2> QED
    BY Zenon, <1>1, <2>1, <2>2, <2>3, <2>4
<1>7. Kept(offsetLog, resume, slot')
  <2>1. resume.snapshot = Tables => Quiet(resume.lsn, slot'.confirmed)
    BY Zenon, <1>2, <1>3, <1>4, <1>6 DEF Kept, AtRest
  <2> QED
    BY Zenon, <1>2, <2>1, KeptSlot
<1>8. AtRest(resume, src') /\ (resume.snapshot = Tables => src'.snapshot_done = Tables)
  BY Zenon, <1>3, <1>4, <1>6 DEF AtRest
<1>9. Ids(offsetLog, resume, "idle", batchId)
  BY Zenon, <1>1, <1>3 DEF Ids
<1>10. Serving(offsetLog, resume, slot', src', "idle", batchId)
  BY Zenon, <1>4, <1>8, <1>9 DEF Serving
<1>11. Reproduced(offsetLog, "idle", batch')
  BY Zenon DEF Reproduced
<1>12. Consistent(offsetLog', resume', slot', src', pc', batchId', batch')
  BY Zenon, <1>1, <1>2, <1>6, <1>7, <1>10, <1>11 DEF Consistent, Phases
<1> QED
  BY Zenon, <1>1, <1>2, <1>12, LogStep

LEMMA StepConsistent == ASSUME "reply" \notin Faults PROVE IInv /\ [Next]_vars => IInv'
<1> SUFFICES ASSUME IInv, [Next]_vars PROVE IInv'
  BY Zenon
<1>1. CASE Crash
  <2>1. Down /\ wal' = wal /\ slot' = slot /\ offsetLog' = offsetLog /\ resume' = resume
    BY Zenon, <1>1 DEF Crash, publisher, checkpoint
  <2> QED
    BY Zenon, <2>1, DownStep
<1>2. CASE Resnapshot
  <2>1. Down /\ wal' = wal /\ slot' = slot /\ offsetLog' = NoLog /\ resume' = Fresh
    BY Zenon, <1>2 DEF Resnapshot, publisher
  <2> QED
    BY Zenon, <2>1, DownStep
<1>3. CASE Publish \/ StartStream \/ Progress \/ SourceFails \/ WriteFails
  BY Zenon, <1>3, PublishStep, StartStep, PlanStep, ReplayStep, PollStep, WriteStep, CommitStep,
     DurableStep, FailStep DEF Progress
<1>4. CASE UNCHANGED vars
  <2>1. /\ wal' = wal /\ slot' = slot /\ src' = src /\ pc' = pc /\ offsetLog' = offsetLog
        /\ resume' = resume /\ batchId' = batchId /\ batch' = batch
    BY Zenon, <1>4 DEF vars, publisher, checkpoint
  <2>2. Consistent(offsetLog', resume', slot', src', pc', batchId', batch')
    BY Zenon, <2>1 DEF IInv
  <2> QED
    BY Zenon, <2>1, <2>2, LogStep DEF IInv
<1> QED
  BY Zenon, <1>1, <1>2, <1>3, <1>4 DEF Next

-----------------------------------------------------------------------------
(* The theorems *)

\* Where the server asks for no answer while a recorded range is read again, Postgres is
\* never told that it may recycle a change a start would have to read once more
\* (send_standby_status, mark_durable): for every log, crash, lost commit and re-snapshot.
THEOREM SlotWithinCheckpoint ==
  ASSUME "reply" \notin Faults PROVE Spec => []ConfirmedIsCommitted
<1>1. IInv => ConfirmedIsCommitted
  <2> SUFFICES ASSUME IInv PROVE ConfirmedIsCommitted
    BY Zenon
  <2>1. Kept(offsetLog, resume, slot)
    BY Zenon, Views
  <2> QED
    BY Zenon, <2>1 DEF Kept, Quiet, ConfirmedIsCommitted
<1> QED
  BY <1>1, InitConsistent, StepConsistent, PTL DEF Spec

\* Where the server asks for no answer while a recorded range is read again, poll_range
\* gives the batch of a recorded stream range every event the log holds in it and no
\* other, however often the stream broke or was restarted in between.
THEOREM RangesReadBack ==
  ASSUME "reply" \notin Faults PROVE Spec => []RangeReproduced
<1>1. IInv => RangeReproduced
  <2> SUFFICES ASSUME IInv, pc \in {"write", "commit"}, ~offsetLog.range.snapshot
               PROVE  batch = Changes(Txns(offsetLog.range.start, offsetLog.range.end))
    BY Zenon DEF RangeReproduced, Txns
  <2>1. pc # "down"
    BY Zenon
  <2> QED
    BY Zenon, <2>1, InHand DEF Reproduced
<1> QED
  BY <1>1, InitConsistent, StepConsistent, PTL DEF Spec

\* The contents CdcMergeSink keeps from one batch to the next are the table's, whatever
\* write failed, landed or was skipped in between (CdcMergeSink::write_batch).
THEOREM CacheIsTable == Spec => []StateIsTable
<1>1. Init => StateIsTable
  BY Zenon DEF Init, StateIsTable
<1>2. StateIsTable /\ [Next]_vars => StateIsTable'
  <2> SUFFICES ASSUME StateIsTable, [Next]_vars PROVE StateIsTable'
    BY Zenon
  <2>1. CASE WriteBatch
    <3>1. \/ cache' = {}
          \/ cache' = {Merge(batch, Base)} /\ target' = Merge(batch, Base)
      BY Zenon, <2>1 DEF WriteBatch, StateAfter
    <3> QED
      BY Zenon, <3>1 DEF StateIsTable
  <2>2. CASE WriteFails \/ StartStream \/ Crash \/ Resnapshot
    <3>1. cache' = {}
      BY Zenon, <2>2 DEF WriteFails, StateTaken, StartStream, Crash, Resnapshot, Down
    <3> QED
      BY Zenon, <3>1 DEF StateIsTable
  <2>3. CASE \/ Publish \/ PlanBatch \/ Replay \/ PollRange \/ SaveCommit \/ MarkDurable
             \/ SourceFails \/ UNCHANGED vars
    <3>1. cache' = cache /\ target' = target
      BY Zenon, <2>3 DEF Publish, PlanBatch, Replay, PollRange, SaveCommit, MarkDurable, SourceFails,
         vars, sink, delta
    <3> QED
      BY Zenon, <3>1 DEF StateIsTable
  <2> QED
    BY Zenon, <2>1, <2>2, <2>3 DEF Next, Progress
<1> QED
  BY <1>1, <1>2, PTL DEF Spec

=============================================================================
