----------------------- MODULE StatementHistoryProofs -----------------------
(***************************************************************************)
(* Proofs of StatementHistory: every result file on the disk has an owner, *)
(* for any statements, queue capacities, crashes and refusals.             *)
(***************************************************************************)
EXTENDS StatementHistory, TLAPS

-----------------------------------------------------------------------------
(* The inductive invariant *)

Begun(status) == status \in {"pending", "running"}

\* Neither the terminal record nor the pointer of a statement is in the hands H of a
\* thread, and its rows are not on their way to the disk.
Quiet(i, H, sp) == sp[i] = "no" /\ \A p \in H : p.rec.id = i => ~p.ack /\ ~p.rec.file

\* A statement the store knows has a status.
StoreInv(st) ==
  /\ DOMAIN st = Ids
  /\ \A i \in Ids : /\ DOMAIN st[i] = {"status", "sql", "file"}
                    /\ st[i] = Unknown \/ st[i].status # "none"

\* A statement has at most one terminal record, handed over before its rows are spilled,
\* and at most one pointer, handed over by the spill thread.
HandsInv(H, sp) ==
  /\ DOMAIN sp = Ids
  /\ \A p \in H : p.rec.id \in Ids
  /\ \A p \in H : p.ack => /\ sp[p.rec.id] = "no" /\ ~p.rec.file
                           /\ \A r \in H : r.rec.id = p.rec.id /\ r.ack => r = p
  /\ \A p \in H : p.rec.file =>
                    /\ sp[p.rec.id] = "handing"
                    /\ \A r \in H : r.rec.id = p.rec.id /\ r.rec.file => r = p

\* Nothing of this exists for a statement that has not ended.
OpenInv(st, un, H, sp) ==
  \A i \in Ids : /\ i \in un => ~Begun(st[i].status)
                 /\ i \in un \/ Begun(st[i].status) => Quiet(i, H, sp)

DownInv(ph, H, ev, sp) == ph # "up" => H = {} /\ ev = {} /\ \A i \in Ids : sp[i] = "no"

\* The statements that own a result file.
Owners(st, ev, sp) == {i \in Ids : st[i] # Unknown} \cup ev \cup {i \in Ids : sp[i] = "landed"}

FilesInv(ph, res, st, ev, sp) == ph = "up" => res \subseteq Owners(st, ev, sp)

IInv ==
  /\ StoreInv(store) /\ HandsInv(hands, spill) /\ OpenInv(store, unused, hands, spill)
  /\ DownInv(phase, hands, evicting, spill)
  /\ FilesInv(phase, results, store, evicting, spill)

-----------------------------------------------------------------------------
(* Parcels *)

\* A record that is neither terminal nor a pointer changes nothing.
LEMMA PlainAdded ==
  ASSUME NEW H, NEW sp, HandsInv(H, sp), NEW p, p.rec.id \in Ids, ~p.ack, ~p.rec.file
  PROVE  /\ HandsInv(H \cup {p}, sp)
         /\ \A i : Quiet(i, H, sp) => Quiet(i, H \cup {p}, sp)
<1>1. HandsInv(H \cup {p}, sp)
  BY Zenon DEF HandsInv
<1>2. \A i : Quiet(i, H, sp) => Quiet(i, H \cup {p}, sp)
  BY Zenon DEF Quiet
<1> QED
  BY Zenon, <1>1, <1>2

\* The spill of a statement with no record in hands moves on.
LEMMA SpillMoves ==
  ASSUME NEW H, NEW sp, HandsInv(H, sp), NEW i \in Ids, sp[i] \notin {"no", "handing"}, NEW x
  PROVE  /\ HandsInv(H, [sp EXCEPT ![i] = x])
         /\ [sp EXCEPT ![i] = x][i] = x
         /\ \A j \in Ids : j # i => [sp EXCEPT ![i] = x][j] = sp[j]
         /\ \A j \in Ids : Quiet(j, H, sp) => j # i /\ Quiet(j, H, [sp EXCEPT ![i] = x])
<1> DEFINE s2 == [sp EXCEPT ![i] = x]
<1>1. /\ DOMAIN s2 = Ids /\ s2[i] = x
      /\ \A j \in Ids : j # i => s2[j] = sp[j]
  BY Zenon DEF HandsInv
<1>2. \A p \in H : p.ack \/ p.rec.file => p.rec.id # i
  BY Zenon DEF HandsInv
<1> HIDE DEF s2
<1>3. HandsInv(H, s2)
  <2>1. \A p \in H : p.rec.id \in Ids
    BY Zenon DEF HandsInv
  <2>2. \A p \in H : p.ack => /\ s2[p.rec.id] = "no" /\ ~p.rec.file
                              /\ \A r \in H : r.rec.id = p.rec.id /\ r.ack => r = p
    BY Zenon, <1>1, <1>2, <2>1 DEF HandsInv
  <2>3. \A p \in H : p.rec.file => /\ s2[p.rec.id] = "handing"
                                   /\ \A r \in H : r.rec.id = p.rec.id /\ r.rec.file => r = p
    BY Zenon, <1>1, <1>2, <2>1 DEF HandsInv
  <2> QED
    BY Zenon, <1>1, <2>1, <2>2, <2>3 DEF HandsInv
<1>4. \A j \in Ids : Quiet(j, H, sp) => j # i /\ Quiet(j, H, s2)
  BY Zenon, <1>1 DEF Quiet
<1> QED
  BY Zenon, <1>1, <1>3, <1>4 DEF s2

-----------------------------------------------------------------------------
(* The steps *)

LEMMA InvParts ==
  ASSUME IInv
  PROVE  /\ StoreInv(store) /\ HandsInv(hands, spill) /\ OpenInv(store, unused, hands, spill)
         /\ DownInv(phase, hands, evicting, spill)
         /\ FilesInv(phase, results, store, evicting, spill)
BY Zenon DEF IInv

LEMMA InvNext ==
  ASSUME StoreInv(store'), HandsInv(hands', spill'), OpenInv(store', unused', hands', spill'),
         DownInv(phase', hands', evicting', spill'),
         FilesInv(phase', results', store', evicting', spill')
  PROVE  IInv'
BY Zenon DEF IInv, StoreInv, HandsInv, OpenInv, DownInv, FilesInv, Owners, Quiet, Begun, Unknown

\* A step that leaves the store, the hands, the spills and the files alone.
LEMMA StutterStep ==
  ASSUME IInv, UNCHANGED <<phase, store, unused, hands, spill, evicting, results>>
  PROVE  IInv'
BY Zenon, InvParts, InvNext

LEMMA WriterSteps == ASSUME IInv, WriterStep \/ UNCHANGED vars PROVE IInv'
<1>1. UNCHANGED <<phase, store, unused, hands, spill, evicting, results>>
  <2>1. CASE Write \/ Refuse \/ Flush
    BY Zenon, <2>1 DEF Write, Refuse, Flush
  <2>2. CASE CompactSealed \/ Mark \/ UnlinkInputs \/ GiveUp
    BY Zenon, <2>2 DEF CompactSealed, Mark, UnlinkInputs, GiveUp
  <2>3. CASE UNCHANGED vars
    BY Zenon, <2>3 DEF vars
  <2> QED
    BY Zenon, <2>1, <2>2, <2>3 DEF WriterStep
<1> QED
  BY Zenon, <1>1, StutterStep

\* One statement of the store changes.
Changes(st, s2, i) ==
  /\ DOMAIN s2 = Ids /\ DOMAIN s2[i] = {"status", "sql", "file"}
  /\ s2[i] = Unknown \/ s2[i].status # "none"
  /\ \A j \in Ids : j # i => s2[j] = st[j]

LEMMA StoreChanges ==
  ASSUME NEW st, NEW s2, NEW i \in Ids, StoreInv(st), Changes(st, s2, i)
  PROVE  StoreInv(s2)
BY Zenon DEF StoreInv, Changes

LEMMA UnknownIsNone == Unknown.status = "none" /\ DOMAIN Unknown = {"status", "sql", "file"}
BY DEF Unknown

LEMMA UnknownHasNoFile == [Unknown EXCEPT !.file = FALSE] = Unknown
<1> DEFINE T == [status : {"none"}, sql : BOOLEAN, file : BOOLEAN]
<1>1. Unknown \in T
  BY DEF Unknown
<1>2. [Unknown EXCEPT !.file = FALSE] \in T
  BY <1>1
<1>3. \A a, b \in T : a.status = b.status /\ a.sql = b.sql /\ a.file = b.file => a = b
  OBVIOUS
<1> QED
  BY <1>1, <1>2, <1>3 DEF Unknown

LEMMA SubmitStep == ASSUME IInv, NEW i \in Ids, Submit(i) PROVE IInv'
<1> DEFINE R == [status |-> "pending", sql |-> TRUE, file |-> FALSE]
           p == Parcel(Record("submitted", i, 1, "pending", FALSE), FALSE)
<1>1. /\ phase = "up" /\ i \in unused /\ unused' = unused \ {i} /\ store' = [store EXCEPT ![i] = R]
      /\ hands' = hands \cup {p} /\ UNCHANGED <<phase, spill, evicting, results>>
  BY Zenon DEF Submit
<1>2. p.rec.id = i /\ ~p.ack /\ ~p.rec.file
  BY DEF Parcel, Record
<1>3. R.status = "pending" /\ DOMAIN R = {"status", "sql", "file"} /\ R # Unknown
  BY DEF Unknown
<1> HIDE DEF R, p
<1>4. Changes(store, store', i) /\ store'[i] = R
  BY Zenon, <1>1, <1>3, InvParts DEF StoreInv, Changes
<1>5. HandsInv(hands', spill') /\ \A j : Quiet(j, hands, spill) => Quiet(j, hands', spill')
  BY Zenon, <1>1, <1>2, PlainAdded, InvParts
<1>6. OpenInv(store', unused', hands', spill')
  <2> SUFFICES ASSUME NEW j \in Ids
               PROVE  /\ j \in unused' => ~Begun(store'[j].status)
                      /\ j \in unused' \/ Begun(store'[j].status) => Quiet(j, hands', spill')
    BY Zenon DEF OpenInv
  <2>1. CASE j = i
    BY Zenon, <2>1, <1>1, <1>5, InvParts DEF OpenInv
  <2>2. CASE j # i
    BY Zenon, <2>2, <1>1, <1>4, <1>5, InvParts DEF OpenInv, Changes
  <2> QED
    BY Zenon, <2>1, <2>2
<1>7. FilesInv(phase', results', store', evicting', spill')
  BY Zenon, <1>1, <1>3, <1>4, InvParts DEF FilesInv, Owners, Changes
<1>8. DownInv(phase', hands', evicting', spill')
  BY Zenon, <1>1 DEF DownInv
<1> QED
  BY Zenon, <1>4, <1>5, <1>6, <1>7, <1>8, StoreChanges, InvParts, InvNext

LEMMA MarkRunningStep == ASSUME IInv, NEW i \in Ids, MarkRunning(i) PROVE IInv'
<1> DEFINE p == Parcel(Record("running", i, key[i], "running", FALSE), FALSE)
<1>1. /\ phase = "up" /\ store[i].status = "pending"
      /\ store' = [store EXCEPT ![i].status = "running"]
      /\ hands' = hands \cup {p} /\ UNCHANGED <<phase, unused, spill, evicting, results>>
  BY Zenon DEF MarkRunning
<1>2. p.rec.id = i /\ ~p.ack /\ ~p.rec.file
  BY DEF Parcel, Record
<1> HIDE DEF p
<1>3. DOMAIN store = Ids /\ DOMAIN store[i] = {"status", "sql", "file"}
  BY Zenon, InvParts DEF StoreInv
<1>4. Changes(store, store', i) /\ store'[i].status = "running"
  BY <1>1, <1>3 DEF Changes
<1>5. HandsInv(hands', spill') /\ \A j : Quiet(j, hands, spill) => Quiet(j, hands', spill')
  BY Zenon, <1>1, <1>2, PlainAdded, InvParts
<1>b. Begun(store[i].status)
  BY Zenon, <1>1 DEF Begun
<1>6. OpenInv(store', unused', hands', spill')
  <2> SUFFICES ASSUME NEW j \in Ids
               PROVE  /\ j \in unused' => ~Begun(store'[j].status)
                      /\ j \in unused' \/ Begun(store'[j].status) => Quiet(j, hands', spill')
    BY Zenon DEF OpenInv
  <2>1. CASE j = i
    BY Zenon, <2>1, <1>1, <1>b, <1>5, InvParts DEF OpenInv
  <2>2. CASE j # i
    BY Zenon, <2>2, <1>1, <1>4, <1>5, InvParts DEF OpenInv, Changes
  <2> QED
    BY Zenon, <2>1, <2>2
<1>7. FilesInv(phase', results', store', evicting', spill')
  <2>1. store'[i] # Unknown
    BY Zenon, <1>4, UnknownIsNone
  <2> QED
    BY Zenon, <1>1, <1>4, <2>1, InvParts DEF FilesInv, Owners, Changes
<1>8. DownInv(phase', hands', evicting', spill')
  BY Zenon, <1>1 DEF DownInv
<1> QED
  BY Zenon, <1>4, <1>5, <1>6, <1>7, <1>8, StoreChanges, InvParts, InvNext

\* The first record with an ack of a statement that has not ended.
LEMMA FinishStep == ASSUME IInv, NEW i \in Ids, Finish(i) PROVE IInv'
<1> DEFINE p == Parcel(Record("snapshot", i, key'[i], "done", FALSE), TRUE)
<1>1. /\ phase = "up" /\ Begun(store[i].status)
      /\ store' = [store EXCEPT ![i].status = "done"]
      /\ hands' = hands \cup {p} /\ UNCHANGED <<phase, unused, spill, evicting, results>>
  BY Zenon DEF Finish, Begun
<1>2. p.rec.id = i /\ p.ack /\ ~p.rec.file
  BY DEF Parcel, Record
<1> HIDE DEF p
<1>3. DOMAIN store = Ids /\ DOMAIN store[i] = {"status", "sql", "file"}
  BY Zenon, InvParts DEF StoreInv
<1>4. Changes(store, store', i) /\ store'[i].status = "done"
  BY <1>1, <1>3 DEF Changes
<1>q. Quiet(i, hands, spill) /\ i \notin unused
  BY Zenon, <1>1, InvParts DEF OpenInv
<1>5. HandsInv(hands', spill')
  BY Zenon, <1>1, <1>2, <1>q, InvParts DEF HandsInv, Quiet
<1>6. OpenInv(store', unused', hands', spill')
  <2> SUFFICES ASSUME NEW j \in Ids
               PROVE  /\ j \in unused' => ~Begun(store'[j].status)
                      /\ j \in unused' \/ Begun(store'[j].status) => Quiet(j, hands', spill')
    BY Zenon DEF OpenInv
  <2>1. CASE j = i
    <3>1. ~Begun(store'[i].status)
      BY <1>4 DEF Begun
    <3> QED
      BY Zenon, <2>1, <3>1, <1>1, <1>q
  <2>2. CASE j # i
    <3>1. Quiet(j, hands, spill) => Quiet(j, hands', spill')
      BY Zenon, <2>2, <1>1, <1>2 DEF Quiet
    <3> QED
      BY Zenon, <2>2, <3>1, <1>1, <1>4, InvParts DEF OpenInv, Changes
  <2> QED
    BY Zenon, <2>1, <2>2
<1>7. FilesInv(phase', results', store', evicting', spill')
  <2>1. store'[i] # Unknown
    BY Zenon, <1>4, UnknownIsNone
  <2> QED
    BY Zenon, <1>1, <1>4, <2>1, InvParts DEF FilesInv, Owners, Changes
<1>8. DownInv(phase', hands', evicting', spill')
  BY Zenon, <1>1 DEF DownInv
<1> QED
  BY Zenon, <1>4, <1>5, <1>6, <1>7, <1>8, StoreChanges, InvParts, InvNext

\* A statement leaves the store for the sweep that evicts it.
LEMMA EvictStep == ASSUME IInv, NEW i \in Ids, Evict(i) PROVE IInv'
<1>1. /\ phase = "up" /\ store' = [store EXCEPT ![i] = Unknown] /\ evicting' = evicting \cup {i}
      /\ UNCHANGED <<phase, unused, hands, spill, results>>
  BY Zenon DEF Evict
<1>2. Changes(store, store', i) /\ store'[i] = Unknown
  BY Zenon, <1>1, UnknownIsNone, InvParts DEF StoreInv, Changes
<1>3. OpenInv(store', unused', hands', spill')
  <2> SUFFICES ASSUME NEW j \in Ids
               PROVE  /\ j \in unused => ~Begun(store'[j].status)
                      /\ j \in unused \/ Begun(store'[j].status) => Quiet(j, hands, spill)
    BY Zenon, <1>1 DEF OpenInv
  <2>1. CASE j = i
    <3>1. ~Begun(store'[i].status)
      BY <1>2, UnknownIsNone DEF Begun
    <3> QED
      BY Zenon, <2>1, <3>1, InvParts DEF OpenInv
  <2>2. CASE j # i
    BY Zenon, <2>2, <1>2, InvParts DEF OpenInv, Changes
  <2> QED
    BY Zenon, <2>1, <2>2
<1>4. FilesInv(phase', results', store', evicting', spill')
  <2>1. Owners(store, evicting, spill) \subseteq Owners(store', evicting', spill')
    BY Zenon, <1>1, <1>2 DEF Owners, Changes
  <2> QED
    BY Zenon, <1>1, <2>1, InvParts DEF FilesInv
<1>5. DownInv(phase', hands', evicting', spill')
  BY Zenon, <1>1 DEF DownInv
<1> QED
  BY Zenon, <1>1, <1>2, <1>3, <1>4, <1>5, StoreChanges, InvParts, InvNext

\* The sweep unlinks its file and tombstones the statement.
LEMMA UnlinkStep == ASSUME IInv, NEW i \in Ids, UnlinkEvicted(i) PROVE IInv'
<1> DEFINE p == Parcel(Record("tombstone", i, key'[i], "none", FALSE), FALSE)
<1>1. /\ i \in evicting /\ evicting' = evicting \ {i} /\ results' = results \ {i}
      /\ hands' = hands \cup {p} /\ UNCHANGED <<phase, store, unused, spill>>
  BY Zenon DEF UnlinkEvicted
<1>2. p.rec.id = i /\ ~p.ack /\ ~p.rec.file
  BY DEF Parcel, Record
<1> HIDE DEF p
<1>3. phase = "up"
  BY Zenon, <1>1, InvParts DEF DownInv
<1>4. HandsInv(hands', spill') /\ \A j : Quiet(j, hands, spill) => Quiet(j, hands', spill')
  BY Zenon, <1>1, <1>2, PlainAdded, InvParts
<1>5. OpenInv(store', unused', hands', spill')
  BY Zenon, <1>1, <1>4, InvParts DEF OpenInv
<1>6. FilesInv(phase', results', store', evicting', spill')
  BY Zenon, <1>1, <1>3, InvParts DEF FilesInv, Owners
<1>7. DownInv(phase', hands', evicting', spill')
  BY Zenon, <1>1, <1>3 DEF DownInv
<1> QED
  BY Zenon, <1>1, <1>4, <1>5, <1>6, <1>7, InvParts, InvNext

\* A record reaches the journal: the terminal one lets the spill of the rows begin, the
\* pointer ends it.  Neither meets a spill whose file has just landed.
LEMMA HandOverStep == ASSUME IInv, NEW p \in hands, HandOver(p) PROVE IInv'
<1> DEFINE i == p.rec.id
<1>1. /\ hands' = hands \ {p} /\ UNCHANGED <<phase, unused, evicting, results>>
      /\ store' = [store EXCEPT ![i].file = @ \/ (p.rec.file /\ i \in Alive)]
      /\ \/ p.ack /\ spill' = [spill EXCEPT ![i] = "queued"]
         \/ p.rec.file /\ spill' = [spill EXCEPT ![i] = "no"]
         \/ ~p.rec.file /\ UNCHANGED spill
  BY Zenon DEF HandOver
<1>0. i \in Ids /\ DOMAIN spill = Ids
  BY Zenon, InvParts DEF HandsInv
<1>u. phase = "up"
  BY Zenon, InvParts DEF DownInv
<1>2. DOMAIN store = Ids /\ DOMAIN store[i] = {"status", "sql", "file"}
  BY Zenon, <1>0, InvParts DEF StoreInv
<1>i. Alive = {j \in Ids : store[j] # Unknown}
  BY Zenon DEF Alive
<1>s. /\ p.ack => spill[i] = "no" /\ ~p.rec.file
                  /\ \A r \in hands : r.rec.id = i /\ r.ack => r = p
      /\ p.rec.file => spill[i] = "handing"
                  /\ \A r \in hands : r.rec.id = i /\ r.rec.file => r = p
  BY Zenon, InvParts DEF HandsInv
<1> HIDE DEF i
<1>3. /\ DOMAIN store' = Ids /\ DOMAIN store'[i] = {"status", "sql", "file"}
      /\ store'[i].status = store[i].status /\ store'[i].sql = store[i].sql
      /\ store'[i].file = (store[i].file \/ (p.rec.file /\ i \in Alive))
      /\ \A j \in Ids : j # i => store'[j] = store[j]
  BY <1>0, <1>1, <1>2
<1>4. store[i] = Unknown => store'[i] = Unknown
  <2> SUFFICES ASSUME store[i] = Unknown PROVE store'[i] = Unknown
    OBVIOUS
  <2>1. ~(store[i].file \/ (p.rec.file /\ i \in Alive))
    BY <1>i DEF Unknown
  <2>2. store' = [store EXCEPT ![i] = [store[i] EXCEPT !.file = FALSE]]
    BY <1>1, <1>2, <2>1
  <2> QED
    BY Zenon, <1>0, <1>2, <2>2, UnknownHasNoFile
<1>5. Changes(store, store', i) /\ (store[i] # Unknown => store'[i] # Unknown)
  BY Zenon, <1>0, <1>3, <1>4, UnknownIsNone, InvParts DEF Changes, StoreInv
<1>6. \A j \in Ids : store[j] # Unknown => store'[j] # Unknown
  BY Zenon, <1>5 DEF Changes
<1>7. \A j \in Ids : store'[j].status = store[j].status
  BY Zenon, <1>3
<1>8. \A j \in Ids : Quiet(j, hands, spill) => Quiet(j, hands', spill')
  <2> SUFFICES ASSUME NEW j \in Ids, Quiet(j, hands, spill) PROVE Quiet(j, hands', spill')
    BY Zenon
  <2>1. spill'[j] = "no"
    <3>1. CASE p.ack \/ p.rec.file
      <4>1. j # i
        BY Zenon, <3>1 DEF Quiet, i
      <4> QED
        BY Zenon, <4>1, <1>0, <1>1 DEF Quiet
    <3>2. CASE ~p.ack /\ ~p.rec.file
      BY Zenon, <3>2, <1>1 DEF Quiet
    <3> QED
      BY Zenon, <3>1, <3>2
  <2> QED
    BY Zenon, <2>1, <1>1 DEF Quiet
<1>9. OpenInv(store', unused', hands', spill')
  BY Zenon, <1>1, <1>7, <1>8, InvParts DEF OpenInv
<1>10. spill[i] # "landed" \/ UNCHANGED spill
  BY Zenon, <1>s, <1>1
<1>11. \A j \in Ids : spill[j] = "landed" => spill'[j] = "landed"
  BY Zenon, <1>10, <1>0, <1>1
<1>12. FilesInv(phase', results', store', evicting', spill')
  <2>1. Owners(store, evicting, spill) \subseteq Owners(store', evicting', spill')
    BY Zenon, <1>1, <1>6, <1>11 DEF Owners
  <2> QED
    BY Zenon, <1>1, <2>1, InvParts DEF FilesInv
<1>13. HandsInv(hands', spill')
  <2>1. DOMAIN spill' = Ids /\ \A j \in Ids : j # i => spill'[j] = spill[j]
    BY Zenon, <1>0, <1>1
  <2>2. \A r \in hands' : r \in hands /\ r.rec.id \in Ids /\ r # p
    BY Zenon, <1>1, InvParts DEF HandsInv
  <2>3. \A r \in hands' : (r.ack \/ r.rec.file) /\ r.rec.id = i => spill'[i] = spill[i]
    <3> SUFFICES ASSUME NEW r \in hands', r.ack \/ r.rec.file, r.rec.id = i
                 PROVE  spill'[i] = spill[i]
      BY Zenon
    <3>1. /\ r.ack => spill[i] = "no" /\ ~r.rec.file
          /\ r.rec.file => spill[i] = "handing"
      BY Zenon, <2>2, InvParts DEF HandsInv
    <3>2. ~p.ack /\ ~p.rec.file
      BY Zenon, <3>1, <2>2, <1>s
    <3> QED
      BY Zenon, <3>2, <1>1
  <2>4. \A r \in hands' : r.ack \/ r.rec.file => spill'[r.rec.id] = spill[r.rec.id]
    BY Zenon, <2>1, <2>2, <2>3
  <2> QED
    BY Zenon, <2>1, <2>2, <2>4, InvParts DEF HandsInv
<1>14. DownInv(phase', hands', evicting', spill')
  BY Zenon, <1>1, <1>u DEF DownInv
<1> QED
  BY Zenon, <1>0, <1>5, <1>9, <1>12, <1>13, <1>14, StoreChanges, InvParts, InvNext

\* The spill thread moves on with a statement of which no record is in hands.
LEMMA SpillOnly ==
  ASSUME IInv, NEW i \in Ids, spill[i] \notin {"no", "handing"}, NEW x,
         spill' = [spill EXCEPT ![i] = x], UNCHANGED <<phase, store, unused, evicting>>,
         hands' = hands \/ \E p : /\ p.rec.id = i /\ ~p.ack /\ ~p.rec.file
                                  /\ hands' = hands \cup {p},
         FilesInv(phase', results', store', evicting', spill')
  PROVE  IInv'
<1>1. /\ HandsInv(hands, spill')
      /\ \A j \in Ids : Quiet(j, hands, spill) => Quiet(j, hands, spill')
  BY Zenon, SpillMoves, InvParts
<1>2. HandsInv(hands', spill') /\ \A j : Quiet(j, hands, spill') => Quiet(j, hands', spill')
  <2>1. CASE hands' = hands
    BY Zenon, <2>1, <1>1
  <2>2. ASSUME NEW p, p.rec.id = i, ~p.ack, ~p.rec.file, hands' = hands \cup {p}
        PROVE  HandsInv(hands', spill') /\ \A j : Quiet(j, hands, spill') => Quiet(j, hands', spill')
    BY Zenon, <2>2, <1>1, PlainAdded
  <2> QED
    BY Zenon, <2>1, <2>2
<1>3. OpenInv(store', unused', hands', spill')
  BY Zenon, <1>1, <1>2, InvParts DEF OpenInv
<1>4. phase = "up"
  BY Zenon, InvParts DEF DownInv
<1>5. DownInv(phase', hands', evicting', spill')
  BY Zenon, <1>4 DEF DownInv
<1> QED
  BY Zenon, <1>2, <1>3, <1>5, InvParts, InvNext

LEMMA SpillBeginStep == ASSUME IInv, NEW i \in Ids, SpillBegin(i) PROVE IInv'
<1>1. /\ spill[i] = "queued" /\ UNCHANGED <<phase, store, unused, evicting, hands, results>>
      /\ \E x : spill' = [spill EXCEPT ![i] = x]
  BY Zenon DEF SpillBegin, SetSpill
<1>2. PICK x : spill' = [spill EXCEPT ![i] = x]
  BY Zenon, <1>1
<1>3. \A j \in Ids : spill[j] = "landed" => spill'[j] = "landed"
  BY Zenon, <1>1, <1>2, InvParts DEF HandsInv
<1>4. FilesInv(phase', results', store', evicting', spill')
  BY Zenon, <1>1, <1>3, InvParts DEF FilesInv, Owners
<1> QED
  BY Zenon, <1>1, <1>2, <1>4, SpillOnly

LEMMA SpillWriteStep == ASSUME IInv, NEW i \in Ids, SpillWrite(i) PROVE IInv'
<1>0. spill[i] = "writing" /\ UNCHANGED <<phase, store, unused, evicting>> /\ DOMAIN spill = Ids
  BY Zenon, InvParts DEF SpillWrite, HandsInv
<1>1. CASE SetSpill(i, "landed") /\ results' = results \cup {i} /\ UNCHANGED hands
  <2>1. spill' = [spill EXCEPT ![i] = "landed"]
    BY Zenon, <1>1 DEF SetSpill
  <2>2. spill'[i] = "landed" /\ \A j \in Ids : spill[j] = "landed" => spill'[j] = "landed"
    BY Zenon, <1>0, <2>1
  <2>3. FilesInv(phase', results', store', evicting', spill')
    BY Zenon, <1>0, <1>1, <2>2, InvParts DEF FilesInv, Owners
  <2> QED
    BY Zenon, <1>0, <1>1, <2>1, <2>3, SpillOnly
<1>2. CASE SetSpill(i, "no") /\ UNCHANGED results
  <2>1. spill' = [spill EXCEPT ![i] = "no"]
    BY Zenon, <1>2 DEF SetSpill
  <2>2. \A j \in Ids : spill[j] = "landed" => spill'[j] = "landed"
    BY Zenon, <1>0, <2>1
  <2>3. FilesInv(phase', results', store', evicting', spill')
    BY Zenon, <1>0, <1>2, <2>2, InvParts DEF FilesInv, Owners
  <2>4. hands' = hands \/ \E p : p.rec.id = i /\ ~p.ack /\ ~p.rec.file /\ hands' = hands \cup {p}
    <3> DEFINE p == Parcel(Record("snapshot", i, key'[i], "done", FALSE), FALSE)
    <3>1. p.rec.id = i /\ ~p.ack /\ ~p.rec.file
      BY DEF Parcel, Record
    <3>2. hands' = hands \/ hands' = hands \cup {p}
      BY Zenon DEF SpillWrite
    <3> HIDE DEF p
    <3> QED
      BY Zenon, <3>1, <3>2
  <2> QED
    BY Zenon, <1>0, <2>1, <2>3, <2>4, SpillOnly
<1> QED
  BY Zenon, <1>1, <1>2 DEF SpillWrite

\* The second look at the store: the file has an owner, or goes.
LEMMA SpillPublishStep == ASSUME IInv, NEW i \in Ids, SpillPublish(i) PROVE IInv'
<1>0. spill[i] = "landed" /\ UNCHANGED <<phase, store, unused, evicting>> /\ DOMAIN spill = Ids
  BY Zenon, InvParts DEF SpillPublish, HandsInv
<1>u. phase = "up"
  BY Zenon, <1>0, InvParts DEF DownInv
<1>s. spill[i] \notin {"no", "handing"}
  BY <1>0
<1> DEFINE p == Parcel(Record("snapshot", i, key'[i], "done", TRUE), FALSE)
<1>p. p.rec.id = i /\ ~p.ack /\ p.rec.file
  BY DEF Parcel, Record
<1>1. CASE i \in Alive /\ SetSpill(i, "handing") /\ hands' = hands \cup {p} /\ UNCHANGED results
  <2> HIDE DEF p
  <2>1. spill' = [spill EXCEPT ![i] = "handing"] /\ store[i] # Unknown
    BY Zenon, <1>1 DEF SetSpill, Alive
  <2>2. spill'[i] = "handing" /\ \A j \in Ids : j # i => spill'[j] = spill[j]
    BY Zenon, <1>0, <2>1
  <2>3. FilesInv(phase', results', store', evicting', spill')
    <3>1. Owners(store, evicting, spill) \subseteq Owners(store', evicting', spill')
      BY Zenon, <1>0, <2>1, <2>2 DEF Owners
    <3> QED
      BY Zenon, <1>0, <1>1, <3>1, InvParts DEF FilesInv
  <2>4. HandsInv(hands, spill') /\ \A j \in Ids : Quiet(j, hands, spill) => j # i /\ Quiet(j, hands, spill')
    BY Zenon, <1>s, <2>1, SpillMoves, InvParts
  <2>5. \A r \in hands : r.rec.id = i => ~r.ack /\ ~r.rec.file
    BY Zenon, <1>s, InvParts DEF HandsInv
  <2>6. HandsInv(hands', spill')
    <3>1. \A r \in hands' : r \in hands \/ r = p
      BY Zenon, <1>1
    <3>2. \A r \in hands' : r.rec.id \in Ids
      BY Zenon, <1>p, <3>1, InvParts DEF HandsInv
    <3>3. \A r \in hands' : r.ack => /\ r \in hands /\ spill'[r.rec.id] = "no" /\ ~r.rec.file
                                     /\ \A t \in hands' : t.rec.id = r.rec.id /\ t.ack => t = r
      BY Zenon, <1>p, <3>1, <2>4 DEF HandsInv
    <3>4. \A r \in hands' : r.rec.file =>
             /\ spill'[r.rec.id] = "handing"
             /\ \A t \in hands' : t.rec.id = r.rec.id /\ t.rec.file => t = r
      <4>1. ASSUME NEW r \in hands', r.rec.file
            PROVE  /\ spill'[r.rec.id] = "handing"
                   /\ \A t \in hands' : t.rec.id = r.rec.id /\ t.rec.file => t = r
        <5>1. CASE r = p
          BY Zenon, <5>1, <1>p, <3>1, <2>2, <2>5
        <5>2. CASE r \in hands
          <6>1. r.rec.id # i
            BY Zenon, <5>2, <4>1, <2>5
          <6> QED
            BY Zenon, <4>1, <5>2, <6>1, <1>p, <3>1, <2>4 DEF HandsInv
        <5> QED
          BY Zenon, <3>1, <5>1, <5>2
      <4> QED
        BY Zenon, <4>1
    <3>5. DOMAIN spill' = Ids
      BY Zenon, <2>4 DEF HandsInv
    <3> QED
      BY Zenon, <3>2, <3>3, <3>4, <3>5 DEF HandsInv
  <2>7. OpenInv(store', unused', hands', spill')
    <3>1. \A j \in Ids : Quiet(j, hands, spill) => Quiet(j, hands', spill')
      BY Zenon, <1>1, <1>p, <2>4 DEF Quiet
    <3> QED
      BY Zenon, <1>0, <3>1, InvParts DEF OpenInv
  <2>8. DownInv(phase', hands', evicting', spill')
    BY Zenon, <1>0, <1>u DEF DownInv
  <2> QED
    BY Zenon, <1>0, <2>3, <2>6, <2>7, <2>8, InvParts, InvNext
<1>2. CASE i \notin Alive /\ SetSpill(i, "no") /\ results' = results \ {i} /\ UNCHANGED hands
  <2>1. spill' = [spill EXCEPT ![i] = "no"]
    BY Zenon, <1>2 DEF SetSpill
  <2>2. \A j \in Ids : j # i => spill'[j] = spill[j]
    BY Zenon, <1>0, <2>1
  <2>3. FilesInv(phase', results', store', evicting', spill')
    BY Zenon, <1>0, <1>2, <2>2, InvParts DEF FilesInv, Owners
  <2> QED
    BY Zenon, <1>0, <1>s, <1>2, <2>1, <2>3, SpillOnly
<1> QED
  BY Zenon, <1>1, <1>2 DEF SpillPublish

-----------------------------------------------------------------------------
(* Crash and boot *)

LEMMA CrashStep == ASSUME IInv, Crash PROVE IInv'
<1>1. /\ phase' = "down" /\ store' = [i \in Ids |-> Unknown] /\ hands' = {}
      /\ spill' = [i \in Ids |-> "no"] /\ evicting' = {}
  BY Zenon DEF Crash
<1>2. StoreInv(store') /\ HandsInv(hands', spill')
  BY Zenon, <1>1, UnknownIsNone DEF StoreInv, HandsInv
<1>3. \A i \in Ids : ~Begun(store'[i].status) /\ Quiet(i, hands', spill')
  BY <1>1, UnknownIsNone DEF Begun, Quiet
<1>4. OpenInv(store', unused', hands', spill')
  BY Zenon, <1>3 DEF OpenInv
<1>5. DownInv(phase', hands', evicting', spill')
  BY Zenon, <1>1 DEF DownInv
<1>6. FilesInv(phase', results', store', evicting', spill')
  BY <1>1 DEF FilesInv
<1> QED
  BY Zenon, <1>2, <1>4, <1>5, <1>6, InvNext

\* What a boot loads, whatever the files hold: nothing, or a statement that has ended.
Cut(entry) == {i \in Known(entry) : ~Terminal(entry[i].status)}

Reloaded(entry, i) == [status |-> IF i \in Cut(entry) THEN "interrupted" ELSE entry[i].status,
                       sql |-> entry[i].sql, file |-> entry[i].file]

LEMMA Loaded ==
  ASSUME NEW entry, NEW i \in Ids
  PROVE  /\ DOMAIN Reloaded(entry, i) = {"status", "sql", "file"}
         /\ ~Begun(Reloaded(entry, i).status)
         /\ Reloaded(entry, i) = Unknown \/ Reloaded(entry, i).status # "none"
<1>1. CASE i \in Known(entry)
  BY <1>1 DEF Begun, Terminal, Reloaded, Cut
<1>2. CASE i \notin Known(entry)
  <2>1. entry[i] = Absent /\ i \notin Cut(entry)
    BY Zenon, <1>2 DEF Known, Cut
  <2>2. Absent.status = "none" /\ Absent.sql = FALSE /\ Absent.file = FALSE
    BY DEF Absent
  <2>3. Reloaded(entry, i) = Unknown
    BY Zenon, <2>1, <2>2 DEF Reloaded, Unknown
  <2>4. DOMAIN Unknown = {"status", "sql", "file"} /\ ~Begun(Unknown.status)
    BY UnknownIsNone DEF Begun
  <2> QED
    BY Zenon, <2>3, <2>4
<1> QED
  BY Zenon, <1>1, <1>2

LEMMA BootStep == ASSUME IInv, Boot PROVE IInv'
<1> DEFINE swept == Without(disk, disk.marked)
           entry == Replay(swept.gens, swept.segs).entry
           cut == {i \in Known(entry) : ~Terminal(entry[i].status)}
           status == [i \in Ids |-> IF i \in cut THEN "interrupted" ELSE entry[i].status]
<1>1. /\ phase = "down" /\ phase' = "boot" /\ UNCHANGED <<unused, hands, spill, evicting, results>>
      /\ store' = [i \in Ids |-> [status |-> status[i], sql |-> entry[i].sql,
                                  file |-> entry[i].file]]
  BY Zenon DEF Boot
<1>2. cut = Cut(entry)
  BY Zenon DEF Cut
<1>3. \A i \in Ids : status[i] = IF i \in cut THEN "interrupted" ELSE entry[i].status
  BY Zenon
<1> HIDE DEF swept, entry, cut, status
<1>4. \A i \in Ids : store'[i] = Reloaded(entry, i)
  BY Zenon, <1>1, <1>2, <1>3 DEF Reloaded
<1>5. \A i \in Ids : /\ DOMAIN store'[i] = {"status", "sql", "file"} /\ ~Begun(store'[i].status)
                     /\ store'[i] = Unknown \/ store'[i].status # "none"
  BY Zenon, <1>4, Loaded
<1>6. hands = {} /\ evicting = {} /\ \A i \in Ids : spill[i] = "no"
  BY <1>1, InvParts DEF DownInv
<1>7. StoreInv(store')
  BY Zenon, <1>1, <1>5 DEF StoreInv
<1>8. OpenInv(store', unused', hands', spill')
  BY Zenon, <1>1, <1>5, <1>6 DEF OpenInv, Quiet
<1>9. DownInv(phase', hands', evicting', spill')
  BY Zenon, <1>1, <1>6 DEF DownInv
<1>10. FilesInv(phase', results', store', evicting', spill')
  BY <1>1 DEF FilesInv
<1> QED
  BY Zenon, <1>1, <1>7, <1>8, <1>9, <1>10, InvParts, InvNext

LEMMA ServeStep == ASSUME IInv, Serve PROVE IInv'
<1>1. /\ phase' = "up" /\ results' = results \cap Alive
      /\ UNCHANGED <<store, unused, hands, spill, evicting>>
  BY Zenon DEF Serve
<1>2. DownInv(phase', hands', evicting', spill')
  BY Zenon, <1>1 DEF DownInv
<1>3. FilesInv(phase', results', store', evicting', spill')
  BY Zenon, <1>1 DEF FilesInv, Owners, Alive
<1> QED
  BY Zenon, <1>1, <1>2, <1>3, InvParts, InvNext

LEMMA InitInv == ASSUME Init PROVE IInv
<1>1. /\ store = [i \in Ids |-> Unknown] /\ hands = {}
      /\ spill = [i \in Ids |-> "no"] /\ evicting = {} /\ results = {} /\ phase = "up"
  BY Zenon DEF Init
<1>2. StoreInv(store) /\ HandsInv(hands, spill)
  BY Zenon, <1>1, UnknownIsNone DEF StoreInv, HandsInv
<1>3. \A i \in Ids : ~Begun(store[i].status) /\ Quiet(i, hands, spill)
  BY <1>1, UnknownIsNone DEF Begun, Quiet
<1>4. OpenInv(store, unused, hands, spill)
  BY Zenon, <1>3 DEF OpenInv
<1>5. DownInv(phase, hands, evicting, spill) /\ FilesInv(phase, results, store, evicting, spill)
  BY Zenon, <1>1 DEF DownInv, FilesInv
<1> QED
  BY Zenon, <1>2, <1>4, <1>5 DEF IInv

LEMMA InvStep == ASSUME IInv, [Next]_vars PROVE IInv'
<1>1. ASSUME NEW i \in Ids, Submit(i) \/ MarkRunning(i) \/ Finish(i) PROVE IInv'
  BY Zenon, <1>1, SubmitStep, MarkRunningStep, FinishStep
<1>2. ASSUME NEW i \in Ids, AwaitDurable(i) PROVE IInv'
  <2>1. UNCHANGED <<phase, store, unused, hands, spill, evicting, results>>
    BY Zenon, <1>2 DEF AwaitDurable
  <2> QED
    BY Zenon, <2>1, StutterStep
<1>3. ASSUME NEW i \in Ids, Evict(i) \/ UnlinkEvicted(i) PROVE IInv'
  BY Zenon, <1>3, EvictStep, UnlinkStep
<1>4. ASSUME NEW p \in hands, HandOver(p) PROVE IInv'
  BY Zenon, <1>4, HandOverStep
<1>5. ASSUME NEW i \in Ids, SpillBegin(i) \/ SpillWrite(i) \/ SpillPublish(i) PROVE IInv'
  BY Zenon, <1>5, SpillBeginStep, SpillWriteStep, SpillPublishStep
<1>6. CASE WriterStep \/ UNCHANGED vars
  BY Zenon, <1>6, WriterSteps
<1>7. CASE Crash \/ Boot \/ Serve
  BY Zenon, <1>7, CrashStep, BootStep, ServeStep
<1> QED
  BY Zenon, <1>1, <1>2, <1>3, <1>4, <1>5, <1>6, <1>7 DEF Next, StoreStep, SpillStep

LEMMA InvAlways == Spec => []IInv
<1>1. Init => IInv
  BY Zenon, InitInv
<1>2. IInv /\ [Next]_vars => IInv'
  BY Zenon, InvStep
<1> QED
  BY <1>1, <1>2, PTL DEF Spec

\* While the server is up, a published result file belongs to a statement of the store,
\* to one being evicted, whose file is unlinked next, or to the one the spill thread is
\* about to look up a second time (SpillWriter::handle): whatever the disk refuses and
\* wherever a crash falls, no file is left behind that no sweep will ever delete
\* (sweep, ResultStore::delete, reconcile at boot).
THEOREM NoFileOrphaned == Spec => []NoOrphan
<1>1. IInv => NoOrphan
  BY Zenon DEF IInv, FilesInv, Owners, Alive, NoOrphan
<1> QED
  BY <1>1, InvAlways, PTL

=============================================================================
