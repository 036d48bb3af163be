------------------------ MODULE StreamTriggersProofs ------------------------
(***************************************************************************)
(* Proofs of StreamTriggers: for any number of callers, any source and any *)
(* failures, the batches of a query chain, a stopped query begins at most  *)
(* one more batch for each caller, and a drain runs to the end it found    *)
(* and no further.                                                         *)
(***************************************************************************)
EXTENDS StreamTriggers, TLAPS

\* The places of a caller inside run_batch, and those of a drain still running.
InBatch == {"poll", "write"}
Running == {"bound", "check", "wait", "poll", "write", "rows"}

-----------------------------------------------------------------------------
(* Facts about the state *)

LEMMA Constants ==
  /\ Task \in Callers /\ MaxDrainBatches \in Nat /\ MaxDrainBatches > 0
  /\ MaxOffset \in Nat /\ MaxFailures \in Nat /\ MaxCommands \in Nat
BY ConstantsAssumption DEF ConstantsAssumption, Callers

\* The log's last range, before and after a batch is appended.
LEMMA Appended ==
  ASSUME log \in Seq(Ranges), NEW r \in Ranges, log' = Append(log, r)
  PROVE  /\ log' \in Seq(Ranges) /\ Committed' = r.to
         /\ DOMAIN log' = DOMAIN log \cup {Len(log) + 1}
         /\ \A i \in DOMAIN log : log'[i] = log[i]
         /\ log'[Len(log) + 1] = r
<1>1. log' \in Seq(Ranges) /\ Len(log') = Len(log) + 1 /\ log' # <<>>
  OBVIOUS
<1>2. log'[Len(log')] = r /\ \A i \in 1..Len(log) : log'[i] = log[i]
  BY <1>1
<1>3. DOMAIN log = 1..Len(log) /\ DOMAIN log' = 1..Len(log') /\ Len(log) \in Nat
  BY <1>1
<1>4. DOMAIN log' = DOMAIN log \cup {Len(log) + 1}
  BY <1>1, <1>3
<1> QED BY Zenon, <1>1, <1>2, <1>3, <1>4 DEF Committed

LEMMA CommittedType == ASSUME log \in Seq(Ranges) PROVE Committed \in 0..MaxOffset
<1>1. CASE log = <<>>
  BY <1>1, Constants DEF Committed
<1>2. CASE log # <<>>
  <2>1. Len(log) \in 1..Len(log)
    BY <1>2
  <2>2. log[Len(log)] \in Ranges
    BY <2>1
  <2> QED BY Zenon, <1>2, <2>2 DEF Committed, Ranges
<1> QED BY Zenon, <1>1, <1>2

-----------------------------------------------------------------------------
(* The source and the checkpoint *)

\* The types, of all but what needs the invariants below.
Types ==
  /\ trigger \in {"ticker", "once"} /\ hasEnd \in BOOLEAN /\ avail \in 0..MaxOffset
  /\ planned \subseteq Ranges /\ log \in Seq(Ranges)
  /\ active \in BOOLEAN /\ at \in [Callers -> Places]
  /\ lock = {c \in Callers : at[c] \in InBatch}
  /\ drain \in [Callers -> [boundary : SUBSET (0..MaxOffset), n : Nat,
                            target : 0..MaxOffset, from : 0..MaxOffset, ok : BOOLEAN]]
  /\ left \in [Callers -> 0..MaxCommands] /\ failures \in 0..MaxFailures
  /\ late \in [Callers -> Nat] /\ mishaps \subseteq {"failed", "stopped", "blank"}
  /\ pos \in 0..MaxOffset

\* One range is planned at most, from where the log ends; the source's position is
\* there or at the range's end, and there once the batch was polled.  One caller is
\* in a batch.
Positioned ==
  /\ planned = {} \/ \E r \in Ranges : planned = {r}
  /\ \A r \in planned : r.from = Committed /\ r.from < r.to /\ r.to <= avail
  /\ Committed <= avail
  /\ pos = Committed \/ \E r \in planned : pos = r.to
  /\ \A c \in Callers : at[c] = "write" => \E r \in planned : pos = r.to
  /\ \A c, d \in Callers : at[c] \in InBatch /\ at[d] \in InBatch => c = d

\* The steps of a caller.
Acts(c) == Step(c) \/ BatchFails(c) \/ Command(c)

LEMMA StepKinds ==
  ASSUME [Next]_vars
  PROVE  Arrive \/ Stop \/ (\E c \in Callers : Acts(c)) \/ UNCHANGED vars
BY Zenon DEF Next, Acts

\* What the caller of a batch may change, and what nobody changes but the owner.
LEMMA Frame ==
  ASSUME Types, NEW c \in Callers, Acts(c)
  PROVE  /\ UNCHANGED source
         /\ \A d \in Callers \ {c} : /\ at'[d] = at[d] /\ drain'[d] = drain[d]
                                     /\ late'[d] = late[d]
         /\ mishaps \subseteq mishaps' /\ (active' => active)
<1> USE DEF source, disk, Go, Return, Began, Types
<1>1. CASE Bound(c)
  BY Zenon, <1>1 DEF Bound
<1>2. CASE Check(c)
  BY Zenon, <1>2 DEF Check
<1>3. CASE Begin(c)
  BY Zenon, <1>3 DEF Begin
<1>4. CASE Idle(c)
  BY Zenon, <1>4 DEF Idle
<1>5. CASE Poll(c)
  BY Zenon, <1>5 DEF Poll
<1>6. CASE Commit(c)
  BY Zenon, <1>6 DEF Commit
<1>7. CASE Empty(c)
  BY Zenon, <1>7 DEF Empty
<1>8. CASE Counted(c)
  BY Zenon, <1>8 DEF Counted
<1>9. CASE Reach(c)
  BY Zenon, <1>9 DEF Reach
<1>10. CASE Status(c)
  BY Zenon, <1>10 DEF Status
<1>11. CASE End(c)
  BY Zenon, <1>11 DEF End
<1>12. CASE Tick(c)
  BY Zenon, <1>12 DEF Tick
<1>13. CASE BatchFails(c)
  BY Zenon, <1>13 DEF BatchFails
<1>14. CASE Command(c)
  BY Zenon, <1>14 DEF Command
<1> QED BY Zenon, <1>1, <1>2, <1>3, <1>4, <1>5, <1>6, <1>7, <1>8, <1>9, <1>10, <1>11, <1>12,
           <1>13, <1>14 DEF Acts, Step

\* Where a caller goes; outside a batch the lock is as it was.
LEMMA Goes ==
  ASSUME Types, NEW c \in Callers, NEW w \in Places, Go(c, w)
  PROVE  /\ at' \in [Callers -> Places] /\ at'[c] = w
         /\ \A d \in Callers \ {c} : at'[d] = at[d]
         /\ at[c] \in InBatch <=> w \in InBatch
              => lock = {d \in Callers : at'[d] \in InBatch}
BY Zenon DEF Types, Go

DrainType == [boundary : SUBSET (0..MaxOffset), n : Nat, target : 0..MaxOffset,
              from : 0..MaxOffset, ok : BOOLEAN]

\* A new drain of c has its type.
LEMMA Drains ==
  ASSUME Types, NEW c \in Callers, NEW new \in DrainType, drain' = [drain EXCEPT ![c] = new]
  PROVE  drain' \in [Callers -> DrainType] /\ drain'[c] = new
BY Zenon DEF Types, DrainType

\* The drain of c after it found its boundary, counted a batch or returned.
LEMMA Bounded ==
  ASSUME Types, NEW c \in Callers, Bound(c)
  PROVE  /\ drain' \in [Callers -> DrainType]
         /\ drain'[c].boundary = IF hasEnd THEN {avail} ELSE {}
         /\ drain'[c].target = IF drain[c].n = 0 THEN avail ELSE drain[c].target
         /\ drain'[c].from = IF drain[c].n = 0 THEN Committed ELSE drain[c].from
         /\ drain'[c].n = drain[c].n /\ drain'[c].ok = drain[c].ok
<1> DEFINE new == [drain[c] EXCEPT !.boundary = IF hasEnd THEN {avail} ELSE {},
                                   !.target = IF drain[c].n = 0 THEN avail ELSE @,
                                   !.from = IF drain[c].n = 0 THEN Committed ELSE @]
<1>1. drain[c] \in DrainType /\ drain \in [Callers -> DrainType]
  BY Zenon DEF Types, DrainType
<1>2. Committed \in 0..MaxOffset /\ avail \in 0..MaxOffset
  BY Zenon, CommittedType DEF Types
<1>3. new \in DrainType
  BY Zenon, <1>1, <1>2 DEF DrainType
<1>4. drain' = [drain EXCEPT ![c] = new]
  BY Zenon, <1>1 DEF Bound
<1>5. drain' \in [Callers -> DrainType] /\ drain'[c] = new
  BY Zenon, <1>3, <1>4, Drains
<1> QED BY Zenon, <1>1, <1>5 DEF DrainType

LEMMA Tallied ==
  ASSUME Types, NEW c \in Callers, drain' = [drain EXCEPT ![c].n = @ + 1]
  PROVE  /\ drain' \in [Callers -> DrainType]
         /\ drain'[c].n = drain[c].n + 1 /\ drain'[c].boundary = drain[c].boundary
         /\ drain'[c].target = drain[c].target /\ drain'[c].from = drain[c].from
         /\ drain'[c].ok = drain[c].ok
<1> DEFINE new == [drain[c] EXCEPT !.n = @ + 1]
<1>1. drain[c] \in DrainType /\ drain \in [Callers -> DrainType]
  BY Zenon DEF Types, DrainType
<1>2. new \in DrainType
  BY <1>1 DEF DrainType
<1>3. drain' = [drain EXCEPT ![c] = new]
  BY Zenon, <1>1
<1>4. drain' \in [Callers -> DrainType] /\ drain'[c] = new
  BY Zenon, <1>2, <1>3, Drains
<1> QED BY Zenon, <1>1, <1>4 DEF DrainType

LEMMA Returned ==
  ASSUME Types, NEW c \in Callers, Return(c)
  PROVE  /\ drain' \in [Callers -> DrainType]
         /\ drain'[c].n = drain[c].n /\ drain'[c].boundary = drain[c].boundary
         /\ drain'[c].target = drain[c].target /\ drain'[c].from = drain[c].from
<1> DEFINE new == [drain[c] EXCEPT !.ok = TRUE]
<1>1. drain[c] \in DrainType /\ drain \in [Callers -> DrainType]
  BY Zenon DEF Types, DrainType
<1>2. new \in DrainType
  BY Zenon, <1>1 DEF DrainType
<1>3. drain' = [drain EXCEPT ![c] = new]
  BY Zenon, <1>1 DEF Return
<1>4. drain' \in [Callers -> DrainType] /\ drain'[c] = new
  BY Zenon, <1>2, <1>3, Drains
<1> QED BY Zenon, <1>1, <1>4 DEF DrainType

\* Records between what is committed and the end make a range.
LEMMA PlansType ==
  ASSUME Types, NEW r \in Plans
  PROVE  r \in Ranges /\ r.from = pos /\ r.from < r.to /\ r.to <= avail
<1>1. PICK e \in (pos + 1)..avail : r = [from |-> pos, to |-> e]
  BY Zenon DEF Plans
<1>2. pos \in 0..MaxOffset /\ avail \in 0..MaxOffset /\ MaxOffset \in Nat
  BY Zenon, Constants DEF Types
<1>3. e \in 0..MaxOffset /\ pos < e /\ e <= avail
  BY <1>1, <1>2
<1> QED BY Zenon, <1>1, <1>2, <1>3 DEF Ranges

LEMMA TypesAct ==
  ASSUME Types, Positioned, NEW c \in Callers, Acts(c)
  PROVE  Types'
<1> USE DEF source, disk
<1>1. CASE Bound(c)
  <2>1. at' \in [Callers -> Places] /\ lock = {d \in Callers : at'[d] \in InBatch}
    BY Zenon, <1>1, Goes DEF Bound, Places, InBatch
  <2>2. drain' \in [Callers -> DrainType]
    BY Zenon, <1>1, Bounded
  <2> QED BY Zenon, <1>1, <2>1, <2>2 DEF Bound, Types, DrainType
<1>2. CASE Check(c)
  <2>1. at' \in [Callers -> Places] /\ lock = {d \in Callers : at'[d] \in InBatch}
    BY Zenon, <1>2, Goes DEF Check, Places, InBatch
  <2> QED BY Zenon, <1>2, <2>1 DEF Check, Types
<1>3. CASE Begin(c)
  <2>1. at' \in [Callers -> Places] /\ lock' = {d \in Callers : at'[d] \in InBatch}
    <3>1. at' \in [Callers -> Places] /\ at'[c] = "poll"
          /\ \A d \in Callers \ {c} : at'[d] = at[d]
      BY Zenon, <1>3, Goes DEF Begin, Places
    <3>2. lock' = {c} /\ \A d \in Callers : at[d] \notin InBatch
      BY Zenon, <1>3 DEF Begin, Types
    <3> QED BY Zenon, <3>1, <3>2 DEF InBatch
  <2>2. planned' \subseteq Ranges
    BY Zenon, <1>3, PlansType DEF Begin, Types
  <2>3. late' \in [Callers -> Nat]
    BY <1>3 DEF Begin, Began, Types
  <2> QED BY Zenon, <1>3, <2>1, <2>2, <2>3 DEF Begin, Types
<1>4. CASE Idle(c)
  <2>1. at' \in [Callers -> Places] /\ lock = {d \in Callers : at'[d] \in InBatch}
    BY Zenon, <1>4, Goes DEF Idle, Places, InBatch
  <2> QED BY Zenon, <1>4, <2>1 DEF Idle, Types
<1>5. CASE Poll(c)
  <2>1. at' \in [Callers -> Places] /\ lock = {d \in Callers : at'[d] \in InBatch}
    BY Zenon, <1>5, Goes DEF Poll, Places, InBatch
  <2>2. pos' \in 0..MaxOffset
    BY Zenon, <1>5 DEF Poll, Types, Ranges
  <2> QED BY Zenon, <1>5, <2>1, <2>2 DEF Poll, Types
<1>6. CASE Commit(c)
  <2>1. PICK r \in planned :
          /\ log' = Append(log, r)
          /\ Go(c, IF Rows(r) = {} THEN "empty" ELSE "rows")
          /\ mishaps' = mishaps \cup IF Rows(r) = {} THEN {"blank"} ELSE {}
    BY Zenon, <1>6 DEF Commit
  <2>2. r \in Ranges /\ log' \in Seq(Ranges)
    BY Zenon, <2>1, Appended DEF Types
  <2>3. PICK w \in {"empty", "rows"} : Go(c, w)
    BY Zenon, <2>1
  <2>4. /\ at' \in [Callers -> Places] /\ at'[c] \notin InBatch
        /\ \A d \in Callers \ {c} : at'[d] = at[d]
    BY Zenon, <2>3, Goes DEF Places, InBatch
  <2>5. lock' = {d \in Callers : at'[d] \in InBatch}
    BY Zenon, <1>6, <2>4 DEF Commit, Positioned, InBatch
  <2> QED BY Zenon, <1>6, <2>1, <2>2, <2>4, <2>5 DEF Commit, Types
<1>7. CASE Empty(c)
  <2>1. PICK w \in {"status", "stop", "rest"} : Go(c, w)
    BY Zenon, <1>7 DEF Empty, Return
  <2>2. at' \in [Callers -> Places] /\ lock = {d \in Callers : at'[d] \in InBatch}
    BY Zenon, <1>7, <2>1, Goes DEF Empty, Places, InBatch
  <2>3. drain' \in [Callers -> DrainType]
    BY Zenon, <1>7, Returned DEF Empty, Types, DrainType
  <2> QED BY Zenon, <1>7, <2>2, <2>3 DEF Empty, Types, DrainType
<1>8. CASE Counted(c)
  <2>1. PICK w \in {"status", "reach"} : Go(c, w)
    BY Zenon, <1>8 DEF Counted
  <2>2. at' \in [Callers -> Places] /\ lock = {d \in Callers : at'[d] \in InBatch}
    BY Zenon, <1>8, <2>1, Goes DEF Counted, Places, InBatch
  <2>3. drain' \in [Callers -> DrainType]
    BY Zenon, <1>8, Tallied DEF Counted, Types, DrainType
  <2> QED BY Zenon, <1>8, <2>2, <2>3 DEF Counted, Types, DrainType
<1>9. CASE Reach(c)
  <2>1. PICK w \in {"stop", "rest", "bound", "check"} : Go(c, w)
    BY Zenon, <1>9 DEF Reach, Return
  <2>2. at' \in [Callers -> Places] /\ lock = {d \in Callers : at'[d] \in InBatch}
    BY Zenon, <1>9, <2>1, Goes DEF Reach, Places, InBatch
  <2>3. drain' \in [Callers -> DrainType]
    BY Zenon, <1>9, Returned DEF Reach, Types, DrainType
  <2> QED BY Zenon, <1>9, <2>2, <2>3 DEF Reach, Types, DrainType
<1>10. CASE Status(c)
  <2>1. at' \in [Callers -> Places] /\ lock = {d \in Callers : at'[d] \in InBatch}
    BY Zenon, <1>10, Goes DEF Status, Places, InBatch
  <2> QED BY Zenon, <1>10, <2>1 DEF Status, Types
<1>11. CASE End(c)
  <2>1. at' \in [Callers -> Places] /\ lock = {d \in Callers : at'[d] \in InBatch}
    BY Zenon, <1>11, Goes DEF End, Places, InBatch
  <2> QED BY Zenon, <1>11, <2>1 DEF End, Types
<1>12. CASE Tick(c)
  <2>1. at' \in [Callers -> Places] /\ lock = {d \in Callers : at'[d] \in InBatch}
    BY Zenon, <1>12, Goes DEF Tick, Places, InBatch
  <2> QED BY Zenon, <1>12, <2>1 DEF Tick, Types
<1>13. CASE BatchFails(c)
  <2>1. PICK w \in {"fail", "rest"} : Go(c, w)
    BY Zenon, <1>13 DEF BatchFails
  <2>2. /\ at' \in [Callers -> Places] /\ at'[c] \notin InBatch
        /\ \A d \in Callers \ {c} : at'[d] = at[d]
    BY Zenon, <2>1, Goes DEF Places, InBatch
  <2>3. lock' = {d \in Callers : at'[d] \in InBatch}
    BY Zenon, <1>13, <2>2 DEF BatchFails, Positioned, InBatch
  <2>4. failures' \in 0..MaxFailures
    BY <1>13, Constants DEF BatchFails, Types
  <2> QED BY Zenon, <1>13, <2>2, <2>3, <2>4 DEF BatchFails, Types
<1>14. CASE Command(c)
  <2>1. at' \in [Callers -> Places] /\ lock = {d \in Callers : at'[d] \in InBatch}
    BY Zenon, <1>14, Goes DEF Command, Places, InBatch
  <2>2. drain' \in [Callers -> DrainType]
    BY <1>14, Constants DEF Command, NoDrain, Types, DrainType
  <2>3. left' \in [Callers -> 0..MaxCommands]
    <3>1. left \in [Callers -> 0..MaxCommands]
      BY Zenon DEF Types
    <3>2. left[c] > 0 /\ left' = [left EXCEPT ![c] = left[c] - 1]
      BY Zenon, <1>14 DEF Command
    <3> QED BY <3>1, <3>2, Constants
  <2> QED BY Zenon, <1>14, <2>1, <2>2, <2>3 DEF Command, Types, DrainType
<1> QED BY Zenon, <1>1, <1>2, <1>3, <1>4, <1>5, <1>6, <1>7, <1>8, <1>9, <1>10, <1>11, <1>12,
           <1>13, <1>14 DEF Acts, Step

-----------------------------------------------------------------------------
(* Batches chain *)

\* A step that leaves the source's position and the checkpoint, and lets nobody into
\* a batch.
LEMMA PositionedKept ==
  ASSUME Positioned, UNCHANGED <<pos, planned, log>>, avail \in Nat, avail' \in Nat,
         avail' >= avail, log \in Seq(Ranges), planned \subseteq Ranges,
         \A d \in Callers : at'[d] \in InBatch => at'[d] = at[d]
  PROVE  Positioned'
<1>1. Committed' = Committed /\ Committed \in Nat
  BY CommittedType, Constants DEF Committed
<1>2. \A r \in planned : r.to \in Nat
  BY Constants DEF Ranges
<1>3. /\ \A r \in planned : r.from = Committed /\ r.from < r.to /\ r.to <= avail'
      /\ Committed <= avail'
  BY <1>1, <1>2 DEF Positioned
<1>4. \A d \in Callers : at'[d] = "write" => at[d] = "write"
  BY Zenon DEF InBatch
<1>5. \A d \in Callers : at'[d] \in InBatch => at[d] \in InBatch
  BY Zenon
<1> QED BY Zenon, <1>1, <1>3, <1>4, <1>5 DEF Positioned

LEMMA PositionedAct ==
  ASSUME Types, Positioned, BatchesChain, NEW c \in Callers, Acts(c)
  PROVE  Positioned' /\ BatchesChain'
<1> USE DEF source, disk
<1>0. /\ avail' = avail /\ avail \in Nat /\ log \in Seq(Ranges) /\ planned \subseteq Ranges
      /\ pos \in Nat /\ Committed \in Nat
  <2>1. avail' = avail
    BY Zenon, Frame
  <2>2. /\ avail \in Nat /\ log \in Seq(Ranges) /\ planned \subseteq Ranges /\ pos \in Nat
    BY Constants DEF Types
  <2>3. Committed \in Nat
    BY <2>2, CommittedType, Constants
  <2> QED BY Zenon, <2>1, <2>2, <2>3
<1>1. CASE Begin(c)
  <2>1. UNCHANGED <<pos, log>> /\ lock = {} /\ Go(c, "poll")
    BY Zenon, <1>1 DEF Begin
  <2>2. at'[c] = "poll" /\ \A d \in Callers \ {c} : at'[d] = at[d] /\ at[d] \notin InBatch
    BY Zenon, <2>1, Goes DEF Types, Places
  <2>3. Committed' = Committed /\ BatchesChain'
    BY Zenon, <2>1 DEF Committed, BatchesChain
  <2>4. CASE planned # {}
    BY Zenon, <1>0, <1>1, <2>1, <2>2, <2>3, <2>4 DEF Begin, Positioned, InBatch
  <2>5. CASE planned = {}
    <3>1. PICK r \in Plans : planned' = {r}
      BY Zenon, <1>1, <2>5 DEF Begin
    <3>2. pos = Committed
      BY Zenon, <2>5 DEF Positioned
    <3>3. r \in Ranges /\ r.from = Committed /\ r.from < r.to /\ r.to <= avail
      BY Zenon, <3>1, <3>2, PlansType
    <3>4. \A d \in Callers : at'[d] # "write" /\ (at'[d] \in InBatch => d = c)
      BY Zenon, <2>2 DEF InBatch
    <3>5. Committed' <= avail' /\ pos' = Committed'
      BY Zenon, <1>0, <2>1, <2>3, <3>2 DEF Positioned
    <3> QED BY Zenon, <1>0, <2>3, <3>1, <3>3, <3>4, <3>5 DEF Positioned
  <2> QED BY Zenon, <2>4, <2>5
<1>2. CASE Poll(c)
  <2>1. UNCHANGED <<planned, log>> /\ Go(c, "write") /\ at[c] \in InBatch
    BY Zenon, <1>2 DEF Poll, InBatch
  <2>2. PICK r \in planned : pos' = r.to
    BY Zenon, <1>2 DEF Poll
  <2>3. at'[c] = "write" /\ \A d \in Callers \ {c} : at'[d] = at[d]
    BY Zenon, <2>1, Goes DEF Places
  <2>4. \A d \in Callers \ {c} : at'[d] \notin InBatch
    BY Zenon, <2>1, <2>3 DEF Positioned
  <2>5. Committed' = Committed /\ BatchesChain'
    BY Zenon, <2>1 DEF Committed, BatchesChain
  <2>6. \E q \in planned' : pos' = q.to
    BY Zenon, <2>1, <2>2
  <2>7. \A d, e \in Callers : at'[d] \in InBatch /\ at'[e] \in InBatch => d = e
    BY Zenon, <2>4
  <2> QED BY Zenon, <1>0, <2>1, <2>5, <2>6, <2>7 DEF Positioned
<1>3. CASE Commit(c)
  <2>1. PICK r \in planned :
          /\ log' = Append(log, r)
          /\ Go(c, IF Rows(r) = {} THEN "empty" ELSE "rows")
    BY Zenon, <1>3 DEF Commit
  <2>2. /\ planned' = {} /\ pos' = pos /\ r \in Ranges
        /\ r.from = Committed /\ r.from < r.to /\ r.to <= avail
    BY Zenon, <1>0, <1>3, <2>1 DEF Commit, Positioned
  <2>3. /\ Committed' = r.to /\ DOMAIN log' = DOMAIN log \cup {Len(log) + 1}
        /\ \A i \in DOMAIN log : log'[i] = log[i]
        /\ log'[Len(log) + 1] = r
    BY Zenon, <1>0, <2>1, <2>2, Appended
  <2>4. pos = r.to
    <3>1. PICK q \in planned : pos = q.to
      BY Zenon, <1>3 DEF Commit, Positioned
    <3>2. q = r
      BY <2>1, <3>1 DEF Positioned
    <3> QED BY Zenon, <3>1, <3>2
  <2>5. \A d \in Callers : at'[d] \notin InBatch
    <3>1. at'[c] \notin InBatch /\ \A d \in Callers \ {c} : at'[d] = at[d]
      <4>1. PICK w \in {"empty", "rows"} : Go(c, w)
        BY Zenon, <2>1
      <4> QED BY Zenon, <4>1, Goes DEF Places, InBatch
    <3>2. \A d \in Callers \ {c} : at[d] \notin InBatch
      BY Zenon, <1>3 DEF Commit, Positioned, InBatch
    <3> QED BY Zenon, <3>1, <3>2
  <2>6. Positioned'
    BY Zenon, <1>0, <2>2, <2>3, <2>4, <2>5 DEF Positioned, InBatch
  <2>7. ASSUME NEW i \in DOMAIN log'
        PROVE  log'[i].from < log'[i].to /\ log'[i].from = IF i = 1 THEN 0 ELSE log'[i - 1].to
    <3>0. DOMAIN log = 1..Len(log) /\ Len(log) \in Nat
      BY <1>0
    <3>1. CASE i \in DOMAIN log
      <4>1. log'[i] = log[i] /\ (i # 1 => log'[i - 1] = log[i - 1])
        BY <2>3, <3>0, <3>1
      <4> QED BY Zenon, <3>1, <4>1 DEF BatchesChain
    <3>2. CASE i = Len(log) + 1
      <4>1. log'[i] = r
        BY Zenon, <2>3, <3>2
      <4>2. CASE i = 1
        BY <2>2, <3>0, <3>2, <4>1, <4>2, <1>0 DEF Committed
      <4>3. CASE i # 1
        <5>1. i - 1 = Len(log) /\ Len(log) \in DOMAIN log /\ log # <<>>
          BY <3>0, <3>2, <4>3
        <5>2. Committed = log[Len(log)].to
          BY Zenon, <5>1 DEF Committed
        <5> QED BY Zenon, <2>2, <2>3, <4>1, <4>3, <5>1, <5>2
      <4> QED BY Zenon, <4>2, <4>3
    <3> QED BY Zenon, <2>3, <3>1, <3>2
  <2> QED BY Zenon, <2>6, <2>7 DEF BatchesChain
<1>4. CASE ~Begin(c) /\ ~Poll(c) /\ ~Commit(c)
  <2>1. UNCHANGED <<pos, planned, log>>
    BY Zenon, <1>4 DEF Acts, Step, Bound, Check, Idle, Empty, Counted, Reach, Status, End, Tick,
                BatchFails, Command
  <2>2. at'[c] \notin InBatch
    <3>1. PICK w \in Places \ InBatch : Go(c, w)
      BY Zenon, <1>4 DEF Acts, Step, Bound, Check, Idle, Empty, Counted, Reach, Status, End, Tick,
                  BatchFails, Command, Return, Places, InBatch
    <3> QED BY Zenon, <3>1, Goes
  <2>3. \A d \in Callers : at'[d] \in InBatch => at'[d] = at[d]
    BY Zenon, <2>2, Frame
  <2>4. Positioned'
    BY <1>0, <2>1, <2>3, PositionedKept
  <2> QED BY Zenon, <2>1, <2>4 DEF BatchesChain
<1> QED BY Zenon, <1>1, <1>2, <1>3, <1>4

\* The log only grows, and what is committed with it.
LEMMA CommittedGrows ==
  ASSUME Types, Positioned, NEW c \in Callers, Acts(c)
  PROVE  /\ Committed \in Nat /\ Committed' \in Nat /\ Committed <= Committed'
         /\ ~Commit(c) => Committed' = Committed
         /\ Commit(c) => Committed < Committed'
<1>1. /\ log \in Seq(Ranges) /\ Types' /\ log' \in Seq(Ranges)
  <2>1. Types'
    BY Zenon, TypesAct
  <2> QED BY Zenon, <2>1 DEF Types
<1>2. Committed \in Nat /\ Committed' \in Nat
  <2>1. Committed \in 0..MaxOffset
    BY Zenon, <1>1, CommittedType
  <2>2. Committed' = IF log' = <<>> THEN 0 ELSE log'[Len(log')].to
    BY Zenon DEF Committed
  <2>3. CASE log' = <<>>
    BY <2>1, <2>2, <2>3, Constants
  <2>4. CASE log' # <<>>
    <3>1. log'[Len(log')] \in Ranges
      BY <1>1, <2>4
    <3> QED BY <2>1, <2>2, <2>4, <3>1, Constants DEF Ranges
  <2> QED BY Zenon, <2>3, <2>4
<1>3. CASE Commit(c)
  <2>1. PICK r \in planned : log' = Append(log, r)
    BY Zenon, <1>3 DEF Commit
  <2>2. r \in Ranges /\ r.from = Committed /\ r.from < r.to
    BY Zenon, <2>1 DEF Types, Positioned
  <2>3. Committed' = r.to
    BY Zenon, <1>1, <2>1, <2>2, Appended
  <2>4. Committed < Committed'
    BY Zenon, <2>2, <2>3
  <2> QED BY <1>2, <1>3, <2>4
<1>4. CASE ~Commit(c)
  <2>1. log' = log
    BY Zenon, <1>4 DEF Acts, Step, Bound, Check, Begin, Poll, Idle, Empty, Counted, Reach, Status, End,
                Tick, BatchFails, Command, disk
  <2>2. Committed' = Committed
    BY Zenon, <2>1 DEF Committed
  <2> QED BY <1>2, <1>4, <2>2
<1> QED BY Zenon, <1>3, <1>4

-----------------------------------------------------------------------------
(* At most one late batch *)

\* A caller that waits for the lock has begun no late batch: it saw the query active,
\* and a late batch is begun only once the query has stopped, for good.
Punctual ==
  \A c \in Callers : /\ late[c] <= 1 /\ (late[c] > 0 => ~active)
                     /\ at[c] = "wait" => late[c] = 0

LEMMA PunctualAct ==
  ASSUME Types, Punctual, NEW c \in Callers, Acts(c)
  PROVE  Punctual'
<1>1. ASSUME NEW d \in Callers, d # c
      PROVE  /\ late'[d] <= 1 /\ (late'[d] > 0 => ~active')
             /\ at'[d] = "wait" => late'[d] = 0
  BY Zenon, <1>1, Frame DEF Punctual
<1>2. late[c] \in Nat /\ late \in [Callers -> Nat] /\ active \in BOOLEAN
  BY Zenon DEF Types
<1>3. CASE Begin(c)
  <2>1. /\ active' = active /\ late[c] = 0 /\ late'[c] = IF active THEN late[c] ELSE late[c] + 1
    BY Zenon, <1>2, <1>3 DEF Begin, Began, Punctual
  <2>2. at'[c] = "poll"
    BY Zenon, <1>3, Goes DEF Begin, Places
  <2>3. /\ late'[c] <= 1 /\ (late'[c] > 0 => ~active') /\ (at'[c] = "wait" => late'[c] = 0)
    BY <2>1, <2>2
  <2> QED BY Zenon, <1>1, <2>3 DEF Punctual
<1>4. CASE Check(c)
  <2>1. active' = active /\ late' = late /\ Go(c, IF active THEN "wait" ELSE "empty")
    BY Zenon, <1>4 DEF Check
  <2>2. at'[c] = IF active THEN "wait" ELSE "empty"
    BY Zenon, <2>1 DEF Go, Types
  <2>3. active => late[c] = 0
    BY <1>2 DEF Punctual
  <2>4. /\ late'[c] <= 1 /\ (late'[c] > 0 => ~active') /\ (at'[c] = "wait" => late'[c] = 0)
    BY Zenon, <2>1, <2>2, <2>3 DEF Punctual
  <2> QED BY Zenon, <1>1, <2>4 DEF Punctual
<1>5. CASE ~Begin(c) /\ ~Check(c)
  <2>1. late' = late
    BY Zenon, <1>5 DEF Acts, Step, Bound, Commit, Poll, Idle, Empty, Counted, Reach, Status, End,
                Tick, BatchFails, Command
  <2>2. at'[c] # "wait"
    <3>1. PICK w \in Places \ {"wait"} : Go(c, w)
      BY Zenon, <1>5 DEF Acts, Step, Bound, Commit, Poll, Idle, Empty, Counted, Reach, Status, End,
                  Tick, BatchFails, Command, Return, Places
    <3> QED BY Zenon, <3>1, Goes
  <2>3. active' => active
    BY Zenon, Frame
  <2> QED BY Zenon, <1>1, <2>1, <2>2, <2>3 DEF Punctual
<1> QED BY Zenon, <1>3, <1>4, <1>5

-----------------------------------------------------------------------------
(* The batches of a query *)

Batches == Types /\ Positioned /\ BatchesChain /\ Punctual

\* Records arrive, the query is stopped, or nothing happens.
LEMMA QuietBatches ==
  ASSUME Batches, Arrive \/ Stop \/ UNCHANGED vars
  PROVE  /\ Batches'
         /\ UNCHANGED <<trigger, hasEnd, planned, log, at, lock, drain>>
         /\ avail \in Nat /\ avail' \in Nat /\ avail <= avail'
         /\ Committed' = Committed /\ Committed \in Nat
<1> USE DEF source, disk, vars
<1>1. /\ UNCHANGED <<trigger, hasEnd, pos, planned, log, at, lock, drain, left, failures, late>>
      /\ avail' \in {avail, avail + 1} /\ (active' => active)
  BY DEF Arrive, Stop
<1>2. avail \in Nat /\ avail' \in Nat /\ avail <= avail'
  BY <1>1, Constants DEF Batches, Types
<1>3. Types'
  <2>1. avail' \in 0..MaxOffset
    <3>1. avail \in 0..MaxOffset
      BY Zenon DEF Batches, Types
    <3>2. (avail < MaxOffset /\ avail' = avail + 1) \/ avail' = avail
      BY Zenon DEF Arrive, Stop
    <3> QED BY <3>1, <3>2, Constants
  <2>2. active' \in BOOLEAN /\ mishaps' \subseteq {"failed", "stopped", "blank"}
    BY Zenon DEF Batches, Types, Arrive, Stop
  <2> QED BY Zenon, <1>1, <2>1, <2>2 DEF Batches, Types
<1>4. Positioned'
  BY Zenon, <1>1, <1>2, PositionedKept DEF Batches, Types
<1>5. BatchesChain'
  BY Zenon, <1>1 DEF Batches, BatchesChain
<1>6. Punctual'
  BY Zenon, <1>1 DEF Batches, Punctual
<1>7. Committed' = Committed
  BY Zenon, <1>1 DEF Committed
<1>8. Committed \in Nat
  BY CommittedType, Constants DEF Batches, Types
<1> QED BY Zenon, <1>1, <1>2, <1>3, <1>4, <1>5, <1>6, <1>7, <1>8 DEF Batches

LEMMA BatchesAct ==
  ASSUME Batches, NEW c \in Callers, Acts(c)
  PROVE  Batches'
<1>1. Types'
  BY Zenon, TypesAct DEF Batches
<1>2. Positioned' /\ BatchesChain'
  BY Zenon, PositionedAct DEF Batches
<1>3. Punctual'
  BY Zenon, PunctualAct DEF Batches
<1> QED BY Zenon, <1>1, <1>2, <1>3 DEF Batches

LEMMA BatchesStep == Batches /\ [Next]_vars => Batches'
<1> SUFFICES ASSUME Batches, [Next]_vars PROVE Batches'
  BY Zenon
<1>1. ASSUME NEW c \in Callers, Acts(c) PROVE Batches'
  BY Zenon, <1>1, BatchesAct
<1>2. CASE Arrive \/ Stop \/ UNCHANGED vars
  BY Zenon, <1>2, QuietBatches
<1> QED BY Zenon, <1>1, <1>2, StepKinds

LEMMA BatchesInit == Init => Batches
<1> SUFFICES ASSUME Init PROVE Batches
  BY Zenon
<1>1. log = <<>> /\ Committed = 0
  BY Zenon DEF Init, Committed
<1>2. \A c \in Callers : at[c] = "rest" /\ drain[c] = NoDrain /\ late[c] = 0
  BY Zenon DEF Init
<1>3. Types
  <2>1. NoDrain \in DrainType
    BY Constants DEF NoDrain, DrainType
  <2>2. drain \in [Callers -> DrainType]
    BY Zenon, <2>1 DEF Init
  <2>3. at \in [Callers -> Places] /\ lock = {c \in Callers : at[c] \in InBatch}
    BY Zenon DEF Init, Places, InBatch
  <2> QED BY <2>2, <2>3, Constants DEF Init, Types, DrainType
<1>4. Positioned
  BY <1>1, <1>2 DEF Init, Positioned, InBatch
<1>5. BatchesChain
  BY <1>1 DEF BatchesChain
<1>6. Punctual
  BY <1>2 DEF Punctual
<1> QED BY Zenon, <1>3, <1>4, <1>5, <1>6 DEF Batches

\* For any number of callers, failures and stops: the committed batches follow one
\* another without a gap or an overlap (run_batch_inner).
THEOREM BatchesFollow == Spec => []BatchesChain
<1>1. Batches => BatchesChain
  BY Zenon DEF Batches
<1> QED BY <1>1, BatchesInit, BatchesStep, PTL DEF Spec

\* For any number of callers: after a stop or a failure each begins at most the one
\* batch it was waiting to run (run_batch, streaming stop).
THEOREM StopsAfterOne == Spec => []OneLateBatch
<1>1. Batches => OneLateBatch
  BY Zenon DEF Batches, Punctual, OneLateBatch
<1> QED BY <1>1, BatchesInit, BatchesStep, PTL DEF Spec

-----------------------------------------------------------------------------
(* What a drain counts *)

\* The arithmetic of a drain that is at w: each batch it counted committed something,
\* and after the first it begins another only below the boundary it found.
Tally(w, n, from, target, committed, end, e) ==
  /\ target <= end
  /\ n + from <= committed
  /\ w = "rows" => n + 1 + from <= committed
  /\ w \in Running => n < MaxDrainBatches
  /\ n <= MaxDrainBatches
  /\ e /\ n > 1 => n + from <= target
  /\ e /\ n > 0 /\ w \in Running => n + from < target

Counts(c) == Tally(at[c], drain[c].n, drain[c].from, drain[c].target, Committed, avail, hasEnd)

\* The phases of drain d of caller c, at w: it has its boundary once it looked, the
\* ticker drains nothing, and only a drain that has returned is ok.
Phase(c, w, d, e, t) ==
  /\ e /\ w = "bound" => d.n = 0
  /\ e /\ ~(c = Task /\ t = "ticker") /\ w \in (Running \ {"bound"}) \cup {"reach"}
       => d.boundary = {d.target}
  /\ ~e => d.boundary = {}
  /\ c = Task /\ (t = "ticker" \/ w = "rest") => d = NoDrain
  /\ w = "status" => c = Task /\ t = "ticker"
  /\ c = Task /\ t = "ticker" => w \notin {"bound", "reach"}
  /\ w \notin {"rest", "stop", "gone"} => d.ok = FALSE

Phases(c) == Phase(c, at[c], drain[c], hasEnd, trigger)

\* A tally outlives new commits and new records.
LEMMA TallyGrows ==
  ASSUME NEW w, NEW e, NEW n \in Nat, NEW from \in Nat, NEW target \in Nat,
         NEW k \in Nat, NEW end \in Nat, NEW kk \in Nat, NEW ends \in Nat,
         Tally(w, n, from, target, k, end, e), k <= kk, end <= ends
  PROVE  Tally(w, n, from, target, kk, ends, e)
BY DEF Tally

\* It outlives a move to a place not harder to be in.
LEMMA TallyMoves ==
  ASSUME NEW w, NEW u, NEW e, NEW n, NEW from, NEW target, NEW k, NEW end,
         Tally(w, n, from, target, k, end, e), u # "rows", u \in Running => w \in Running
  PROVE  Tally(u, n, from, target, k, end, e)
BY Zenon DEF Tally

\* A drain that has counted nothing.
LEMMA TallyOpens ==
  ASSUME NEW w, NEW e, NEW from \in Nat, NEW target \in Nat, NEW k \in Nat, NEW end \in Nat,
         w # "rows", from <= k, target <= end
  PROVE  Tally(w, 0, from, target, k, end, e)
BY Constants DEF Tally

\* Its batch has rows, and they are counted.
LEMMA TallyCounts ==
  ASSUME NEW e, NEW n \in Nat, NEW from \in Nat, NEW target \in Nat, NEW k \in Nat, NEW end \in Nat,
         Tally("rows", n, from, target, k, end, e)
  PROVE  Tally("reach", n + 1, from, target, k, end, e)
<1>1. "rows" \in Running /\ "reach" \notin Running
  BY Zenon DEF Running
<1> QED BY <1>1, Constants DEF Tally

\* The boundary is ahead: it begins another.
LEMMA TallyGoesOn ==
  ASSUME NEW u, NEW e, NEW n \in Nat, NEW from \in Nat, NEW target \in Nat, NEW k \in Nat,
         NEW end \in Nat, Tally("reach", n, from, target, k, end, e),
         u # "rows", n < MaxDrainBatches, e => n + from < target
  PROVE  Tally(u, n, from, target, k, end, e)
BY Zenon DEF Tally

\* A drain opens, and runs no batch that is not its own to count.
LEMMA PhaseOpens ==
  ASSUME NEW c, NEW e, NEW t, NEW w \in {"bound", "check"},
         (w = "check") <=> (c = Task /\ t = "ticker")
  PROVE  Phase(c, w, NoDrain, e, t)
<1>1. NoDrain.n = 0 /\ NoDrain.boundary = {} /\ NoDrain.ok = FALSE
  BY Zenon DEF NoDrain
<1> QED BY Zenon, <1>1 DEF Phase, Running

\* The numbers of a drain.
LEMMA Numbers ==
  ASSUME Types, NEW c \in Callers
  PROVE  /\ drain[c].n \in Nat /\ drain[c].from \in Nat /\ drain[c].target \in Nat
         /\ avail \in Nat /\ pos \in Nat /\ Committed \in Nat
<1>1. drain[c].n \in Nat /\ drain[c].from \in Nat /\ drain[c].target \in Nat
  BY Constants, SMTT(60) DEF Types
<1>2. avail \in Nat /\ pos \in Nat
  BY Constants DEF Types
<1>3. Committed \in Nat
  BY CommittedType, Constants DEF Types
<1> QED BY Zenon, <1>1, <1>2, <1>3

\* Steps of others, of the source and of the clock leave a drain as it was.
LEMMA DrainKept ==
  ASSUME Types, NEW c \in Callers, Counts(c), Phases(c),
         at'[c] = at[c], drain'[c] = drain[c], UNCHANGED <<hasEnd, trigger>>,
         Committed' \in Nat, Committed <= Committed', avail' \in Nat, avail <= avail'
  PROVE  Counts(c)' /\ Phases(c)'
<1>1. Phases(c)'
  BY Zenon DEF Phases
<1>2. /\ drain[c].n \in Nat /\ drain[c].from \in Nat /\ drain[c].target \in Nat
      /\ avail \in Nat /\ Committed \in Nat
  BY Zenon, Numbers
<1>3. Counts(c)'
  BY Zenon, <1>2, TallyGrows DEF Counts
<1> QED BY Zenon, <1>1, <1>3

\* A batch commits, and the drain hears of it.
LEMMA TallyCommits ==
  ASSUME NEW u \in {"empty", "rows"}, NEW e, NEW n \in Nat, NEW from \in Nat, NEW target \in Nat,
         NEW k \in Nat, NEW kk \in Nat, NEW end \in Nat,
         Tally("write", n, from, target, k, end, e), k < kk
  PROVE  Tally(u, n, from, target, kk, end, e)
<1>1. "write" \in Running
  BY Zenon DEF Running
<1> QED BY <1>1 DEF Tally

\* A drain moves on within its turn, or leaves it without a result.
LEMMA PhaseMoves ==
  ASSUME NEW c, NEW w, NEW d, NEW e, NEW t, NEW u, Phase(c, w, d, e, t),
         u \notin {"bound", "reach", "status"},
         u \in Running => w \in Running \ {"bound"},
         u = "rest" /\ c = Task => t = "ticker",
         u \notin {"rest", "stop", "gone"} => w \notin {"rest", "stop", "gone"}
  PROVE  Phase(c, u, d, e, t)
BY Zenon DEF Phase

\* The steps that leave the caller's drain alone.
LEMMA DrainWalks ==
  ASSUME Types, Positioned, NEW c \in Callers, Counts(c), Phases(c), Acts(c),
         Check(c) \/ Begin(c) \/ Idle(c) \/ Poll(c) \/ Commit(c) \/ BatchFails(c)
           \/ Status(c) \/ End(c)
  PROVE  Counts(c)' /\ Phases(c)'
<1> USE DEF source
<1>0. UNCHANGED <<hasEnd, trigger, avail>>
  BY Zenon, Frame
<1>1. drain' = drain
  BY Zenon DEF Check, Begin, Idle, Poll, Commit, BatchFails, Status, End
<1>2. CASE Commit(c)
  <2>1. PICK w \in {"empty", "rows"} : Go(c, w)
    BY Zenon, <1>2 DEF Commit
  <2>2. at'[c] = w /\ at[c] = "write"
    BY Zenon, <1>2, <2>1, Goes DEF Places, Commit
  <2>3. Committed < Committed'
    BY Zenon, <1>2, CommittedGrows
  <2>4. /\ drain[c].n \in Nat /\ drain[c].from \in Nat /\ drain[c].target \in Nat
        /\ Committed \in Nat /\ Committed' \in Nat /\ avail \in Nat
    BY Zenon, Numbers, CommittedGrows
  <2>5. Counts(c)'
    BY Zenon, <1>0, <1>1, <2>2, <2>3, <2>4, TallyCommits DEF Counts
  <2>6. /\ w \notin {"bound", "reach", "status", "rest", "stop", "gone"}
        /\ "write" \in Running \ {"bound"} /\ "write" \notin {"rest", "stop", "gone"}
    BY Zenon DEF Running
  <2>7. Phases(c)'
    BY Zenon, <1>0, <1>1, <2>2, <2>6, PhaseMoves DEF Phases
  <2> QED BY Zenon, <2>5, <2>7
<1>3. CASE ~Commit(c)
  <2>1. Committed' = Committed
    BY Zenon, <1>3, CommittedGrows
  <2>2. PICK w \in Places : /\ Go(c, w) /\ w # "rows"
                            /\ w \in Running => at[c] \in Running \ {"bound"}
                            /\ w \notin {"bound", "reach", "status"}
                            /\ w = "rest" => Ticks(c) \/ c # Task
                            /\ w \notin {"rest", "stop", "gone"} =>
                                 at[c] \notin {"rest", "stop", "gone"}
    <3>1. CASE Check(c)
      BY Zenon, <3>1 DEF Check, Running, Places
    <3>2. CASE Begin(c)
      BY Zenon, <3>2 DEF Begin, Running, Places
    <3>3. CASE Idle(c)
      BY Zenon, <3>3 DEF Idle, Running, Places
    <3>4. CASE Poll(c)
      BY Zenon, <3>4 DEF Poll, Running, Places
    <3>5. CASE BatchFails(c)
      BY Zenon, <3>5 DEF BatchFails, Running, Places
    <3>6. CASE Status(c)
      BY Zenon, <3>6 DEF Status, Running, Places, Phases, Phase, Ticks
    <3>7. CASE End(c)
      BY Zenon, <3>7 DEF End, Running, Places
    <3> QED BY Zenon, <1>3, <3>1, <3>2, <3>3, <3>4, <3>5, <3>6, <3>7
  <2>3. at'[c] = w
    BY Zenon, <2>2, Goes
  <2>4. Counts(c)'
    BY Zenon, <1>0, <1>1, <2>1, <2>2, <2>3, TallyMoves DEF Counts
  <2>5. w = "rest" /\ c = Task => trigger = "ticker"
    BY Zenon, <2>2 DEF Ticks
  <2>6. Phases(c)'
    BY Zenon, <1>0, <1>1, <2>2, <2>3, <2>5, PhaseMoves DEF Phases
  <2> QED BY Zenon, <2>4, <2>6
<1> QED BY Zenon, <1>2, <1>3

\* A drain begins.
LEMMA DrainBegins ==
  ASSUME Types, Positioned, NEW c \in Callers, Counts(c), Phases(c), Acts(c),
         Tick(c) \/ Command(c) \/ Bound(c)
  PROVE  Counts(c)' /\ Phases(c)'
<1> USE DEF source
<1>0. UNCHANGED <<hasEnd, trigger, avail>>
  BY Zenon, Frame
<1>1. Committed' = Committed
  <2>1. log' = log
    BY Zenon DEF Tick, Command, Bound, disk
  <2> QED BY Zenon, <2>1 DEF Committed
<1>2. /\ drain[c].n \in Nat /\ drain[c].from \in Nat /\ drain[c].target \in Nat
      /\ avail \in Nat /\ Committed \in Nat
  BY Zenon, Numbers
<1>3. ASSUME drain'[c] = NoDrain, at'[c] \in {"bound", "check"},
             at'[c] = "check" <=> Ticks(c)
      PROVE  Counts(c)' /\ Phases(c)'
  <2>1. at'[c] # "rows" /\ 0 \in Nat /\ 0 <= Committed /\ 0 <= avail
    BY <1>2, <1>3
  <2>2. NoDrain.n = 0 /\ NoDrain.from = 0 /\ NoDrain.target = 0
    BY Zenon DEF NoDrain
  <2>3. Counts(c)'
    BY <1>0, <1>1, <1>2, <1>3, <2>1, <2>2, TallyOpens DEF Counts
  <2>4. Phases(c)'
    BY Zenon, <1>0, <1>3, PhaseOpens DEF Phases, Ticks
  <2> QED BY Zenon, <2>3, <2>4
<1>4. CASE Tick(c)
  <2>1. drain' = drain /\ c = Task /\ at[c] = "rest"
        /\ Go(c, IF trigger = "ticker" THEN "check" ELSE "bound")
    BY Zenon, <1>4 DEF Tick
  <2>2. drain[c] = NoDrain
    BY Zenon, <2>1 DEF Phases, Phase
  <2>3. at'[c] = IF trigger = "ticker" THEN "check" ELSE "bound"
    BY Zenon, <2>1 DEF Go, Types
  <2>4. at'[c] \in {"bound", "check"} /\ (at'[c] = "check" <=> Ticks(c))
    BY Zenon, <2>1, <2>3 DEF Ticks
  <2> QED BY Zenon, <1>3, <2>1, <2>2, <2>4
<1>5. CASE Command(c)
  <2>1. c # Task /\ Go(c, "bound") /\ drain' = [drain EXCEPT ![c] = NoDrain]
    BY Zenon, <1>5 DEF Command
  <2>2. at'[c] = "bound" /\ drain'[c] = NoDrain
    BY Zenon, <2>1 DEF Go, Types
  <2> QED BY Zenon, <1>3, <2>1, <2>2 DEF Ticks
<1>6. CASE Bound(c)
  <2>1. at[c] = "bound" /\ at'[c] = "check"
    BY Zenon, <1>6, Goes DEF Bound, Places
  <2>2. /\ drain'[c].boundary = IF hasEnd THEN {avail} ELSE {}
        /\ drain'[c].target = IF drain[c].n = 0 THEN avail ELSE drain[c].target
        /\ drain'[c].from = IF drain[c].n = 0 THEN Committed ELSE drain[c].from
        /\ drain'[c].n = drain[c].n /\ drain'[c].ok = drain[c].ok
    BY Zenon, <1>6, Bounded
  <2>3. Counts(c)'
    <3>1. CASE drain[c].n = 0
      <4>1. drain'[c].n = 0 /\ drain'[c].target = avail /\ drain'[c].from = Committed
        BY Zenon, <2>2, <3>1
      <4>2. "check" # "rows" /\ Committed <= Committed /\ avail <= avail
        BY <1>2
      <4> QED BY Zenon, <1>0, <1>1, <1>2, <2>1, <4>1, <4>2, TallyOpens DEF Counts
    <3>2. CASE drain[c].n # 0
      <4>1. /\ drain'[c].n = drain[c].n /\ drain'[c].target = drain[c].target
            /\ drain'[c].from = drain[c].from
        BY Zenon, <2>2, <3>2
      <4>2. "check" # "rows" /\ "bound" \in Running
        BY Zenon DEF Running
      <4> QED BY Zenon, <1>0, <1>1, <2>1, <4>1, <4>2, TallyMoves DEF Counts
    <3> QED BY Zenon, <3>1, <3>2
  <2>4. /\ hasEnd => drain[c].n = 0
        /\ ~(c = Task /\ trigger = "ticker") /\ drain[c].ok = FALSE
    BY Zenon, <2>1 DEF Phases, Phase
  <2>5. /\ hasEnd => drain'[c].boundary = {drain'[c].target}
        /\ ~hasEnd => drain'[c].boundary = {}
    BY Zenon, <2>2, <2>4
  <2>6. Phases(c)'
    BY Zenon, <1>0, <2>1, <2>2, <2>4, <2>5 DEF Phases, Phase
  <2> QED BY Zenon, <2>3, <2>6
<1> QED BY Zenon, <1>4, <1>5, <1>6

\* A drain returns: its caller rests, or stops the query.
LEMMA PhaseReturns ==
  ASSUME NEW c, NEW w, NEW d, NEW e, NEW t, NEW u, NEW f, Phase(c, w, d, e, t),
         u = IF c = Task THEN "stop" ELSE "rest", f.boundary = d.boundary,
         ~(c = Task /\ t = "ticker")
  PROVE  Phase(c, u, f, e, t)
BY Zenon DEF Phase, Running

\* A drain counts a batch, goes on or returns.
LEMMA DrainEnds ==
  ASSUME Types, Positioned, NEW c \in Callers, Counts(c), Phases(c), Acts(c),
         Empty(c) \/ Counted(c) \/ Reach(c)
  PROVE  Counts(c)' /\ Phases(c)'
<1> USE DEF source
<1>0. UNCHANGED <<hasEnd, trigger, avail>>
  BY Zenon, Frame
<1>1. Committed' = Committed
  <2>1. log' = log
    BY Zenon DEF Empty, Counted, Reach, disk
  <2> QED BY Zenon, <2>1 DEF Committed
<1>2. /\ drain[c].n \in Nat /\ drain[c].from \in Nat /\ drain[c].target \in Nat
      /\ pos \in Nat /\ Committed \in Nat /\ avail \in Nat
  BY Zenon, Numbers
<1>3. ASSUME Return(c), ~Ticks(c) PROVE Counts(c)' /\ Phases(c)'
  <2>1. /\ drain'[c].n = drain[c].n /\ drain'[c].boundary = drain[c].boundary
        /\ drain'[c].target = drain[c].target /\ drain'[c].from = drain[c].from
    BY Zenon, <1>3, Returned
  <2>2. at'[c] = IF c = Task THEN "stop" ELSE "rest"
    BY Zenon, <1>3 DEF Return, Go, Types
  <2>3. at'[c] # "rows" /\ at'[c] \notin Running
    BY Zenon, <2>2 DEF Running
  <2>4. Counts(c)'
    BY Zenon, <1>0, <1>1, <2>1, <2>3, TallyMoves DEF Counts
  <2>5. Phases(c)'
    BY Zenon, <1>0, <1>3, <2>1, <2>2, PhaseReturns DEF Phases, Ticks
  <2> QED BY Zenon, <2>4, <2>5
<1>4. ASSUME Ticks(c), Go(c, "status"), drain' = drain, at[c] \in {"rows", "empty"}
      PROVE  Counts(c)' /\ Phases(c)'
  <2>1. at'[c] = "status" /\ "status" # "rows" /\ "status" \notin Running
    BY Zenon, <1>4, Goes DEF Places, Running
  <2>2. Counts(c)'
    BY Zenon, <1>0, <1>1, <1>4, <2>1, TallyMoves DEF Counts
  <2>3. /\ drain'[c] = NoDrain /\ c = Task /\ trigger = "ticker"
        /\ drain'[c].ok = FALSE /\ drain'[c].boundary = {}
    BY <1>4 DEF Phases, Phase, Ticks, NoDrain
  <2>4. Phases(c)'
    BY Zenon, <1>0, <2>1, <2>3 DEF Phases, Phase
  <2> QED BY Zenon, <2>2, <2>4
<1>5. CASE Empty(c)
  BY Zenon, <1>3, <1>4, <1>5 DEF Empty
<1>6. CASE Counted(c)
  <2>1. CASE Ticks(c)
    BY Zenon, <1>4, <1>6, <2>1 DEF Counted
  <2>2. CASE ~Ticks(c)
    <3>1. at[c] = "rows" /\ Go(c, "reach") /\ drain' = [drain EXCEPT ![c].n = @ + 1]
      BY Zenon, <1>6, <2>2 DEF Counted
    <3>2. at'[c] = "reach"
      BY Zenon, <3>1, Goes DEF Places
    <3>3. /\ drain'[c].n = drain[c].n + 1 /\ drain'[c].boundary = drain[c].boundary
          /\ drain'[c].target = drain[c].target /\ drain'[c].from = drain[c].from
          /\ drain'[c].ok = drain[c].ok
      BY Zenon, <3>1, Tallied
    <3>4. Counts(c)'
      BY <1>0, <1>1, <1>2, <3>1, <3>2, <3>3, TallyCounts DEF Counts
    <3>5. /\ hasEnd => drain[c].boundary = {drain[c].target}
          /\ ~hasEnd => drain[c].boundary = {}
          /\ drain[c].ok = FALSE
      BY Zenon, <2>2, <3>1 DEF Phases, Phase, Running, Ticks
    <3>6. Phases(c)'
      BY Zenon, <1>0, <2>2, <3>2, <3>3, <3>5 DEF Phases, Phase, Ticks
    <3> QED BY Zenon, <3>4, <3>6
  <2> QED BY Zenon, <2>1, <2>2
<1>7. CASE Reach(c)
  <2>0. at[c] = "reach" /\ ~Ticks(c)
    BY Zenon, <1>7 DEF Reach, Phases, Phase, Ticks
  <2>1. CASE Reached(c) \/ drain[c].n = MaxDrainBatches
    BY Zenon, <1>3, <1>7, <2>0, <2>1 DEF Reach
  <2>2. CASE ~(Reached(c) \/ drain[c].n = MaxDrainBatches)
    <3>1. Go(c, IF drain[c].boundary = {} THEN "bound" ELSE "check") /\ drain' = drain
      BY Zenon, <1>7, <2>2 DEF Reach
    <3>2. at'[c] = IF drain[c].boundary = {} THEN "bound" ELSE "check"
      BY Zenon, <3>1 DEF Go, Types
    <3>3. drain[c].n <= MaxDrainBatches /\ drain[c].n + drain[c].from <= Committed
      BY Zenon DEF Counts, Tally
    <3>4. drain[c].n < MaxDrainBatches
      BY <1>2, <2>2, <3>3, Constants
    <3>5. /\ hasEnd => drain[c].boundary = {drain[c].target}
          /\ ~hasEnd => drain[c].boundary = {}
          /\ drain[c].ok = FALSE
      BY Zenon, <2>0 DEF Phases, Phase, Ticks
    <3>6. hasEnd => pos < drain[c].target
      BY <1>2, <2>2, <3>5 DEF Reached
    <3>7. Committed <= pos
      BY <1>2 DEF Positioned
    <3>8. hasEnd => drain[c].n + drain[c].from < drain[c].target
      BY <1>2, <3>3, <3>6, <3>7
    <3>9. at'[c] # "rows"
      BY Zenon, <3>2
    <3>10. Counts(c)'
      BY Zenon, <1>0, <1>1, <1>2, <2>0, <3>1, <3>4, <3>8, <3>9, TallyGoesOn DEF Counts
    <3>11. at'[c] = IF hasEnd THEN "check" ELSE "bound"
      BY Zenon, <3>2, <3>5
    <3>12. Phases(c)'
      BY Zenon, <1>0, <2>0, <3>1, <3>5, <3>11 DEF Phases, Phase, Ticks
    <3> QED BY Zenon, <3>10, <3>12
  <2> QED BY Zenon, <2>1, <2>2
<1> QED BY Zenon, <1>5, <1>6, <1>7

LEMMA DrainAct ==
  ASSUME Types, Positioned, \A d \in Callers : Counts(d) /\ Phases(d),
         NEW c \in Callers, Acts(c)
  PROVE  \A d \in Callers : Counts(d)' /\ Phases(d)'
<1>1. Counts(c)' /\ Phases(c)'
  <2>1. Counts(c) /\ Phases(c)
    BY Zenon
  <2>2. \/ Check(c) \/ Begin(c) \/ Idle(c) \/ Poll(c) \/ Commit(c) \/ BatchFails(c)
             \/ Status(c) \/ End(c)
        \/ Tick(c) \/ Command(c) \/ Bound(c)
        \/ Empty(c) \/ Counted(c) \/ Reach(c)
    BY Zenon DEF Acts, Step
  <2> QED BY Zenon, <2>1, <2>2, DrainWalks, DrainBegins, DrainEnds
<1>2. ASSUME NEW d \in Callers, d # c PROVE Counts(d)' /\ Phases(d)'
  <2>1. /\ at'[d] = at[d] /\ drain'[d] = drain[d] /\ UNCHANGED <<hasEnd, trigger, avail>>
    BY Zenon, <1>2, Frame DEF source
  <2>2. Committed' \in Nat /\ Committed <= Committed'
    BY Zenon, CommittedGrows
  <2>3. avail' \in Nat /\ avail <= avail'
    BY <2>1, Numbers
  <2> QED BY Zenon, <2>1, <2>2, <2>3, DrainKept
<1> QED BY Zenon, <1>1, <1>2

-----------------------------------------------------------------------------
(* The inductive invariant, and what it gives *)

IInv == Batches /\ \A c \in Callers : Counts(c) /\ Phases(c)

LEMMA IInvStep == IInv /\ [Next]_vars => IInv'
<1> SUFFICES ASSUME IInv, [Next]_vars PROVE IInv'
  BY Zenon
<1>0. Batches /\ Types /\ Positioned /\ Batches'
  BY Zenon, BatchesStep DEF IInv, Batches
<1>1. ASSUME NEW c \in Callers, Acts(c) PROVE IInv'
  <2>1. \A d \in Callers : Counts(d)' /\ Phases(d)'
    BY Zenon, <1>0, <1>1, DrainAct DEF IInv
  <2> QED BY Zenon, <1>0, <2>1 DEF IInv
<1>2. CASE Arrive \/ Stop \/ UNCHANGED vars
  <2>1. /\ UNCHANGED <<trigger, hasEnd, at, drain>>
        /\ avail' \in Nat /\ avail <= avail'
        /\ Committed' = Committed /\ Committed \in Nat
    BY Zenon, <1>0, <1>2, QuietBatches
  <2>2. ASSUME NEW c \in Callers PROVE Counts(c)' /\ Phases(c)'
    <3>1. Counts(c) /\ Phases(c) /\ Committed <= Committed'
      BY <2>1 DEF IInv
    <3> QED BY Zenon, <1>0, <2>1, <3>1, DrainKept
  <2> QED BY Zenon, <1>0, <2>2 DEF IInv
<1> QED BY Zenon, <1>1, <1>2, StepKinds

LEMMA IInvInit == Init => IInv
<1> SUFFICES ASSUME Init PROVE IInv
  BY Zenon
<1>1. log = <<>> /\ Committed = 0 /\ avail = 0
  BY Zenon DEF Init, Committed
<1>2. \A c \in Callers : at[c] = "rest" /\ drain[c] = NoDrain
  BY Zenon DEF Init
<1>3. ASSUME NEW c \in Callers PROVE Counts(c) /\ Phases(c)
  <2>1. NoDrain.n = 0 /\ NoDrain.from = 0 /\ NoDrain.target = 0 /\ NoDrain.boundary = {}
    BY Zenon DEF NoDrain
  <2>2. Counts(c)
    BY <1>1, <1>2, <2>1, TallyOpens DEF Counts
  <2>3. Phases(c)
    BY Zenon, <1>2, <2>1 DEF Phases, Phase, Running
  <2> QED BY Zenon, <2>2, <2>3
<1> QED BY Zenon, <1>3, BatchesInit DEF IInv

LEMMA IInvType == IInv => TypeOK
<1> SUFFICES ASSUME IInv PROVE TypeOK
  BY Zenon
<1>1. Types /\ Positioned /\ \A c \in Callers : Counts(c)
  BY Zenon DEF IInv, Batches
<1>2. pos \in 0..avail
  <2>1. avail \in Nat /\ pos \in Nat /\ Committed \in Nat
    BY <1>1, CommittedType, Constants DEF Types
  <2> QED BY <1>1, <2>1 DEF Positioned
<1>3. \A r, q \in planned : r = q
  BY Zenon, <1>1 DEF Positioned
<1>4. drain \in [Callers -> [boundary : SUBSET (0..MaxOffset), n : 0..MaxDrainBatches,
                             target : 0..MaxOffset, from : 0..MaxOffset, ok : BOOLEAN]]
  <2>1. \A c \in Callers : drain[c] \in DrainType /\ drain[c].n \in 0..MaxDrainBatches
    BY <1>1, Constants DEF Types, Counts, Tally, DrainType
  <2> QED BY Zenon, <1>1, <2>1 DEF Types, DrainType
<1>5. lock \subseteq Callers /\ lock = {c \in Callers : at[c] \in {"poll", "write"}}
  BY Zenon, <1>1 DEF Types, InBatch
<1> QED BY Zenon, <1>1, <1>2, <1>3, <1>4, <1>5 DEF Types, TypeOK

\* For any number of callers: every variable keeps its type, so one range is planned
\* at most, the runtime lock is held by whoever is in a batch, and a drain runs no more
\* than MAX_DRAIN_BATCHES (run_batch_inner, process_all_available).
THEOREM TypeCorrect == Spec => []TypeOK
BY IInvInit, IInvStep, IInvType, PTL DEF Spec

\* For any source and however fast records arrive: a drain with a boundary runs no
\* batch above it but the first (process_all_available, available_now_boundary).
THEOREM DrainsAreBounded == Spec => []DrainBounded
<1>1. IInv => DrainBounded
  <2> SUFFICES ASSUME IInv, NEW c \in Callers, hasEnd, drain[c].n > 1
               PROVE  drain[c].n <= drain[c].target - drain[c].from
    BY Zenon DEF DrainBounded
  <2>1. Types /\ Counts(c)
    BY Zenon DEF IInv, Batches
  <2>2. drain[c].n \in Nat /\ drain[c].from \in Nat /\ drain[c].target \in Nat
    BY Zenon, <2>1, Numbers
  <2>3. drain[c].n + drain[c].from <= drain[c].target
    BY Zenon, <2>1 DEF Counts, Tally
  <2> QED BY <2>2, <2>3
<1> QED BY <1>1, IInvInit, IInvStep, PTL DEF Spec

-----------------------------------------------------------------------------
(* A drain that returns has covered what it found *)

\* Without a mishap a range is planned only inside a batch, the query is active, and
\* a drain about to return, or returned, has committed all it found.
Covered ==
  /\ ~active => "stopped" \in mishaps
  /\ mishaps = {} /\ planned # {} => lock # {}
  /\ \A c \in Callers : mishaps = {} /\ (drain[c].ok \/ at[c] = "empty")
       => drain[c].target <= Committed

\* What a drain covered stays covered; it is ok only if it was or returns now.
LEMMA CoveredAct ==
  ASSUME MaxDrainBatches > MaxOffset, IInv, Covered, NEW c \in Callers, Acts(c)
  PROVE  Covered'
<1> USE DEF source, disk
<1>0. /\ Types /\ Positioned /\ Counts(c) /\ Phases(c)
      /\ \A d \in Callers : drain[d].target \in Nat
      /\ Committed \in 0..MaxOffset /\ pos \in Nat /\ avail \in Nat /\ MaxOffset \in Nat
  <2>1. Types /\ Positioned /\ Counts(c) /\ Phases(c)
    BY Zenon DEF IInv, Batches
  <2> QED BY Zenon, <2>1, Numbers, CommittedType, Constants DEF Types
<1>1. Committed \in Nat /\ Committed' \in Nat /\ Committed <= Committed'
  BY Zenon, <1>0, CommittedGrows
<1>2. /\ mishaps \subseteq mishaps'
      /\ \A d \in Callers \ {c} : at'[d] = at[d] /\ drain'[d] = drain[d]
  BY Zenon, <1>0, Frame
<1>3. ASSUME NEW d \in Callers, d # c, mishaps' = {}, drain'[d].ok \/ at'[d] = "empty"
      PROVE  drain'[d].target <= Committed'
  <2>1. drain[d].target <= Committed
    BY Zenon, <1>2, <1>3 DEF Covered
  <2> QED BY <1>0, <1>1, <1>2, <1>3, <2>1
<1>4. ~active' => "stopped" \in mishaps'
  <2>1. CASE End(c)
    BY Zenon, <2>1 DEF End
  <2>2. CASE ~End(c)
    <3>1. active' = active
      BY Zenon, <2>2 DEF Acts, Step, Bound, Check, Begin, Idle, Poll, Commit, Empty, Counted, Reach,
                  Status, Tick, BatchFails, Command
    <3> QED BY Zenon, <1>2, <3>1 DEF Covered
  <2> QED BY Zenon, <2>1, <2>2
<1>5. mishaps' = {} /\ planned' # {} => lock' # {}
  <2>1. CASE Begin(c) \/ Commit(c) \/ BatchFails(c)
    BY Zenon, <2>1 DEF Begin, Commit, BatchFails
  <2>2. CASE ~(Begin(c) \/ Commit(c) \/ BatchFails(c))
    <3>1. UNCHANGED <<planned, lock>>
      BY Zenon, <2>2 DEF Acts, Step, Bound, Check, Idle, Poll, Empty, Counted, Reach,
                  Status, End, Tick, Command
    <3> QED BY Zenon, <1>2, <3>1 DEF Covered
  <2> QED BY Zenon, <2>1, <2>2
<1>6. ASSUME mishaps' = {}, drain'[c].ok \/ at'[c] = "empty"
      PROVE  drain'[c].target <= Committed'
  <2>0. mishaps = {} /\ active
    BY Zenon, <1>2, <1>6 DEF Covered
  <2>1. ASSUME drain'[c].target = drain[c].target, drain[c].target <= Committed
        PROVE  drain'[c].target <= Committed'
    BY <1>0, <1>1, <2>1
  <2>2. ASSUME drain'[c].target = drain[c].target, drain'[c].ok = drain[c].ok,
               at'[c] # "empty"
        PROVE  drain'[c].target <= Committed'
    BY Zenon, <1>6, <2>0, <2>1, <2>2 DEF Covered
  <2>3. CASE Empty(c)
    <3>1. drain'[c].target = drain[c].target
      BY Zenon, <1>0, <2>3, Returned DEF Empty
    <3> QED BY Zenon, <2>0, <2>1, <2>3, <3>1 DEF Empty, Covered
  <2>4. CASE Reach(c)
    <3>1. CASE Reached(c) \/ drain[c].n = MaxDrainBatches
      <4>1. drain'[c].target = drain[c].target
        BY Zenon, <1>0, <2>4, <3>1, Returned DEF Reach
      <4>2. planned = {} /\ pos = Committed /\ at[c] = "reach"
        BY Zenon, <1>0, <2>0, <2>4 DEF Reach, Covered, Positioned
      <4>3. drain[c].n # MaxDrainBatches
        <5>1. drain[c].n + drain[c].from <= Committed
          BY Zenon, <1>0 DEF Counts, Tally
        <5>2. drain[c].n \in Nat /\ drain[c].from \in Nat
          BY Zenon, <1>0, Numbers
        <5> QED BY <1>0, <5>1, <5>2, Constants
      <4>4. PICK b \in drain[c].boundary : pos >= b
        BY Zenon, <3>1, <4>3 DEF Reached
      <4>5. b = drain[c].target
        <5>1. hasEnd /\ ~Ticks(c)
          BY Zenon, <1>0, <4>2, <4>4 DEF Phases, Phase, Ticks, Types
        <5> QED BY Zenon, <1>0, <4>2, <4>4, <5>1 DEF Phases, Phase, Ticks
      <4> QED BY Zenon, <1>0, <2>1, <4>1, <4>2, <4>4, <4>5
    <3>2. CASE ~(Reached(c) \/ drain[c].n = MaxDrainBatches)
      <4>1. drain' = drain /\ at'[c] \in {"bound", "check"}
        BY Zenon, <1>0, <2>4, <3>2 DEF Reach, Go, Types
      <4> QED BY Zenon, <2>2, <4>1
    <3> QED BY Zenon, <3>1, <3>2
  <2>5. CASE Counted(c)
    <3>1. at'[c] \in {"status", "reach"}
      BY Zenon, <1>0, <2>5 DEF Counted, Go, Types
    <3>2. drain'[c].target = drain[c].target /\ drain'[c].ok = drain[c].ok
      BY Zenon, <1>0, <2>5, Tallied DEF Counted
    <3> QED BY Zenon, <2>2, <3>1, <3>2
  <2>6. CASE Bound(c)
    <3>1. at'[c] = "check" /\ drain'[c].ok = drain[c].ok
      BY Zenon, <1>0, <2>6, Bounded DEF Bound, Go, Types
    <3>2. drain[c].ok = FALSE
      BY Zenon, <1>0, <2>6 DEF Bound, Phases, Phase, Ticks
    <3> QED BY Zenon, <1>6, <3>1, <3>2
  <2>7. CASE Command(c)
    <3>1. at'[c] = "bound" /\ drain'[c] = NoDrain
      BY Zenon, <1>0, <2>7 DEF Command, Go, Types
    <3>2. at'[c] # "empty" /\ drain'[c].ok = FALSE
      BY <3>1 DEF NoDrain
    <3> QED BY Zenon, <1>6, <3>2
  <2>8. CASE Idle(c)
    <3>1. drain' = drain /\ avail = pos /\ planned = {}
      BY Zenon, <2>8 DEF Idle
    <3>2. drain[c].target <= avail /\ pos = Committed
      BY Zenon, <1>0, <3>1 DEF Counts, Tally, Positioned
    <3> QED BY Zenon, <2>1, <3>1, <3>2
  <2>9. CASE Commit(c)
    <3>1. PICK r \in planned :
            /\ Go(c, IF Rows(r) = {} THEN "empty" ELSE "rows")
            /\ mishaps' = mishaps \cup IF Rows(r) = {} THEN {"blank"} ELSE {}
      BY Zenon, <2>9 DEF Commit
    <3>2. Rows(r) # {}
      BY Zenon, <1>6, <3>1
    <3>3. at'[c] = "rows" /\ drain' = drain
      BY Zenon, <1>0, <2>9, <3>1, <3>2 DEF Commit, Go, Types
    <3> QED BY Zenon, <2>2, <3>3
  <2>10. CASE BatchFails(c) \/ End(c)
    BY ZenonT(30), <1>6, <2>10 DEF BatchFails, End
  <2>11. CASE Check(c)
    <3>1. drain' = drain /\ at'[c] = "wait"
      BY Zenon, <1>0, <2>0, <2>11 DEF Check, Go, Types
    <3> QED BY Zenon, <2>2, <3>1
  <2>12. CASE Begin(c) \/ Poll(c) \/ Status(c) \/ Tick(c)
    <3>1. drain' = drain /\ at'[c] # "empty"
      BY Zenon, <1>0, <2>12 DEF Begin, Poll, Status, Tick, Go, Types
    <3> QED BY Zenon, <2>2, <3>1
  <2> QED BY Zenon, <2>3, <2>4, <2>5, <2>6, <2>7, <2>8, <2>9, <2>10, <2>11, <2>12 DEF Acts, Step
<1> QED BY Zenon, <1>3, <1>4, <1>5, <1>6 DEF Covered

LEMMA CoveredStep ==
  ASSUME MaxDrainBatches > MaxOffset
  PROVE  IInv /\ Covered /\ [Next]_vars => Covered'
<1> SUFFICES ASSUME IInv, Covered, [Next]_vars PROVE Covered'
  BY Zenon
<1>1. ASSUME NEW c \in Callers, Acts(c) PROVE Covered'
  BY Zenon, <1>1, CoveredAct
<1>2. CASE Stop
  BY ZenonT(30), <1>2 DEF Stop, Covered
<1>3. CASE Arrive \/ UNCHANGED vars
  <2>1. UNCHANGED <<active, mishaps, planned, lock, at, drain, log>>
    BY Zenon, <1>3 DEF Arrive, vars, disk
  <2> QED BY Zenon, <2>1 DEF Covered, Committed
<1> QED BY Zenon, <1>1, <1>2, <1>3, StepKinds

\* Where MAX_DRAIN_BATCHES exceeds what the source ever holds: a drain that returns Ok
\* has committed all it found, unless a batch failed, the query was stopped or a batch
\* had no row (process_all_available).
THEOREM DrainsCover == ASSUME MaxDrainBatches > MaxOffset PROVE Spec => []DrainCovers
<1>1. Init => IInv /\ Covered
  <2> SUFFICES ASSUME Init PROVE Covered
    BY Zenon, IInvInit
  <2> QED BY Zenon DEF Init, Covered, NoDrain
<1>2. IInv /\ Covered /\ [Next]_vars => (IInv /\ Covered)'
  BY Zenon, IInvStep, CoveredStep
<1>3. Covered => DrainCovers
  BY Zenon DEF Covered, DrainCovers
<1> QED BY <1>1, <1>2, <1>3, PTL DEF Spec

=============================================================================
