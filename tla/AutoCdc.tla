------------------------------ MODULE AutoCdc ------------------------------
(***************************************************************************)
(* The SCD type 1 merge of an AUTO CDC flow (auto_cdc.rs): the rows of a   *)
(* micro-batch are merged by key into the whole target, the largest        *)
(* sequence value winning.  A table maps each key to its row; a row is the *)
(* sequence value stored with it and its contents, here the number of the  *)
(* transaction that wrote them.                                            *)
(***************************************************************************)
EXTENDS Naturals, FiniteSetsExt

Absent == [seq |-> 0, val |-> 0]     \* no row; sequence values start at 1

\* __cdc_trunc_at: the largest sequence value that truncated, 0 for NULL.
TruncAt(batch) == Max({0} \cup {e.seq : e \in {x \in batch : x.op = "T"}})

\* __cdc_latest: the row of a key with the largest sequence value after the
\* truncate, a delete first among equals; the empty set when there is none.
Latest(batch, k) ==
  LET of  == {e \in batch : e.op # "T" /\ e.key = k /\ e.seq > TruncAt(batch)}
      top == {e \in of : \A f \in of : f.seq <= e.seq}
  IN  IF \E e \in top : e.op = "D" THEN {e \in top : e.op = "D"} ELSE top

\* __cdc_live: the target row, unless a truncate of this batch is newer.
Live(batch, row) == IF row.seq > TruncAt(batch) THEN row ELSE Absent

\* __cdc_kept and __cdc_applied for one key: a batch row supersedes a live
\* target row only with a strictly larger sequence value; a delete leaves no row.
MergeRow(batch, k, row) ==
  LET live == Live(batch, row)
      newer == {e \in Latest(batch, k) : e.seq > live.seq}
  IN  IF newer = {} THEN live
      ELSE LET b == CHOOSE e \in newer : TRUE
           IN  IF b.op = "D" THEN Absent ELSE [seq |-> b.seq, val |-> b.val]

\* CdcMerge::apply
Merge(batch, table) == [k \in DOMAIN table |-> MergeRow(batch, k, table[k])]
=============================================================================
