--------------------------------- MODULE Aqe ---------------------------------
(* Adaptive coalescing of shuffle reads (crates/oxidant-execution/src/aqe.rs)  *)
(*                                                                             *)
(* After a producer stage the driver samples how many rows each of its np      *)
(* buckets holds and may choose a read modulus m < np: the consumer stage then *)
(* runs m tasks and task p pulls the buckets p, p + m, p + 2m, ...             *)
EXTENDS Integers, FiniteSetsExt, Functions

Buckets(np) == 0..(np - 1)

(* Mutant: a plain range of m buckets, which orphans those from m on.          *)
CoalescedReadRange(np, m, p) == {b \in Buckets(np) : b < m /\ b = p}

(* The buckets reader p pulls under modulus m; a reader past m pulls nothing.  *)
CoalescedReadBuckets(np, m, p) ==
  {b \in Buckets(np) : p < m /\ b >= p /\ (b - p) % m = 0}

(* The most rows one reader holds under modulus m.                             *)
WorstCoalescedLoad(np, m, counts) ==
  Max({SumFunctionOnSet(counts, CoalescedReadBuckets(np, m, p)) : p \in 0..(m - 1)})

(* The modulus for sampled bucket counts: one reader when the sample is empty; *)
(* the advisory size when no bucket dominates, is too big to merge, or stands  *)
(* among too few; otherwise the smallest modulus that leaves no reader with    *)
(* more than the largest bucket; np means no coalescing.                       *)
CoalescedPartitions(workers, np, counts, maxRows, advisory) ==
  LET total    == SumFunction(counts)
      largest  == Max(Range(counts))
      declined == \/ 3 * largest > total /\ np > 2
                  \/ largest > maxRows
                  \/ np <= workers
      target   == (total + advisory - 1) \div advisory
      fitting  == {m \in workers..(np - 1) : WorstCoalescedLoad(np, m, counts) <= largest}
  IN  IF total = 0 THEN 1
      ELSE IF ~declined THEN Max({workers, Min({target, np})})
      ELSE Min(fitting \cup {np})
==============================================================================
