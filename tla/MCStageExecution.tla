-------------------------- MODULE MCStageExecution --------------------------
(* Plans and clusters for StageExecution. *)
EXTENDS StageExecution

\* Two arms, one of them replicated, joined by an intermediate stage.
Branches == [s \in Stages |-> CASE s = 2 -> {0, 1} [] s = 3 -> {2} [] OTHER -> {}]
Swapped     == [p \in Buckets(NP) |-> W - (p % W)]

\* What samples of up to two rows a bucket lead to.
Sampled == {CoalescedPartitions(W, NP, c, 1, 2) : c \in [Buckets(NP) -> 0..2]}
=============================================================================
