--------------------------- MODULE MCUnevenSplit ----------------------------
EXTENDS NetReduce

\* A worker whose number of aggregators does not divide the PSN space, as with
\* 1024 aggregators and three workers.
CONSTANTS r1, r2

MCRanks == {r1, r2}

MCOp == [p \in Psns |-> [code |-> "ALL_REDUCE", root |-> r1]]

(***************************************************************************)
(* What a rank stores is the sum over the group, also when agg_len is not  *)
(* a multiple of nworker (worker.cpp: "allow agg_len % nworker != 0") and  *)
(* at the wrap of the PSN ("psn range is [0, UINT32_MAX]").                *)
(***************************************************************************)
UnevenSplitAllowed == ResultCorrect
=============================================================================
