----------------------------- MODULE EvenSplit ------------------------------
(***************************************************************************)
(* The reduction protocol where the aggregators of a worker divide the PSN *)
(* space.  The controller gives a group 1024 aggregators and the load      *)
(* balancer gives each of nworker workers 1024 / nworker of them           *)
(* (load_balancer.cpp), so this is the case when nworker is a power of 2.  *)
(***************************************************************************)
EXTENDS NetReduce

ASSUME EvenSplitAssumption == PsnSpace % AggLen = 0
=============================================================================
