--------------------------- MODULE MCCollectives ----------------------------
EXTENDS Collectives

\* A group of some of the ranks.
MCSubgroup == <<1, 2>>

(***************************************************************************)
(* The same in a group of some of the ranks, as call_c_collective has it:  *)
(* "PyTorch uses global rank but NetCCL uses group rank".                  *)
(***************************************************************************)
SubgroupResult == ResultAsPromised
=============================================================================
