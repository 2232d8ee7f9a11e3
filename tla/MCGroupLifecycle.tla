-------------------------- MODULE MCGroupLifecycle --------------------------
(* Two jobs of two ranks that use the same segment one after the other. *)
EXTENDS GroupLifecycle

MCJobs == {1, 2}
MCRanks == {0, 1}
=============================================================================
