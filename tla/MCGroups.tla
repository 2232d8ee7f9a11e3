------------------------------ MODULE MCGroups ------------------------------
(***************************************************************************)
(* The groups: what the controller hands out for them, with many creations *)
(* that fail or are never undone, and the life of the groups of two jobs   *)
(* with the packets of their ranks.  A behaviour runs one of the two,      *)
(* chosen at the beginning; the other stays in its initial state.          *)
(***************************************************************************)
EXTENDS MCGroupLifecycle, Controller

VARIABLE part   \* the part that runs

MCGroupSizes == {2, 3}

GroupsInit == part \in {"lifecycle", "controller"} /\ Init /\ CtlInit

GroupsNext ==
    /\ UNCHANGED part
    /\ \/ part = "lifecycle" /\ Next /\ UNCHANGED ctl_vars
       \/ part = "controller" /\ CtlNext /\ UNCHANGED vars

\* Of what fairness speaks of, only the first request can be made at once.
GroupsSpec ==
    /\ GroupsInit /\ [][GroupsNext]_<<part, vars, ctl_vars>>
    /\ WF_vars(part = "lifecycle" /\ Control) /\ DataFairness

(***************************************************************************)
(* Every job comes to an end, if it meets no other one.                    *)
(***************************************************************************)
JobsReturn == part = "lifecycle" => EventuallyReturned
=============================================================================
