------------------------------ MODULE MCServer ------------------------------
(***************************************************************************)
(* The threads of one server: the operation pipeline, the copy buffer, the *)
(* start-up, and the Python layer above them.  Each has a specification of *)
(* its own; a behaviour runs one of them, chosen at the beginning, and the *)
(* others stay in one of their initial states.                             *)
(***************************************************************************)
EXTENDS OpPipeline, CopyBuffer, Startup, Collectives

VARIABLE part   \* the part that runs

\* One segment, and more segments than the queues hold.
MCSegs == {1, 4}

\* Tensors of 4-byte elements: no size is odd, the buffer size plus one is.
WordCalls == {n \in 0 .. 30 : n % 2 = 0}

\* The group of all ranks, whose group ranks are their global ranks.
WorldGroup == <<0, 1>>

ASSUME CopyBufferAssumption ==
    SizeAssumption /\ CallsAssumption /\ OpBufferAssumption /\ EvenAssumption
ASSUME RanksAssumption == StartupAssumption
ASSUME WorldAssumption == MembersAssumption /\ WorldMembers

ServerInit ==
    /\ part \in {"pipeline", "copy_buffer", "startup", "python"}
    /\ part # "python" => api = "broadcast" /\ root = 0 /\ inc = TRUE
    /\ Init /\ BufferInit /\ StartupInit /\ CollectiveInit

ServerNext ==
    /\ UNCHANGED part
    /\ \/ part = "pipeline" /\ Next /\ UNCHANGED <<buffer_vars, startup_vars, collective_vars>>
       \/ part = "copy_buffer" /\ BufferNext /\ UNCHANGED <<vars, startup_vars, collective_vars>>
       \/ part = "startup" /\ StartupNext /\ UNCHANGED <<vars, buffer_vars, collective_vars>>
       \/ part = "python" /\ CollectiveNext /\ UNCHANGED <<vars, buffer_vars, startup_vars>>

\* In the initial states of the first three nothing is enabled that their
\* fairness speaks of.
ServerSpec ==
    /\ ServerInit /\ [][ServerNext]_<<part, vars, buffer_vars, startup_vars, collective_vars>>
    /\ Fairness /\ BufferFairness /\ StartupFairness
    /\ \A r \in Group : WF_collective_vars(part = "python" /\ Rank(r))

-----------------------------------------------------------------------------
(***************************************************************************)
(* Every call returns: neither does an operation get lost on its way       *)
(* through the pipeline, nor does a segment wait forever for space in the  *)
(* copy buffer.                                                            *)
(***************************************************************************)
CallsReturn == CallReturns /\ PostingReturns

(***************************************************************************)
(* A call returns on all ranks, or all of them exit: ranks never choose    *)
(* different ways, although each of them decides on its own.               *)
(***************************************************************************)
RanksAgree == part = "python" => AllReturn
=============================================================================
