----------------------------- MODULE MCSending ------------------------------
(***************************************************************************)
(* How a worker sends: its buffers before the NIC, and its congestion      *)
(* window.  A behaviour runs one of the two, chosen at the beginning; the  *)
(* other stays in its initial state.                                       *)
(*                                                                         *)
(* The five slots are gone round more than once, and are as many as        *)
(* RoomAssumption asks for.  The congestion window has a ring of twelve    *)
(* packets, of which five may be used, and counts half packets.            *)
(***************************************************************************)
EXTENDS NicBuffer, CongestionControl

VARIABLE part   \* the part that runs

MCGap == [k \in 0 .. 2 |-> <<6, 12, 24>>[k + 1]]

SendingInit == part \in {"buffers", "congestion"} /\ NicInit /\ CcInit

SendingNext ==
    /\ UNCHANGED part
    /\ \/ part = "buffers" /\ NicNext /\ UNCHANGED cc_vars
       \/ part = "congestion" /\ CcNext /\ UNCHANGED nic_vars

\* Nothing is to be sent that NicFairness speaks of when the buffers are empty.
SendingSpec ==
    /\ SendingInit /\ [][SendingNext]_<<part, nic_vars, cc_vars>>
    /\ NicFairness /\ WF_nic_vars(part = "buffers" /\ Receive)
    /\ WF_cc_vars(part = "congestion" /\ Loop)
=============================================================================
