------------------------------- MODULE Links --------------------------------
(***************************************************************************)
(* The Ethernet links between the servers and the switch: one FIFO queue   *)
(* in each direction per rank, holding what is in the NIC queues and on    *)
(* the wire.  The hardware is external; that packets may be lost anywhere  *)
(* but keep their order on one path is what the senders rely on            *)
(* (worker.cpp, "assume the network keeps packet order of most packets").  *)
(*                                                                         *)
(* A packet going up is known by its number p in the stream, of which the  *)
(* PSN field carries psn(p): the other header fields and the payload that  *)
(* fill_pkt writes are functions of the rank and of p.  A packet coming    *)
(* down holds p and the payload words, <<>> when the switch has removed    *)
(* the payload.                                                            *)
(***************************************************************************)
EXTENDS Collective

CONSTANTS
    PsnSpace,  \* number of PSNs: 2^32
    AggLen,    \* number of switch aggregators of one worker of the group
    UpCap,     \* bound of the model: packets in flight from a rank
    DownCap    \* bound of the model: packets in flight to a rank

ASSUME AggLenAssumption == AggLen \in Nat /\ AggLen >= 2
ASSUME PsnSpaceAssumption == PsnSpace \in Nat /\ PsnSpace > 0
ASSUME CapAssumption == UpCap \in Nat /\ DownCap \in Nat

VARIABLES
    up,     \* up[r]: PSNs sent by rank r and not yet at the switch
    down    \* down[r]: responses sent to rank r and not yet received

links == <<up, down>>

\* The PSN of a packet, a 32-bit counter of its group and worker (gen_pkt).
psn(p) == p % PsnSpace

\* The aggregator a packet is directed to (fill_pkt).
agg_addr(p) == psn(p) % AggLen

LinksInit ==
    /\ up = [r \in Ranks |-> <<>>]
    /\ down = [r \in Ranks |-> <<>>]
=============================================================================
