------------------------------- MODULE Window -------------------------------
(***************************************************************************)
(* The sliding window of one worker thread of every rank                   *)
(* (server/backend/worker.cpp), in terms of PSNs: left is the PSN at       *)
(* to_ack, next the one the next generated packet gets, and acked the      *)
(* acknowledged PSNs between them.                                         *)
(*                                                                         *)
(* One action is one iteration of worker_loop with at most one received    *)
(* packet: rx_process, which ends in shift_ack, then tx_process, which     *)
(* ends in shift_send.  An iteration that receives more packets behaves    *)
(* like several such iterations.  Time and cwnd are left open: a timeout   *)
(* may strike in any iteration without a new acknowledgement, and          *)
(* shift_send may stop anywhere up to the switch memory limit.             *)
(***************************************************************************)
EXTENDS Links

VARIABLES
    left, next, acked,
    mem    \* mem[r][p]: the words written to r's buffer for packet p, <<>> if none

windowVars == <<left, next, acked, mem>>

\* Mutation of WindowLimit: all aggregators instead of half of them.
WindowLimitWhole == AggLen

\* current_switch_window_limit of the group, which is set with its first packet;
\* the burst of that packet is limited by CC_CWND_MIN, assumed to be no more.
WindowLimit == AggLen \div 2

WindowInit ==
    /\ left = [r \in Ranks |-> 0]
    /\ next = [r \in Ranks |-> 0]
    /\ acked = [r \in Ranks |-> {}]
    /\ mem = [r \in Ranks |-> [p \in Psns |-> <<>>]]

\* Packet p of rank r has been acknowledged.
Acked(r, p) == p < left[r] \/ p \in acked[r]

\* The set S of PSNs as a sequence in window order (there is exactly one).
InOrder(S) ==
    {s \in [1 .. Cardinality(S) -> S] : \A i, j \in DOMAIN s : i < j => s[i] < s[j]}

\* get_position finds the packet, and it has not been acknowledged.
Accepts(r, p) == p \in left[r] .. next[r] - 1 /\ p \notin acked[r]

\* collect_retrans: the unacknowledged packets directly before p.
collect_retrans(r, p) ==
    {x \in left[r] .. p - 1 : \A y \in x .. p - 1 : y \notin acked[r]}

\* transmit_unacked over the whole window.
unacked(r) == (left[r] .. next[r] - 1) \ acked[r]

\* Mutation of shift_send: the window may be one packet longer.
shift_send_long(r, lo, resent) ==
    \E n \in next[r] .. NPkts :
        /\ n <= lo + WindowLimit + 1
        /\ next' = [next EXCEPT ![r] = n]
        /\ \E old \in InOrder(resent), new \in InOrder(next[r] .. n - 1) :
             /\ Len(up[r]) + Len(old) + Len(new) <= UpCap
             /\ up' = [up EXCEPT ![r] = @ \o (old \o new)]

(***************************************************************************)
(* shift_send: with the window starting at lo, packets next[r] .. n - 1    *)
(* are generated and sent after those in resent.                           *)
(***************************************************************************)
shift_send(r, lo, resent) ==
    \E n \in next[r] .. NPkts :
        /\ n <= lo + WindowLimit
        /\ next' = [next EXCEPT ![r] = n]
        /\ \E old \in InOrder(resent), new \in InOrder(next[r] .. n - 1) :
             /\ Len(up[r]) + Len(old) + Len(new) <= UpCap
             /\ up' = [up EXCEPT ![r] = @ \o (old \o new)]

\* An iteration that accepts a response: rx_process_one stores the data and
\* may retransmit, shift_ack moves left over all acknowledged packets.
RxAccept(r) ==
    /\ down[r] # <<>>
    /\ LET pkt == Head(down[r])
           marked == acked[r] \cup {pkt.psn}
       IN  /\ Accepts(r, pkt.psn)
           /\ mem' = IF need_rx(r, pkt.psn)
                     THEN [mem EXCEPT ![r][pkt.psn] = pkt.payload]
                     ELSE mem
           /\ \E lo \in left[r] .. next[r] :
                /\ left[r] .. lo - 1 \subseteq marked
                /\ lo \notin marked
                /\ left' = [left EXCEPT ![r] = lo]
                /\ acked' = [acked EXCEPT ![r] = {x \in marked : x >= lo}]
                /\ shift_send(r, lo, collect_retrans(r, pkt.psn))
    /\ down' = [down EXCEPT ![r] = Tail(@)]

\* An iteration that receives a redundant response, which is ignored.
RxRedundant(r) ==
    /\ down[r] # <<>>
    /\ ~ Accepts(r, Head(down[r]).psn)
    /\ down' = [down EXCEPT ![r] = Tail(@)]
    /\ shift_send(r, left[r], {})
    /\ UNCHANGED <<left, acked, mem>>

\* An iteration without a packet in which new packets are sent.
TxProcess(r) ==
    /\ shift_send(r, left[r], {})
    /\ next'[r] > next[r]
    /\ UNCHANGED <<left, acked, mem, down>>

\* An iteration without a new acknowledgement in which the timer expires.
Timeout(r) ==
    /\ left[r] # next[r]
    /\ shift_send(r, left[r], unacked(r))
    /\ UNCHANGED <<left, acked, mem, down>>
=============================================================================
