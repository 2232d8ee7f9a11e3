----------------------------- MODULE NetReduce ------------------------------
(***************************************************************************)
(* The reduction protocol of one worker stream of one group: the windows   *)
(* of all ranks (Window), the switch (Switch) and lossy FIFO links         *)
(* between them (Links).                                                   *)
(*                                                                         *)
(* holder is a history variable: the PSN of the packet that gave each      *)
(* aggregator its version, of which the register keeps only psn[23:0].     *)
(***************************************************************************)
EXTENDS Switch, Window

VARIABLE holder

vars == <<links, switchVars, windowVars, holder>>

Init ==
    /\ LinksInit
    /\ SwitchInit
    /\ WindowInit
    /\ holder = [a \in Aggregators |-> -1]

Worker(r) ==
    /\ RxAccept(r) \/ RxRedundant(r) \/ TxProcess(r) \/ Timeout(r)
    /\ UNCHANGED <<switchVars, holder>>

SwitchPass1(r) ==
    /\ Ingress(r)
    /\ holder' = [holder EXCEPT ![agg_addr(Head(up[r]))] = Head(up[r])]
    /\ UNCHANGED windowVars

SwitchPass2 == Recirculate /\ UNCHANGED <<windowVars, holder>>

Loss ==
    /\ (\E r \in Ranks : LoseUp(r) \/ LoseDown(r)) \/ LoseRecirc
    /\ UNCHANGED <<windowVars, holder>>

Next ==
    \/ \E r \in Ranks : Worker(r)
    \/ \E r \in Ranks : SwitchPass1(r)
    \/ SwitchPass2
    \/ Loss

Spec == Init /\ [][Next]_vars

-----------------------------------------------------------------------------
\* The sums of the data of some ranks for one packet.
Words == {SumOver(S, p) : S \in SUBSET Ranks, p \in Psns} \cup {EmptyBag}

Payloads == {<<>>} \cup (Words \X Words)

(***************************************************************************)
(* Every word anywhere in the system is the sum of the data of some ranks  *)
(* for one packet; no word counts a rank twice or mixes packets.           *)
(***************************************************************************)
TypeOK ==
    /\ up \in [Ranks -> Seq(Psns)]
    /\ down \in [Ranks -> Seq([psn : Psns, payload : Payloads])]
    /\ reg_bitmap \in [Aggregators ->
            [version : NoVersion .. VersionSpace - 1, bitmap : SUBSET Ranks]]
    /\ aggregator_array \in [Aggregators -> [agg0 : Words, agg1 : Words]]
    /\ recirc \in Seq([psn : Psns, rank : Ranks, data0 : Words, multicast : BOOLEAN])
    /\ left \in [Ranks -> 0 .. NPkts]
    /\ next \in [Ranks -> 0 .. NPkts]
    /\ acked \in [Ranks -> SUBSET Psns]
    /\ mem \in [Ranks -> [Psns -> Payloads]]
    /\ holder \in [Aggregators -> -1 .. NPkts - 1]

(***************************************************************************)
(* A rank has the full sum of every packet whose response it has accepted  *)
(* and needs (both words, although the switch reads them in different      *)
(* passes), and its buffer is untouched everywhere else.                   *)
(***************************************************************************)
ResultCorrect ==
    \A r \in Ranks, p \in Psns :
        mem[r][p] = IF Acked(r, p) /\ need_rx(r, p)
                    THEN <<Result(p), Result(p)>>
                    ELSE <<>>

\* The aggregator of packet p holds the data of exactly the ranks in S.
Holds(p, S) ==
    /\ holder[agg_addr(p)] = p
    /\ reg_bitmap[agg_addr(p)] = [version |-> set_version(p), bitmap |-> S]
    /\ aggregator_array[agg_addr(p)] = [agg0 |-> SumOver(S, p), agg1 |-> SumOver(S, p)]

(***************************************************************************)
(* Pass 2 reads the second word of the very sum of which pass 1 took the   *)
(* first: no other packet has taken over the aggregator in between         *)
(* (reg_read1 executes without looking at the version).                    *)
(***************************************************************************)
NoTornRead ==
    \A i \in DOMAIN recirc :
        /\ Holds(recirc[i].psn, Ranks)
        /\ recirc[i].data0 = Result(recirc[i].psn)

(***************************************************************************)
(* As long as some rank lacks a response that another rank already has,    *)
(* the switch can still produce it: a retransmission will be answered.     *)
(***************************************************************************)
LostResponseRecoverable ==
    \A p \in Psns :
        (\E s \in Ranks : Acked(s, p)) =>
            (\A r \in Ranks : Acked(r, p)) \/ Holds(p, Ranks)

(***************************************************************************)
(* A packet takes over an aggregator (version mismatch) only from the      *)
(* packet AggLen before it, never from a newer one, and only when every    *)
(* rank has accepted that packet's response.                               *)
(***************************************************************************)
TakesOver(r) ==
    LET p == Head(up[r]) IN
        \/ p < AggLen /\ holder[agg_addr(p)] = -1
        \/ /\ holder[agg_addr(p)] = p - AggLen
           /\ \A s \in Ranks : Acked(s, p - AggLen)

AggregatorReuse ==
    [][\A r \in Ranks : SwitchPass1(r) /\ first_packet(Head(up[r])) => TakesOver(r)]_vars

-----------------------------------------------------------------------------
(***************************************************************************)
(* The inductive invariant.  Passed(r, q): the switch has seen packet q of *)
(* rank r and nothing older than q - WindowLimit is still on its way up.   *)
(***************************************************************************)
Passed(r, q) ==
    /\ q < next[r]
    /\ \A i \in DOMAIN up[r] : q < up[r][i] + WindowLimit

WindowOK ==
    \A r \in Ranks :
        /\ left[r] <= next[r]
        /\ next[r] <= left[r] + WindowLimit
        /\ acked[r] \subseteq left[r] .. next[r] - 1

UpOK ==
    \A r \in Ranks : \A j \in DOMAIN up[r] :
        /\ up[r][j] < next[r]
        /\ \A i \in 1 .. j - 1 : up[r][i] < up[r][j] + WindowLimit

CellOK(a) ==
    IF holder[a] = -1
    THEN reg_bitmap[a] = [version |-> NoVersion, bitmap |-> {}]
    ELSE /\ agg_addr(holder[a]) = a
         /\ reg_bitmap[a].bitmap # {}
         /\ Holds(holder[a], reg_bitmap[a].bitmap)
         /\ \A r \in reg_bitmap[a].bitmap : Passed(r, holder[a])

RecircOK ==
    \A j \in DOMAIN recirc :
        /\ Holds(recirc[j].psn, Ranks)
        /\ recirc[j].data0 = Result(recirc[j].psn)
        /\ \A r \in Ranks : Passed(r, recirc[j].psn)
        /\ \A i \in 1 .. j - 1 : recirc[i].psn < recirc[j].psn + WindowLimit

\* Packet q has been answered: all ranks are past it, no older packet is
\* recirculating, and its sum is there as long as a rank may need it.
Answered(q) ==
    /\ \A r \in Ranks : Passed(r, q)
    /\ \A i \in DOMAIN recirc : q < recirc[i].psn + WindowLimit
    /\ holder[agg_addr(q)] >= q
    /\ (\A r \in Ranks : Acked(r, q)) \/ Holds(q, Ranks)

DownOK ==
    \A r \in Ranks : \A i \in DOMAIN down[r] :
        /\ Answered(down[r][i].psn)
        /\ down[r][i].payload = IF keeps_payload(r, down[r][i].psn)
                                THEN <<Result(down[r][i].psn), Result(down[r][i].psn)>>
                                ELSE <<>>

AckedOK == \A r \in Ranks, p \in Psns : Acked(r, p) => Answered(p)

(***************************************************************************)
(* The inductive invariant itself: what each packet in flight, each        *)
(* aggregator and each acknowledgement implies about all the others.       *)
(***************************************************************************)
IInv ==
    /\ TypeOK
    /\ WindowOK
    /\ UpOK
    /\ \A a \in Aggregators : CellOK(a)
    /\ RecircOK
    /\ DownOK
    /\ AckedOK
    /\ ResultCorrect

-----------------------------------------------------------------------------
\* The abstract specification, with what it knows of the protocol's state.
Promise == INSTANCE ReduceSpec WITH
    sent <- [r \in Ranks |-> 0 .. next[r] - 1],
    done <- [r \in Ranks |-> {p \in Psns : Acked(r, p)}],
    mem <- mem

(***************************************************************************)
(* The protocol implements its promise: ReduceSpec.                        *)
(***************************************************************************)
ImplementsPromise == Promise!ReduceSpec
=============================================================================
