----------------------------- MODULE ReduceSpec -----------------------------
(***************************************************************************)
(* What the switch and the workers together promise for one stream of      *)
(* packets: a rank gets the response of a packet at most once, only after  *)
(* every rank of the group has sent that packet, and what it gets is the   *)
(* sum of the data of all contributing ranks, each counted once.  Losses,  *)
(* retransmissions, the window and the switch memory do not appear.        *)
(***************************************************************************)
EXTENDS Collective

VARIABLES
    sent,   \* sent[r]: PSNs rank r has sent at least once
    done,   \* done[r]: PSNs whose response rank r has accepted
    mem     \* mem[r][p]: the words written to r's buffer for packet p

specVars == <<sent, done, mem>>

SpecInit ==
    /\ sent = [r \in Ranks |-> {}]
    /\ done = [r \in Ranks |-> {}]
    /\ mem = [r \in Ranks |-> [p \in Psns |-> <<>>]]

\* Rank r sends packets for the first time.
Send(r) == \E S \in SUBSET Psns : sent' = [sent EXCEPT ![r] = @ \cup S]

\* Rank r accepts the response of packet p.
Deliver(r, p) ==
    /\ p \notin done[r]
    /\ \A s \in Ranks : p \in sent[s]
    /\ done' = [done EXCEPT ![r] = @ \cup {p}]
    /\ mem' = IF need_rx(r, p)
              THEN [mem EXCEPT ![r][p] = <<Result(p), Result(p)>>]
              ELSE mem

SpecNext ==
    \E r \in Ranks :
        /\ Send(r)
        /\ \/ UNCHANGED <<done, mem>>
           \/ \E p \in Psns : Deliver(r, p)

ReduceSpec == SpecInit /\ [][SpecNext]_specVars
=============================================================================
