------------------------------- MODULE Switch -------------------------------
(***************************************************************************)
(* The data plane of the switch (switch/ingress.p4, aggregator.p4,         *)
(* forward.p4, egress.p4) for the aggregators of one worker of one group.  *)
(*                                                                         *)
(* A packet of a rank is processed in two passes.  In pass 1 it is added   *)
(* to its aggregator, unless the bitmap says it is a retransmission; when  *)
(* all ranks have contributed it leaves with the first word of the sum to  *)
(* the recirculation port of the group, otherwise it is dropped.  In pass  *)
(* 2 it picks up the second word (a register can return only one) and is   *)
(* multicast to the group, or sent back to its sender if it was a          *)
(* retransmission.  Between the passes other packets are processed.        *)
(***************************************************************************)
EXTENDS Links

CONSTANTS
    VersionSpace,   \* number of distinct versions of one group: 2^24
    RecircCap       \* bound of the model: packets waiting for pass 2

ASSUME VersionAssumption ==
    /\ VersionSpace \in Nat
    /\ VersionSpace > AggLen
    /\ PsnSpace % VersionSpace = 0
ASSUME RecircCapAssumption == RecircCap \in Nat

VARIABLES
    reg_bitmap,         \* per aggregator: version and bitmap of seen ranks
    aggregator_array,   \* per aggregator: the two words of the running sum
    recirc              \* FIFO queue of the recirculation port

switchVars == <<reg_bitmap, aggregator_array, recirc>>

Aggregators == 0 .. AggLen - 1

\* Version left by CreateGroup; no packet has it, as its group id is 0.
NoVersion == -1

\* Mutation of set_version: the lowest bits of the PSN are left out.
set_version_coarse(p) == (psn(p) \div (2 * AggLen)) % VersionSpace

\* group_id ++ psn[23:0], of one group.
set_version(p) == psn(p) % VersionSpace

SwitchInit ==
    /\ reg_bitmap = [a \in Aggregators |-> [version |-> NoVersion, bitmap |-> {}]]
    /\ aggregator_array = [a \in Aggregators |-> [agg0 |-> EmptyBag, agg1 |-> EmptyBag]]
    /\ recirc = <<>>

\* Mutation of bitmap_old: the version of the aggregator is ignored.
bitmap_old_any(p) == reg_bitmap[agg_addr(p)].bitmap

(***************************************************************************)
(* Pass 1.  bitmap_old is what reg_bitmap_update returns for packet p, the *)
(* other operators are the metadata derived from it for a packet of r.     *)
(***************************************************************************)
bitmap_old(p) ==
    LET reg == reg_bitmap[agg_addr(p)]
    IN  IF reg.version = set_version(p) THEN reg.bitmap ELSE {}

\* Mutation of reg_bitmap_update: a new version does not clear the bitmap.
reg_bitmap_keep(r, p) ==
    [version |-> set_version(p), bitmap |-> reg_bitmap[agg_addr(p)].bitmap \cup {r}]

reg_bitmap_update(r, p) ==
    [version |-> set_version(p), bitmap |-> bitmap_old(p) \cup {r}]

first_packet(p) == bitmap_old(p) = {}

new_packet(r, p) == r \notin bitmap_old(p)

\* Mutation of full: a retransmission of a complete packet is not answered.
full_once(r, p) == bitmap_old(p) = Ranks \ {r}

full(r, p) == bitmap_old(p) \in {Ranks \ {r}, Ranks}

\* Mutation of agg_action: overwrite leaves the second word of the pair alone.
agg_action_half(r, p) ==
    LET reg == aggregator_array[agg_addr(p)]
    IN  IF first_packet(p)
        THEN [agg0 |-> Word(r, p), agg1 |-> reg.agg1]
        ELSE IF new_packet(r, p)
             THEN [agg0 |-> reg.agg0 (+) Word(r, p), agg1 |-> reg.agg1 (+) Word(r, p)]
             ELSE reg

\* The register pair after overwrite, aggregate or read0.
agg_action(r, p) ==
    LET reg == aggregator_array[agg_addr(p)]
    IN  IF first_packet(p)
        THEN [agg0 |-> Word(r, p), agg1 |-> Word(r, p)]
        ELSE IF new_packet(r, p)
             THEN [agg0 |-> reg.agg0 (+) Word(r, p), agg1 |-> reg.agg1 (+) Word(r, p)]
             ELSE reg

\* What recirculates: the first word is agg0 as pass 1 leaves it, also after
\* overwrite, which leaves the packet's own word in place.
recirculated(r, p) ==
    [psn |-> p, rank |-> r, data0 |-> agg_action(r, p).agg0,
     multicast |-> new_packet(r, p)]

Ingress(r) ==
    /\ up[r] # <<>>
    /\ Len(recirc) < RecircCap
    /\ LET p == Head(up[r]) IN
         /\ reg_bitmap' = [reg_bitmap EXCEPT ![agg_addr(p)] = reg_bitmap_update(r, p)]
         /\ aggregator_array' = [aggregator_array EXCEPT ![agg_addr(p)] = agg_action(r, p)]
         /\ recirc' = IF full(r, p) THEN Append(recirc, recirculated(r, p)) ELSE recirc
    /\ up' = [up EXCEPT ![r] = Tail(@)]
    /\ UNCHANGED down

(***************************************************************************)
(* Pass 2 and the egress pipeline.  Every copy is addressed to its rank    *)
(* and loses its payload where the rank has no use for it.                 *)
(***************************************************************************)
destinations(e) == IF e.multicast THEN Ranks ELSE {e.rank}

keeps_payload(s, p) ==
    /\ Op[p].code = "REDUCE" => s = Op[p].root
    /\ Op[p].code = "BROADCAST" => s # Op[p].root

egress(e, s) ==
    [psn |-> e.psn,
     payload |-> IF keeps_payload(s, e.psn)
                 THEN <<e.data0, aggregator_array[agg_addr(e.psn)].agg1>>
                 ELSE <<>>]

Recirculate ==
    /\ recirc # <<>>
    /\ LET e == Head(recirc) IN
         /\ \A s \in destinations(e) : Len(down[s]) < DownCap
         /\ down' = [s \in Ranks |-> IF s \in destinations(e)
                                     THEN Append(down[s], egress(e, s))
                                     ELSE down[s]]
    /\ recirc' = Tail(recirc)
    /\ UNCHANGED <<reg_bitmap, aggregator_array, up>>

(***************************************************************************)
(* Losses: on a link, and at the egress towards any port, the              *)
(* recirculation port included (random_drop.p4).                           *)
(***************************************************************************)
LoseUp(r) ==
    /\ up[r] # <<>>
    /\ up' = [up EXCEPT ![r] = Tail(@)]
    /\ UNCHANGED <<down, switchVars>>

LoseDown(r) ==
    /\ down[r] # <<>>
    /\ down' = [down EXCEPT ![r] = Tail(@)]
    /\ UNCHANGED <<up, switchVars>>

LoseRecirc ==
    /\ recirc # <<>>
    /\ recirc' = Tail(recirc)
    /\ UNCHANGED <<up, down, reg_bitmap, aggregator_array>>
=============================================================================
