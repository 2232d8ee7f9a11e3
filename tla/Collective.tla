----------------------------- MODULE Collective -----------------------------
(***************************************************************************)
(* The collective operations of NetCCL as the servers and the switch both  *)
(* understand them (server/common/common.hpp, switch/custom_header.p4).    *)
(*                                                                         *)
(* One worker thread of every rank of a group sends the same stream of     *)
(* packets, numbered by PSN.  Packet p belongs to the collective Op[p],    *)
(* which all ranks of the group call alike.  The data of a packet is kept  *)
(* only as far as sums tell it apart: the payload word of rank r in packet *)
(* p is the one-element bag holding <<r, p>>, a word of zeros is the empty *)
(* bag, and the sum of two words is the sum of the bags.  A word that      *)
(* counts a rank twice, misses one or mixes two packets is then a bag      *)
(* other than Result(p).                                                   *)
(***************************************************************************)
EXTENDS Integers, Sequences, FiniteSets, Bags

CONSTANTS
    Ranks,   \* the ranks of the group, at most 32
    NPkts,   \* number of packets in the stream
    Op       \* Op[p] = [code, root]: the collective packet p belongs to

Psns == 0 .. NPkts - 1

OpCodes == {"ALL_REDUCE", "REDUCE", "BROADCAST"}

ASSUME RanksAssumption == IsFiniteSet(Ranks) /\ Ranks # {}
ASSUME NPktsAssumption == NPkts \in Nat
ASSUME OpAssumption == Op \in [Psns -> [code : OpCodes, root : Ranks]]

(***************************************************************************)
(* Whether rank r puts data into packet p, and whether it takes data from  *)
(* the response.                                                           *)
(***************************************************************************)
need_tx(r, p) ==
    \/ Op[p].code = "ALL_REDUCE"
    \/ Op[p].code = "REDUCE" /\ Op[p].root # r
    \/ Op[p].code = "BROADCAST" /\ Op[p].root = r

need_rx(r, p) ==
    \/ Op[p].code = "ALL_REDUCE"
    \/ Op[p].code = "REDUCE" /\ Op[p].root = r
    \/ Op[p].code = "BROADCAST" /\ Op[p].root # r

(***************************************************************************)
(* A payload word: what rank r sends in packet p.  A packet without        *)
(* payload is parsed by the switch as a payload of zeros.                  *)
(***************************************************************************)
Terms(S, p) == {<<r, p>> : r \in {s \in S : need_tx(s, p)}}

Word(r, p) == SetToBag(Terms({r}, p))

\* The sum of the words of the ranks in S, and the sum over the whole group.
SumOver(S, p) == SetToBag(Terms(S, p))

Result(p) == SumOver(Ranks, p)
=============================================================================
