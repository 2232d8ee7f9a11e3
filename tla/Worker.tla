------------------------------- MODULE Worker -------------------------------
(***************************************************************************)
(* One worker thread of the backend (server/backend/worker.cpp) as the     *)
(* code has it: a ring of MaxWinLen slots shared by all groups, packets    *)
(* found again by comparing 32-bit PSNs, and work taken from a queue.      *)
(* Window abstracts the stream of one group out of this; here the          *)
(* questions are those that Window assumes away: the arithmetic of the     *)
(* ring and of the PSNs, several groups taking turns, and the completion   *)
(* of sub-operations.                                                      *)
(*                                                                         *)
(* A packet is [group, p]: the p-th of its group, whose PSN is p modulo    *)
(* PsnSpace.  wire holds the packets to which a response may still come;   *)
(* it may come late, repeatedly or never.  That it is never later than     *)
(* AggLen packets is what the FIFO links of NetReduce guarantee.           *)
(***************************************************************************)
EXTENDS Integers, Sequences, FiniteSets, FiniteSetsExt, Functions

CONSTANTS
    Groups,      \* group ids
    MaxWinLen,   \* MAX_WIN_LEN
    MaxBurst,    \* MAX_PKT_BURST
    CwndMin,     \* CC_CWND_MIN
    PsnSpace,    \* number of PSNs: 2^32
    AggLen,      \* sub_op->agg_len, the same for all groups (ALLOC_SIZE / nworker)
    NOps,        \* bound of the model: sub-operations posted
    MaxPkts      \* bound of the model: packets of a sub-operation

ASSUME WindowAssumption == MaxWinLen \in Nat /\ MaxBurst \in Nat \ {0} /\ CwndMin \in 1 .. MaxWinLen - 1
ASSUME PsnAssumption ==
    PsnSpace \in Nat /\ AggLen \in Nat /\ AggLen < PsnSpace /\ MaxWinLen < PsnSpace
ASSUME SwitchAssumption == CwndMin <= AggLen \div 2
ASSUME BoundsAssumption == NOps \in Nat /\ MaxPkts \in Nat

Positions == 0 .. MaxWinLen - 1
Invalid == -1     \* INVALID_POSITION
NoGroup == 0      \* group 0 will not be used
NoOp == [op |-> 0, start |-> 0, sent |-> 0]

VARIABLES
    pc,           \* where worker_loop is: "rx", "tx" or "send"
    ops,          \* history: the sub-operations posted, [group, cnt]
    wq,           \* work queue: their numbers, the current one included
    done,         \* complete queue: numbers of completed sub-operations
    sub_op,       \* gen_pkt's static variables
    group_psn,    \* group_ctx[g].psn, before it is truncated to 32 bits
    current_group_id, current_switch_window_limit,
    to_ack, to_send, left_psn, right_psn, state,   \* window_t
    sending,      \* shift_send's to_send
    expect,       \* shift_send's expect_win_len
    wire,         \* packets that may be answered
    got           \* history: packets whose response was stored, per sub-operation

queues == <<ops, wq, done>>
gen == <<sub_op, group_psn, current_group_id, current_switch_window_limit>>
window == <<to_ack, to_send, left_psn, right_psn, state>>
loop == <<sending, expect>>
vars == <<pc, queues, gen, window, loop, wire, got>>

Init ==
    /\ pc = "rx"
    /\ ops = <<>> /\ wq = <<>> /\ done = <<>>
    /\ sub_op = NoOp
    /\ group_psn = [g \in Groups |-> 0]
    /\ current_group_id = NoGroup
    /\ current_switch_window_limit = CwndMin
    /\ to_ack = 0 /\ to_send = 0 /\ left_psn = 0 /\ right_psn = 0
    /\ state = [i \in Positions |->
                 [acked |-> FALSE, op |-> 0, group |-> NoGroup, p |-> 0, is_last |-> FALSE]]
    /\ sending = 0 /\ expect = 0
    /\ wire = {}
    /\ got = <<>>

get_next_position(i) == (i + 1) % MaxWinLen
get_prev_position(i) == (i - 1) % MaxWinLen

\* The number of slots from i up to j, and these slots.
Distance(i, j) == IF j >= i THEN j - i ELSE MaxWinLen + j - i
Slots(i, j) == {k \in Positions : Distance(i, k) < Distance(i, j)}

window_tx_empty == to_ack = to_send
window_len == Distance(to_ack, to_send)

get_psn(x) == x.p % PsnSpace
Packet(i) == [group |-> state[i].group, p |-> state[i].p]

\* Mutation of get_position: the group of the response is not looked at.
get_position_any(x) ==
    IF window_tx_empty THEN Invalid
    ELSE LET offset == (get_psn(x) - left_psn) % PsnSpace
         IN  IF offset <= (right_psn - left_psn) % PsnSpace
             THEN (offset + to_ack) % MaxWinLen
             ELSE Invalid

get_position(x) ==
    IF window_tx_empty \/ current_group_id # x.group THEN Invalid
    ELSE LET offset == (get_psn(x) - left_psn) % PsnSpace
         IN  IF offset <= (right_psn - left_psn) % PsnSpace
             THEN (offset + to_ack) % MaxWinLen
             ELSE Invalid

-----------------------------------------------------------------------------
(***************************************************************************)
(* The environment.  Calls of different groups do not overlap: the         *)
(* frontend waits for all operations of a call before it returns.          *)
(***************************************************************************)

\* Mutation of Drained: a call returns as soon as it is posted.
Drained_never(g) == TRUE

Drained(g) == \A k \in 1 .. Len(ops) : ops[k].group = g \/ k \in Range(done)

\* The load balancer posts a sub-operation of n packets.
Post(g, n) ==
    /\ Len(ops) < NOps
    /\ Drained(g)
    /\ ops' = Append(ops, [group |-> g, cnt |-> n])
    /\ wq' = Append(wq, Len(ops) + 1)
    /\ got' = Append(got, {})
    /\ UNCHANGED <<pc, done, gen, window, loop, wire>>

\* Responses to packets further back do not come any more.
Fresh(S, psns) == {x \in S : psns[x.group] < x.p + AggLen}

Lose(x) ==
    /\ x \in wire
    /\ wire' = wire \ {x}
    /\ UNCHANGED <<pc, queues, gen, window, loop, got>>

-----------------------------------------------------------------------------
\* collect_retrans: the unacknowledged slots directly before position i.
collect_retrans(i) ==
    {k \in Slots(to_ack, i) : \A j \in Slots(k, i) : ~ state[j].acked}

\* A response to x is found in the window and not yet acknowledged.  Any other
\* response is counted as redundant and changes nothing.
rx_process_one(x) ==
    LET i == get_position(x) IN
    /\ pc = "rx"
    /\ x \in wire
    /\ i # Invalid
    /\ ~ state[i].acked
    /\ state' = [state EXCEPT ![i].acked = TRUE]
    /\ got' = [got EXCEPT ![state[i].op] = @ \cup {state[i].p}]
    /\ wire' = wire \cup {Packet(k) : k \in collect_retrans(i)}
    /\ UNCHANGED <<pc, queues, gen, to_ack, to_send, left_psn, right_psn, loop>>

\* Mutation of AckedTo: the window also moves over a gap of one packet.
AckedTo_gap(j) ==
    /\ \A k \in Slots(to_ack, j) : state[k].acked \/ state[get_next_position(k)].acked
    /\ j = to_send \/ ~ state[j].acked

\* The first slot of the window that is not acknowledged, or its end.
AckedTo(j) ==
    /\ \A k \in Slots(to_ack, j) : state[k].acked
    /\ j = to_send \/ ~ state[j].acked

\* The slots S in window order.
InOrder(S) ==
    {s \in [1 .. Cardinality(S) -> S] :
        \A a, b \in DOMAIN s : a < b => Distance(to_ack, s[a]) < Distance(to_ack, s[b])}

shift_ack ==
    /\ pc = "rx"
    /\ \E j \in Slots(to_ack, to_send) \cup {to_send} :
         /\ AckedTo(j)
         /\ \E s \in InOrder({k \in Slots(to_ack, j) : state[k].is_last}) :
              done' = done \o [n \in DOMAIN s |-> state[s[n]].op]
         /\ to_ack' = j
         /\ left_psn' = IF j = to_send THEN 0 ELSE get_psn(state[j])
    /\ pc' = "tx"
    /\ UNCHANGED <<ops, wq, gen, to_send, right_psn, state, loop, wire, got>>

\* A timeout strikes.
full_retrans ==
    /\ pc = "tx"
    /\ ~ window_tx_empty
    /\ wire' = wire \cup {Packet(k) : k \in {i \in Slots(to_ack, to_send) : ~ state[i].acked}}
    /\ UNCHANGED <<pc, queues, gen, window, loop, got>>

\* shift_send computes how far the window may grow, given the cwnd.
shift_send(cwnd) ==
    /\ pc = "tx"
    /\ pc' = "send"
    /\ sending' = to_send
    /\ expect' = Min({MaxWinLen - 1, current_switch_window_limit, cwnd, window_len + MaxBurst})
    /\ UNCHANGED <<queues, gen, window, wire, got>>

\* gen_pkt goes on with its sub-operation, or takes the next one, unless that
\* is of another group while the window is in use.
CanContinue == sub_op # NoOp
CanStart ==
    /\ sub_op = NoOp
    /\ wq # <<>>
    /\ current_group_id = ops[Head(wq)].group \/ window_tx_empty

\* gen_pkt's static variables once it has a sub-operation.
Taken ==
    IF CanContinue THEN sub_op
    ELSE [op |-> Head(wq), start |-> group_psn[ops[Head(wq)].group], sent |-> 0]

WindowLimit == AggLen \div 2

\* Mutation of LeftPsn: left_psn is not set when the window was empty.
LeftPsn_kept(p) == left_psn

\* left_psn when the packet p is put into the window.
LeftPsn(p) == IF Distance(to_ack, sending) = 0 THEN p % PsnSpace ELSE left_psn

\* One round of shift_send's loop: gen_pkt fills the slot, which is transmitted.
SendOne ==
    /\ pc = "send"
    /\ Distance(to_ack, sending) < expect
    /\ CanContinue \/ CanStart
    /\ LET t == Taken
           g == ops[t.op].group
           p == t.start + t.sent
           last == t.sent + 1 = ops[t.op].cnt
       IN  /\ current_group_id' = g
           /\ current_switch_window_limit' = WindowLimit
           /\ group_psn' = IF CanContinue THEN group_psn
                           ELSE [group_psn EXCEPT ![g] = @ + ops[t.op].cnt]
           /\ state' = [state EXCEPT ![sending] =
                         [acked |-> FALSE, op |-> t.op, group |-> g, p |-> p, is_last |-> last]]
           /\ sub_op' = IF last THEN NoOp ELSE [t EXCEPT !.sent = @ + 1]
           /\ wq' = IF last THEN Tail(wq) ELSE wq
           /\ left_psn' = LeftPsn(p)
           /\ wire' = Fresh(wire, [group_psn EXCEPT ![g] = p + 1]) \cup {[group |-> g, p |-> p]}
    /\ sending' = get_next_position(sending)
    /\ UNCHANGED <<pc, ops, done, to_ack, to_send, right_psn, expect, got>>

\* The loop ends, and with it the iteration of worker_loop.
EndSend ==
    /\ pc = "send"
    /\ Distance(to_ack, sending) >= expect \/ ~ (CanContinue \/ CanStart)
    /\ to_send' = sending
    /\ right_psn' = IF to_ack = sending THEN 0 ELSE get_psn(state[get_prev_position(sending)])
    /\ pc' = "rx"
    /\ UNCHANGED <<queues, gen, to_ack, left_psn, state, loop, wire, got>>

Next ==
    \/ \E g \in Groups, n \in 1 .. MaxPkts : Post(g, n)
    \/ \E x \in wire : Lose(x) \/ rx_process_one(x)
    \/ shift_ack
    \/ full_retrans
    \/ \E cwnd \in CwndMin .. MaxWinLen - 1 : shift_send(cwnd)
    \/ SendOne
    \/ EndSend

Spec == Init /\ [][Next]_vars

-----------------------------------------------------------------------------
\* Slots in use, those of the running shift_send included.
Used == Slots(to_ack, IF pc = "send" THEN sending ELSE to_send)

(***************************************************************************)
(* Types of the window, whose left and right PSN have 32 bits, and of the  *)
(* queues.                                                                 *)
(***************************************************************************)
TypeOK ==
    /\ pc \in {"rx", "tx", "send"}
    /\ {to_ack, to_send, sending} \subseteq Positions
    /\ {left_psn, right_psn} \subseteq 0 .. PsnSpace - 1
    /\ state \in [Positions -> [acked : BOOLEAN, op : 0 .. NOps, group : Groups \cup {NoGroup},
                                p : 0 .. NOps * MaxPkts, is_last : BOOLEAN]]
    /\ expect \in 0 .. MaxWinLen - 1
    /\ wire \subseteq [group : Groups, p : 0 .. NOps * MaxPkts]

(***************************************************************************)
(* An unacknowledged packet in the window is found by its PSN, at every    *)
(* position of the ring and at the wrap of the PSN (NetCCL_key.md,         *)
(* Invariant-2).                                                           *)
(***************************************************************************)
UnackedFound ==
    pc = "rx" => \A i \in Slots(to_ack, to_send) : get_position(Packet(i)) = i

(***************************************************************************)
(* A response that may still come is stored only in the place of the very  *)
(* packet it answers, and only while its sub-operation is not complete: a  *)
(* late response never writes to a buffer that is already someone else's.  *)
(***************************************************************************)
NoStrayWrite ==
    pc = "rx" => \A x \in wire :
        LET i == get_position(x) IN
        i # Invalid /\ ~ state[i].acked => Packet(i) = x /\ state[i].op \notin Range(done)

(***************************************************************************)
(* Sub-operations complete in the order of posting, each of them once and  *)
(* only when the responses to all of its packets are stored.  The load     *)
(* balancer matches the heads of the workers' queues by this order.        *)
(***************************************************************************)
CompletionInOrder ==
    \A n \in 1 .. Len(done) :
        done[n] = n /\ Cardinality(got[n]) = ops[n].cnt

(***************************************************************************)
(* All packets in the window are of one group, and it is the current one.  *)
(***************************************************************************)
OneGroup == \A i \in Used : state[i].group = current_group_id

(***************************************************************************)
(* At most half of the aggregators are in use, although shift_send takes   *)
(* the limit before gen_pkt sets it for a new group.                       *)
(***************************************************************************)
SwitchLimit == Cardinality(Used) <= AggLen \div 2

(***************************************************************************)
(* The window holds packets of the current group only, and no more of them *)
(* than the group's aggregators allow, although gen_pkt and shift_send     *)
(* decide with values from before the switch to a new group.               *)
(***************************************************************************)
WindowOfOneGroup == OneGroup /\ SwitchLimit
=============================================================================
