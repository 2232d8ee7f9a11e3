----------------------------- MODULE NicBuffer ------------------------------
(***************************************************************************)
(* The queue buffers of a worker (process_buffer.hpp) between its window   *)
(* and the NIC.  A packet to send is a pointer to the buffer of its slot   *)
(* in the window: it waits in tx_bufs and then in the NIC's ring of        *)
(* descriptors until the NIC reads the buffer, while the worker goes on    *)
(* and later fills the same buffer with another packet.                    *)
(*                                                                         *)
(* Packets are numbered in order of first transmission; packet p is in     *)
(* slot p % SlotCount.  DPDK and the network are external: the ring takes  *)
(* some of the packets offered, is first in first out, and every packet    *)
(* sent is answered or lost.                                               *)
(***************************************************************************)
EXTENDS Integers, Sequences, FiniteSets

CONSTANTS
    SlotCount,      \* MAX_WIN_LEN, slots of the window
    InFlight,       \* most packets in the window, half the worker's aggregators
    TxSize, RxSize, \* sizes of the buffers of queue_process_buffer
    NbTxd, NbRxd,   \* sizes of the NIC's rings
    NPkts           \* bound of the model: packets sent

ASSUME BufferAssumption ==
    /\ {SlotCount, InFlight, TxSize, RxSize, NbTxd, NbRxd} \subseteq Nat \ {0}
    /\ NPkts \in Nat

(***************************************************************************)
(* The slots not in the window outnumber the packets that can be queued:   *)
(* 1024 slots, at most 512 packets in the window with 1024 aggregators     *)
(* (ALLOC_SIZE), 32 in the buffer and 64 in the ring.                      *)
(***************************************************************************)
ASSUME RoomAssumption == InFlight + TxSize + NbTxd <= SlotCount

VARIABLES
    buf,            \* buf[s]: the packet in the buffer of slot s
    to_ack, to_send,    \* the window: packets to_ack .. to_send - 1
    acked,          \* packets of the window with an answer
    tx_bufs, tx_nb, \* pointers waiting to be given to the NIC
    flush_timer,
    txd,            \* the NIC's ring of descriptors to send
    wire,           \* packets sent so far: the highest number, plus one
    rxd,            \* answers in the NIC's ring
    rx_bufs, rx_nb, rx_iter     \* answers taken from the NIC and not yet processed

window == <<buf, to_ack, to_send, acked>>
txVars == <<tx_bufs, tx_nb, flush_timer, txd>>
rxVars == <<rxd, rx_bufs, rx_nb, rx_iter>>
nic_vars == <<window, txVars, wire, rxVars>>

Slots == 0 .. SlotCount - 1
slot(p) == p % SlotCount

\* A pointer to the buffer of packet p; psn is the packet it was meant for.
mbuf(p) == [slot |-> slot(p), psn |-> p]
NoPkt == [slot |-> 0, psn |-> -1]

NicInit ==
    /\ buf = [s \in Slots |-> -1]
    /\ to_ack = 0 /\ to_send = 0 /\ acked = {}
    /\ tx_bufs = [i \in 0 .. TxSize - 1 |-> NoPkt] /\ tx_nb = 0
    /\ flush_timer = 0
    /\ txd = <<>> /\ wire = 0
    /\ rxd = <<>> /\ rx_bufs = <<>> /\ rx_nb = 0 /\ rx_iter = 0

-----------------------------------------------------------------------------
\* How many of n packets rte_eth_tx_burst may take.
TxBurst(n) == {c \in 0 .. n : Len(txd) + c <= NbTxd}

\* Mutation of Compacted: what was not taken stays where it is.
Compacted_not(bufs, n, c) == bufs

\* bufs after the first c of its n packets were taken.
Compacted(bufs, n, c) ==
    IF n > c /\ c > 0
    THEN [i \in DOMAIN bufs |-> IF i < n - c THEN bufs[i + c] ELSE bufs[i]]
    ELSE bufs

\* flush_once with bufs[0 .. n - 1]; the NIC takes c of them.
flush_once(bufs, n, c) ==
    /\ txd' = txd \o [i \in 1 .. c |-> bufs[i - 1]]
    /\ tx_nb' = n - c
    /\ tx_bufs' = Compacted(bufs, n, c)
    /\ flush_timer' = 0

\* The loop of send at a full buffer.
SendFull ==
    /\ tx_nb = TxSize
    /\ \E c \in TxBurst(tx_nb) : flush_once(tx_bufs, tx_nb, c)
    /\ UNCHANGED <<window, wire, rxVars>>

\* send, once there is room.
send(p) ==
    /\ tx_nb < TxSize
    /\ LET bufs == [tx_bufs EXCEPT ![tx_nb] = mbuf(p)]
       IN  IF tx_nb + 1 = TxSize
           THEN \E c \in TxBurst(TxSize) : flush_once(bufs, TxSize, c)
           ELSE /\ tx_bufs' = bufs /\ tx_nb' = tx_nb + 1
                /\ UNCHANGED <<flush_timer, txd>>

\* Mutation of WindowRoom: the limit of the switch memory is left out.
WindowRoom_ring == to_send - to_ack < SlotCount - 1

WindowRoom == to_send - to_ack < InFlight

\* shift_send: the next packet is written to its slot's buffer and sent.
SendNext ==
    /\ WindowRoom
    /\ to_send < NPkts
    /\ send(to_send)
    /\ buf' = [buf EXCEPT ![slot(to_send)] = to_send]
    /\ to_send' = to_send + 1
    /\ UNCHANGED <<to_ack, acked, wire, rxVars>>

\* transmit of a packet of the window again (transmit_unacked, collect_retrans).
Retransmit(p) ==
    /\ p \in to_ack .. to_send - 1
    /\ p \notin acked
    /\ send(p)
    /\ UNCHANGED <<window, wire, rxVars>>

\* Mutation of check_flush_timer: nothing is flushed when the timer expires.
check_flush_timer_never ==
    /\ flush_timer' = IF flush_timer < TxSize * 2 THEN flush_timer + 1 ELSE 0
    /\ UNCHANGED <<tx_bufs, tx_nb, txd>>

check_flush_timer ==
    IF flush_timer < TxSize * 2
    THEN flush_timer' = flush_timer + 1 /\ UNCHANGED <<tx_bufs, tx_nb, txd>>
    ELSE \E c \in TxBurst(tx_nb) : flush_once(tx_bufs, tx_nb, c)

\* The window after the answer to packet p: rx_process_one and shift_ack.
Answered(p) ==
    LET A == IF p \in to_ack .. to_send - 1 THEN acked \cup {p} ELSE acked
    IN  \E left \in to_ack .. to_send :
           /\ left \notin A /\ \A y \in to_ack .. left - 1 : y \in A
           /\ to_ack' = left
           /\ acked' = {y \in A : y >= left}

\* receive, and the processing of what it returns.
Receive ==
    /\ check_flush_timer
    /\ IF rx_iter # rx_nb
       THEN /\ Answered(rx_bufs[rx_iter + 1])
            /\ rx_iter' = rx_iter + 1
            /\ UNCHANGED <<rxd, rx_bufs, rx_nb>>
       ELSE \E n \in 0 .. Len(rxd) :
              /\ n = 0 <=> rxd = <<>>
              /\ n <= RxSize
              /\ rx_nb' = n
              /\ rx_bufs' = SubSeq(rxd, 1, n)
              /\ rxd' = SubSeq(rxd, n + 1, Len(rxd))
              /\ IF n = 0
                 THEN rx_iter' = 0 /\ UNCHANGED <<to_ack, acked>>
                 ELSE rx_iter' = 1 /\ Answered(rxd[1])
    /\ UNCHANGED <<buf, to_send, wire>>

\* The NIC sends what the buffer holds now; the packet is answered or lost.
NicSend ==
    /\ txd # <<>>
    /\ txd' = Tail(txd)
    /\ LET p == buf[Head(txd).slot]
       IN  /\ wire' = IF p >= wire THEN p + 1 ELSE wire
           /\ \/ UNCHANGED rxd
              \/ Len(rxd) < NbRxd /\ rxd' = Append(rxd, p)
    /\ UNCHANGED <<window, tx_bufs, tx_nb, flush_timer, rx_bufs, rx_nb, rx_iter>>

NicNext ==
    \/ SendFull \/ SendNext \/ Receive \/ NicSend
    \/ \E p \in 0 .. NPkts - 1 : Retransmit(p)

(***************************************************************************)
(* The worker calls receive in every iteration of its loop, the NIC sends  *)
(* what is in its ring, and takes packets again once it has sent some.     *)
(***************************************************************************)
Flushed == tx_nb' < tx_nb

NicFairness == SF_nic_vars((SendFull \/ Receive) /\ Flushed) /\ WF_nic_vars(NicSend)

NicSpec == NicInit /\ [][NicNext]_nic_vars /\ WF_nic_vars(Receive) /\ NicFairness

-----------------------------------------------------------------------------
\* What is queued, in order: the ring, then the buffer.
Queued == txd \o [i \in 1 .. tx_nb |-> tx_bufs[i - 1]]

(***************************************************************************)
(* The buffer of a queued packet still holds that packet: gen_pkt and      *)
(* fill_pkt never overwrite a buffer the NIC has yet to read, although the *)
(* worker does not ask the NIC (transmit only counts a reference).         *)
(***************************************************************************)
IntactUntilSent == \A i \in DOMAIN Queued : buf[Queued[i].slot] = Queued[i].psn

(***************************************************************************)
(* The inductive invariant behind IntactUntilSent.  A queued packet is at  *)
(* most as old as the window and the packets queued behind it allow, and   *)
(* the last SlotCount packets are in their buffers.                        *)
(***************************************************************************)
Entry == [slot : Slots, psn : Int]

Fresh(e, sent, age) == e.psn \in 0 .. sent - 1 /\ e.slot = slot(e.psn) /\ sent - e.psn <= age

QueueInv(ring, bufs, n, sent) ==
    /\ ring \in Seq(Entry) /\ Len(ring) <= NbTxd
    /\ bufs \in [0 .. TxSize - 1 -> Entry] /\ n \in 0 .. TxSize
    /\ \A i \in 1 .. Len(ring) : Fresh(ring[i], sent, InFlight + Len(ring) - i + n)
    /\ \A i \in 0 .. n - 1 : Fresh(bufs[i], sent, InFlight + n - 1 - i)

NicInv ==
    /\ to_ack \in Nat /\ to_send \in Nat /\ to_ack <= to_send /\ to_send - to_ack <= InFlight
    /\ buf \in [Slots -> Int]
    /\ \A p \in 0 .. to_send - 1 : to_send - p <= SlotCount => buf[slot(p)] = p
    /\ QueueInv(txd, tx_bufs, tx_nb, to_send)

(***************************************************************************)
(* The buffers are one queue: a step adds a packet at its end, removes its *)
(* head, or leaves it as it is, whatever part of a burst the NIC takes.    *)
(* No packet is lost, doubled or overtaken in process_buffer.hpp.          *)
(***************************************************************************)
FirstInFirstOut ==
    [][\/ Queued' = Queued
       \/ Queued # <<>> /\ Queued' = Tail(Queued)
       \/ \E p \in 0 .. to_send : Queued' = Append(Queued, mbuf(p))]_nic_vars

(***************************************************************************)
(* Every packet of the window reaches the wire, also the last ones, which  *)
(* do not fill the buffer: the flush timer runs out.                       *)
(***************************************************************************)
EverySendLeaves == \A p \in 0 .. NPkts - 1 : (to_send > p) ~> (wire > p)
=============================================================================
