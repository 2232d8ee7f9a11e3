------------------------- MODULE SharedMemoryProofs --------------------------
(***************************************************************************)
(* The memory that threads, processes and devices share.                   *)
(*                                                                         *)
(* NIC queue buffers: no buffer is overwritten before the NIC has read it, *)
(* and the two queues of process_buffer.hpp and the NIC are one, for every *)
(* size of ring, window and burst that RoomAssumption allows.              *)
(*                                                                         *)
(* Copy buffer: its regions never overlap and the assertions of fifo_free  *)
(* hold, for every size of the buffer, of segments and of tensors, as long *)
(* as all of them are even.                                                *)
(*                                                                         *)
(* Start-up and shut-down: the daemon thread only runs while its rank has  *)
(* the shared memory mapped; the name of the segment is free when it is    *)
(* created, or another rank of the same program has taken it, for any      *)
(* number of programs and of ranks on the server.                          *)
(***************************************************************************)
EXTENDS NicBuffer, CopyBuffer, Startup, Arithmetic, SequenceTheorems, TLAPS

-----------------------------------------------------------------------------
(***************************************************************************)
(* The NIC queue buffers.                                                  *)
(***************************************************************************)

-----------------------------------------------------------------------------
(* Slots. *)

\* The constants, as numbers.
LEMMA Sizes ==
    /\ SlotCount \in Nat \ {0} /\ InFlight \in Nat \ {0} /\ TxSize \in Nat \ {0} /\ NbTxd \in Nat \ {0}
    /\ InFlight + TxSize + NbTxd <= SlotCount
BY BufferAssumption, RoomAssumption

\* Every packet has a slot.
LEMMA SlotType ==
    ASSUME NEW p \in Nat
    PROVE  slot(p) \in Slots
BY Sizes DEF slot, Slots

\* Two packets with the same slot are at least SlotCount apart.
LEMMA SlotsApart ==
    ASSUME NEW p \in Nat, NEW q \in Nat, p < q, slot(p) = slot(q)
    PROVE  q - p >= SlotCount
<1>1. SlotCount \in Nat /\ SlotCount > 0
  BY Sizes
<1>2. q % SlotCount = p % SlotCount
  BY DEF slot
<1>3. p + SlotCount <= q
  BY <1>1, <1>2, SameRemainder
<1> QED  BY <1>1, <1>3

-----------------------------------------------------------------------------
(* The queue. *)

\* A pointer to a packet is an entry of the queues.
LEMMA MbufEntry ==
    ASSUME NEW p \in Nat
    PROVE  /\ mbuf(p) \in Entry
           /\ mbuf(p).psn = p /\ mbuf(p).slot = slot(p)
BY SlotType DEF mbuf, Entry

\* A packet at the end of the buffer; every other one may become older by one.
LEMMA PushQueue ==
    ASSUME NEW ring, NEW bufs, NEW n, NEW sent \in Nat, QueueInv(ring, bufs, n, sent), n < TxSize,
           NEW sent1 \in {sent, sent + 1},
           NEW p \in Nat, p < sent1, sent1 - p <= InFlight
    PROVE  QueueInv(ring, [bufs EXCEPT ![n] = mbuf(p)], n + 1, sent1)
<1> DEFINE b == [bufs EXCEPT ![n] = mbuf(p)]
<1>1. /\ ring \in Seq(Entry) /\ Len(ring) <= NbTxd /\ Len(ring) \in Nat
      /\ bufs \in [0 .. TxSize - 1 -> Entry] /\ n \in Nat
  BY Sizes DEF QueueInv
<1>2. n \in 0 .. TxSize - 1 /\ n + 1 \in 0 .. TxSize
  BY <1>1, Sizes
<1>3. b \in [0 .. TxSize - 1 -> Entry]
  BY <1>1, MbufEntry
<1>4. ASSUME NEW i \in 1 .. Len(ring)
      PROVE  Fresh(ring[i], sent1, InFlight + Len(ring) - i + (n + 1))
  <2>1. Fresh(ring[i], sent, InFlight + Len(ring) - i + n)
    BY DEF QueueInv
  <2> QED  BY <1>1, <2>1, Sizes, SMTT(30) DEF Fresh
<1>5. ASSUME NEW i \in 0 .. n
      PROVE  Fresh(b[i], sent1, InFlight + (n + 1) - 1 - i)
  <2>1. CASE i = n
    <3>1. b[i] = mbuf(p)
      BY <1>1, <1>2, <2>1
    <3> QED  BY <1>1, <2>1, <3>1, MbufEntry, Sizes DEF Fresh
  <2>2. CASE i # n
    <3>1. b[i] = bufs[i] /\ i \in 0 .. n - 1
      BY <1>1, <1>2, <2>2
    <3>2. Fresh(bufs[i], sent, InFlight + n - 1 - i)
      BY <3>1 DEF QueueInv
    <3> QED  BY <1>1, <3>1, <3>2, Sizes, SMTT(30) DEF Fresh
  <2> QED  BY <2>1, <2>2
<1>6. (n + 1) - 1 = n
  BY <1>1
<1> HIDE DEF b
<1> QED  BY <1>1, <1>2, <1>3, <1>4, <1>5, <1>6 DEF QueueInv, b

\* The packets flush_once gives to the NIC, as a sequence.
Taken(bufs, c) == [i \in 1 .. c |-> bufs[i - 1]]

LEMMA TakenType ==
    ASSUME NEW bufs \in [0 .. TxSize - 1 -> Entry], NEW c \in 0 .. TxSize
    PROVE  /\ Taken(bufs, c) \in Seq(Entry) /\ Len(Taken(bufs, c)) = c
           /\ \A i \in 1 .. c : Taken(bufs, c)[i] = bufs[i - 1]
<1>1. \A i \in 1 .. c : i - 1 \in 0 .. TxSize - 1
  BY Sizes
<1>2. Taken(bufs, c) \in [1 .. c -> Entry] /\ c \in Nat
  BY <1>1, Sizes DEF Taken
<1> QED  BY <1>2 DEF Taken

\* What is left in the buffer moves to its front.
LEMMA CompactedIs ==
    ASSUME NEW bufs \in [0 .. TxSize - 1 -> Entry], NEW n \in 0 .. TxSize, NEW c \in 0 .. n
    PROVE  /\ Compacted(bufs, n, c) \in [0 .. TxSize - 1 -> Entry]
           /\ \A i \in 0 .. (n - c) - 1 : Compacted(bufs, n, c)[i] = bufs[i + c]
<1>1. n \in Nat /\ c \in Nat /\ n <= TxSize /\ c <= n
  BY Sizes
<1>2. CASE n > c /\ c > 0
  <2> DEFINE f == [i \in 0 .. TxSize - 1 |-> IF i < n - c THEN bufs[i + c] ELSE bufs[i]]
  <2>1. Compacted(bufs, n, c) = f
    BY <1>2 DEF Compacted
  <2>2. \A i \in 0 .. TxSize - 1 : i < n - c => i + c \in 0 .. TxSize - 1
    BY <1>1, Sizes
  <2>3. f \in [0 .. TxSize - 1 -> Entry]
    BY <2>2
  <2>4. \A i \in 0 .. (n - c) - 1 : f[i] = bufs[i + c]
    BY <1>1, Sizes
  <2> QED  BY <2>1, <2>3, <2>4
<1>3. CASE n = c
  BY <1>1, <1>3 DEF Compacted
<1>4. CASE c = 0
  BY <1>1, <1>4 DEF Compacted
<1> QED  BY <1>1, <1>2, <1>3, <1>4

\* flush_once keeps the queue, whatever part of it the NIC takes.
LEMMA FlushQueue ==
    ASSUME NEW ring, NEW bufs, NEW n, NEW sent \in Nat, QueueInv(ring, bufs, n, sent),
           NEW c \in 0 .. n, Len(ring) + c <= NbTxd
    PROVE  QueueInv(ring \o Taken(bufs, c), Compacted(bufs, n, c), n - c, sent)
<1> DEFINE new == ring \o Taken(bufs, c)
           b == Compacted(bufs, n, c)
<1>1. /\ ring \in Seq(Entry) /\ Len(ring) \in Nat
      /\ bufs \in [0 .. TxSize - 1 -> Entry] /\ n \in 0 .. TxSize
  BY DEF QueueInv
<1>2. n \in Nat /\ c \in Nat /\ c <= n /\ c \in 0 .. TxSize /\ n - c \in 0 .. TxSize
  BY <1>1, Sizes
<1>3. /\ Taken(bufs, c) \in Seq(Entry) /\ Len(Taken(bufs, c)) = c
      /\ \A i \in 1 .. c : Taken(bufs, c)[i] = bufs[i - 1]
  BY <1>1, <1>2, TakenType
<1>4. /\ b \in [0 .. TxSize - 1 -> Entry]
      /\ \A i \in 0 .. (n - c) - 1 : b[i] = bufs[i + c]
  BY <1>1, CompactedIs
<1>5. /\ new \in Seq(Entry) /\ Len(new) = Len(ring) + c
      /\ \A i \in 1 .. Len(ring) : new[i] = ring[i]
      /\ \A i \in Len(ring) + 1 .. Len(ring) + c : new[i] = bufs[i - Len(ring) - 1]
  <2>1. new \in Seq(Entry) /\ Len(new) = Len(ring) + c
    BY <1>1, <1>3, ConcatProperties
  <2>2. \A i \in 1 .. Len(ring) + c :
           new[i] = IF i <= Len(ring) THEN ring[i] ELSE Taken(bufs, c)[i - Len(ring)]
    BY <1>1, <1>3, ConcatProperties
  <2>3. ASSUME NEW i \in Len(ring) + 1 .. Len(ring) + c
        PROVE  new[i] = bufs[i - Len(ring) - 1]
    <3>1. i \in 1 .. Len(ring) + c /\ ~(i <= Len(ring)) /\ i - Len(ring) \in 1 .. c
      BY <1>1, <1>2
    <3>2. new[i] = Taken(bufs, c)[i - Len(ring)]
      BY <2>2, <3>1
    <3> HIDE DEF new
    <3> QED  BY <1>3, <3>1, <3>2
  <2>4. ASSUME NEW i \in 1 .. Len(ring)
        PROVE  new[i] = ring[i]
    <3>1. i \in 1 .. Len(ring) + c /\ i <= Len(ring)
      BY <1>1, <1>2
    <3> QED  BY <2>2, <3>1
  <2> QED  BY <2>1, <2>3, <2>4
<1> HIDE DEF new, b
<1>6. ASSUME NEW i \in 1 .. Len(new)
      PROVE  Fresh(new[i], sent, InFlight + Len(new) - i + (n - c))
  <2>1. CASE i \in 1 .. Len(ring)
    <3>1. Fresh(ring[i], sent, InFlight + Len(ring) - i + n) /\ new[i] = ring[i]
      BY <1>5, <2>1 DEF QueueInv
    <3>2. InFlight + Len(new) - i + (n - c) = InFlight + Len(ring) - i + n
      BY <1>1, <1>2, <1>5, <2>1, Sizes
    <3> QED  BY <3>1, <3>2
  <2>2. CASE i \in Len(ring) + 1 .. Len(ring) + c
    <3> DEFINE j == i - Len(ring) - 1
    <3>1. j \in 0 .. n - 1 /\ new[i] = bufs[j]
      BY <1>1, <1>2, <1>5, <2>2
    <3>2. Fresh(bufs[j], sent, InFlight + n - 1 - j)
      BY <3>1 DEF QueueInv
    <3>3. InFlight + Len(new) - i + (n - c) = InFlight + n - 1 - j
      BY <1>1, <1>2, <1>5, <2>2, Sizes
    <3> QED  BY <3>1, <3>2, <3>3
  <2> QED  BY <1>1, <1>2, <1>5, <2>1, <2>2
<1>7. ASSUME NEW i \in 0 .. (n - c) - 1
      PROVE  Fresh(b[i], sent, InFlight + (n - c) - 1 - i)
  <2>1. i + c \in 0 .. n - 1 /\ b[i] = bufs[i + c]
    BY <1>2, <1>4
  <2>2. Fresh(bufs[i + c], sent, InFlight + n - 1 - (i + c))
    BY <2>1 DEF QueueInv
  <2>3. InFlight + (n - c) - 1 - i = InFlight + n - 1 - (i + c)
    BY <1>2, Sizes
  <2> QED  BY <2>1, <2>2, <2>3
<1> QED  BY <1>2, <1>4, <1>5, <1>6, <1>7 DEF QueueInv, new, b

\* flush_once as an action.
LEMMA FlushOnce ==
    ASSUME NEW bufs, NEW n, NEW sent \in Nat, QueueInv(txd, bufs, n, sent),
           NEW c \in TxBurst(n), flush_once(bufs, n, c)
    PROVE  QueueInv(txd', tx_bufs', tx_nb', sent)
<1>1. c \in 0 .. n /\ Len(txd) + c <= NbTxd
  BY DEF TxBurst
<1>2. txd' = txd \o Taken(bufs, c) /\ tx_bufs' = Compacted(bufs, n, c) /\ tx_nb' = n - c
  BY DEF flush_once, Taken
<1> QED  BY <1>1, <1>2, FlushQueue

\* send of a packet of the window.
LEMMA SendQueue ==
    ASSUME NicInv, NEW p \in Nat, send(p),
           NEW sent1 \in {to_send, to_send + 1}, p < sent1, sent1 - p <= InFlight
    PROVE  QueueInv(txd', tx_bufs', tx_nb', sent1)
<1> DEFINE bufs == [tx_bufs EXCEPT ![tx_nb] = mbuf(p)]
<1>1. to_send \in Nat /\ sent1 \in Nat /\ QueueInv(txd, tx_bufs, tx_nb, to_send)
  BY DEF NicInv
<1>2. QueueInv(txd, bufs, tx_nb + 1, sent1)
  BY <1>1, PushQueue, ZenonT(30) DEF send
<1>3. CASE tx_nb + 1 = TxSize
  <2>1. PICK c \in TxBurst(TxSize) : flush_once(bufs, TxSize, c)
    BY <1>3 DEF send
  <2> QED  BY <1>1, <1>2, <1>3, <2>1, FlushOnce
<1>4. CASE tx_nb + 1 # TxSize
  BY <1>2, <1>4 DEF send
<1> QED  BY <1>3, <1>4

-----------------------------------------------------------------------------
(* The invariant, action by action. *)

LEMMA InitNicInv == NicInit => NicInv
<1> SUFFICES ASSUME NicInit PROVE NicInv
  OBVIOUS
<1>1. /\ buf = [s \in Slots |-> -1] /\ to_ack = 0 /\ to_send = 0
      /\ tx_bufs = [i \in 0 .. TxSize - 1 |-> NoPkt] /\ tx_nb = 0 /\ txd = <<>>
  BY DEF NicInit
<1>2. NoPkt \in Entry
  BY Sizes DEF NoPkt, Entry, Slots
<1>3. QueueInv(txd, tx_bufs, tx_nb, to_send)
  BY <1>1, <1>2, Sizes DEF QueueInv
<1> QED  BY <1>1, <1>3, Sizes DEF NicInv

LEMMA SendFullNicInv ==
    ASSUME NicInv, SendFull
    PROVE  NicInv'
<1>1. UNCHANGED <<buf, to_ack, to_send>>
  BY DEF SendFull, window
<1>2. PICK c \in TxBurst(tx_nb) : flush_once(tx_bufs, tx_nb, c)
  BY DEF SendFull
<1>3. QueueInv(txd', tx_bufs', tx_nb', to_send)
  BY <1>2, FlushOnce DEF NicInv
<1> QED  BY <1>1, <1>3 DEF NicInv

LEMMA ShiftSendNicInv ==
    ASSUME NicInv, SendNext
    PROVE  NicInv'
<1>1. /\ to_send \in Nat /\ to_ack \in Nat /\ to_ack <= to_send
      /\ buf \in [Slots -> Int]
  BY DEF NicInv
<1>2. /\ to_ack' = to_ack /\ to_send' = to_send + 1 /\ to_send - to_ack < InFlight
      /\ send(to_send) /\ buf' = [buf EXCEPT ![slot(to_send)] = to_send]
  BY DEF SendNext, WindowRoom
<1>3. QueueInv(txd', tx_bufs', tx_nb', to_send')
  <2>1. to_send < to_send + 1 /\ (to_send + 1) - to_send <= InFlight
    BY <1>1, Sizes
  <2>2. to_send + 1 \in {to_send, to_send + 1}
    OBVIOUS
  <2> QED  BY <1>1, <1>2, <2>1, <2>2, SendQueue
<1>4. buf' \in [Slots -> Int]
  BY <1>1, <1>2, SlotType
<1>5. ASSUME NEW p \in 0 .. to_send, (to_send + 1) - p <= SlotCount
      PROVE  buf'[slot(p)] = p
  <2>1. p \in Nat /\ slot(p) \in Slots /\ slot(to_send) \in Slots
    BY <1>1, SlotType
  <2>2. CASE p = to_send
    BY <1>1, <1>2, <2>1, <2>2
  <2>3. CASE p # to_send
    <3>1. p \in 0 .. to_send - 1 /\ to_send - p <= SlotCount /\ ~(to_send - p >= SlotCount)
      BY <1>1, <1>5, <2>3, Sizes
    <3>2. slot(p) # slot(to_send)
      BY <1>1, <2>1, <3>1, SlotsApart
    <3>3. buf[slot(p)] = p
      BY <3>1 DEF NicInv
    <3> QED  BY <1>1, <1>2, <2>1, <3>2, <3>3
  <2> QED  BY <2>2, <2>3
<1>6. \A p \in 0 .. to_send' - 1 : to_send' - p <= SlotCount => buf'[slot(p)] = p
  BY <1>1, <1>2, <1>5
<1>7. to_send' - to_ack' <= InFlight /\ to_ack' <= to_send' /\ to_send' \in Nat /\ to_ack' \in Nat
  BY <1>1, <1>2, Sizes
<1> QED  BY <1>3, <1>4, <1>6, <1>7 DEF NicInv, slot

LEMMA RetransmitNicInv ==
    ASSUME NicInv, NEW p \in 0 .. NPkts - 1, Retransmit(p)
    PROVE  NicInv'
<1>1. UNCHANGED <<buf, to_ack, to_send>> /\ send(p) /\ p \in to_ack .. to_send - 1
  BY DEF Retransmit, window
<1>2. p \in Nat /\ p < to_send /\ to_send - p <= InFlight
  BY <1>1, Sizes DEF NicInv
<1>3. QueueInv(txd', tx_bufs', tx_nb', to_send)
  BY <1>1, <1>2, SendQueue
<1> QED  BY <1>1, <1>3 DEF NicInv

LEMMA ReceiveNicInv ==
    ASSUME NicInv, Receive
    PROVE  NicInv'
<1>1. UNCHANGED <<buf, to_send>> /\ check_flush_timer
  BY DEF Receive
<1>2. to_ack' \in to_ack .. to_send
  <2>1. ASSUME NEW q, Answered(q) PROVE to_ack' \in to_ack .. to_send
    BY <2>1 DEF Answered
  <2>2. CASE rx_iter # rx_nb
    BY <2>1, <2>2 DEF Receive
  <2>3. CASE rx_iter = rx_nb
    <3>1. to_ack' = to_ack \/ Answered(rxd[1])
      BY <2>3 DEF Receive
    <3> QED  BY <2>1, <3>1 DEF NicInv
  <2> QED  BY <2>2, <2>3
<1>3. QueueInv(txd', tx_bufs', tx_nb', to_send)
  <2>1. QueueInv(txd, tx_bufs, tx_nb, to_send) /\ to_send \in Nat
    BY DEF NicInv
  <2>2. CASE flush_timer < TxSize * 2
    BY <1>1, <2>1, <2>2 DEF check_flush_timer
  <2>3. CASE ~(flush_timer < TxSize * 2)
    <3>1. PICK c \in TxBurst(tx_nb) : flush_once(tx_bufs, tx_nb, c)
      BY <1>1, <2>3 DEF check_flush_timer
    <3> QED  BY <2>1, <3>1, FlushOnce
  <2> QED  BY <2>2, <2>3
<1>4. to_ack' \in Nat /\ to_ack' <= to_send /\ to_send - to_ack' <= InFlight
  <2>1. to_ack \in Nat /\ to_send \in Nat /\ to_send - to_ack <= InFlight /\ InFlight \in Nat
    BY Sizes DEF NicInv
  <2>2. PICK x \in to_ack .. to_send : to_ack' = x
    BY <1>2
  <2>3. x \in Nat /\ x <= to_send /\ to_send - x <= InFlight
    BY <2>1
  <2> QED  BY <2>2, <2>3
<1> QED  BY <1>1, <1>3, <1>4 DEF NicInv

LEMMA NicSendNicInv ==
    ASSUME NicInv, NicSend
    PROVE  NicInv'
<1>1. UNCHANGED <<buf, to_ack, to_send, tx_bufs, tx_nb>> /\ txd # <<>> /\ txd' = Tail(txd)
  BY DEF NicSend, window
<1>2. /\ txd \in Seq(Entry) /\ Len(txd) <= NbTxd /\ tx_nb \in 0 .. TxSize
  BY DEF NicInv, QueueInv
<1>3. /\ txd' \in Seq(Entry) /\ Len(txd') = Len(txd) - 1 /\ Len(txd) \in Nat
      /\ \A i \in 1 .. Len(txd') : txd'[i] = txd[i + 1] /\ i + 1 \in 1 .. Len(txd)
  BY <1>1, <1>2
<1>4. ASSUME NEW i \in 1 .. Len(txd')
      PROVE  Fresh(txd'[i], to_send, InFlight + Len(txd') - i + tx_nb)
  <2>1. Fresh(txd[i + 1], to_send, InFlight + Len(txd) - (i + 1) + tx_nb)
    BY <1>3 DEF NicInv, QueueInv
  <2>2. InFlight + Len(txd) - (i + 1) + tx_nb = InFlight + Len(txd') - i + tx_nb
    BY <1>2, <1>3, Sizes
  <2> QED  BY <1>3, <2>1, <2>2
<1>5. Len(txd') <= NbTxd
  BY <1>2, <1>3, Sizes
<1>6. QueueInv(txd', tx_bufs, tx_nb, to_send)
  BY <1>3, <1>4, <1>5 DEF NicInv, QueueInv
<1> QED  BY <1>1, <1>6 DEF NicInv

\* Every step keeps the invariant.
LEMMA NextNicInv == NicInv /\ [NicNext]_nic_vars => NicInv'
<1> SUFFICES ASSUME NicInv, [NicNext]_nic_vars PROVE NicInv'
  OBVIOUS
<1>1. CASE SendFull
  BY <1>1, SendFullNicInv
<1>2. CASE SendNext
  BY <1>2, ShiftSendNicInv
<1>3. CASE Receive
  BY <1>3, ReceiveNicInv
<1>4. CASE NicSend
  BY <1>4, NicSendNicInv
<1>5. ASSUME NEW p \in 0 .. NPkts - 1, Retransmit(p) PROVE NicInv'
  BY <1>5, RetransmitNicInv
<1>6. CASE UNCHANGED nic_vars
  BY <1>6 DEF nic_vars, window, txVars, NicInv
<1> QED  BY <1>1, <1>2, <1>3, <1>4, <1>5, <1>6 DEF NicNext

(***************************************************************************)
(* The inductive invariant: how old a queued packet can be, and which      *)
(* packets the buffers of the window hold (transmit and gen_pkt of         *)
(* worker.cpp, process_buffer.hpp).                                        *)
(***************************************************************************)
THEOREM NicInvariant == NicSpec => []NicInv
BY InitNicInv, NextNicInv, PTL DEF NicSpec

-----------------------------------------------------------------------------
(* What is queued. *)

\* The ring and the first n packets of the buffer as one queue.
QueuedIn(ring, bufs, n) == ring \o Taken(bufs, n)

LEMMA QueuedInIs ==
    ASSUME NEW ring \in Seq(Entry), NEW bufs \in [0 .. TxSize - 1 -> Entry], NEW n \in 0 .. TxSize
    PROVE  /\ QueuedIn(ring, bufs, n) \in Seq(Entry)
           /\ Len(QueuedIn(ring, bufs, n)) = Len(ring) + n
           /\ \A i \in 1 .. Len(ring) : QueuedIn(ring, bufs, n)[i] = ring[i]
           /\ \A i \in Len(ring) + 1 .. Len(ring) + n :
                 QueuedIn(ring, bufs, n)[i] = bufs[i - Len(ring) - 1]
<1> DEFINE q == QueuedIn(ring, bufs, n)
           t == Taken(bufs, n)
<1>1. /\ t \in Seq(Entry) /\ Len(t) = n /\ n \in Nat /\ Len(ring) \in Nat
      /\ \A i \in 1 .. n : t[i] = bufs[i - 1]
  <2>1. n \in Nat /\ Len(ring) \in Nat
    BY Sizes
  <2>2. t \in Seq(Entry) /\ Len(t) = n /\ \A i \in 1 .. n : t[i] = bufs[i - 1]
    BY TakenType
  <2> QED  BY <2>1, <2>2
<1>2. /\ q \in Seq(Entry) /\ Len(q) = Len(ring) + n
      /\ \A i \in 1 .. Len(ring) + n : q[i] = IF i <= Len(ring) THEN ring[i] ELSE t[i - Len(ring)]
  <2>1. q = ring \o t
    BY DEF QueuedIn
  <2> HIDE DEF q, t
  <2> QED  BY <1>1, <2>1, ConcatProperties
<1> HIDE DEF t
<1> HIDE DEF q
<1>3. ASSUME NEW i \in 1 .. Len(ring) PROVE q[i] = ring[i]
  <2>1. i \in 1 .. Len(ring) + n /\ i <= Len(ring)
    BY <1>1
  <2> QED  BY <1>2, <2>1
<1>4. ASSUME NEW i \in Len(ring) + 1 .. Len(ring) + n PROVE q[i] = bufs[i - Len(ring) - 1]
  <2>1. i \in 1 .. Len(ring) + n /\ ~(i <= Len(ring)) /\ i - Len(ring) \in 1 .. n
    BY <1>1
  <2>2. q[i] = t[i - Len(ring)]
    BY <1>2, <2>1
  <2> QED  BY <1>1, <2>1, <2>2
<1> QED  BY <1>2, <1>3, <1>4 DEF q

\* Queued is the queue of the ring and the buffer.
LEMMA QueuedIs == Queued = QueuedIn(txd, tx_bufs, tx_nb)
BY DEF Queued, QueuedIn, Taken

\* A queued packet of age at most SlotCount is still in its buffer.
LEMMA FreshIntact ==
    ASSUME NicInv, NEW e, NEW age \in Int, Fresh(e, to_send, age), age <= SlotCount
    PROVE  buf[e.slot] = e.psn
<1>1. e.psn \in 0 .. to_send - 1 /\ e.slot = slot(e.psn) /\ to_send - e.psn <= SlotCount
  BY Sizes DEF Fresh, NicInv
<1> QED  BY <1>1 DEF NicInv

(***************************************************************************)
(* The buffer of a queued packet is not overwritten before the NIC has     *)
(* read it (transmit, gen_pkt and fill_pkt of worker.cpp).                 *)
(***************************************************************************)
THEOREM BuffersIntact == NicSpec => []IntactUntilSent
<1>1. NicInv => IntactUntilSent
  <2> SUFFICES ASSUME NicInv, NEW i \in DOMAIN Queued
               PROVE  buf[Queued[i].slot] = Queued[i].psn
    BY DEF IntactUntilSent
  <2>1. /\ txd \in Seq(Entry) /\ Len(txd) \in Nat /\ Len(txd) <= NbTxd
        /\ tx_bufs \in [0 .. TxSize - 1 -> Entry] /\ tx_nb \in 0 .. TxSize /\ tx_nb \in Nat
    BY Sizes DEF NicInv, QueueInv
  <2>2. /\ Queued \in Seq(Entry) /\ Len(Queued) = Len(txd) + tx_nb
        /\ \A j \in 1 .. Len(txd) : Queued[j] = txd[j]
        /\ \A j \in Len(txd) + 1 .. Len(txd) + tx_nb : Queued[j] = tx_bufs[j - Len(txd) - 1]
    BY <2>1, QueuedIs, QueuedInIs
  <2>3. i \in 1 .. Len(txd) + tx_nb
    BY <2>1, <2>2
  <2>4. CASE i \in 1 .. Len(txd)
    <3> DEFINE age == InFlight + Len(txd) - i + tx_nb
    <3>1. Fresh(txd[i], to_send, age) /\ Queued[i] = txd[i]
      BY <2>2, <2>4 DEF NicInv, QueueInv
    <3>2. age \in Int /\ age <= SlotCount
      BY <2>1, <2>4, Sizes
    <3> QED  BY <3>1, <3>2, FreshIntact
  <2>5. CASE i \in Len(txd) + 1 .. Len(txd) + tx_nb
    <3> DEFINE j == i - Len(txd) - 1
               age == InFlight + tx_nb - 1 - j
    <3>1. j \in 0 .. tx_nb - 1 /\ Queued[i] = tx_bufs[j]
      BY <2>1, <2>2, <2>5
    <3>2. Fresh(tx_bufs[j], to_send, age)
      BY <3>1 DEF NicInv, QueueInv
    <3>3. age \in Int /\ age <= SlotCount
      BY <2>1, <3>1, Sizes
    <3> QED  BY <3>1, <3>2, <3>3, FreshIntact
  <2> QED  BY <2>1, <2>3, <2>4, <2>5
<1> QED  BY <1>1, NicInvariant, PTL

-----------------------------------------------------------------------------
(* The order of what is queued. *)

\* flush_once moves packets from the buffer to the ring and changes nothing else.
LEMMA FlushSame ==
    ASSUME NEW ring \in Seq(Entry), NEW bufs \in [0 .. TxSize - 1 -> Entry], NEW n \in 0 .. TxSize,
           NEW c \in 0 .. n
    PROVE  QueuedIn(ring \o Taken(bufs, c), Compacted(bufs, n, c), n - c) = QueuedIn(ring, bufs, n)
<1> DEFINE new == ring \o Taken(bufs, c)
           b == Compacted(bufs, n, c)
           L == Len(ring)
<1>1. n \in Nat /\ c \in Nat /\ c <= n /\ c \in 0 .. TxSize /\ n - c \in 0 .. TxSize /\ L \in Nat
  BY Sizes
<1>2. /\ new \in Seq(Entry) /\ Len(new) = L + c
      /\ \A i \in 1 .. L : new[i] = ring[i]
      /\ \A i \in L + 1 .. L + c : new[i] = bufs[i - L - 1]
  BY <1>1, QueuedInIs DEF QueuedIn
<1>3. /\ b \in [0 .. TxSize - 1 -> Entry]
      /\ \A i \in 0 .. (n - c) - 1 : b[i] = bufs[i + c]
  BY CompactedIs
<1> HIDE DEF new, b
<1> DEFINE q1 == QueuedIn(new, b, n - c)
           q == QueuedIn(ring, bufs, n)
<1>4. /\ q1 \in Seq(Entry) /\ Len(q1) = Len(new) + (n - c)
      /\ \A i \in 1 .. Len(new) : q1[i] = new[i]
      /\ \A i \in Len(new) + 1 .. Len(new) + (n - c) : q1[i] = b[i - Len(new) - 1]
  BY <1>1, <1>2, <1>3, QueuedInIs
<1>5. /\ q \in Seq(Entry) /\ Len(q) = L + n
      /\ \A i \in 1 .. L : q[i] = ring[i]
      /\ \A i \in L + 1 .. L + n : q[i] = bufs[i - L - 1]
  BY QueuedInIs
<1> HIDE DEF q1, q, L
<1>6. Len(q1) = Len(q) /\ Len(q) = L + n
  BY <1>1, <1>2, <1>4, <1>5
<1>7. ASSUME NEW i \in 1 .. L + n PROVE q1[i] = q[i]
  <2>1. CASE i \in 1 .. L
    <3>1. i \in 1 .. Len(new)
      BY <1>1, <1>2, <2>1
    <3> QED  BY <1>2, <1>4, <1>5, <2>1, <3>1
  <2>2. CASE i \in L + 1 .. L + c
    <3>1. i \in 1 .. Len(new) /\ i \in L + 1 .. L + n
      BY <1>1, <1>2, <2>2
    <3> QED  BY <1>2, <1>4, <1>5, <2>2, <3>1
  <2>3. CASE i \in L + c + 1 .. L + n
    <3>1. /\ i \in Len(new) + 1 .. Len(new) + (n - c) /\ i \in L + 1 .. L + n
          /\ i - Len(new) - 1 \in 0 .. (n - c) - 1
          /\ (i - Len(new) - 1) + c = i - L - 1
      BY <1>1, <1>2, <2>3
    <3>2. q1[i] = b[i - Len(new) - 1] /\ q[i] = bufs[i - L - 1]
      BY <1>4, <1>5, <3>1
    <3>3. b[i - Len(new) - 1] = bufs[(i - Len(new) - 1) + c]
      BY <1>3, <3>1
    <3> QED  BY <3>1, <3>2, <3>3
  <2> QED  BY <1>1, <2>1, <2>2, <2>3
<1>8. q1 = q
  BY <1>4, <1>5, <1>6, <1>7, SeqEqual
<1> QED  BY <1>8 DEF q1, q, new, b

\* A packet put into the buffer is the last one of the queue.
LEMMA PushAppends ==
    ASSUME NEW ring \in Seq(Entry), NEW bufs \in [0 .. TxSize - 1 -> Entry], NEW n \in 0 .. TxSize - 1,
           NEW e \in Entry
    PROVE  QueuedIn(ring, [bufs EXCEPT ![n] = e], n + 1) = Append(QueuedIn(ring, bufs, n), e)
<1> DEFINE b == [bufs EXCEPT ![n] = e]
           L == Len(ring)
           q1 == QueuedIn(ring, b, n + 1)
           q == QueuedIn(ring, bufs, n)
<1>1. n \in Nat /\ n \in 0 .. TxSize /\ n + 1 \in 0 .. TxSize /\ L \in Nat
  BY Sizes
<1>2. b \in [0 .. TxSize - 1 -> Entry] /\ b[n] = e /\ \A i \in 0 .. n - 1 : b[i] = bufs[i]
  BY <1>1, Sizes
<1> HIDE DEF b
<1>3. /\ q1 \in Seq(Entry) /\ Len(q1) = L + (n + 1)
      /\ \A i \in 1 .. L : q1[i] = ring[i]
      /\ \A i \in L + 1 .. L + (n + 1) : q1[i] = b[i - L - 1]
  BY <1>1, <1>2, QueuedInIs
<1>4. /\ q \in Seq(Entry) /\ Len(q) = L + n
      /\ \A i \in 1 .. L : q[i] = ring[i]
      /\ \A i \in L + 1 .. L + n : q[i] = bufs[i - L - 1]
  BY <1>1, QueuedInIs
<1> HIDE DEF q1, q, L
<1> DEFINE a == Append(q, e)
<1>5. /\ a \in Seq(Entry) /\ Len(a) = L + n + 1
      /\ \A i \in 1 .. L + n : a[i] = q[i]
      /\ a[L + n + 1] = e
  BY <1>1, <1>4, AppendProperties
<1> HIDE DEF a
<1>6. ASSUME NEW i \in 1 .. L + (n + 1) PROVE q1[i] = a[i]
  <2>1. CASE i \in 1 .. L
    <3>1. i \in 1 .. L + n
      BY <1>1, <2>1
    <3> QED  BY <1>3, <1>4, <1>5, <2>1, <3>1
  <2>2. CASE i \in L + 1 .. L + n
    <3>1. i \in 1 .. L + n /\ i \in L + 1 .. L + (n + 1) /\ i - L - 1 \in 0 .. n - 1
      BY <1>1, <2>2
    <3>2. q1[i] = b[i - L - 1] /\ b[i - L - 1] = bufs[i - L - 1]
      BY <1>2, <1>3, <3>1
    <3> QED  BY <1>4, <1>5, <2>2, <3>1, <3>2
  <2>3. CASE i = L + n + 1
    <3>1. i \in L + 1 .. L + (n + 1) /\ i - L - 1 = n
      BY <1>1, <2>3
    <3> QED  BY <1>2, <1>3, <1>5, <2>3, <3>1
  <2> QED  BY <1>1, <2>1, <2>2, <2>3
<1>7. Len(q1) = Len(a)
  BY <1>1, <1>3, <1>5
<1>8. q1 = a
  BY <1>3, <1>5, <1>6, <1>7, SeqEqual
<1> QED  BY <1>8 DEF q1, q, b, a

\* What the NIC takes from its ring is the head of the queue.
LEMMA TailTakesHead ==
    ASSUME NEW ring \in Seq(Entry), ring # <<>>, NEW bufs \in [0 .. TxSize - 1 -> Entry],
           NEW n \in 0 .. TxSize
    PROVE  /\ QueuedIn(ring, bufs, n) # <<>>
           /\ QueuedIn(Tail(ring), bufs, n) = Tail(QueuedIn(ring, bufs, n))
<1> DEFINE L == Len(ring)
           q == QueuedIn(ring, bufs, n)
           t == Tail(ring)
           q1 == QueuedIn(t, bufs, n)
<1>1. /\ L \in Nat /\ L > 0 /\ n \in Nat
      /\ t \in Seq(Entry) /\ Len(t) = L - 1 /\ \A i \in 1 .. L - 1 : t[i] = ring[i + 1]
  BY Sizes
<1> HIDE DEF t
<1>2. /\ q \in Seq(Entry) /\ Len(q) = L + n
      /\ \A i \in 1 .. L : q[i] = ring[i]
      /\ \A i \in L + 1 .. L + n : q[i] = bufs[i - L - 1]
  BY QueuedInIs
<1>3. /\ q1 \in Seq(Entry) /\ Len(q1) = Len(t) + n
      /\ \A i \in 1 .. Len(t) : q1[i] = t[i]
      /\ \A i \in Len(t) + 1 .. Len(t) + n : q1[i] = bufs[i - Len(t) - 1]
  BY <1>1, QueuedInIs
<1> HIDE DEF q1, q, L
<1> DEFINE u == Tail(q)
<1>4. /\ q # <<>> /\ u \in Seq(Entry) /\ Len(u) = L + n - 1
      /\ \A i \in 1 .. L + n - 1 : u[i] = q[i + 1]
  <2>1. Len(q) > 0 /\ q # <<>>
    BY <1>1, <1>2
  <2>2. /\ u \in Seq(Entry) /\ Len(u) = Len(q) - 1
        /\ \A i \in 1 .. Len(q) - 1 : u[i] = q[i + 1]
    BY <1>2, <2>1, HeadTailProperties
  <2> HIDE DEF u
  <2> QED  BY <1>1, <1>2, <2>1, <2>2
<1> HIDE DEF u
<1>5. ASSUME NEW i \in 1 .. L + n - 1 PROVE q1[i] = u[i]
  <2>1. CASE i \in 1 .. L - 1
    <3>1. i \in 1 .. Len(t) /\ i + 1 \in 1 .. L
      BY <1>1, <2>1
    <3> QED  BY <1>1, <1>2, <1>3, <1>4, <2>1, <3>1
  <2>2. CASE i \in L .. L + n - 1
    <3>1. /\ i \in Len(t) + 1 .. Len(t) + n /\ i + 1 \in L + 1 .. L + n
          /\ i - Len(t) - 1 = (i + 1) - L - 1
      BY <1>1, <2>2
    <3>2. q1[i] = bufs[i - Len(t) - 1] /\ q[i + 1] = bufs[(i + 1) - L - 1]
      BY <1>2, <1>3, <3>1
    <3> QED  BY <1>4, <3>1, <3>2
  <2> QED  BY <1>1, <2>1, <2>2
<1>6. Len(q1) = L + n - 1
  BY <1>1, <1>3
<1>7. q1 = u
  BY <1>3, <1>4, <1>5, <1>6, SeqEqual
<1> QED  BY <1>4, <1>7 DEF q1, q, t, u

\* flush_once as an action does not change what is queued.
LEMMA FlushKeepsQueue ==
    ASSUME NicInv, NEW bufs \in [0 .. TxSize - 1 -> Entry], NEW n \in 0 .. TxSize,
           NEW c \in TxBurst(n), flush_once(bufs, n, c)
    PROVE  QueuedIn(txd, tx_bufs, tx_nb)' = QueuedIn(txd, bufs, n)
<1>1. c \in 0 .. n /\ txd \in Seq(Entry)
  BY DEF TxBurst, NicInv, QueueInv
<1>2. txd' = txd \o Taken(bufs, c) /\ tx_bufs' = Compacted(bufs, n, c) /\ tx_nb' = n - c
  BY DEF flush_once, Taken
<1>3. QueuedIn(txd, tx_bufs, tx_nb)' = QueuedIn(txd', tx_bufs', tx_nb')
  BY DEF QueuedIn, Taken
<1> QED  BY <1>1, <1>2, <1>3, FlushSame

\* send adds its packet at the end.
LEMMA SendAppends ==
    ASSUME NicInv, NEW p \in Nat, send(p)
    PROVE  QueuedIn(txd, tx_bufs, tx_nb)' = Append(QueuedIn(txd, tx_bufs, tx_nb), mbuf(p))
<1> DEFINE bufs == [tx_bufs EXCEPT ![tx_nb] = mbuf(p)]
<1>1. /\ txd \in Seq(Entry) /\ tx_bufs \in [0 .. TxSize - 1 -> Entry] /\ tx_nb \in 0 .. TxSize - 1
  BY Sizes DEF NicInv, QueueInv, send
<1>2. bufs \in [0 .. TxSize - 1 -> Entry] /\ tx_nb + 1 \in 0 .. TxSize
  BY <1>1, MbufEntry, Sizes
<1>3. QueuedIn(txd, bufs, tx_nb + 1) = Append(QueuedIn(txd, tx_bufs, tx_nb), mbuf(p))
  BY <1>1, MbufEntry, PushAppends
<1>4. QueuedIn(txd, tx_bufs, tx_nb)' = QueuedIn(txd, bufs, tx_nb + 1)
  <2>1. CASE tx_nb + 1 = TxSize
    <3>1. PICK c \in TxBurst(TxSize) : flush_once(bufs, TxSize, c)
      BY <2>1 DEF send
    <3> QED  BY <1>2, <2>1, <3>1, FlushKeepsQueue
  <2>2. CASE tx_nb + 1 # TxSize
    <3>1. tx_bufs' = bufs /\ tx_nb' = tx_nb + 1 /\ txd' = txd
      BY <2>2 DEF send
    <3> QED  BY <3>1 DEF QueuedIn, Taken
  <2> QED  BY <2>1, <2>2
<1> QED  BY <1>3, <1>4

\* What a step may do to the queue.
QueueStep ==
    \/ Queued' = Queued
    \/ Queued # <<>> /\ Queued' = Tail(Queued)
    \/ \E p \in 0 .. to_send : Queued' = Append(Queued, mbuf(p))

LEMMA NextQueueStep ==
    ASSUME NicInv, NicNext
    PROVE  QueueStep
<1> DEFINE q == QueuedIn(txd, tx_bufs, tx_nb)
<1>1. Queued = q /\ Queued' = q'
  BY DEF Queued, QueuedIn, Taken
<1>2. /\ txd \in Seq(Entry) /\ tx_bufs \in [0 .. TxSize - 1 -> Entry] /\ tx_nb \in 0 .. TxSize
      /\ to_send \in Nat /\ to_ack \in Nat
  BY DEF NicInv, QueueInv
<1>3. CASE SendFull
  <2>1. PICK c \in TxBurst(tx_nb) : flush_once(tx_bufs, tx_nb, c)
    BY <1>3 DEF SendFull
  <2> QED  BY <1>1, <1>2, <2>1, FlushKeepsQueue DEF QueueStep
<1>4. CASE SendNext
  <2>1. send(to_send) /\ to_send \in 0 .. to_send
    BY <1>2, <1>4 DEF SendNext
  <2>2. q' = Append(q, mbuf(to_send))
    BY <1>2, <2>1, SendAppends
  <2> HIDE DEF q
  <2> QED  BY <1>1, <2>1, <2>2 DEF QueueStep
<1>5. CASE Receive
  <2>1. check_flush_timer
    BY <1>5 DEF Receive
  <2>2. CASE flush_timer < TxSize * 2
    <3>1. UNCHANGED <<tx_bufs, tx_nb, txd>>
      BY <2>1, <2>2 DEF check_flush_timer
    <3>2. q' = q
      BY <3>1 DEF QueuedIn, Taken
    <3> HIDE DEF q
    <3> QED  BY <1>1, <3>2 DEF QueueStep
  <2>3. CASE ~(flush_timer < TxSize * 2)
    <3>1. PICK c \in TxBurst(tx_nb) : flush_once(tx_bufs, tx_nb, c)
      BY <2>1, <2>3 DEF check_flush_timer
    <3> QED  BY <1>1, <1>2, <3>1, FlushKeepsQueue DEF QueueStep
  <2> QED  BY <2>2, <2>3
<1>6. CASE NicSend
  <2>1. txd # <<>> /\ txd' = Tail(txd) /\ UNCHANGED <<tx_bufs, tx_nb>>
    BY <1>6 DEF NicSend
  <2>2. q' = QueuedIn(Tail(txd), tx_bufs, tx_nb)
    BY <2>1 DEF QueuedIn, Taken
  <2>3. q # <<>> /\ q' = Tail(q)
    BY <1>2, <2>1, <2>2, TailTakesHead
  <2> HIDE DEF q
  <2> QED  BY <1>1, <2>3 DEF QueueStep
<1>7. ASSUME NEW p \in 0 .. NPkts - 1, Retransmit(p) PROVE QueueStep
  <2>1. send(p) /\ p \in to_ack .. to_send - 1
    BY <1>7 DEF Retransmit
  <2>2. p \in Nat /\ p \in 0 .. to_send
    BY <1>2, <2>1
  <2>3. q' = Append(q, mbuf(p))
    BY <2>1, <2>2, SendAppends
  <2> HIDE DEF q
  <2> QED  BY <1>1, <2>2, <2>3 DEF QueueStep
<1> QED  BY <1>3, <1>4, <1>5, <1>6, <1>7 DEF NicNext

(***************************************************************************)
(* The buffer and the ring are one first-in-first-out queue, whatever part *)
(* of a burst the NIC takes (send, flush_once and check_flush_timer of     *)
(* process_buffer.hpp).                                                    *)
(***************************************************************************)
THEOREM QueueIsFifo == NicSpec => FirstInFirstOut
<1>1. NicInv /\ [NicNext]_nic_vars => [QueueStep]_nic_vars
  BY NextQueueStep
<1> QED  BY <1>1, NicInvariant, PTL DEF NicSpec, FirstInFirstOut, QueueStep

-----------------------------------------------------------------------------
(***************************************************************************)
(* The copy buffer in shared memory.                                       *)
(***************************************************************************)

Region == [addr : 0 .. Size, size : 0 .. Segment]

\* The fields of a region, and its end, are numbers.
LEMMA Regions ==
    ASSUME SizeAssumption, NEW l \in Seq(Region)
    PROVE  /\ Len(l) \in Nat
           /\ \A i \in 1 .. Len(l) : /\ l[i] \in Region
                                     /\ l[i].addr \in 0 .. Size /\ l[i].size \in 0 .. Segment
                                     /\ l[i].addr \in Nat /\ l[i].size \in Nat
                                     /\ End(l[i]) \in Nat /\ l[i].addr <= End(l[i])
<1>1. \A i \in 1 .. Len(l) : l[i] \in Region
  BY ElementOfSeq
<1> QED  BY <1>1, LenProperties DEF Region, End, SizeAssumption

LEMMA EvenSum ==
    ASSUME NEW x \in Nat, NEW y \in Nat, x % 2 = 0, y % 2 = 0
    PROVE  (x + y) % 2 = 0
OBVIOUS

\* What the proofs use of the types.
LEMMA Types ==
    ASSUME SizeAssumption, BufInv
    PROVE  /\ Size \in Nat /\ Segment \in Nat /\ 2 * Segment <= Size
           /\ fifo_head \in 0 .. Size /\ fifo_tail \in 0 .. Size /\ live \in Seq(Region)
BY DEF SizeAssumption, BufInv, TypeOK, Region

LEMMA InitBufInv ==
    ASSUME SizeAssumption, BufferInit
    PROVE  BufInv
<1>1. <<>> \in Seq(Region) /\ Len(<<>>) = 0
  BY EmptySeq
<1>2. TypeOK /\ fifo_head % 2 = 0 /\ (todo >= 0 => todo % 2 = 0)
  BY <1>1 DEF BufferInit, TypeOK, SizeAssumption, Idle, Posted, Region
<1>3. Arranged(live, fifo_head, fifo_tail)
  BY <1>1 DEF BufferInit, Arranged
<1> QED  BY <1>2, <1>3 DEF BufInv

-----------------------------------------------------------------------------
(* Allocation. *)

\* A segment is even and no larger than Segment.
LEMMA SegmentEven ==
    ASSUME SizeAssumption, EvenAssumption, BufInv, todo >= 0
    PROVE  /\ SegmentSize \in 0 .. Segment /\ SegmentSize % 2 = 0
           /\ todo > Segment => todo - Segment \in Nat /\ (todo - Segment) % 2 = 0
<1>1. Segment \in Nat /\ Segment % 2 = 0
  BY DEF SizeAssumption, EvenAssumption
<1>2. todo \in Nat /\ todo % 2 = 0
  <2>1. todo \in Nat \cup {-1, -2} /\ (todo >= 0 => todo % 2 = 0)
    BY DEF BufInv, TypeOK, Idle, Posted
  <2> QED  BY <2>1
<1> QED  BY <1>1, <1>2 DEF SegmentSize

\* The new region lies in free space: behind all others, or below tail after a wrap.
LEMMA FreeSpace ==
    ASSUME SizeAssumption, EvenAssumption, BufInv,
           NEW n \in 0 .. Segment, n % 2 = 0, copy_available >= n
    PROVE  /\ fifo_head + n # Size + 1
           /\ Start(n) \in 0 .. Size /\ Start(n) + n <= Size /\ Start(n) % 2 = 0
           /\ \/ Start(n) = fifo_head /\ (fifo_head < fifo_tail => fifo_head + n < fifo_tail)
              \/ /\ Start(n) = 0 /\ fifo_head + n > Size
                 /\ fifo_head >= fifo_tail /\ n < fifo_tail
<1>1. /\ Size \in Nat /\ Segment \in Nat /\ n \in Nat
      /\ fifo_head \in 0 .. Size /\ fifo_tail \in 0 .. Size /\ fifo_head % 2 = 0 /\ Size % 2 = 0
  BY Types DEF EvenAssumption, BufInv
<1>2. fifo_head + n # Size + 1
  BY <1>1
<1> QED  BY <1>1, <1>2 DEF Start, copy_available, Larger

\* A region in free space keeps the arrangement.
LEMMA AppendArranged ==
    ASSUME SizeAssumption, NEW l \in Seq(Region), NEW h \in 0 .. Size, NEW t \in 0 .. Size,
           Arranged(l, h, t), NEW n \in 0 .. Segment, NEW s \in 0 .. Size, s + n <= Size,
           \/ s = h /\ (h < t => h + n < t)
           \/ s = 0 /\ h + n > Size /\ h >= t /\ n < t
    PROVE  Arranged(Append(l, [addr |-> s, size |-> n]), s + n, t)
<1> DEFINE r == [addr |-> s, size |-> n]
           m == Append(l, r)
           k == Len(l)
<1>1. Size \in Nat /\ Segment \in Nat /\ h \in Nat /\ t \in Nat /\ n \in Nat /\ s \in Nat
  BY DEF SizeAssumption
<1>2. /\ k \in Nat
      /\ \A i \in 1 .. k : /\ l[i].addr \in Nat /\ l[i].size \in Nat
                           /\ End(l[i]) \in Nat /\ l[i].addr <= End(l[i])
  BY Regions
<1>3. r \in Region /\ r.addr = s /\ r.size = n
  BY <1>1 DEF Region
<1>4. /\ m \in Seq(Region) /\ Len(m) = k + 1 /\ m # <<>>
      /\ \A i \in 1 .. k : m[i] = l[i]
      /\ m[k + 1] = r
  BY <1>3, AppendProperties
<1>5. End(r) = s + n
  BY <1>3 DEF End
<1>6. /\ \A i \in 1 .. k : End(l[i]) <= Size
      /\ \A i, j \in 1 .. k :
           i < j => After(l[i], l[j], t)
      /\ \A i \in 1 .. k : l[i].addr < t => h < t
      /\ \A i \in 1 .. k : h >= t \/ l[i].addr < t => End(l[i]) <= h
      /\ k = 0 => h = t
      /\ k > 0 => /\ Follows(t, l[1])
                  /\ h = End(l[k])
                  /\ h < t => l[k].addr < t
      /\ \A i \in 1 .. k - 1 : Follows(End(l[i]), l[i + 1])
  <2>1. l = <<>> <=> k = 0
    BY EmptySeq, <1>2
  <2> QED  BY <1>2, <2>1 DEF Arranged
<1> HIDE DEF r, m, k
<1>7. \A i \in 1 .. k + 1 : i \in 1 .. k \/ i = k + 1
  BY <1>2
<1>8. \A i \in 1 .. k + 1 : End(m[i]) <= Size
  BY <1>4, <1>5, <1>6, <1>7
<1>9. ASSUME NEW i \in 1 .. k + 1, NEW j \in 1 .. k + 1, i < j
      PROVE  After(m[i], m[j], t)
  <2>1. i \in 1 .. k
    BY <1>2, <1>9
  <2>2. CASE j \in 1 .. k
    BY <1>4, <1>6, <1>9, <2>1, <2>2
  <2>3. CASE j = k + 1
    <3>1. m[i] = l[i] /\ m[j].addr = s
      BY <1>3, <1>4, <2>1, <2>3
    <3>2. /\ l[i].addr \in Nat /\ End(l[i]) \in Nat
          /\ l[i].addr < t => h < t
          /\ h >= t \/ l[i].addr < t => End(l[i]) <= h
      BY <1>2, <1>6, <2>1
    <3>3. (l[i].addr < t => s < t) /\ (End(l[i]) <= s \/ (s < t /\ t <= l[i].addr))
      BY <1>1, <3>2, SMTT(30)
    <3> QED  BY <3>1, <3>3 DEF After
  <2> QED  BY <1>7, <2>2, <2>3
<1>10. \A i \in 1 .. k + 1 : m[i].addr < t => s + n < t
  <2>1. ASSUME NEW i \in 1 .. k PROVE m[i].addr < t => s + n < t
    <3>1. m[i].addr = l[i].addr /\ (l[i].addr < t => h < t)
      BY <1>4, <1>6
    <3>2. h < t => s + n < t
      BY <1>1
    <3> QED  BY <3>1, <3>2
  <2>2. m[k + 1].addr < t => s + n < t
    BY <1>1, <1>3, <1>4
  <2> QED  BY <1>7, <2>1, <2>2
<1>11. \A i \in 1 .. k + 1 : s + n >= t \/ m[i].addr < t => End(m[i]) <= s + n
  <2>1. ASSUME NEW i \in 1 .. k PROVE s + n >= t \/ l[i].addr < t => End(l[i]) <= s + n
    <3>1. /\ l[i].addr \in Nat /\ End(l[i]) \in Nat
          /\ l[i].addr < t => h < t
          /\ h >= t \/ l[i].addr < t => End(l[i]) <= h
      BY <1>2, <1>6
    <3> QED  BY <1>1, <3>1
  <2>2. End(m[k + 1]) <= s + n
    BY <1>1, <1>4, <1>5
  <2> QED  BY <1>4, <1>7, <2>1, <2>2
<1>12. s + n < t => m[k + 1].addr < t
  BY <1>1, <1>3, <1>4
<1>13. Follows(t, m[1])
  <2>1. CASE k = 0
    <3>1. k + 1 = 1
      BY <2>1
    <3>2. m[1] = r
      BY <1>4, <3>1
    <3>3. h = t /\ r.addr = s /\ r.size = n
      BY <1>3, <1>6, <2>1
    <3>4. s = h \/ (s = 0 /\ h + n > Size)
      OBVIOUS
    <3> QED  BY <3>2, <3>3, <3>4 DEF Follows
  <2>2. CASE k > 0
    <3>1. 1 \in 1 .. k
      BY <1>2, <2>2
    <3>2. m[1] = l[1]
      BY <1>4, <3>1
    <3>3. Follows(t, l[1])
      BY <1>6, <2>2
    <3> QED  BY <3>2, <3>3
  <2> QED  BY <1>2, <2>1, <2>2
<1>14. ASSUME NEW i \in 1 .. k
       PROVE  Follows(End(m[i]), m[i + 1])
  <2>1. CASE i = k
    BY <1>1, <1>2, <1>3, <1>4, <1>6, <2>1, SMTT(30) DEF Follows
  <2>2. CASE i # k
    <3>1. i \in 1 .. k - 1 /\ i + 1 \in 1 .. k
      BY <1>2, <2>2
    <3> QED  BY <1>4, <1>6, <3>1
  <2> QED  BY <2>1, <2>2
<1>15. (k + 1) - 1 = k
  BY <1>2
<1> QED  BY <1>4, <1>5, <1>8, <1>9, <1>10, <1>11, <1>12, <1>13, <1>14, <1>15 DEF Arranged, r, m

LEMMA PostSegmentBufInv ==
    ASSUME SizeAssumption, EvenAssumption, BufInv, PostSegment
    PROVE  BufInv'
<1> DEFINE n == SegmentSize
           r == [addr |-> Start(n), size |-> n]
<1>1. todo >= 0 /\ copy_available >= n /\ copy_allocate(n)
  BY DEF PostSegment
<1>2. n \in 0 .. Segment /\ n % 2 = 0
  BY <1>1, SegmentEven
<1>3. /\ Size \in Nat /\ Segment \in Nat
      /\ fifo_head \in 0 .. Size /\ fifo_tail \in 0 .. Size /\ live \in Seq(Region)
  BY Types
<1>4. /\ fifo_head + n # Size + 1
      /\ Start(n) \in 0 .. Size /\ Start(n) + n <= Size /\ Start(n) % 2 = 0
      /\ \/ Start(n) = fifo_head /\ (fifo_head < fifo_tail => fifo_head + n < fifo_tail)
         \/ Start(n) = 0 /\ fifo_head + n > Size /\ fifo_head >= fifo_tail /\ n < fifo_tail
  BY <1>1, <1>2, FreeSpace
<1>5. fifo_head' = Start(n) + n /\ live' = Append(live, r) /\ fifo_tail' = fifo_tail
  BY <1>1, <1>4 DEF copy_allocate
<1>6. Arranged(live', fifo_head', fifo_tail')
  <2>1. Arranged(live, fifo_head, fifo_tail)
    BY DEF BufInv
  <2> HIDE DEF n
  <2> QED  BY <1>2, <1>3, <1>4, <1>5, <2>1, AppendArranged
<1>7. todo' \in Nat \cup {Idle, Posted} /\ (todo' >= 0 => todo' % 2 = 0)
  <2>1. todo' = IF todo <= Segment THEN Posted ELSE todo - Segment
    BY DEF PostSegment
  <2>2. CASE todo <= Segment
    BY <2>1, <2>2 DEF Posted
  <2>3. CASE ~ (todo <= Segment)
    <3>1. todo \in Nat \cup {-1, -2}
      BY DEF BufInv, TypeOK, Idle, Posted
    <3>2. todo > Segment
      BY <1>3, <2>3, <3>1
    <3> QED  BY <1>1, <2>1, <2>3, <3>2, SegmentEven
  <2> QED  BY <2>2, <2>3
<1>8. fifo_head' \in 0 .. Size /\ fifo_head' % 2 = 0
  <2> HIDE DEF n
  <2>1. n \in Nat /\ Start(n) \in Nat
    BY <1>2, <1>3, <1>4
  <2>2. (Start(n) + n) % 2 = 0
    BY <1>2, <1>4, <2>1, EvenSum
  <2>3. Start(n) + n \in 0 .. Size
    BY <1>3, <1>4, <2>1
  <2> QED  BY <1>5, <2>2, <2>3
<1>9. live' \in Seq(Region)
  <2>1. r \in Region
    BY <1>2, <1>4 DEF Region
  <2> QED  BY <1>3, <1>5, <2>1, AppendProperties
<1> QED  BY <1>3, <1>5, <1>6, <1>7, <1>8, <1>9 DEF BufInv, TypeOK, Region

-----------------------------------------------------------------------------
(* Release of the oldest region. *)

\* copy_free finds the region where copy_allocate put it.
LEMMA FreeStartIs ==
    ASSUME SizeAssumption, NEW l \in Seq(Region), l # <<>>, Arranged(l, fifo_head, fifo_tail),
           fifo_head \in 0 .. Size, fifo_tail \in 0 .. Size
    PROVE  /\ FreeStart(Head(l).size) = l[1].addr
           /\ fifo_tail + Head(l).size > Size => fifo_head < fifo_tail
           /\ fifo_head >= l[1].addr <=> fifo_head >= End(l[1])
<1>1. /\ 1 \in 1 .. Len(l) /\ Head(l) = l[1]
      /\ l[1].addr \in 0 .. Size /\ l[1].size \in 0 .. Segment
      /\ l[1].addr \in Nat /\ l[1].size \in Nat
  BY Regions, EmptySeq
<1>2. /\ Size \in Nat /\ fifo_head \in Nat /\ fifo_tail \in Nat
  BY DEF SizeAssumption
<1>3. /\ l[1].addr = fifo_tail \/ (l[1].addr = 0 /\ fifo_tail + l[1].size > Size)
      /\ End(l[1]) <= Size /\ End(l[1]) = l[1].addr + l[1].size
      /\ l[1].addr < fifo_tail => fifo_head < fifo_tail
      /\ fifo_head >= fifo_tail \/ l[1].addr < fifo_tail => End(l[1]) <= fifo_head
  BY <1>1 DEF Arranged, Follows, End
<1> QED  BY <1>1, <1>2, <1>3 DEF FreeStart

\* Below the new tail u is what is below the old one t, unless the freed region,
\* from a to u, is there, too.
LEMMA BelowNew ==
    ASSUME NEW a \in Nat, NEW u \in Nat, NEW b \in Nat, NEW t \in Nat,
           a <= u, a < t => b < t, u <= b \/ (b < t /\ t <= a)
    PROVE  b < u <=> b < t /\ ~ (a < t)
OBVIOUS

\* The other regions are arranged from the end of the oldest one.
LEMMA TailArranged ==
    ASSUME SizeAssumption, NEW l \in Seq(Region), l # <<>>,
           NEW h \in 0 .. Size, NEW t \in 0 .. Size, Arranged(l, h, t)
    PROVE  Arranged(Tail(l), h, End(l[1]))
<1> DEFINE m == Tail(l)
           u == End(l[1])
           k == Len(l)
<1>1. Size \in Nat /\ Segment \in Nat /\ h \in Nat /\ t \in Nat
  BY DEF SizeAssumption
<1>2. /\ k \in Nat /\ k > 0
      /\ \A i \in 1 .. k : /\ l[i].addr \in Nat /\ l[i].size \in Nat
                           /\ End(l[i]) \in Nat /\ l[i].addr <= End(l[i])
                           /\ End(l[i]) = l[i].addr + l[i].size
  BY Regions, EmptySeq DEF End
<1>3. /\ m \in Seq(Region) /\ Len(m) = k - 1
      /\ \A i \in 1 .. k - 1 : m[i] = l[i + 1] /\ i + 1 \in 1 .. k
      /\ m = <<>> <=> k = 1
  <2>1. m \in Seq(Region) /\ Len(m) = k - 1 /\ \A i \in 1 .. k - 1 : m[i] = l[i + 1]
    BY HeadTailProperties
  <2> HIDE DEF m, k
  <2>2. m = <<>> <=> k = 1
    BY <1>2, <2>1, EmptySeq
  <2> QED  BY <1>2, <2>1, <2>2
<1>4. /\ \A i \in 1 .. k : End(l[i]) <= Size
      /\ \A i, j \in 1 .. k :
           i < j => After(l[i], l[j], t)
      /\ \A i \in 1 .. k : l[i].addr < t => h < t
      /\ \A i \in 1 .. k : h >= t \/ l[i].addr < t => End(l[i]) <= h
      /\ Follows(t, l[1]) /\ h = End(l[k]) /\ (h < t => l[k].addr < t)
      /\ \A i \in 1 .. k - 1 : Follows(End(l[i]), l[i + 1])
  BY DEF Arranged
<1>5. 1 \in 1 .. k /\ k \in 1 .. k
  BY <1>2
<1>6. l[1].addr = t \/ (l[1].addr = 0 /\ t + l[1].size > Size)
  BY <1>4 DEF Follows
<1> HIDE DEF m, u, k
\* A region is below the new tail exactly if it was below the old one and the
\* freed region was not.
<1>7. ASSUME NEW j \in 2 .. k
      PROVE  /\ j \in 1 .. k
             /\ l[j].addr < u <=> l[j].addr < t /\ ~ (l[1].addr < t)
  <2>1. j \in 1 .. k /\ 1 < j
    BY <1>2
  <2>2. /\ After(l[1], l[j], t)
        /\ l[j].addr \in Nat /\ l[1].addr \in Nat /\ u \in Nat /\ l[1].size \in Nat /\ u <= Size
        /\ u = l[1].addr + l[1].size
    BY <1>2, <1>4, <1>5, <2>1 DEF u
  <2>3. u = End(l[1])
    BY DEF u
  <2>4. /\ l[1].addr < t => l[j].addr < t
        /\ u <= l[j].addr \/ (l[j].addr < t /\ t <= l[1].addr)
    BY <2>2, <2>3 DEF After
  <2>5. l[1].addr <= u
    BY <2>2
  <2>6. l[j].addr < u <=> l[j].addr < t /\ ~ (l[1].addr < t)
    BY <1>1, <2>2, <2>4, <2>5, BelowNew
  <2> QED  BY <2>1, <2>6
<1>8. ASSUME h >= u PROVE h >= t \/ l[1].addr < t
  BY <1>1, <1>2, <1>4, <1>5, <1>6, <1>8 DEF u
<1>9. \A i \in 1 .. k - 1 : i + 1 \in 2 .. k
  BY <1>2
<1>10. \A i \in 1 .. Len(m) : End(m[i]) <= Size
  BY <1>3, <1>4
<1>11. ASSUME NEW i \in 1 .. Len(m), NEW j \in 1 .. Len(m), i < j
       PROVE  After(m[i], m[j], u)
  <2>1. /\ m[i] = l[i + 1] /\ m[j] = l[j + 1] /\ i + 1 \in 2 .. k /\ j + 1 \in 2 .. k
        /\ i + 1 < j + 1 /\ 1 < i + 1
    BY <1>2, <1>3, <1>9, <1>11
  <2> DEFINE x == l[i + 1]
             y == l[j + 1]
  <2>2. After(x, y, t)
    BY <1>4, <1>7, <2>1
  <2>3. /\ x.addr < u <=> x.addr < t /\ ~ (l[1].addr < t)
        /\ y.addr < u <=> y.addr < t /\ ~ (l[1].addr < t)
    BY <1>7, <2>1
  <2>4. l[1].addr < t => x.addr < t
    <3>1. After(l[1], x, t)
      BY <1>4, <1>5, <1>7, <2>1
    <3> QED  BY <3>1 DEF After
  <2>5. x.addr \in Nat /\ y.addr \in Nat /\ u \in Nat /\ l[1].addr \in Nat
    BY <1>2, <1>5, <1>7, <2>1 DEF u
  <2> HIDE DEF x, y
  <2>6. After(x, y, u)
    BY <1>1, <2>2, <2>3, <2>4, <2>5 DEF After
  <2> QED  BY <2>1, <2>6 DEF x, y
<1>12. ASSUME NEW i \in 1 .. Len(m)
       PROVE  /\ m[i].addr < u => h < u
              /\ h >= u \/ m[i].addr < u => End(m[i]) <= h
  <2>1. m[i] = l[i + 1] /\ i + 1 \in 2 .. k /\ i + 1 \in 1 .. k
    BY <1>3, <1>9
  <2> DEFINE x == l[i + 1]
  <2>2. /\ x.addr < u <=> x.addr < t /\ ~ (l[1].addr < t)
        /\ x.addr < t => h < t
        /\ h >= t \/ x.addr < t => End(x) <= h
    BY <1>4, <1>7, <2>1
  <2>3. l[1].addr < t => x.addr < t
    <3>1. 1 \in 1 .. k /\ i + 1 \in 1 .. k /\ 1 < i + 1
      BY <1>5, <2>1
    <3>2. \A e \in 1 .. k : 1 < e => After(l[1], l[e], t)
      BY <1>4, <1>5
    <3>3. After(l[1], x, t)
      BY <3>1, <3>2, Zenon
    <3> QED  BY <3>3 DEF After
  <2>4. x.addr \in Nat /\ End(x) \in Nat /\ u \in Nat
    BY <1>2, <1>5, <2>1 DEF u
  <2> HIDE DEF x
  <2>5. (x.addr < u => h < u) /\ (h >= u \/ x.addr < u => End(x) <= h)
    BY <1>1, <1>8, <2>2, <2>3, <2>4
  <2> QED  BY <2>1, <2>5 DEF x
<1>13. CASE k = 1
  <2>1. m = <<>> /\ Len(m) = 0 /\ h = u
    BY <1>3, <1>4, <1>13 DEF u
  <2>2. Arranged(m, h, u)
    BY <2>1 DEF Arranged
  <2> QED  BY <2>2 DEF m, u
<1>14. CASE k > 1
  <2>1. m # <<>> /\ Len(m) \in 1 .. k - 1 /\ m[1] = l[2] /\ m[Len(m)] = l[k] /\ k \in 2 .. k
    <3>1. 1 \in 1 .. k - 1 /\ k - 1 \in 1 .. k - 1 /\ (k - 1) + 1 = k
      BY <1>2, <1>14
    <3> QED  BY <1>2, <1>3, <1>14, <3>1
  <2>2. Follows(u, m[1])
    <3>1. 1 \in 1 .. k - 1 /\ 1 + 1 = 2
      BY <1>2, <1>14
    <3> QED  BY <1>4, <2>1, <3>1 DEF u
  <2>3. h = End(m[Len(m)]) /\ (h < u => m[Len(m)].addr < u)
    <3>1. h = End(l[k]) /\ l[k].addr \in Nat /\ h >= l[k].addr
      BY <1>2, <1>4, <1>5
    <3>2. u \in Nat
      BY <1>2, <1>5 DEF u
    <3> QED  BY <1>1, <2>1, <3>1, <3>2
  <2>4. ASSUME NEW i \in 1 .. Len(m) - 1
        PROVE  Follows(End(m[i]), m[i + 1])
    <3>1. i \in 1 .. k - 1 /\ i + 1 \in 1 .. k - 1
      BY <1>2, <1>3
    <3> QED  BY <1>3, <1>4, <3>1
  <2> QED  BY <1>10, <1>11, <1>12, <2>1, <2>2, <2>3, <2>4 DEF Arranged, m, u
<1> QED  BY <1>2, <1>13, <1>14

LEMMA DestroyOpBufInv ==
    ASSUME SizeAssumption, BufInv, DestroyOp
    PROVE  BufInv'
<1>1. /\ Size \in Nat /\ Segment \in Nat
      /\ fifo_head \in 0 .. Size /\ fifo_tail \in 0 .. Size /\ live \in Seq(Region)
      /\ Arranged(live, fifo_head, fifo_tail)
  BY Types DEF BufInv
<1>2. /\ live # <<>> /\ live' = Tail(live) /\ UNCHANGED <<fifo_head, todo>>
      /\ fifo_tail' = FreeStart(Head(live).size) + Head(live).size
  BY DEF DestroyOp, copy_free
<1>3. 1 \in 1 .. Len(live) /\ Head(live) = live[1]
  BY <1>1, <1>2, EmptySeq
<1>4. fifo_tail' = End(live[1])
  BY <1>1, <1>2, <1>3, FreeStartIs DEF End
<1>5. Arranged(live', fifo_head', fifo_tail')
  BY <1>1, <1>2, <1>4, TailArranged
<1>6. fifo_tail' \in 0 .. Size
  <2>1. End(live[1]) \in Nat /\ End(live[1]) <= Size
    BY <1>1, <1>3, Regions DEF Arranged
  <2> QED  BY <1>1, <1>4, <2>1
<1>7. live' \in Seq(Region)
  BY <1>1, <1>2, HeadTailProperties
<1> QED  BY <1>2, <1>5, <1>6, <1>7 DEF BufInv, TypeOK, Region

-----------------------------------------------------------------------------
(* The invariant and what it implies. *)

LEMMA NextBufInv ==
    ASSUME SizeAssumption, CallsAssumption, EvenAssumption, BufInv, [BufferNext]_buffer_vars
    PROVE  BufInv'
<1>1. ASSUME NEW n \in Calls, CallBegins(n) PROVE BufInv'
  <2>1. n \in Nat /\ n % 2 = 0
    BY DEF CallsAssumption, EvenAssumption
  <2> QED  BY <1>1, <2>1 DEF CallBegins, BufInv, TypeOK
<1>2. CASE PostSegment
  BY <1>2, PostSegmentBufInv
<1>3. CASE DestroyOp
  BY <1>3, DestroyOpBufInv
<1>4. CASE CallEnds
  BY <1>4 DEF CallEnds, BufInv, TypeOK, Idle
<1>5. CASE UNCHANGED buffer_vars
  BY <1>5 DEF buffer_vars, BufInv, TypeOK
<1> QED  BY <1>1, <1>2, <1>3, <1>4, <1>5 DEF BufferNext

\* Two regions in use have no byte in common.
LEMMA ArrangedDisjoint ==
    ASSUME SizeAssumption, BufInv
    PROVE  RegionsDisjoint
<1>1. /\ Size \in Nat /\ fifo_head \in Nat /\ fifo_tail \in Nat
      /\ live \in Seq(Region) /\ Arranged(live, fifo_head, fifo_tail)
  BY Types DEF BufInv
<1>2. \A i \in 1 .. Len(live) : /\ live[i].addr \in Nat /\ live[i].size \in Nat
                                /\ End(live[i]) = live[i].addr + live[i].size
                                /\ End(live[i]) <= Size
  BY <1>1, Regions DEF End, Arranged
<1>3. ASSUME NEW i \in 1 .. Len(live), NEW j \in 1 .. Len(live), i < j
      PROVE  Bytes(live[i]) \cap Bytes(live[j]) = {}
  <2> DEFINE x == live[i]
             y == live[j]
  <2>1. After(x, y, fifo_tail) /\ (y.addr < fifo_tail => fifo_head < fifo_tail)
        /\ (fifo_head >= fifo_tail \/ y.addr < fifo_tail => End(y) <= fifo_head)
    BY <1>1, <1>3 DEF Arranged
  <2>2. /\ x.addr \in Nat /\ x.size \in Nat /\ y.addr \in Nat /\ y.size \in Nat
        /\ End(x) = x.addr + x.size /\ End(y) = y.addr + y.size
    BY <1>2
  <2> HIDE DEF x, y
  <2>3. End(x) <= y.addr \/ End(y) <= x.addr
    BY <1>1, <2>1, <2>2 DEF After
  <2>4. Bytes(x) \cap Bytes(y) = {}
    <3>1. ASSUME NEW b \in Bytes(x), NEW c \in Bytes(y) PROVE b # c
      <4>1. b \in x.addr .. x.addr + x.size - 1 /\ c \in y.addr .. y.addr + y.size - 1
        BY DEF Bytes
      <4>2. b \in Int /\ x.addr <= b /\ b < End(x)
        BY <2>2, <4>1, SMTT(30)
      <4>3. c \in Int /\ y.addr <= c /\ c < End(y)
        BY <2>2, <4>1
      <4> QED  BY <4>2, <4>3, <2>2, <2>3
    <3> QED  BY <3>1
  <2> QED  BY <2>4 DEF x, y
<1>4. \A i \in 1 .. Len(live) : Bytes(live[i]) \subseteq 0 .. Size
  BY <1>1, <1>2, SMTT(30) DEF Bytes
<1>5. ASSUME NEW i \in 1 .. Len(live), NEW j \in 1 .. Len(live), i # j
      PROVE  Bytes(live[i]) \cap Bytes(live[j]) = {}
  <2>1. i < j \/ j < i
    BY <1>1, <1>5, LenProperties
  <2> QED  BY <1>3, <2>1
<1>6. DOMAIN live = 1 .. Len(live)
  BY <1>1, LenProperties
<1> QED  BY <1>4, <1>5, <1>6 DEF RegionsDisjoint

\* Freeing the oldest region passes the assertions of copy_free.
LEMMA ArrangedAsserts ==
    ASSUME SizeAssumption, BufInv
    PROVE  FifoFreeAsserts
<1> SUFFICES ASSUME live # <<>>
             PROVE  LET size == Head(live).size IN
                    /\ fifo_tail + size > Size => fifo_head < fifo_tail
                    /\ (fifo_head >= FreeStart(size)) = (fifo_head >= FreeStart(size) + size)
  BY DEF FifoFreeAsserts
<1>1. fifo_head \in 0 .. Size /\ fifo_tail \in 0 .. Size /\ live \in Seq(Region) /\ Arranged(live, fifo_head, fifo_tail)
  BY Types DEF BufInv
<1>2. Head(live) = live[1]
  BY <1>1
<1>3. /\ FreeStart(Head(live).size) = live[1].addr
      /\ fifo_tail + Head(live).size > Size => fifo_head < fifo_tail
      /\ fifo_head >= live[1].addr <=> fifo_head >= End(live[1])
  BY <1>1, FreeStartIs
<1> QED  BY <1>2, <1>3 DEF End

(***************************************************************************)
(* Whatever the sizes of the calls, head and tail stay in range, no two    *)
(* regions in use overlap, and the assertions of copy_free hold, provided  *)
(* that the buffer, the segments and the tensors have even sizes (finding  *)
(* copy_buffer_bytes shows that this is needed).                           *)
(***************************************************************************)
THEOREM BufferSafe ==
    ASSUME SizeAssumption, CallsAssumption, EvenAssumption
    PROVE  BufferSpec => []BufferConsistent
<1>1. BufferInit => BufInv
  BY InitBufInv
<1>2. BufInv /\ [BufferNext]_buffer_vars => BufInv'
  BY NextBufInv
<1>3. BufInv => BufferConsistent
  BY ArrangedDisjoint, ArrangedAsserts DEF BufferConsistent, BufInv
<1> QED  BY <1>1, <1>2, <1>3, PTL DEF BufferSpec

(***************************************************************************)
(* A segment never waits in vain: when all regions have been freed the     *)
(* next segment fits, wherever head and tail have been left, although the  *)
(* free space is then split in two (the safety behind PostingReturns).        *)
(***************************************************************************)
THEOREM EmptyBufferFits ==
    ASSUME SizeAssumption, CallsAssumption, EvenAssumption
    PROVE  BufferSpec => [](live = <<>> /\ todo >= 0 => copy_available >= SegmentSize)
<1>1. BufferInit => BufInv
  BY InitBufInv
<1>2. BufInv /\ [BufferNext]_buffer_vars => BufInv'
  BY NextBufInv
<1>3. BufInv => (live = <<>> /\ todo >= 0 => copy_available >= SegmentSize)
  <2> SUFFICES ASSUME BufInv, live = <<>>, todo >= 0
               PROVE  copy_available >= SegmentSize
    OBVIOUS
  <2>1. /\ Size \in Nat /\ Segment \in Nat /\ 2 * Segment <= Size
        /\ fifo_head \in 0 .. Size /\ fifo_tail \in 0 .. Size /\ fifo_head = fifo_tail
    BY Types DEF BufInv, Arranged
  <2>2. SegmentSize \in 0 .. Segment
    BY SegmentEven
  <2> HIDE DEF SegmentSize
  <2> QED  BY <2>1, <2>2 DEF copy_available, Larger
<1> QED  BY <1>1, <1>2, <1>3, PTL DEF BufferSpec

-----------------------------------------------------------------------------
(***************************************************************************)
(* Start-up and shut-down.                                                 *)
(***************************************************************************)

Places == {"none", "remove", "create", "construct", "threads", "idle", "call", "failed",
           "join", "unmap", "unlink"}

\* Where rank r is, tells whether it has a segment and a daemon thread.
MappedAt(r) == pc[r] \in {"construct", "threads", "idle", "call"} => segment[r] # 0

DaemonAt(r) == daemon[r] => pc[r] \in {"idle", "call", "join"} /\ segment[r] # 0

\* Only ranks of the last program run.
LocalAt(r) == pc[r] # "none" => r \in started

StartupInv ==
    /\ made \in Nat
    /\ started \subseteq Ranks
    /\ pc \in [Ranks -> Places] /\ segment \in [Ranks -> Nat] /\ daemon \in [Ranks -> BOOLEAN]
    /\ \A r \in Ranks : MappedAt(r) /\ DaemonAt(r) /\ LocalAt(r) /\ NameFree(r)

LEMMA InitStartupInv ==
    ASSUME StartupInit
    PROVE  StartupInv
BY DEF StartupInit, StartupInv, Places, MappedAt, DaemonAt, LocalAt, NameFree

\* After a step of rank r nobody has the name, or r has taken it, or it is left to
\* the one who had it.
NameAfter(r, to) ==
    \/ named' = 0
    \/ named' = segment'[r]
    \/ named' = named /\ pc[r] # "unlink" /\ (segment'[r] = segment[r] \/ to = "unlink")

\* A step of one rank is about this rank.
LEMMA RankStep ==
    ASSUME StartupInv, NEW r \in Ranks, NEW to \in Places,
           pc' = [pc EXCEPT ![r] = to], made' \in Nat,
           segment' \in [Ranks -> Nat], daemon' \in [Ranks -> BOOLEAN],
           \A q \in Ranks : q # r => segment'[q] = segment[q] /\ daemon'[q] = daemon[q],
           to \in {"construct", "threads", "idle", "call"} => segment'[r] # 0,
           daemon'[r] => to \in {"idle", "call", "join"} /\ segment'[r] # 0,
           started' = started, r \in started, NameAfter(r, to),
           to = "failed" => started # {r}, to = "create" => named' = 0
    PROVE  StartupInv'
<1>1. pc' \in [Ranks -> Places] /\ pc'[r] = to /\ \A q \in Ranks : q # r => pc'[q] = pc[q]
  BY DEF StartupInv
<1>2. ASSUME NEW q \in Ranks
      PROVE  MappedAt(q)' /\ DaemonAt(q)' /\ LocalAt(q)'
  <2>1. CASE q = r
    BY <1>1, <2>1 DEF MappedAt, DaemonAt, LocalAt
  <2>2. CASE q # r
    <3>1. MappedAt(q) /\ DaemonAt(q) /\ LocalAt(q)
      BY DEF StartupInv
    <3>2. pc'[q] = pc[q] /\ segment'[q] = segment[q] /\ daemon'[q] = daemon[q]
      BY <1>1, <2>2
    <3>3. QED
      BY <3>1, <3>2 DEF MappedAt, DaemonAt, LocalAt
  <2>3. QED
    BY <2>1, <2>2
<1>3. ASSUME NEW q \in Ranks
      PROVE  NameFree(q)'
  <2>1. CASE q = r
    BY <1>1, <2>1 DEF NameFree
  <2>2. CASE q # r
    <3>1. NameFree(q) /\ pc'[q] = pc[q] /\ r \in started \ {q}
      BY <1>1, <2>2 DEF StartupInv
    <3> SUFFICES ASSUME pc[q] = "create", named' # 0
                 PROVE  \E s \in started \ {q} : segment'[s] = named' \/ pc'[s] = "unlink"
      BY <3>1 DEF NameFree
    <3>2. CASE named' = segment'[r]
      BY <3>1, <3>2
    <3>3. CASE named' = named /\ pc[r] # "unlink" /\ (segment'[r] = segment[r] \/ to = "unlink")
      <4>1. PICK s \in started \ {q} : segment[s] = named \/ pc[s] = "unlink"
        BY <3>1, <3>3 DEF NameFree
      <4>2. CASE s = r
        BY <1>1, <3>3, <4>1, <4>2
      <4>3. CASE s # r
        BY <1>1, <3>3, <4>1, <4>3 DEF StartupInv
      <4>4. QED
        BY <4>2, <4>3
    <3>4. QED
      BY <3>2, <3>3 DEF NameAfter
  <2>3. QED
    BY <2>1, <2>2
<1>4. QED
  BY <1>1, <1>2, <1>3 DEF StartupInv

\* A step that leaves the ranks, their segments and the name alone.
LEMMA OtherStep ==
    ASSUME StartupInv, UNCHANGED <<started, made, pc, segment, daemon, named>>
    PROVE  StartupInv'
BY DEF StartupInv, MappedAt, DaemonAt, LocalAt, NameFree

\* What a rank does on its own.
LEMMA InitOfRank ==
    ASSUME StartupInv, NEW r \in Ranks, init(r)
    PROVE  StartupInv'
<1>1. /\ MappedAt(r) /\ DaemonAt(r) /\ LocalAt(r) /\ NameFree(r) /\ made \in Nat
      /\ segment \in [Ranks -> Nat] /\ daemon \in [Ranks -> BOOLEAN]
  BY DEF StartupInv
<1>2. {"create", "construct", "failed", "threads", "idle"} \subseteq Places
  BY DEF Places
<1>3. CASE Remove(r)
  <2>1. /\ pc[r] = "remove" /\ pc' = [pc EXCEPT ![r] = "create"] /\ named' = 0
        /\ UNCHANGED <<started, segment, daemon, made>>
    BY <1>3 DEF Remove, Goto
  <2>2. ~daemon[r] /\ r \in started /\ NameAfter(r, "create")
    BY <1>1, <2>1 DEF DaemonAt, LocalAt, NameAfter
  <2>3. QED
    BY <1>1, <1>2, <2>1, <2>2, RankStep
<1>4. CASE Create(r)
  <2>1. pc[r] = "create" /\ UNCHANGED <<started, daemon>>
    BY <1>4 DEF Create, Goto
  <2>2. ~daemon[r] /\ r \in started
    BY <1>1, <2>1 DEF DaemonAt, LocalAt
  <2>3. CASE named = 0
    <3>1. /\ pc' = [pc EXCEPT ![r] = "construct"] /\ made' = made + 1 /\ named' = made + 1
          /\ segment' = [segment EXCEPT ![r] = made + 1]
      BY <1>4, <2>3 DEF Create, Goto
    <3>2. made' \in Nat /\ made + 1 # 0 /\ made + 1 \in Nat
      BY <1>1, <3>1
    <3>3. /\ segment' \in [Ranks -> Nat] /\ segment'[r] # 0 /\ NameAfter(r, "construct")
          /\ \A q \in Ranks : q # r => segment'[q] = segment[q]
      BY <1>1, <3>1, <3>2 DEF NameAfter
    <3>4. QED
      BY <1>1, <1>2, <2>1, <2>2, <3>1, <3>2, <3>3, RankStep
  <2>4. CASE named # 0
    <3>1. pc' = [pc EXCEPT ![r] = "failed"] /\ UNCHANGED <<made, segment, named>>
      BY <1>4, <2>4 DEF Create, Goto
    <3>2. started # {r} /\ NameAfter(r, "failed")
      BY <1>1, <2>1, <2>4, <3>1 DEF NameFree, NameAfter
    <3>3. QED
      BY <1>1, <1>2, <2>1, <2>2, <3>1, <3>2, RankStep
  <2>5. QED
    BY <2>3, <2>4
<1>5. CASE Construct(r)
  <2>1. /\ pc[r] = "construct" /\ pc' = [pc EXCEPT ![r] = "threads"]
        /\ UNCHANGED <<started, segment, daemon, made, named>>
    BY <1>5 DEF Construct, Goto
  <2>2. ~daemon[r] /\ segment[r] # 0 /\ r \in started /\ NameAfter(r, "threads")
    BY <1>1, <2>1 DEF DaemonAt, MappedAt, LocalAt, NameAfter
  <2>3. QED
    BY <1>1, <1>2, <2>1, <2>2, RankStep
<1>6. CASE thread_init(r)
  <2>1. /\ pc[r] = "threads" /\ pc' = [pc EXCEPT ![r] = "idle"]
        /\ daemon' = [daemon EXCEPT ![r] = TRUE] /\ UNCHANGED <<started, segment, made, named>>
    BY <1>6 DEF thread_init, Goto, shared
  <2>2. segment[r] # 0 /\ r \in started /\ NameAfter(r, "idle")
    BY <1>1, <2>1 DEF MappedAt, LocalAt, NameAfter
  <2>3. daemon' \in [Ranks -> BOOLEAN] /\ \A q \in Ranks : q # r => daemon'[q] = daemon[q]
    BY <1>1, <2>1
  <2>4. QED
    BY <1>1, <1>2, <2>1, <2>2, <2>3, RankStep
<1>7. QED
  BY <1>3, <1>4, <1>5, <1>6 DEF init

LEMMA CallOfRank ==
    ASSUME StartupInv, NEW r \in Ranks, post_sub_collective(r) \/ recv_all_resp(r)
    PROVE  StartupInv'
<1>1. /\ MappedAt(r) /\ DaemonAt(r) /\ LocalAt(r) /\ made \in Nat
      /\ segment \in [Ranks -> Nat] /\ daemon \in [Ranks -> BOOLEAN]
  BY DEF StartupInv
<1>2. PICK to \in {"idle", "call"} : pc[r] \in {"idle", "call"} /\ pc' = [pc EXCEPT ![r] = to]
  BY DEF post_sub_collective, recv_all_resp, Goto
<1>3. UNCHANGED <<started, segment, daemon, made, named>>
  BY DEF post_sub_collective, recv_all_resp, shared
<1>4. to \in Places /\ segment[r] # 0 /\ r \in started /\ NameAfter(r, to)
  BY <1>1, <1>2, <1>3 DEF Places, MappedAt, LocalAt, NameAfter
<1>5. QED
  BY <1>1, <1>2, <1>3, <1>4, RankStep

LEMMA EndOfRank ==
    ASSUME StartupInv, NEW r \in Ranks, Exit(r) \/ finalize(r)
    PROVE  StartupInv'
<1>1. /\ MappedAt(r) /\ DaemonAt(r) /\ LocalAt(r) /\ made \in Nat
      /\ segment \in [Ranks -> Nat] /\ daemon \in [Ranks -> BOOLEAN]
  BY DEF StartupInv
<1>2. {"join", "unmap", "unlink", "none"} \subseteq Places
  BY DEF Places
<1>3. CASE Exit(r)
  <2>1. /\ pc[r] \in {"idle", "failed"} /\ pc' = [pc EXCEPT ![r] = "join"]
        /\ UNCHANGED <<started, segment, daemon, made, named>>
    BY <1>3 DEF Exit, Goto, shared
  <2>2. (daemon[r] => segment[r] # 0) /\ r \in started /\ NameAfter(r, "join")
    BY <1>1, <2>1 DEF DaemonAt, LocalAt, NameAfter
  <2>3. QED
    BY <1>1, <1>2, <2>1, <2>2, RankStep
<1>4. CASE Join(r)
  <2>1. /\ ~daemon[r] /\ pc[r] = "join" /\ pc' = [pc EXCEPT ![r] = "unmap"]
        /\ UNCHANGED <<started, segment, daemon, made, named>>
    BY <1>4 DEF Join, Goto, shared
  <2>2. r \in started /\ NameAfter(r, "unmap")
    BY <1>1, <2>1 DEF LocalAt, NameAfter
  <2>3. QED
    BY <1>1, <1>2, <2>1, <2>2, RankStep
<1>5. CASE Unmap(r)
  <2>1. /\ pc[r] = "unmap" /\ pc' = [pc EXCEPT ![r] = "unlink"]
        /\ segment' = [segment EXCEPT ![r] = 0] /\ UNCHANGED <<started, daemon, made, named>>
    BY <1>5 DEF Unmap, Goto, shared
  <2>2. ~daemon[r] /\ r \in started /\ NameAfter(r, "unlink")
    BY <1>1, <2>1 DEF DaemonAt, LocalAt, NameAfter
  <2>3. segment' \in [Ranks -> Nat] /\ \A q \in Ranks : q # r => segment'[q] = segment[q]
    BY <1>1, <2>1
  <2>4. QED
    BY <1>1, <1>2, <2>1, <2>2, <2>3, RankStep
<1>6. CASE Unlink(r)
  <2>1. /\ pc[r] = "unlink" /\ pc' = [pc EXCEPT ![r] = "none"] /\ named' = 0
        /\ UNCHANGED <<started, segment, daemon, made>>
    BY <1>6 DEF Unlink, Goto
  <2>2. ~daemon[r] /\ r \in started /\ NameAfter(r, "none")
    BY <1>1, <2>1 DEF DaemonAt, LocalAt, NameAfter
  <2>3. QED
    BY <1>1, <1>2, <2>1, <2>2, RankStep
<1>7. QED
  BY <1>3, <1>4, <1>5, <1>6 DEF finalize

LEMMA DaemonOfRank ==
    ASSUME StartupInv, NEW r \in Ranks, daemon_loop(r)
    PROVE  StartupInv'
<1>1. CASE try_complete(r) \/ try_post(r)
  BY <1>1, OtherStep DEF try_complete, try_post
<1>2. CASE DaemonQuit(r)
  <2>1. daemon' = [daemon EXCEPT ![r] = FALSE] /\ UNCHANGED <<started, made, pc, segment, named>>
    BY <1>2 DEF DaemonQuit, shared
  <2>2. daemon' \in [Ranks -> BOOLEAN] /\ \A q \in Ranks : daemon'[q] => daemon[q]
    BY <2>1 DEF StartupInv
  <2>3. QED
    BY <2>1, <2>2 DEF StartupInv, MappedAt, DaemonAt, LocalAt, NameFree
<1>3. QED
  BY <1>1, <1>2 DEF daemon_loop

LEMMA NextStartupInv ==
    ASSUME StartupInv, [StartupNext]_startup_vars
    PROVE  StartupInv'
<1>1. CASE UNCHANGED startup_vars
  BY <1>1, OtherStep DEF startup_vars, ranks, shared
<1>2. CASE StartProgram
  <2>1. /\ pc' = [r \in Ranks |-> IF r \in started' THEN "remove" ELSE "none"]
        /\ started' \subseteq Ranks /\ \A r \in Ranks : pc[r] = "none"
        /\ UNCHANGED <<made, segment, daemon, named>>
    BY <1>2 DEF StartProgram, shared
  <2>2. \A r \in Ranks : ~daemon[r]
    BY <2>1 DEF StartupInv, DaemonAt
  <2>3. QED
    BY <2>1, <2>2 DEF StartupInv, Places, MappedAt, DaemonAt, LocalAt, NameFree
<1>3. CASE Kill
  <2>1. /\ pc' = [r \in Ranks |-> "none"] /\ segment' = [r \in Ranks |-> 0]
        /\ daemon' = [r \in Ranks |-> FALSE] /\ UNCHANGED <<made, started>>
    BY <1>3 DEF Kill, shared
  <2>2. QED
    BY <2>1 DEF StartupInv, Places, MappedAt, DaemonAt, LocalAt, NameFree
<1>4. CASE StartBackend \/ StopBackend \/ shm_init \/ load_balancer
  BY <1>4, OtherStep DEF StartBackend, StopBackend, shm_init, load_balancer, ranks, shared
<1>5. QED
  BY <1>1, <1>2, <1>3, <1>4, InitOfRank, CallOfRank, EndOfRank, DaemonOfRank DEF StartupNext

(***************************************************************************)
(* Which step a process is in decides whether it has a segment and a       *)
(* daemon thread, whatever programs were killed before.                    *)
(***************************************************************************)
THEOREM StartupInvariant == StartupSpec => []StartupInv
BY InitStartupInv, NextStartupInv, PTL DEF StartupSpec

(***************************************************************************)
(* The daemon thread ends before finalize unmaps the segment, for any      *)
(* number of ranks on the server.                                          *)
(***************************************************************************)
THEOREM DaemonAlwaysMapped == StartupSpec => []DaemonMapped
<1>1. StartupInv => DaemonMapped
  BY DEF StartupInv, DaemonAt, DaemonMapped
<1>2. QED
  BY <1>1, StartupInvariant, PTL

(***************************************************************************)
(* For any number of programs, of ranks on the server and of kills: what   *)
(* earlier programs have left behind does not make init fail, and only     *)
(* another rank of the same program does; the daemon thread is safe.       *)
(***************************************************************************)
THEOREM StartsAndStopsSafely == StartupSpec => []StartAndStopSafe
<1>1. StartupInv => StartAndStopSafe
  BY DEF StartupInv, DaemonAt, DaemonMapped, StartAndStopSafe
<1>2. QED
  BY <1>1, StartupInvariant, PTL

=============================================================================
