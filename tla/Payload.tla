------------------------------ MODULE Payload -------------------------------
(***************************************************************************)
(* The data of one operation on its way through the backends: the load     *)
(* balancer splits the buffer among the workers, gen_pkt cuts a part into  *)
(* packets, fill_pkt copies a packet's bytes, in network byte order when   *)
(* the switch is to add them, and rx_process_one copies the result back    *)
(* over the same bytes, while other packets are still to be generated.     *)
(* The copy buffer goes on after the operation with data of the next one.  *)
(*                                                                         *)
(* Bytes are numbers below Base, words have WordSize bytes; the host is    *)
(* little endian.  Packets are sent and answered reliably: NetReduce has   *)
(* the protocol, Quantize the saturation of sums, which fit a word here.   *)
(***************************************************************************)
EXTENDS Integers, FiniteSets, Functions

CONSTANTS
    Ranks,
    Base,           \* values of a byte
    WordSize,       \* sizeof(int32_t)
    PayloadSize,    \* PAYLOAD_SIZE, in bytes
    Data,           \* Data[r][b]: byte b of rank r's copy buffer
    MaxSize,        \* bound of the model: bytes of the operation
    MaxWorkers      \* bound of the model: workers of a server

BufferSize == MaxSize + PayloadSize
Bytes == 0 .. BufferSize - 1

\* The number that bytes f[0 .. WordSize - 1] are, the most significant first.
Number(f) ==
    LET First[n \in 0 .. WordSize] == IF n = 0 THEN 0 ELSE First[n - 1] * Base + f[n - 1]
    IN  First[WordSize]

\* Byte j of number n.
Digit(n, j) ==
    LET Shifted[k \in 0 .. WordSize] == IF k = 0 THEN n ELSE Shifted[k - 1] \div Base
    IN  Shifted[WordSize - 1 - j] % Base

\* The word of f that has byte b, on a little endian host.
HostWord(f, b) == Number([j \in 0 .. WordSize - 1 |-> f[(b \div WordSize) * WordSize + (WordSize - 1 - j)]])

\* What is assumed of the constants.
PayloadAssumption ==
    /\ IsFiniteSet(Ranks)
    /\ {Base, WordSize, PayloadSize, MaxWorkers} \subseteq Nat \ {0} /\ MaxSize \in Nat
    /\ PayloadSize % WordSize = 0
    /\ Data \in [Ranks -> [Bytes -> 0 .. Base - 1]]
    /\ \A w \in 0 .. BufferSize \div WordSize - 1 :
          SumFunction([r \in Ranks |-> HostWord(Data[r], w * WordSize)]) < Base ^ WordSize \div 2

VARIABLES
    op,         \* [op_code, root, size]
    nworker,
    buffer,     \* buffer[r][b]
    pkt_sent,   \* pkt_sent[r][i]: packets worker i of rank r has generated
    payload,    \* payload[r]: what r has sent, by packet
    received    \* received[r]: packets whose response r has processed

payload_vars == <<op, nworker, buffer, pkt_sent, payload, received>>

Workers == 0 .. nworker - 1
Sums == op.op_code \in {"ALL_REDUCE", "REDUCE"}

need_tx(r) ==
    \/ op.op_code = "ALL_REDUCE"
    \/ op.op_code = "REDUCE" /\ op.root # r
    \/ op.op_code = "BROADCAST" /\ op.root = r

need_rx(r) ==
    \/ op.op_code = "ALL_REDUCE"
    \/ op.op_code = "REDUCE" /\ op.root = r
    \/ op.op_code = "BROADCAST" /\ op.root # r

PayloadInit ==
    /\ op \in [op_code : {"ALL_REDUCE", "REDUCE", "BROADCAST"}, root : Ranks, size : 0 .. MaxSize]
    /\ Sums => op.size % WordSize = 0
    /\ nworker \in 1 .. MaxWorkers
    /\ buffer = Data
    /\ pkt_sent = [r \in Ranks |-> [i \in Workers |-> 0]]
    /\ payload = [r \in Ranks |-> <<>>]
    /\ received = [r \in Ranks |-> {}]

-----------------------------------------------------------------------------
\* Mutation of sub_size: the words that remain are given to nobody.
sub_size_floor(i) ==
    ((op.size \div WordSize) \div nworker) * WordSize
    + (IF i = nworker - 1 THEN op.size % WordSize ELSE 0)

\* try_post_op: the bytes of worker i, and where they start.
sub_size(i) ==
    LET words == op.size \div WordSize
        sub_words == words \div nworker + (IF i < words % nworker THEN 1 ELSE 0)
    IN  sub_words * WordSize + (IF i = nworker - 1 THEN op.size % WordSize ELSE 0)

offset(i) == SumFunction([j \in 0 .. i - 1 |-> sub_size(j)])

\* gen_pkt: a part has at least one packet.
pkt_cnt(i) ==
    LET n == (sub_size(i) + PayloadSize - 1) \div PayloadSize
    IN  IF n = 0 THEN 1 ELSE n

\* Packet k of worker i: its first byte and its size.
data(i, k) == offset(i) + k * PayloadSize

size(i, k) ==
    LET left == sub_size(i) - k * PayloadSize
    IN  IF left < PayloadSize THEN left ELSE PayloadSize

\* htobe32 at byte b: its place in a word of the other byte order.
htobe32(b) == (b \div WordSize) * WordSize + (WordSize - 1 - (b % WordSize))

\* Where byte b of the payload is in the buffer's packet.
place(b) == IF Sums THEN htobe32(b) ELSE b

\* The payload fill_pkt makes, padded with zeros; without payload all are zeros.
fill_pkt(r, i, k) ==
    [b \in 0 .. PayloadSize - 1 |->
        IF need_tx(r) /\ b < size(i, k) THEN buffer[r][data(i, k) + place(b)] ELSE 0]

gen_pkt(r, i) ==
    LET k == pkt_sent[r][i]
    IN  /\ k < pkt_cnt(i)
        /\ pkt_sent' = [pkt_sent EXCEPT ![r][i] = k + 1]
        /\ payload' = [payload EXCEPT ![r] =
                          [p \in DOMAIN @ \cup {<<i, k>>} |->
                              IF p = <<i, k>> THEN fill_pkt(r, i, k) ELSE @[p]]]
        /\ UNCHANGED <<op, nworker, buffer, received>>

-----------------------------------------------------------------------------
\* The switch adds the payloads of packet p word by word.
Sum(p) ==
    [b \in 0 .. PayloadSize - 1 |->
        LET w == (b \div WordSize) * WordSize
        IN  Digit(SumFunction([r \in Ranks |->
                                  Number([j \in 0 .. WordSize - 1 |-> payload[r][p][w + j]])]),
                  b % WordSize)]

\* rx_process_one: the response to packet k of worker i.
rx_copy(r, i, k) ==
    LET p == <<i, k>>
        first == data(i, k)
        result == Sum(p)
    IN  /\ \A s \in Ranks : p \in DOMAIN payload[s]
        /\ p \notin received[r]
        /\ received' = [received EXCEPT ![r] = @ \cup {p}]
        /\ buffer' = IF ~need_rx(r) THEN buffer
                     ELSE [buffer EXCEPT ![r] =
                              [b \in Bytes |-> IF b \in first .. first + size(i, k) - 1
                                               THEN result[place(b - first)] ELSE @[b]]]
        /\ UNCHANGED <<op, nworker, pkt_sent, payload>>

PayloadNext ==
    \E r \in Ranks, i \in Workers :
       gen_pkt(r, i) \/ \E k \in 0 .. pkt_cnt(i) - 1 : rx_copy(r, i, k)

PayloadSpec == PayloadInit /\ [][PayloadNext]_payload_vars

-----------------------------------------------------------------------------
\* Byte b of rank r when the operation is complete.
Promised(r, b) ==
    IF ~need_rx(r) \/ b >= op.size THEN Data[r][b]
    ELSE IF ~Sums THEN Data[op.root][b]
    ELSE Digit(SumFunction([s \in {q \in Ranks : need_tx(q)} |-> HostWord(Data[s], b)]),
               WordSize - 1 - (b % WordSize))

(***************************************************************************)
(* When all responses are there, every byte of the buffer is what the      *)
(* operation promises: each word is in exactly one packet of one worker,   *)
(* is read before its result is written over it, and is added as the       *)
(* number the host means.                                                  *)
(***************************************************************************)
EveryByteRight ==
    \A r \in Ranks :
       (\A i \in Workers : \A k \in 0 .. pkt_cnt(i) - 1 : <<i, k>> \in received[r])
          => \A b \in 0 .. op.size - 1 : buffer[r][b] = Promised(r, b)

(***************************************************************************)
(* At no time is a byte beyond the operation written, which the next       *)
(* operation in the copy buffer may already use: responses are full        *)
(* packets, whatever part of them belongs to the operation.                *)
(***************************************************************************)
NextOperationIntact ==
    \A r \in Ranks :
       LET own == Data[r]
       IN  \A b \in op.size .. BufferSize - 1 : buffer[r][b] = own[b]

(***************************************************************************)
(* Both: what is written is right, and nothing else is written.            *)
(***************************************************************************)
BytesRight == EveryByteRight /\ NextOperationIntact
=============================================================================
