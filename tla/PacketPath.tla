----------------------------- MODULE PacketPath -----------------------------
(***************************************************************************)
(* The headers of a packet on its way from a worker through both passes of *)
(* the switch to the receive queues of the group: fill_pkt, the parsers,   *)
(* the forwarding and restoring tables, ECN marking, the NIC's flow rules, *)
(* and the length check of rx_process_one.  Other traffic passes through   *)
(* the same pipelines.                                                     *)
(*                                                                         *)
(* A frame is its Ethernet, IP and NetCCL headers and its length in bytes; *)
(* a server stands for its MAC address, its IP address and its port; the   *)
(* IP checksum is what it has been computed over.  What is added up is     *)
(* left to the module Switch: here every packet number has an aggregator   *)
(* of its own.  Frames are processed in any order.                         *)
(***************************************************************************)
EXTENDS Integers, Sequences, FiniteSets, FiniteSetsExt

CONSTANTS
    Servers,    \* the servers of topo.json
    SwitchAddr, \* switch_MAC and switch_IP
    Member,     \* Member[g]: the servers of group g, in the order of their ranks
    Op,         \* Op[g]: the operations of group g, one packet each: code and root
    Loads       \* what the switch may be busy with: the streams <<group, worker>>, the
                \* worker's current group; other frames [port, frame] that servers send;
                \* as bounds of the model, the ports that are congested at times, and
                \* the number of copies dropped

RecircPort == "recirculate"
Broadcast == "ff:ff:ff:ff:ff:ff"

Ranks(g) == 0 .. Len(Member[g]) - 1
ServerOf(g, r) == Member[g][r + 1]

ASSUME PathAssumption ==
    /\ SwitchAddr \notin Servers /\ RecircPort \notin Servers
    /\ \A l \in Loads : l.drops \in Nat /\ \A st \in l.streams :
          st[1] \in DOMAIN Member /\ st[2] \in 0 .. 63
    /\ \A g \in DOMAIN Member : \A i, j \in DOMAIN Member[g] :
          Member[g][i] = Member[g][j] => i = j
    /\ \A l \in Loads : \A s, t \in l.streams : s # t /\ s[2] = t[2] =>
          {Member[s[1]][i] : i \in DOMAIN Member[s[1]]}
            \cap {Member[t[1]][i] : i \in DOMAIN Member[t[1]]} = {}

ASSUME ConfigAssumption ==
    /\ Broadcast \notin Servers
    /\ \A g \in DOMAIN Member :
         /\ Member[g] \in Seq(Servers)
         /\ Op[g] \in Seq([code : {"ALLREDUCE", "REDUCE", "BROADCAST"}, root : Nat])

VARIABLES
    load,       \* a member of Loads
    arriving,   \* [port, multicast, frame]: in front of the ingress pipeline
    tm,         \* [port, rid, hdr]: copies in the traffic manager
    delivered,  \* [server, frame]: frames that have reached a server
    bitmap,     \* bitmap[a]: the ranks seen by aggregator a
    answered,   \* answered[st][r]: packets of rank r acknowledged so far
    others_left,\* other frames still to be sent
    drops       \* copies dropped so far

vars == <<load, arriving, tm, delivered, bitmap, answered, others_left, drops>>

\* A packet number of a stream has an aggregator of its own.
Streams == load.streams
Aggregators == UNION {{st} \X DOMAIN Op[st[1]] : st \in Streams}

EthSize == 14
IpSize == 20
IncSize == 10
PayloadSize == 256
InternalSize == 2
MinFrame == 60
HeaderSize == EthSize + IpSize + IncSize
NETCCL == 254
INVALID_PASSCNT == 255
IP == 2048
NoOptions == "none"

\* The right IP checksum of a frame: it covers the header with its options.
Checksum(f) == <<f.ip, f.options>>

\* Other traffic has all headers a frame may have here (those that it has not
\* are not looked at), and is not NetCCL's.
ASSUME OthersAssumption ==
    \A l \in Loads : \A o \in l.others :
        /\ o.port \in Servers
        /\ o.frame.len \in Nat
        /\ o.frame = [dmac |-> o.frame.dmac, smac |-> o.frame.smac,
                      ether_type |-> o.frame.ether_type,
                      ip |-> [tos |-> o.frame.ip.tos, length |-> o.frame.ip.length,
                              protocol |-> o.frame.ip.protocol,
                              sip |-> o.frame.ip.sip, dip |-> o.frame.ip.dip],
                      options |-> o.frame.options, checksum |-> o.frame.checksum,
                      inc |-> o.frame.inc, len |-> o.frame.len]
        /\ ~(o.frame.ether_type = IP /\ o.frame.ip.protocol = NETCCL)

\* The Ethernet hardware pads short frames (without the checksum).
pad(f) == [f EXCEPT !.len = Max({MinFrame, @})]

Init ==
    /\ load \in Loads
    /\ arriving = {} /\ tm = {} /\ delivered = {}
    /\ bitmap = [a \in Aggregators |-> {}]
    /\ answered = [st \in Streams |-> [r \in Ranks(st[1]) |-> 0]]
    /\ others_left = load.others /\ drops = 0

-----------------------------------------------------------------------------
(***************************************************************************)
(* The sender.                                                             *)
(***************************************************************************)
need_tx(op, r) ==
    \/ op.code = "ALLREDUCE"
    \/ op.code = "REDUCE" /\ op.root # r
    \/ op.code = "BROADCAST" /\ op.root = r

need_rx(op, r) ==
    \/ op.code = "ALLREDUCE"
    \/ op.code = "REDUCE" /\ op.root = r
    \/ op.code = "BROADCAST" /\ op.root # r

type_of_service(w) == (w * 4 + 1) % 256

\* Mutation of total_length: the Ethernet header is counted.
total_length_eth(pkt_size) == pkt_size

total_length(pkt_size) == pkt_size - EthSize

\* The headers that dpdk_init writes once into every slot of worker w.
prefill_ip(ip, w) ==
    [tos |-> type_of_service(w), length |-> 0, protocol |-> NETCCL, sip |-> ip, dip |-> 0]

\* Packet p of rank r.
fill_pkt(st, r, p) ==
    LET op == Op[st[1]][p]
        ip == ServerOf(st[1], r)
        pkt_size == HeaderSize + IF need_tx(op, r) THEN PayloadSize ELSE 0
    IN  [dmac |-> SwitchAddr, smac |-> ip, ether_type |-> IP,
         ip |-> [prefill_ip(ip, st[2]) EXCEPT !.length = total_length(pkt_size),
                                              !.dip = SwitchAddr],
         options |-> NoOptions, checksum |-> 0,
         inc |-> [coll_type |-> op.code, group_id |-> st[1], rank |-> r,
                  root |-> op.root, agg_addr |-> <<st, p>>, psn |-> p],
         len |-> pkt_size]

onWire(port, f) == [port |-> port, multicast |-> FALSE, frame |-> pad(f)]

\* The rule of flow_init_queue that puts frame f into the queue of worker w.
flow(f, w) ==
    f.ether_type = IP /\ f.ip.protocol = NETCCL /\ f.ip.tos \div 4 = type_of_service(w) \div 4

\* The frames in the receive queue of rank r of stream st.
rx_queue(st, r) ==
    {d \in delivered : d.server = ServerOf(st[1], r) /\ flow(d.frame, st[2])}

\* Did rank r of stream st send this frame?
SentBy(f, st, r) == f.inc.agg_addr[1] = st /\ f.inc.rank = r

\* The next packet, for the first time or again after a timeout.  Bound of
\* the model: a timeout is longer than the packet's own way through the switch.
Send(st, r) ==
    LET p == answered[st][r] + 1 IN
    /\ st \in Streams
    /\ p \in DOMAIN Op[st[1]]
    /\ \A a \in arriving : ~SentBy(a.frame, st, r)
    /\ \A c \in tm : ~SentBy(c.hdr.frame, st, r)
    /\ rx_queue(st, r) = {}
    /\ arriving' = arriving \cup {onWire(ServerOf(st[1], r), fill_pkt(st, r, p))}
    /\ UNCHANGED <<load, tm, delivered, bitmap, answered, others_left, drops>>

SendOther(o) ==
    /\ o \in others_left
    /\ others_left' = others_left \ {o}
    /\ arriving' = arriving \cup {onWire(o.port, o.frame)}
    /\ UNCHANGED <<load, tm, delivered, bitmap, answered, drops>>

-----------------------------------------------------------------------------
(***************************************************************************)
(* Ingress.  A parsed packet (hdr) is the internal header, the headers in  *)
(* frame, whether the payload is valid, and the tail: the bytes behind the *)
(* parsed headers, which the deparser appends.                             *)
(***************************************************************************)
FullLength == IpSize + IncSize + PayloadSize
EmptyLength == IpSize + IncSize

\* The select of parse_ethernet and parse_ip; everything else is parse_other.
parse_netccl(f) ==
    f.ether_type = IP /\ f.ip.protocol = NETCCL /\ f.ip.length \in {FullLength, EmptyLength}

\* Mutation of parsed_bytes: alloc_payload does not skip the padding.
parsed_bytes_no_advance(f) ==
    HeaderSize + IF f.ip.length = FullLength THEN PayloadSize ELSE 0

\* parse_payload takes the payload, alloc_payload skips the padding.
parsed_bytes(f) ==
    HeaderSize + IF f.ip.length = FullLength
                 THEN PayloadSize
                 ELSE 64 - 4 - EthSize - IpSize - IncSize

\* After parser, set_dmac and adjust_ip_length: the payload is the packet's
\* own or one of zeros, but always there.
netccl_hdr(f, pass_cnt, multicast) ==
    [pass_cnt |-> pass_cnt, multicast |-> multicast, payload |-> TRUE,
     tail |-> f.len - parsed_bytes(f),
     frame |-> [f EXCEPT !.dmac = f.smac, !.ip.length = FullLength]]

other_hdr(f) ==
    [pass_cnt |-> INVALID_PASSCNT, multicast |-> FALSE, payload |-> FALSE,
     tail |-> f.len - EthSize, frame |-> f]

copy(port, rid, hdr) == [port |-> port, rid |-> rid, hdr |-> hdr]

\* The ports of the servers, and one multicast group for the broadcast
\* address.  Other destinations are dropped.
l2_forward_table(dmac, hdr) ==
    {copy(s, 0, hdr) : s \in IF dmac = Broadcast THEN Servers ELSE Servers \cap {dmac}}

\* The nodes that CreateGroup has added to the multicast group g.
mgid(g, hdr) == {copy(ServerOf(g, r), r, hdr) : r \in Ranks(g)}

\* The packet recirculates if all other ranks have been seen; otherwise it
\* has done its work.
Pass1(f) ==
    LET bitmap_old == bitmap[f.inc.agg_addr]
        full == bitmap_old \cup {f.inc.rank} = Ranks(f.inc.group_id)
        new_packet == f.inc.rank \notin bitmap_old
    IN  /\ bitmap' = [bitmap EXCEPT ![f.inc.agg_addr] = @ \cup {f.inc.rank}]
        /\ tm' = tm \cup IF full THEN {copy(RecircPort, 0, netccl_hdr(f, 1, new_packet))}
                                 ELSE {}

\* parse_recirculate takes the internal header off again.  To the group, or
\* back to the sender, whose address set_dmac has made the destination.
Pass2(a) ==
    LET hdr == netccl_hdr([a.frame EXCEPT !.len = @ - InternalSize], 2, a.multicast)
    IN  /\ tm' = tm \cup IF a.multicast THEN mgid(a.frame.inc.group_id, hdr)
                                        ELSE l2_forward_table(hdr.frame.dmac, hdr)
        /\ UNCHANGED bitmap

PassOther(f) ==
    /\ tm' = tm \cup l2_forward_table(f.dmac, other_hdr(f))
    /\ UNCHANGED bitmap

IngressPipe(a) ==
    /\ a \in arriving
    /\ arriving' = arriving \ {a}
    /\ \/ a.port = RecircPort /\ Pass2(a)
       \/ a.port # RecircPort /\ parse_netccl(a.frame) /\ Pass1(a.frame)
       \/ a.port # RecircPort /\ ~parse_netccl(a.frame) /\ PassOther(a.frame)
    /\ UNCHANGED <<load, delivered, answered, others_left, drops>>

-----------------------------------------------------------------------------
(***************************************************************************)
(* Egress, once for every copy.                                            *)
(***************************************************************************)
\* A multicast copy gets the rank of its node.
rank_of_copy(c) ==
    IF c.hdr.multicast THEN c.rid ELSE c.hdr.frame.inc.rank

\* restore_table, restore_smac_table and restore_dmac_table.
restore(c) ==
    LET r == rank_of_copy(c)
        s == ServerOf(c.hdr.frame.inc.group_id, r)
    IN  [c.hdr.frame EXCEPT !.inc.rank = r, !.ip.sip = SwitchAddr, !.ip.dip = s,
                            !.smac = SwitchAddr, !.dmac = s]

\* Payloads that the receiver has no use for.
invalidate(inc) ==
    \/ inc.coll_type = "REDUCE" /\ inc.rank # inc.root
    \/ inc.coll_type = "BROADCAST" /\ inc.rank = inc.root

\* The internal header stays on recirculating packets only.
internal_valid(hdr) == hdr.pass_cnt = 1

\* Mutation of dcqcn: the mark overwrites the queue in the upper bits.
dcqcn_byte(f, congested) ==
    IF f.ether_type = IP /\ f.ip.tos % 4 # 0 /\ congested THEN [f EXCEPT !.ip.tos = 3] ELSE f

\* ECN marks what admits marking, at a congested port.
dcqcn(f, congested) ==
    IF f.ether_type = IP /\ f.ip.tos % 4 # 0 /\ congested
    THEN [f EXCEPT !.ip.tos = (@ \div 4) * 4 + 3]
    ELSE f

\* Mutation of EgressChecksum: the checksum is left as it came.
EgressChecksum_not(f) == f

\* The checksum of an IP frame is written anew, from the 20 bytes of the
\* header that have been parsed.
EgressChecksum(f) ==
    IF f.ether_type = IP THEN [f EXCEPT !.checksum = <<f.ip, NoOptions>>] ELSE f

egress_payload(hdr, f) == hdr.payload /\ ~(hdr.pass_cnt = 2 /\ invalidate(f.inc))

\* The frame that leaves, and its length.
deparse(c, congested) ==
    LET f == IF c.hdr.pass_cnt = 2 THEN restore(c) ELSE c.hdr.frame
        payload == egress_payload(c.hdr, f)
        parsed == IF c.hdr.pass_cnt = INVALID_PASSCNT THEN EthSize ELSE HeaderSize
        len == (IF internal_valid(c.hdr) THEN InternalSize ELSE 0)
                 + parsed + (IF payload THEN PayloadSize ELSE 0) + c.hdr.tail
    IN  EgressChecksum(
            dcqcn([f EXCEPT !.len = len,
                            !.ip.length = IF c.hdr.payload /\ ~payload THEN EmptyLength ELSE @],
                  congested))

\* Whether the queue of a port may be found congested.
Congestion(port) == {b \in BOOLEAN : b => port \in load.congested}

EgressPipe(c, congested) ==
    /\ c \in tm
    /\ tm' = tm \ {c}
    /\ LET f == deparse(c, congested)
       IN  IF c.port = RecircPort
           THEN /\ arriving' = arriving \cup
                     {[port |-> RecircPort, multicast |-> c.hdr.multicast, frame |-> f]}
                /\ UNCHANGED delivered
           ELSE /\ delivered' = delivered \cup {[server |-> c.port, frame |-> pad(f)]}
                /\ UNCHANGED arriving
    /\ UNCHANGED <<load, bitmap, answered, others_left, drops>>

\* random_drop, and what it stands for.
EgressDrop(c) ==
    /\ c \in tm
    /\ drops < load.drops
    /\ drops' = drops + 1
    /\ tm' = tm \ {c}
    /\ UNCHANGED <<load, arriving, delivered, bitmap, answered, others_left>>

-----------------------------------------------------------------------------
(***************************************************************************)
(* The receiver.                                                           *)
(***************************************************************************)
error_code(f, op, r) ==
    IF need_rx(op, r)
    THEN IF f.len # HeaderSize + PayloadSize THEN 1 ELSE 0
    ELSE IF f.len # Max({MinFrame, HeaderSize}) THEN 2 ELSE 0

\* rx_process_one: the packet number decides, nothing else is looked at.
Receive(st, r) ==
    /\ st \in Streams
    /\ \E d \in rx_queue(st, r) :
        /\ delivered' = delivered \ {d}
        /\ answered' = IF d.frame.inc.psn = answered[st][r] + 1
                       THEN [answered EXCEPT ![st][r] = @ + 1]
                       ELSE answered
        /\ UNCHANGED <<load, arriving, tm, bitmap, others_left, drops>>

Next ==
    \/ \E st \in Streams : \E r \in Ranks(st[1]) : Send(st, r) \/ Receive(st, r)
    \/ \E o \in others_left : SendOther(o)
    \/ \E a \in arriving : IngressPipe(a)
    \/ \E c \in tm : \E congested \in Congestion(c.port) : EgressPipe(c, congested)
    \/ \E c \in tm : EgressDrop(c)

\* The switch goes on with the frames of every sender.
IngressOf(st, r) == \E a \in arriving : SentBy(a.frame, st, r) /\ IngressPipe(a)

EgressOf(st, r) ==
    \E c \in tm : /\ SentBy(c.hdr.frame, st, r)
                  /\ \E congested \in Congestion(c.port) : EgressPipe(c, congested)

Fairness ==
    \A st \in UNION {l.streams : l \in Loads} : \A r \in Ranks(st[1]) :
        /\ WF_vars(Send(st, r)) /\ WF_vars(Receive(st, r))
        /\ WF_vars(IngressOf(st, r)) /\ WF_vars(EgressOf(st, r))

Spec == Init /\ [][Next]_vars /\ Fairness

-----------------------------------------------------------------------------
(***************************************************************************)
(* rx_process_one finds the length it expects in every response, whatever  *)
(* the roles of the rank and of the last sender are: with the payload      *)
(* exactly where the rank needs it, and without left-over padding.         *)
(***************************************************************************)
NoLengthError ==
    \A st \in Streams : \A r \in Ranks(st[1]) : \A d \in rx_queue(st, r) :
        error_code(d.frame, Op[st[1]][d.frame.inc.psn], r) = 0

(***************************************************************************)
(* rx_process_one looks only at the PSN of what it finds in its queue, and *)
(* get_position at the group in the window.  So every NetCCL frame must    *)
(* reach the server of the rank it names, carry that server's and the      *)
(* switch's addresses, be put into a queue of a worker of its group,       *)
(* congested or not, and answer a packet that worker has sent.             *)
(***************************************************************************)
RightAddressee ==
    \A d \in delivered : parse_netccl(d.frame) =>
        LET inc == d.frame.inc IN
        \E st \in Streams :
            /\ inc.agg_addr = <<st, inc.psn>> /\ inc.group_id = st[1] /\ inc.rank \in Ranks(st[1])
            /\ flow(d.frame, st[2])
            /\ d.server = ServerOf(st[1], inc.rank)
            /\ {d.frame.dmac, d.frame.ip.dip} = {d.server}
            /\ {d.frame.smac, d.frame.ip.sip} = {SwitchAddr}
            /\ inc.psn <= answered[st][inc.rank] + 1

(***************************************************************************)
(* Other traffic, which takes the same pipelines, arrives where its        *)
(* destination address says and as it was sent, but for the ECN mark and   *)
(* the IP checksum.  EgressChecksum leaves what is not IP alone and gives  *)
(* every IP frame without options the right checksum, marked or not; a     *)
(* frame with options does not have that guarantee.                        *)
(***************************************************************************)
OthersUntouched ==
    \A d \in delivered : ~parse_netccl(d.frame) =>
        \E o \in load.others \ others_left :
            /\ o.frame.dmac \in {d.server, Broadcast}
            /\ \E congested \in BOOLEAN :
                  d.frame = [dcqcn(pad(o.frame), congested) EXCEPT !.checksum = d.frame.checksum]
            /\ o.frame.ether_type # IP => d.frame.checksum = o.frame.checksum
            /\ o.frame.ether_type = IP /\ o.frame.options = NoOptions =>
                  d.frame.checksum = Checksum(d.frame)

(***************************************************************************)
(* Every rank gets all its answers: whatever fill_pkt sends is recognised  *)
(* by the parser in both passes, and some answer leads to its queue.       *)
(***************************************************************************)
EveryRankAnswered ==
    <>(\A st \in Streams : \A r \in Ranks(st[1]) : answered[st][r] = Len(Op[st[1]]))
=============================================================================
