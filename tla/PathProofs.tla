----------------------------- MODULE PathProofs ------------------------------
(***************************************************************************)
(* Proofs about the headers of a packet, for any servers, groups, streams  *)
(* and operations, and any other traffic; and about the congestion window, *)
(* which the ECN marks on the packets control, for every ring, limit and   *)
(* rate that leaves the room GapAssumption asks for.                       *)
(*                                                                         *)
(* The argument for the path.  Every frame and every copy, wherever it is, *)
(* is known but for the ECN mark: it is packet p of rank r as fill_pkt has *)
(* made it, the same after pass 1 with the internal header, after pass 2   *)
(* on its way to rank q, as rank q gets it, or a frame of the other        *)
(* traffic.  Lengths are part of that, so NoLengthError and                *)
(* OthersUntouched can be read off; and with every packet goes the         *)
(* knowledge of who has asked for it.                                      *)
(***************************************************************************)
EXTENDS PacketPath, CongestionControl, SequenceTheorems, TLAPS

-----------------------------------------------------------------------------
(***************************************************************************)
(* The headers of a packet.                                                *)
(***************************************************************************)

\* Packet p of rank r of stream st.
Pkt(st, r, p) == st \in Streams /\ r \in Ranks(st[1]) /\ p \in DOMAIN Op[st[1]]

\* The TOS byte of a worker, not marked and marked.
Tos(w) == {4 * w + 1, 4 * w + 3}

IncHeader(st, r, p) ==
    [coll_type |-> Op[st[1]][p].code, group_id |-> st[1], rank |-> r,
     root |-> Op[st[1]][p].root, agg_addr |-> <<st, p>>, psn |-> p]

\* A NetCCL frame with the given addresses and checksum.
NetcclFrame(dmac, smac, sip, dip, tos, length, inc, len, sum) ==
    [dmac |-> dmac, smac |-> smac, ether_type |-> IP,
     ip |-> [tos |-> tos, length |-> length, protocol |-> NETCCL, sip |-> sip, dip |-> dip],
     options |-> NoOptions, checksum |-> sum, inc |-> inc, len |-> len]

\* The packet inside the switch: set_dmac has been applied, and the payload is there.
Inside(st, r, p, tos, len, sum) ==
    LET s == ServerOf(st[1], r)
    IN  NetcclFrame(s, s, s, SwitchAddr, tos, FullLength, IncHeader(st, r, p), len, sum)

\* The answer to packet p as rank q gets it.
ResultLength(st, q, p) == IF need_rx(Op[st[1]][p], q) THEN 300 ELSE 60

ResultFrame(st, q, p, tos, sum) ==
    LET s == ServerOf(st[1], q)
    IN  NetcclFrame(s, SwitchAddr, SwitchAddr, s, tos,
                    IF need_rx(Op[st[1]][p], q) THEN FullLength ELSE EmptyLength,
                    IncHeader(st, q, p), ResultLength(st, q, p), sum)

\* Rank r has sent packet p, or all ranks have.
Asked(st, r, p) == p <= answered[st][r] + 1
AskedAll(st, p) == \A r \in Ranks(st[1]) : Asked(st, r, p)

SentOthers == load.others \ others_left

\* What is in front of the ingress pipeline.
IsSent(a, st, r, p) ==
    Pkt(st, r, p) /\ Asked(st, r, p) /\ a = onWire(ServerOf(st[1], r), fill_pkt(st, r, p))

IsLooped(a, st, r, p, tos) ==
    /\ Pkt(st, r, p) /\ AskedAll(st, p) /\ tos \in Tos(st[2])
    /\ a.port = RecircPort /\ a.frame = Inside(st, r, p, tos, 302, a.frame.checksum)

IsOther(a, o) == o \in SentOthers /\ a = onWire(o.port, o.frame)

ArrivingOK(a) ==
    \/ \E st \in Streams : \E r \in Ranks(st[1]), p \in DOMAIN Op[st[1]] :
         IsSent(a, st, r, p) \/ \E tos \in Tos(st[2]) : IsLooped(a, st, r, p, tos)
    \/ \E o \in SentOthers : IsOther(a, o)

\* What is in the traffic manager.
Header(pass_cnt, multicast, frame) ==
    [pass_cnt |-> pass_cnt, multicast |-> multicast, payload |-> TRUE, tail |-> 0, frame |-> frame]

IsLoopCopy(c, st, r, p, tos, len) ==
    /\ Pkt(st, r, p) /\ AskedAll(st, p) /\ tos \in Tos(st[2])
    /\ c.port = RecircPort
    /\ c.hdr = Header(1, c.hdr.multicast, Inside(st, r, p, tos, len, c.hdr.frame.checksum))

IsAnswerCopy(c, st, r, p, tos, q) ==
    /\ Pkt(st, r, p) /\ AskedAll(st, p) /\ tos \in Tos(st[2])
    /\ q \in Ranks(st[1]) /\ c.port = ServerOf(st[1], q) /\ rank_of_copy(c) = q
    /\ c.hdr = Header(2, c.hdr.multicast, Inside(st, r, p, tos, 300, c.hdr.frame.checksum))

IsOtherCopy(c, o) ==
    /\ o \in SentOthers
    /\ c.port \in Servers /\ o.frame.dmac \in {c.port, Broadcast}
    /\ c.hdr = other_hdr(pad(o.frame))

CopyOK(c) ==
    \/ \E st \in Streams : \E r \in Ranks(st[1]), p \in DOMAIN Op[st[1]] : \E tos \in Tos(st[2]) :
         \/ \E len \in {60, 300} : IsLoopCopy(c, st, r, p, tos, len)
         \/ \E q \in Ranks(st[1]) : IsAnswerCopy(c, st, r, p, tos, q)
    \/ \E o \in SentOthers : IsOtherCopy(c, o)

\* What has reached a server.
IsAnswer(d, st, q, p, tos) ==
    /\ Pkt(st, q, p) /\ Asked(st, q, p) /\ tos \in Tos(st[2])
    /\ d = [server |-> ServerOf(st[1], q),
            frame |-> ResultFrame(st, q, p, tos, d.frame.checksum)]

IsOtherFrame(d, o) ==
    /\ o \in SentOthers
    /\ o.frame.dmac \in {d.server, Broadcast}
    /\ d.frame \in {EgressChecksum(dcqcn(pad(o.frame), busy)) : busy \in BOOLEAN}

DeliveredOK(d) ==
    \/ \E st \in Streams : \E q \in Ranks(st[1]), p \in DOMAIN Op[st[1]] : \E tos \in Tos(st[2]) :
         IsAnswer(d, st, q, p, tos)
    \/ \E o \in SentOthers : IsOtherFrame(d, o)

\* Who is in a bitmap has asked.
BitmapOK ==
    \A st \in Streams : \A p \in DOMAIN Op[st[1]] : \A r \in Ranks(st[1]) :
        r \in bitmap[<<st, p>>] => Asked(st, r, p)

IInv ==
    /\ load \in Loads /\ others_left \subseteq load.others
    /\ bitmap = [a \in Aggregators |-> bitmap[a]]
    /\ answered = [st \in Streams |-> answered[st]]
    /\ \A st \in Streams : answered[st] \in [Ranks(st[1]) -> Nat]
    /\ BitmapOK
    /\ \A a \in arriving : ArrivingOK(a)
    /\ \A c \in tm : CopyOK(c)
    /\ \A d \in delivered : DeliveredOK(d)

-----------------------------------------------------------------------------
(***************************************************************************)
(* The operators of the packet path.                                       *)
(***************************************************************************)
LEMMA MaxTwo ==
    ASSUME NEW m \in Int, NEW n \in Int
    PROVE  Max({m, n}) = IF m >= n THEN m ELSE n
<1> DEFINE k == IF m >= n THEN m ELSE n
<1>1. k \in {m, n} /\ \A y \in {m, n} : k >= y
  OBVIOUS
<1>2. \A x \in {m, n} : (\A y \in {m, n} : x >= y) => x = k
  OBVIOUS
<1>3. QED
  BY <1>1, <1>2 DEF Max

\* Changing the length of a frame.
LEMMA FrameLen ==
    ASSUME NEW dmac, NEW smac, NEW sip, NEW dip, NEW tos, NEW length, NEW inc, NEW len, NEW sum,
           NEW n
    PROVE  [NetcclFrame(dmac, smac, sip, dip, tos, length, inc, len, sum) EXCEPT !.len = n]
             = NetcclFrame(dmac, smac, sip, dip, tos, length, inc, n, sum)
BY DEF NetcclFrame

LEMMA PadFrame ==
    ASSUME NEW dmac, NEW smac, NEW sip, NEW dip, NEW tos, NEW length, NEW inc, 
           NEW len \in Int, NEW sum
    PROVE  pad(NetcclFrame(dmac, smac, sip, dip, tos, length, inc, len, sum))
             = NetcclFrame(dmac, smac, sip, dip, tos, length, inc,
                           IF len >= 60 THEN len ELSE 60, sum)
<1> DEFINE f == NetcclFrame(dmac, smac, sip, dip, tos, length, inc, len, sum)
<1>1. f.len = len
  BY DEF NetcclFrame
<1>2. Max({60, len}) = IF len >= 60 THEN len ELSE 60
  BY MaxTwo
<1>3. pad(f) = [f EXCEPT !.len = IF len >= 60 THEN len ELSE 60]
  BY <1>1, <1>2 DEF pad, MinFrame
<1> HIDE DEF f
<1>4. QED
  BY <1>3, FrameLen DEF f

\* adjust_ip_length and set_dmac.
Adjusted(f) == [f EXCEPT !.dmac = f.smac, !.ip.length = FullLength]

LEMMA AdjustedFrame ==
    ASSUME NEW dmac, NEW smac, NEW sip, NEW dip, NEW tos, NEW length, NEW inc, NEW len, NEW sum,
           NEW f, f = NetcclFrame(dmac, smac, sip, dip, tos, length, inc, len, sum)
    PROVE  Adjusted(f) = NetcclFrame(smac, smac, sip, dip, tos, FullLength, inc, len, sum)
<1>1. f.smac = smac
  BY DEF NetcclFrame
<1>2. [f EXCEPT !.dmac = smac] = NetcclFrame(smac, smac, sip, dip, tos, length, inc, len, sum)
  BY DEF NetcclFrame
<1>3. [NetcclFrame(smac, smac, sip, dip, tos, length, inc, len, sum)
         EXCEPT !.ip.length = FullLength]
        = NetcclFrame(smac, smac, sip, dip, tos, FullLength, inc, len, sum)
  BY DEF NetcclFrame
<1>4. \A m : [f EXCEPT !.dmac = m, !.ip.length = FullLength]
               = [[f EXCEPT !.dmac = m] EXCEPT !.ip.length = FullLength]
  OBVIOUS
<1>5. QED
  BY <1>1, <1>2, <1>3, <1>4 DEF Adjusted

\* The fields of a frame.
LEMMA FrameFields ==
    ASSUME NEW dmac, NEW smac, NEW sip, NEW dip, NEW tos, NEW length, NEW inc, NEW len, NEW sum,
           NEW f, f = NetcclFrame(dmac, smac, sip, dip, tos, length, inc, len, sum)
    PROVE  /\ f.dmac = dmac /\ f.smac = smac /\ f.ether_type = IP /\ f.inc = inc /\ f.len = len
           /\ f.ip.tos = tos /\ f.ip.length = length /\ f.ip.protocol = NETCCL
           /\ f.ip.sip = sip /\ f.ip.dip = dip /\ f.checksum = sum
BY DEF NetcclFrame

LEMMA IncFields ==
    ASSUME NEW st, NEW r, NEW p, NEW inc, inc = IncHeader(st, r, p)
    PROVE  /\ inc.coll_type = Op[st[1]][p].code /\ inc.group_id = st[1] /\ inc.rank = r
           /\ inc.root = Op[st[1]][p].root /\ inc.agg_addr = <<st, p>> /\ inc.psn = p
BY DEF IncHeader

\* The type of service of a worker selects its queue, marked or not.
LEMMA TosByte ==
    ASSUME NEW w \in 0 .. 63
    PROVE  /\ type_of_service(w) = 4 * w + 1
           /\ type_of_service(w) \div 4 = w
           /\ type_of_service(w) \in Tos(w)
           /\ \A tos \in Tos(w) : tos \in Int /\ tos \div 4 = w /\ (tos \div 4) * 4 + 3 \in Tos(w)
<1>1. type_of_service(w) = 4 * w + 1
  BY DEF type_of_service
<1>2. (4 * w + 1) \div 4 = w /\ (4 * w + 3) \div 4 = w
  OBVIOUS
<1>3. QED
  BY <1>1, <1>2 DEF Tos

\* What fill_pkt makes, once it is on the wire.
SentLength(st, r, p) == IF need_tx(Op[st[1]][p], r) THEN 300 ELSE 60

SentFrame(st, r, p) ==
    LET s == ServerOf(st[1], r)
    IN  NetcclFrame(SwitchAddr, s, s, SwitchAddr, 4 * st[2] + 1,
                    IF need_tx(Op[st[1]][p], r) THEN FullLength ELSE EmptyLength,
                    IncHeader(st, r, p), SentLength(st, r, p), 0)

\* What fill_pkt writes into the prefilled header.
Filled(h, l, m) == [h EXCEPT !.length = l, !.dip = m]

LEMMA IpFields ==
    ASSUME NEW tos, NEW ip, NEW l, NEW m,
           NEW h, h = [tos |-> tos, length |-> 0, protocol |-> NETCCL, sip |-> ip, dip |-> 0]
    PROVE  Filled(h, l, m)
             = [tos |-> tos, length |-> l, protocol |-> NETCCL, sip |-> ip, dip |-> m]
<1>1. [h EXCEPT !.length = l]
        = [tos |-> tos, length |-> l, protocol |-> NETCCL, sip |-> ip, dip |-> 0]
  OBVIOUS
<1>2. [[tos |-> tos, length |-> l, protocol |-> NETCCL, sip |-> ip, dip |-> 0] EXCEPT !.dip = m]
        = [tos |-> tos, length |-> l, protocol |-> NETCCL, sip |-> ip, dip |-> m]
  OBVIOUS
<1>3. \A g : [g EXCEPT !.length = l, !.dip = m] = [[g EXCEPT !.length = l] EXCEPT !.dip = m]
  OBVIOUS
<1>4. QED
  BY <1>1, <1>2, <1>3, Zenon DEF Filled

LEMMA FillPkt ==
    ASSUME NEW st, NEW r, NEW p, st[2] \in 0 .. 63
    PROVE  pad(fill_pkt(st, r, p)) = SentFrame(st, r, p)
<1> DEFINE b == need_tx(Op[st[1]][p], r)
           s == ServerOf(st[1], r)
           n == 44 + IF b THEN 256 ELSE 0
<1>1. type_of_service(st[2]) = 4 * st[2] + 1
  BY TosByte
<1>2. n \in Int /\ (n - 14 = IF b THEN FullLength ELSE EmptyLength)
        /\ (IF n >= 60 THEN n ELSE 60) = IF b THEN 300 ELSE 60
  BY DEF FullLength, EmptyLength, IpSize, IncSize, PayloadSize
<1>3. [prefill_ip(s, st[2]) EXCEPT !.length = n - 14, !.dip = SwitchAddr]
        = [tos |-> 4 * st[2] + 1, length |-> n - 14, protocol |-> NETCCL,
           sip |-> s, dip |-> SwitchAddr]
  <2> HIDE DEF n, s
  <2>1. prefill_ip(s, st[2])
          = [tos |-> 4 * st[2] + 1, length |-> 0, protocol |-> NETCCL, sip |-> s, dip |-> 0]
    BY <1>1 DEF prefill_ip
  <2>2. Filled(prefill_ip(s, st[2]), n - 14, SwitchAddr)
          = [tos |-> 4 * st[2] + 1, length |-> n - 14, protocol |-> NETCCL,
             sip |-> s, dip |-> SwitchAddr]
    BY <2>1, IpFields
  <2>3. QED
    BY <2>2, Zenon DEF Filled
<1>4. fill_pkt(st, r, p)
        = NetcclFrame(SwitchAddr, s, s, SwitchAddr, 4 * st[2] + 1, n - 14, IncHeader(st, r, p),
                      n, 0)
  BY <1>3 DEF fill_pkt, NetcclFrame, IncHeader, total_length, HeaderSize, EthSize, IpSize, IncSize,
              PayloadSize
<1> HIDE DEF n
<1>5. pad(fill_pkt(st, r, p))
        = NetcclFrame(SwitchAddr, s, s, SwitchAddr, 4 * st[2] + 1, n - 14, IncHeader(st, r, p),
                      IF n >= 60 THEN n ELSE 60, 0)
  BY <1>2, <1>4, PadFrame
<1>6. QED
  BY <1>2, <1>5 DEF SentFrame, SentLength

\* Both passes make the payload whole; what is left is behind the padding.
LEMMA NetcclHdr ==
    ASSUME NEW dmac, NEW smac, NEW sip, NEW dip, NEW tos, NEW length, NEW inc, NEW len, NEW sum,
           NEW f, f = NetcclFrame(dmac, smac, sip, dip, tos, length, inc, len, sum),
           NEW pass, NEW mc, len = IF length = FullLength THEN 300 ELSE 60
    PROVE  netccl_hdr(f, pass, mc)
             = Header(pass, mc, NetcclFrame(smac, smac, sip, dip, tos, FullLength, inc, len, sum))
<1>1. f.len = len /\ f.ip.length = length
  BY FrameFields
<1>2. Adjusted(f) = NetcclFrame(smac, smac, sip, dip, tos, FullLength, inc, len, sum)
  BY AdjustedFrame
<1>3. f.len - parsed_bytes(f) = 0
  <2>1. parsed_bytes(f) = IF length = FullLength THEN 300 ELSE 60
    BY <1>1 DEF parsed_bytes, HeaderSize, EthSize, IpSize, IncSize, PayloadSize
  <2>2. QED
    BY <1>1, <2>1
<1>4. QED
  BY <1>2, <1>3, Zenon DEF netccl_hdr, Header, Adjusted

LEMMA HdrOfSent ==
    ASSUME NEW st, NEW r, NEW p, NEW mc
    PROVE  netccl_hdr(SentFrame(st, r, p), 1, mc)
             = Header(1, mc, Inside(st, r, p, 4 * st[2] + 1, SentLength(st, r, p), 0))
<1>1. FullLength # EmptyLength
  BY DEF FullLength, EmptyLength, IpSize, IncSize, PayloadSize
<1>2. PICK s, tos, l, inc, len :
        /\ s = ServerOf(st[1], r) /\ tos = 4 * st[2] + 1 /\ inc = IncHeader(st, r, p)
        /\ l = IF need_tx(Op[st[1]][p], r) THEN FullLength ELSE EmptyLength
        /\ len = SentLength(st, r, p)
  OBVIOUS
<1>3. len = IF l = FullLength THEN 300 ELSE 60
  BY <1>1, <1>2 DEF SentLength
<1>4. SentFrame(st, r, p) = NetcclFrame(SwitchAddr, s, s, SwitchAddr, tos, l, inc, len, 0)
  BY <1>2 DEF SentFrame
<1>5. netccl_hdr(SentFrame(st, r, p), 1, mc)
        = Header(1, mc, NetcclFrame(s, s, s, SwitchAddr, tos, FullLength, inc, len, 0))
  BY <1>3, <1>4, NetcclHdr
<1>6. QED
  BY <1>2, <1>5 DEF Inside

\* Pass 2 takes the internal header off first.
LEMMA HdrOfLooped ==
    ASSUME NEW st, NEW r, NEW p, NEW tos, NEW sum, NEW mc
    PROVE  netccl_hdr([Inside(st, r, p, tos, 302, sum) EXCEPT !.len = @ - InternalSize], 2, mc)
             = Header(2, mc, Inside(st, r, p, tos, 300, sum))
<1>1. [Inside(st, r, p, tos, 302, sum) EXCEPT !.len = @ - InternalSize]
        = Inside(st, r, p, tos, 300, sum)
  BY DEF Inside, NetcclFrame, InternalSize
<1>2. PICK s, inc : s = ServerOf(st[1], r) /\ inc = IncHeader(st, r, p)
  OBVIOUS
<1>3. Inside(st, r, p, tos, 300, sum)
        = NetcclFrame(s, s, s, SwitchAddr, tos, FullLength, inc, 300, sum)
  BY <1>2 DEF Inside
<1>4. QED
  BY <1>1, <1>3, NetcclHdr

\* The deparser sets the lengths.
SetLengths(f, n, l) == [f EXCEPT !.len = n, !.ip.length = l]

AnyFrame(dmac, smac, ether_type, tos, length, protocol, sip, dip, inc, len, opts, sum) ==
    [dmac |-> dmac, smac |-> smac, ether_type |-> ether_type,
     ip |-> [tos |-> tos, length |-> length, protocol |-> protocol, sip |-> sip, dip |-> dip],
     options |-> opts, checksum |-> sum, inc |-> inc, len |-> len]

LEMMA AnySetLengths ==
    ASSUME NEW dmac, NEW smac, NEW ether_type, NEW tos, NEW length, NEW protocol, NEW sip, NEW dip,
           NEW inc, NEW len, NEW opts, NEW sum, NEW n, NEW l,
           NEW f, f = AnyFrame(dmac, smac, ether_type, tos, length, protocol, sip, dip,
                               inc, len, opts, sum)
    PROVE  SetLengths(f, n, l)
             = AnyFrame(dmac, smac, ether_type, tos, l, protocol, sip, dip, inc, n, opts, sum)
<1>1. [f EXCEPT !.len = n]
        = AnyFrame(dmac, smac, ether_type, tos, length, protocol, sip, dip, inc, n, opts, sum)
  BY DEF AnyFrame
<1>2. [AnyFrame(dmac, smac, ether_type, tos, length, protocol, sip, dip, inc, n, opts, sum)
         EXCEPT !.ip.length = l]
        = AnyFrame(dmac, smac, ether_type, tos, l, protocol, sip, dip, inc, n, opts, sum)
  BY DEF AnyFrame
<1>3. \A g : [g EXCEPT !.len = n, !.ip.length = l] = [[g EXCEPT !.len = n] EXCEPT !.ip.length = l]
  OBVIOUS
<1>4. QED
  BY <1>1, <1>2, <1>3, Zenon DEF SetLengths

LEMMA NetcclIsAny ==
    ASSUME NEW dmac, NEW smac, NEW sip, NEW dip, NEW tos, NEW length, NEW inc, NEW len, NEW sum
    PROVE  NetcclFrame(dmac, smac, sip, dip, tos, length, inc, len, sum)
             = AnyFrame(dmac, smac, IP, tos, length, NETCCL, sip, dip, inc, len, NoOptions, sum)
BY Zenon DEF NetcclFrame, AnyFrame

LEMMA FrameSetLengths ==
    ASSUME NEW dmac, NEW smac, NEW sip, NEW dip, NEW tos, NEW length, NEW inc, NEW len, NEW sum,
           NEW n, NEW l, NEW f, f = NetcclFrame(dmac, smac, sip, dip, tos, length, inc, len, sum)
    PROVE  SetLengths(f, n, l) = NetcclFrame(dmac, smac, sip, dip, tos, l, inc, n, sum)
BY NetcclIsAny, AnySetLengths

\* ECN marking changes the TOS byte at most, and leaves the queue in it.
LEMMA AnyDcqcn ==
    ASSUME NEW dmac, NEW smac, NEW ether_type, NEW tos, NEW length, NEW protocol, NEW sip, NEW dip,
           NEW inc, NEW len, NEW opts, NEW sum, NEW busy,
           NEW f, f = AnyFrame(dmac, smac, ether_type, tos, length, protocol, sip, dip,
                               inc, len, opts, sum)
    PROVE  \E t \in {tos, (tos \div 4) * 4 + 3} :
             dcqcn(f, busy)
               = AnyFrame(dmac, smac, ether_type, t, length, protocol, sip, dip, inc, len,
                          opts, sum)
<1> DEFINE t == (tos \div 4) * 4 + 3
<1>1. f.ip.tos = tos
  BY DEF AnyFrame
<1>2. \A u : [f EXCEPT !.ip.tos = u]
                = AnyFrame(dmac, smac, ether_type, u, length, protocol, sip, dip, inc, len,
                           opts, sum)
  <2>1. TAKE u
  <2>2. QED
    BY DEF AnyFrame
<1>3. dcqcn(f, busy) \in {f, [f EXCEPT !.ip.tos = t]}
  BY <1>1 DEF dcqcn
<1>4. [f EXCEPT !.ip.tos = t]
        = AnyFrame(dmac, smac, ether_type, t, length, protocol, sip, dip, inc, len, opts, sum)
  BY <1>2
<1> HIDE DEF t
<1>5. \E u \in {tos, t} :
        dcqcn(f, busy)
          = AnyFrame(dmac, smac, ether_type, u, length, protocol, sip, dip, inc, len, opts, sum)
  BY <1>3, <1>4
<1>6. QED
  BY <1>5 DEF t

LEMMA FrameDcqcn ==
    ASSUME NEW dmac, NEW smac, NEW sip, NEW dip, NEW tos, NEW length, NEW inc, NEW len, NEW sum,
           NEW busy, NEW w \in 0 .. 63, tos \in Tos(w),
           NEW f, f = NetcclFrame(dmac, smac, sip, dip, tos, length, inc, len, sum)
    PROVE  \E t \in Tos(w) :
             dcqcn(f, busy) = NetcclFrame(dmac, smac, sip, dip, t, length, inc, len, sum)
<1>1. f = AnyFrame(dmac, smac, IP, tos, length, NETCCL, sip, dip, inc, len, NoOptions, sum)
  BY NetcclIsAny
<1>2. PICK t \in {tos, (tos \div 4) * 4 + 3} :
        dcqcn(f, busy)
          = AnyFrame(dmac, smac, IP, t, length, NETCCL, sip, dip, inc, len, NoOptions, sum)
  BY <1>1, AnyDcqcn
<1>3. t \in Tos(w)
  <2>1. (tos \div 4) * 4 + 3 \in Tos(w)
    BY TosByte
  <2>2. QED
    BY <1>2, <2>1, Zenon
<1>4. dcqcn(f, busy) = NetcclFrame(dmac, smac, sip, dip, t, length, inc, len, sum)
  BY <1>2, NetcclIsAny
<1>5. QED
  BY <1>3, <1>4

\* The checksum is the only thing that EgressChecksum changes.
LEMMA AnyChecksum ==
    ASSUME NEW dmac, NEW smac, NEW ether_type, NEW tos, NEW length, NEW protocol, NEW sip, NEW dip,
           NEW inc, NEW len, NEW opts, NEW sum,
           NEW f, f = AnyFrame(dmac, smac, ether_type, tos, length, protocol, sip, dip,
                               inc, len, opts, sum)
    PROVE  EgressChecksum(f)
             = AnyFrame(dmac, smac, ether_type, tos, length, protocol, sip, dip, inc, len, opts,
                        IF ether_type = IP THEN <<f.ip, NoOptions>> ELSE sum)
<1>1. f.ether_type = ether_type
  BY DEF AnyFrame
<1>2. \A x : [f EXCEPT !.checksum = x]
              = AnyFrame(dmac, smac, ether_type, tos, length, protocol, sip, dip, inc, len, opts, x)
  <2>1. TAKE x
  <2>2. QED
    BY DEF AnyFrame
<1>3. QED
  BY <1>1, <1>2, Zenon DEF EgressChecksum

\* A NetCCL frame leaves as it was, but for the mark and the checksum.
LEMMA FrameEgress ==
    ASSUME NEW dmac, NEW smac, NEW sip, NEW dip, NEW tos, NEW length, NEW inc, NEW len, NEW sum,
           NEW busy, NEW w \in 0 .. 63, tos \in Tos(w),
           NEW f, f = NetcclFrame(dmac, smac, sip, dip, tos, length, inc, len, sum)
    PROVE  \E t \in Tos(w) : \E x :
             EgressChecksum(dcqcn(f, busy))
               = NetcclFrame(dmac, smac, sip, dip, t, length, inc, len, x)
<1>1. PICK t \in Tos(w) :
        dcqcn(f, busy) = NetcclFrame(dmac, smac, sip, dip, t, length, inc, len, sum)
  BY FrameDcqcn
<1>2. PICK g : g = dcqcn(f, busy)
  OBVIOUS
<1>3. g = AnyFrame(dmac, smac, IP, t, length, NETCCL, sip, dip, inc, len, NoOptions, sum)
  BY <1>1, <1>2, NetcclIsAny
<1>4. EgressChecksum(g)
        = AnyFrame(dmac, smac, IP, t, length, NETCCL, sip, dip, inc, len, NoOptions,
                   <<g.ip, NoOptions>>)
  BY <1>3, AnyChecksum
<1>5. EgressChecksum(g)
        = NetcclFrame(dmac, smac, sip, dip, t, length, inc, len, <<g.ip, NoOptions>>)
  BY <1>4, NetcclIsAny
<1>6. QED
  BY <1>2, <1>5

\* A copy for the second pass leaves with its internal header.
LEMMA DeparseLoop ==
    ASSUME NEW st, NEW r, NEW p, NEW tos, NEW len, NEW sum, NEW mc, NEW busy, NEW c,
           st[2] \in 0 .. 63, tos \in Tos(st[2]),
           c.hdr = Header(1, mc, Inside(st, r, p, tos, len, sum))
    PROVE  \E t \in Tos(st[2]) : \E x : deparse(c, busy) = Inside(st, r, p, t, 302, x)
<1>1. PICK s, inc, f :
        /\ s = ServerOf(st[1], r) /\ inc = IncHeader(st, r, p)
        /\ f = Inside(st, r, p, tos, len, sum)
  OBVIOUS
<1>2. f = NetcclFrame(s, s, s, SwitchAddr, tos, FullLength, inc, len, sum)
  BY <1>1 DEF Inside
<1>3. f.ip.length = FullLength
  BY <1>2, FrameFields
<1>4. /\ c.hdr.pass_cnt = 1 /\ c.hdr.payload = TRUE /\ c.hdr.tail = 0 /\ c.hdr.frame = f
  BY <1>1 DEF Header
<1>5. deparse(c, busy) = EgressChecksum(dcqcn(SetLengths(f, 302, f.ip.length), busy))
  <2>1. egress_payload(c.hdr, f) = TRUE
    BY <1>4 DEF egress_payload
  <2>2. internal_valid(c.hdr) = TRUE
    BY <1>4 DEF internal_valid
  <2>3. (IF internal_valid(c.hdr) THEN InternalSize ELSE 0) + HeaderSize
          + (IF egress_payload(c.hdr, f) THEN PayloadSize ELSE 0) + c.hdr.tail = 302
    BY <1>4, <2>1, <2>2 DEF InternalSize, HeaderSize, EthSize, IpSize, IncSize, PayloadSize
  <2>4. c.hdr.pass_cnt # 2 /\ c.hdr.pass_cnt # INVALID_PASSCNT
    BY <1>4 DEF INVALID_PASSCNT
  <2>5. QED
    BY <1>4, <2>1, <2>3, <2>4, Zenon DEF deparse, SetLengths
<1>6. SetLengths(f, 302, f.ip.length)
        = NetcclFrame(s, s, s, SwitchAddr, tos, FullLength, inc, 302, sum)
  BY <1>2, <1>3, FrameSetLengths
<1>7. \E t \in Tos(st[2]) : \E x :
        deparse(c, busy) = NetcclFrame(s, s, s, SwitchAddr, t, FullLength, inc, 302, x)
  BY <1>5, <1>6, FrameEgress
<1>8. QED
  BY <1>1, <1>7 DEF Inside

\* A rank needs exactly the payloads that are not taken out for it.
LEMMA NeedRx ==
    ASSUME NEW op, NEW q, op.code \in {"ALLREDUCE", "REDUCE", "BROADCAST"},
           NEW inc, inc.coll_type = op.code, inc.root = op.root, inc.rank = q
    PROVE  need_rx(op, q) <=> ~invalidate(inc)
BY DEF need_rx, invalidate

\* restore(c) as an update of the frame.
Restored(f, r, s) ==
    [f EXCEPT !.inc.rank = r, !.ip.sip = SwitchAddr, !.ip.dip = s, !.smac = SwitchAddr, !.dmac = s]

LEMMA RestoredInside ==
    ASSUME NEW st, NEW r, NEW p, NEW tos, NEW len, NEW sum, NEW q, NEW s
    PROVE  Restored(Inside(st, r, p, tos, len, sum), q, s)
             = NetcclFrame(s, SwitchAddr, SwitchAddr, s, tos, FullLength, IncHeader(st, q, p),
                           len, sum)
<1>1. PICK s0, inc, f :
        /\ s0 = ServerOf(st[1], r) /\ inc = IncHeader(st, r, p)
        /\ f = Inside(st, r, p, tos, len, sum)
  OBVIOUS
<1>2. f = NetcclFrame(s0, s0, s0, SwitchAddr, tos, FullLength, inc, len, sum)
  BY <1>1 DEF Inside
<1>3. [f EXCEPT !.inc.rank = q]
        = NetcclFrame(s0, s0, s0, SwitchAddr, tos, FullLength, IncHeader(st, q, p), len, sum)
  <2>1. [inc EXCEPT !.rank = q] = IncHeader(st, q, p)
    BY <1>1 DEF IncHeader
  <2>2. \A i : [f EXCEPT !.inc = i]
                 = NetcclFrame(s0, s0, s0, SwitchAddr, tos, FullLength, i, len, sum)
    <3>1. TAKE i
    <3>2. QED
      BY <1>2 DEF NetcclFrame
  <2>3. f.inc = inc
    BY <1>2, FrameFields
  <2>4. [f EXCEPT !.inc.rank = q] = [f EXCEPT !.inc = [f.inc EXCEPT !.rank = q]]
    OBVIOUS
  <2>5. QED
    BY <2>1, <2>2, <2>3, <2>4, Zenon
<1>4. PICK i : i = IncHeader(st, q, p)
  OBVIOUS
<1>5. [NetcclFrame(s0, s0, s0, SwitchAddr, tos, FullLength, i, len, sum)
         EXCEPT !.ip.sip = SwitchAddr]
        = NetcclFrame(s0, s0, SwitchAddr, SwitchAddr, tos, FullLength, i, len, sum)
  BY DEF NetcclFrame
<1>6. [NetcclFrame(s0, s0, SwitchAddr, SwitchAddr, tos, FullLength, i, len, sum)
         EXCEPT !.ip.dip = s]
        = NetcclFrame(s0, s0, SwitchAddr, s, tos, FullLength, i, len, sum)
  BY DEF NetcclFrame
<1>7. [NetcclFrame(s0, s0, SwitchAddr, s, tos, FullLength, i, len, sum) EXCEPT !.smac = SwitchAddr]
        = NetcclFrame(s0, SwitchAddr, SwitchAddr, s, tos, FullLength, i, len, sum)
  BY DEF NetcclFrame
<1>8. [NetcclFrame(s0, SwitchAddr, SwitchAddr, s, tos, FullLength, i, len, sum) EXCEPT !.dmac = s]
        = NetcclFrame(s, SwitchAddr, SwitchAddr, s, tos, FullLength, i, len, sum)
  BY DEF NetcclFrame
<1>9. [f EXCEPT !.inc.rank = q] = NetcclFrame(s0, s0, s0, SwitchAddr, tos, FullLength, i, len, sum)
  BY <1>3, <1>4, Zenon
<1>10. [f EXCEPT !.inc.rank = q,
                   !.ip.sip = SwitchAddr]
        = NetcclFrame(s0, s0, SwitchAddr, SwitchAddr, tos, FullLength, i, len, sum)
  <2>1. [f EXCEPT !.inc.rank = q, !.ip.sip = SwitchAddr]
          = [[f EXCEPT !.inc.rank = q]
               EXCEPT !.ip.sip = SwitchAddr]
    OBVIOUS
  <2>2. QED
    BY <1>9, <1>5, <2>1, Zenon
<1>11. [f EXCEPT !.inc.rank = q, !.ip.sip = SwitchAddr,
                   !.ip.dip = s]
        = NetcclFrame(s0, s0, SwitchAddr, s, tos, FullLength, i, len, sum)
  <2>1. [f EXCEPT !.inc.rank = q, !.ip.sip = SwitchAddr, !.ip.dip = s]
          = [[f EXCEPT !.inc.rank = q, !.ip.sip = SwitchAddr]
               EXCEPT !.ip.dip = s]
    OBVIOUS
  <2>2. QED
    BY <1>10, <1>6, <2>1, Zenon
<1>12. [f EXCEPT !.inc.rank = q, !.ip.sip = SwitchAddr, !.ip.dip = s,
                   !.smac = SwitchAddr]
        = NetcclFrame(s0, SwitchAddr, SwitchAddr, s, tos, FullLength, i, len, sum)
  <2>1. [f EXCEPT !.inc.rank = q, !.ip.sip = SwitchAddr, !.ip.dip = s, !.smac = SwitchAddr]
          = [[f EXCEPT !.inc.rank = q, !.ip.sip = SwitchAddr, !.ip.dip = s]
               EXCEPT !.smac = SwitchAddr]
    OBVIOUS
  <2>2. QED
    BY <1>11, <1>7, <2>1, Zenon
<1>13. [f EXCEPT !.inc.rank = q, !.ip.sip = SwitchAddr, !.ip.dip = s, !.smac = SwitchAddr,
                   !.dmac = s]
        = NetcclFrame(s, SwitchAddr, SwitchAddr, s, tos, FullLength, i, len, sum)
  <2>1. [f EXCEPT !.inc.rank = q, !.ip.sip = SwitchAddr, !.ip.dip = s, !.smac = SwitchAddr, !.dmac = s]
          = [[f EXCEPT !.inc.rank = q, !.ip.sip = SwitchAddr, !.ip.dip = s, !.smac = SwitchAddr]
               EXCEPT !.dmac = s]
    OBVIOUS
  <2>2. QED
    BY <1>12, <1>8, <2>1, Zenon
<1>14. QED
  BY <1>1, <1>4, <1>13, Zenon DEF Restored

\* An answer leaves as the result that rank q gets.
LEMMA DeparseAnswer ==
    ASSUME NEW st, NEW r, NEW p, NEW tos, NEW sum, NEW mc, NEW busy, NEW q, NEW c,
           st[2] \in 0 .. 63, tos \in Tos(st[2]),
           Op[st[1]][p].code \in {"ALLREDUCE", "REDUCE", "BROADCAST"},
           c.hdr = Header(2, mc, Inside(st, r, p, tos, 300, sum)), rank_of_copy(c) = q
    PROVE  \E t \in Tos(st[2]) : \E x : pad(deparse(c, busy)) = ResultFrame(st, q, p, t, x)
<1>1. PICK s, inc, f, b, n, l :
        /\ s = ServerOf(st[1], q) /\ inc = IncHeader(st, q, p) /\ f = restore(c)
        /\ b = need_rx(Op[st[1]][p], q)
        /\ n = (IF b THEN 300 ELSE 44) /\ l = (IF b THEN FullLength ELSE EmptyLength)
  OBVIOUS
<1>2. /\ c.hdr.pass_cnt = 2 /\ c.hdr.payload = TRUE /\ c.hdr.tail = 0
      /\ c.hdr.frame = Inside(st, r, p, tos, 300, sum)
  BY DEF Header
<1>3. f = NetcclFrame(s, SwitchAddr, SwitchAddr, s, tos, FullLength, inc, 300, sum)
  <2>1. c.hdr.frame.inc.group_id = st[1]
    BY <1>2 DEF Inside, NetcclFrame, IncHeader
  <2>2. f = Restored(c.hdr.frame, q, s)
    BY <1>1, <2>1, Zenon DEF restore, Restored
  <2>3. QED
    BY <1>1, <1>2, <2>2, RestoredInside
<1>4. f.ip.length = FullLength /\ f.inc = inc
  BY <1>3, FrameFields
<1>5. egress_payload(c.hdr, f) <=> b
  <2>1. /\ inc.coll_type = Op[st[1]][p].code /\ inc.root = Op[st[1]][p].root /\ inc.rank = q
    BY <1>1, IncFields
  <2>2. b <=> ~invalidate(inc)
    <3>1. need_rx(Op[st[1]][p], q) <=> ~invalidate(inc)
      BY <2>1, NeedRx
    <3>2. QED
      BY <1>1, <3>1
  <2>3. QED
    BY <1>2, <1>4, <2>2 DEF egress_payload
<1>6. deparse(c, busy) = EgressChecksum(dcqcn(SetLengths(f, n, l), busy))
  <2>1. internal_valid(c.hdr) = FALSE
    BY <1>2 DEF internal_valid
  <2>2. (IF internal_valid(c.hdr) THEN InternalSize ELSE 0) + HeaderSize
          + (IF egress_payload(c.hdr, f) THEN PayloadSize ELSE 0) + c.hdr.tail = n
    BY <1>1, <1>2, <1>5, <2>1 DEF InternalSize, HeaderSize, EthSize, IpSize, IncSize, PayloadSize
  <2>3. (IF c.hdr.payload /\ ~egress_payload(c.hdr, f) THEN EmptyLength ELSE f.ip.length) = l
    BY <1>1, <1>2, <1>4, <1>5
  <2>4. c.hdr.pass_cnt # INVALID_PASSCNT
    BY <1>2 DEF INVALID_PASSCNT
  <2>5. deparse(c, busy)
          = EgressChecksum(
              dcqcn(SetLengths(f, (IF internal_valid(c.hdr) THEN InternalSize ELSE 0) + HeaderSize
                                    + (IF egress_payload(c.hdr, f) THEN PayloadSize ELSE 0)
                                    + c.hdr.tail,
                               IF c.hdr.payload /\ ~egress_payload(c.hdr, f)
                               THEN EmptyLength ELSE f.ip.length),
                    busy))
    BY <1>1, <1>2, <2>4, Zenon DEF deparse, SetLengths
  <2>6. QED
    BY <2>2, <2>3, <2>5, Zenon
<1>7. SetLengths(f, n, l) = NetcclFrame(s, SwitchAddr, SwitchAddr, s, tos, l, inc, n, sum)
  BY <1>3, FrameSetLengths
<1>8. PICK t \in Tos(st[2]) : \E x :
        deparse(c, busy) = NetcclFrame(s, SwitchAddr, SwitchAddr, s, t, l, inc, n, x)
  BY <1>6, <1>7, FrameEgress
<1>9. PICK x : deparse(c, busy) = NetcclFrame(s, SwitchAddr, SwitchAddr, s, t, l, inc, n, x)
  BY <1>8
<1>10. n \in Int /\ (IF n >= 60 THEN n ELSE 60) = ResultLength(st, q, p)
  BY <1>1 DEF ResultLength
<1>11. pad(deparse(c, busy))
         = NetcclFrame(s, SwitchAddr, SwitchAddr, s, t, l, inc, ResultLength(st, q, p), x)
  BY <1>9, <1>10, PadFrame
<1>12. ResultFrame(st, q, p, t, x)
         = NetcclFrame(s, SwitchAddr, SwitchAddr, s, t, l, inc, ResultLength(st, q, p), x)
  BY <1>1, Zenon DEF ResultFrame
<1>13. QED
  BY <1>11, <1>12

\* Other traffic.
IsPadded(f) ==
    /\ f.len \in Int /\ f.len >= 60
    /\ ~(f.ether_type = IP /\ f.ip.protocol = NETCCL)
    /\ f = AnyFrame(f.dmac, f.smac, f.ether_type, f.ip.tos, f.ip.length, f.ip.protocol,
                    f.ip.sip, f.ip.dip, f.inc, f.len, f.options, f.checksum)

LEMMA AnyFields ==
    ASSUME NEW dmac, NEW smac, NEW ether_type, NEW tos, NEW length, NEW protocol, NEW sip, NEW dip,
           NEW inc, NEW len, NEW opts, NEW sum,
           NEW f, f = AnyFrame(dmac, smac, ether_type, tos, length, protocol, sip, dip,
                               inc, len, opts, sum)
    PROVE  /\ f.dmac = dmac /\ f.smac = smac /\ f.ether_type = ether_type /\ f.ip.tos = tos
           /\ f.ip.length = length /\ f.ip.protocol = protocol /\ f.ip.sip = sip
           /\ f.ip.dip = dip /\ f.inc = inc /\ f.len = len
           /\ f.options = opts /\ f.checksum = sum
BY DEF AnyFrame

LEMMA AnyPadded ==
    ASSUME NEW dmac, NEW smac, NEW ether_type, NEW tos, NEW length, NEW protocol, NEW sip, NEW dip,
           NEW inc, NEW len \in Int, NEW opts, NEW sum,
           len >= 60, ~(ether_type = IP /\ protocol = NETCCL),
           NEW f, f = AnyFrame(dmac, smac, ether_type, tos, length, protocol, sip, dip,
                               inc, len, opts, sum)
    PROVE  IsPadded(f)
BY AnyFields DEF IsPadded

SetLen(f, n) == [f EXCEPT !.len = n]

LEMMA AnySetLen ==
    ASSUME NEW dmac, NEW smac, NEW ether_type, NEW tos, NEW length, NEW protocol, NEW sip, NEW dip,
           NEW inc, NEW len, NEW opts, NEW sum, NEW n,
           NEW f, f = AnyFrame(dmac, smac, ether_type, tos, length, protocol, sip, dip,
                               inc, len, opts, sum)
    PROVE  SetLen(f, n)
             = AnyFrame(dmac, smac, ether_type, tos, length, protocol, sip, dip, inc, n, opts, sum)
BY DEF AnyFrame, SetLen

LEMMA PadOther ==
    ASSUME NEW o, NEW l \in Loads, o \in l.others
    PROVE  /\ IsPadded(pad(o.frame)) /\ pad(o.frame).dmac = o.frame.dmac
           /\ pad(o.frame).ether_type = o.frame.ether_type
           /\ pad(o.frame).options = o.frame.options /\ pad(o.frame).checksum = o.frame.checksum
<1>1. PICK f : f = o.frame
  OBVIOUS
<1>2. /\ f.len \in Nat
      /\ ~(f.ether_type = IP /\ f.ip.protocol = NETCCL)
      /\ f = AnyFrame(f.dmac, f.smac, f.ether_type, f.ip.tos, f.ip.length, f.ip.protocol,
                      f.ip.sip, f.ip.dip, f.inc, f.len, f.options, f.checksum)
  BY <1>1, OthersAssumption DEF AnyFrame
<1>3. PICK n \in Int : n >= 60 /\ Max({60, f.len}) = n
  BY <1>2, MaxTwo
<1>4. pad(f) = SetLen(f, n)
  BY <1>3, Zenon DEF pad, MinFrame, SetLen
<1>5. SetLen(f, n)
        = AnyFrame(f.dmac, f.smac, f.ether_type, f.ip.tos, f.ip.length, f.ip.protocol,
                   f.ip.sip, f.ip.dip, f.inc, n, f.options, f.checksum)
  BY <1>2, AnySetLen
<1>6. IsPadded(pad(f))
  BY <1>2, <1>3, <1>4, <1>5, AnyPadded
<1>7. /\ pad(f).dmac = f.dmac /\ pad(f).ether_type = f.ether_type
      /\ pad(f).options = f.options /\ pad(f).checksum = f.checksum
  BY <1>4, <1>5, AnyFields
<1>8. QED
  BY <1>1, <1>6, <1>7

\* What leaves the egress pipeline is padded still.
LEMMA DcqcnPadded ==
    ASSUME NEW f, IsPadded(f), NEW busy
    PROVE  /\ IsPadded(dcqcn(f, busy)) /\ dcqcn(f, busy).options = f.options
           /\ dcqcn(f, busy).ether_type = f.ether_type /\ dcqcn(f, busy).checksum = f.checksum
<1>1. PICK t : dcqcn(f, busy)
        = AnyFrame(f.dmac, f.smac, f.ether_type, t, f.ip.length, f.ip.protocol,
                   f.ip.sip, f.ip.dip, f.inc, f.len, f.options, f.checksum)
  BY AnyDcqcn DEF IsPadded
<1>2. QED
  BY <1>1, AnyPadded, AnyFields DEF IsPadded

\* The frame g is f but for the checksum, which has been computed anew if f
\* is an IP frame.
LEMMA ChecksumPadded ==
    ASSUME NEW f, IsPadded(f), NEW g, g = EgressChecksum(f)
    PROVE  /\ IsPadded(g) /\ g.ip = f.ip /\ g.options = f.options
           /\ g = [f EXCEPT !.checksum = g.checksum]
           /\ g.checksum = IF f.ether_type = IP THEN <<f.ip, NoOptions>> ELSE f.checksum
<1>1. PICK x : x = IF f.ether_type = IP THEN <<f.ip, NoOptions>> ELSE f.checksum
  OBVIOUS
<1>2. g = AnyFrame(f.dmac, f.smac, f.ether_type, f.ip.tos, f.ip.length, f.ip.protocol,
                   f.ip.sip, f.ip.dip, f.inc, f.len, f.options, x)
  BY <1>1, AnyChecksum DEF IsPadded
<1>3. IsPadded(g) /\ g.checksum = x /\ g.options = f.options
  BY <1>2, AnyPadded, AnyFields DEF IsPadded
<1>4. f = AnyFrame(f.dmac, f.smac, f.ether_type, f.ip.tos, f.ip.length, f.ip.protocol,
                   f.ip.sip, f.ip.dip, f.inc, f.len, f.options, f.checksum)
  BY DEF IsPadded
<1>5. g.ip = f.ip
  BY <1>2, <1>4 DEF AnyFrame
<1>6. g = [f EXCEPT !.checksum = x]
  BY <1>2, <1>4 DEF AnyFrame
<1>7. QED
  BY <1>1, <1>3, <1>5, <1>6

LEMMA PadPadded ==
    ASSUME NEW f, IsPadded(f)
    PROVE  pad(f) = f
<1>1. Max({60, f.len}) = f.len
  BY MaxTwo DEF IsPadded
<1>2. f = [f EXCEPT !.len = f.len]
  <2>1. f = [f EXCEPT !["len"] = f["len"]]
    BY DEF IsPadded, AnyFrame
  <2>2. QED
    BY <2>1
<1>3. pad(f) = [f EXCEPT !.len = f.len]
  BY <1>1 DEF pad, MinFrame
<1>4. QED
  BY <1>2, <1>3, Zenon

LEMMA DeparseOther ==
    ASSUME NEW f, IsPadded(f), NEW busy, NEW c, c.hdr = other_hdr(f)
    PROVE  pad(deparse(c, busy)) = EgressChecksum(dcqcn(f, busy))
<1>1. /\ c.hdr.pass_cnt = 255 /\ c.hdr.payload = FALSE /\ c.hdr.tail = f.len - 14
      /\ c.hdr.frame = f
  BY DEF other_hdr, INVALID_PASSCNT, EthSize
<1>2. deparse(c, busy) = EgressChecksum(dcqcn(SetLengths(f, f.len, f.ip.length), busy))
  <2>1. internal_valid(c.hdr) = FALSE /\ egress_payload(c.hdr, f) = FALSE
    BY <1>1 DEF internal_valid, egress_payload
  <2>2. (IF internal_valid(c.hdr) THEN InternalSize ELSE 0) + EthSize
          + (IF egress_payload(c.hdr, f) THEN PayloadSize ELSE 0) + c.hdr.tail = f.len
    BY <1>1, <2>1 DEF EthSize, IsPadded
  <2>3. c.hdr.pass_cnt = INVALID_PASSCNT /\ c.hdr.pass_cnt # 2
    BY <1>1 DEF INVALID_PASSCNT
  <2>4. deparse(c, busy)
          = EgressChecksum(
              dcqcn(SetLengths(f, (IF internal_valid(c.hdr) THEN InternalSize ELSE 0) + EthSize
                                    + (IF egress_payload(c.hdr, f) THEN PayloadSize ELSE 0)
                                    + c.hdr.tail,
                               f.ip.length),
                    busy))
    BY <1>1, <2>3, Zenon DEF deparse, SetLengths
  <2>5. QED
    BY <2>2, <2>4, Zenon
<1>3. SetLengths(f, f.len, f.ip.length) = f
  BY AnySetLengths DEF IsPadded
<1>4. IsPadded(EgressChecksum(dcqcn(f, busy)))
  BY DcqcnPadded, ChecksumPadded
<1>5. QED
  BY <1>2, <1>3, <1>4, PadPadded, Zenon

\* The parser takes answers for NetCCL's, and nothing else.
LEMMA ResultIsNetccl ==
    ASSUME NEW st, NEW q, NEW p, NEW t, NEW x
    PROVE  parse_netccl(ResultFrame(st, q, p, t, x))
BY FrameFields DEF ResultFrame, parse_netccl

LEMMA SentIsNetccl ==
    ASSUME NEW st, NEW r, NEW p
    PROVE  parse_netccl(SentFrame(st, r, p))
BY FrameFields DEF SentFrame, parse_netccl

LEMMA FrameSum ==
    ASSUME NEW st, NEW r, NEW p, NEW tos, NEW len, NEW x
    PROVE  Inside(st, r, p, tos, len, x).checksum = x /\ ResultFrame(st, r, p, tos, x).checksum = x
BY FrameFields DEF Inside, ResultFrame

LEMMA PaddedIsOther ==
    ASSUME NEW f, IsPadded(f)
    PROVE  ~parse_netccl(f) /\ \A w : ~flow(f, w)
BY DEF IsPadded, parse_netccl, flow

-----------------------------------------------------------------------------
(***************************************************************************)
(* What the constants say about a stream.                                  *)
(***************************************************************************)
LEMMA StreamFacts ==
    ASSUME IInv, NEW st \in Streams
    PROVE  /\ st[1] \in DOMAIN Member /\ st[2] \in 0 .. 63
           /\ \A r \in Ranks(st[1]) :
                ServerOf(st[1], r) \in Servers /\ r \in Int /\ answered[st][r] \in Nat
           /\ \A p \in DOMAIN Op[st[1]] :
                p \in Nat /\ Op[st[1]][p].code \in {"ALLREDUCE", "REDUCE", "BROADCAST"}
<1>1. st[1] \in DOMAIN Member /\ st[2] \in 0 .. 63
  BY PathAssumption DEF IInv, Streams
<1>2. /\ Member[st[1]] \in Seq(Servers)
      /\ Op[st[1]] \in Seq([code : {"ALLREDUCE", "REDUCE", "BROADCAST"}, root : Nat])
  BY <1>1, ConfigAssumption
<1>3. ASSUME NEW r \in Ranks(st[1])
      PROVE  ServerOf(st[1], r) \in Servers /\ r \in Int /\ answered[st][r] \in Nat
  <2>1. r \in Int /\ r + 1 \in 1 .. Len(Member[st[1]])
    BY <1>2 DEF Ranks
  <2>2. ServerOf(st[1], r) \in Servers
    BY <1>2, <2>1 DEF ServerOf
  <2>3. answered[st] \in [Ranks(st[1]) -> Nat]
    BY DEF IInv
  <2>4. QED
    BY <2>1, <2>2, <2>3
<1>4. ASSUME NEW p \in DOMAIN Op[st[1]]
      PROVE  p \in Nat /\ Op[st[1]][p].code \in {"ALLREDUCE", "REDUCE", "BROADCAST"}
  <2>1. PICK ops : ops = Op[st[1]]
    OBVIOUS
  <2>2. p \in 1 .. Len(ops) /\ Len(ops) \in Nat
    BY <1>2, <2>1
  <2>3. ops[p] \in [code : {"ALLREDUCE", "REDUCE", "BROADCAST"}, root : Nat]
    BY <1>2, <2>1, <2>2, ElementOfSeq
  <2>4. QED
    BY <2>1, <2>2, <2>3
<1>5. QED
  BY <1>1, <1>3, <1>4

\* A rank is where its server is.
LEMMA RankOfServer ==
    ASSUME IInv, NEW st \in Streams, NEW t \in Streams, st[2] = t[2],
           NEW r \in Ranks(st[1]), NEW q \in Ranks(t[1]), ServerOf(st[1], r) = ServerOf(t[1], q)
    PROVE  st = t /\ r = q
<1>1. PICK g, h : g = st[1] /\ h = t[1] /\ g \in DOMAIN Member /\ h \in DOMAIN Member
  BY StreamFacts
<1>2. Member[g] \in Seq(Servers) /\ Member[h] \in Seq(Servers)
  BY <1>1, ConfigAssumption
<1>3. /\ r + 1 \in DOMAIN Member[g] /\ q + 1 \in DOMAIN Member[h]
      /\ Member[g][r + 1] = Member[h][q + 1]
  BY <1>1, <1>2 DEF Ranks, ServerOf
<1>4. st = t
  <2>1. SUFFICES ASSUME st # t
                 PROVE  FALSE
    OBVIOUS
  <2>2. {Member[st[1]][i] : i \in DOMAIN Member[st[1]]}
          \cap {Member[t[1]][i] : i \in DOMAIN Member[t[1]]} = {}
    <3>1. load \in Loads /\ st \in load.streams /\ t \in load.streams
      BY DEF IInv, Streams
    <3>2. \A l \in Loads : \A s, u \in l.streams : s # u /\ s[2] = u[2] =>
            {Member[s[1]][i] : i \in DOMAIN Member[s[1]]}
              \cap {Member[u[1]][i] : i \in DOMAIN Member[u[1]]} = {}
      BY PathAssumption, Zenon
    <3>3. QED
      BY <2>1, <3>1, <3>2, Zenon
  <2>3. Member[g][r + 1] \in {Member[st[1]][i] : i \in DOMAIN Member[st[1]]}
    BY <1>1, <1>3
  <2>4. Member[g][r + 1] \in {Member[t[1]][i] : i \in DOMAIN Member[t[1]]}
    BY <1>1, <1>3
  <2>5. QED
    BY <2>2, <2>3, <2>4
<1>5. r + 1 = q + 1
  BY <1>1, <1>3, <1>4, PathAssumption
<1>6. QED
  BY <1>4, <1>5, StreamFacts

-----------------------------------------------------------------------------
(***************************************************************************)
(* What has been asked for, and sent, stays so.                            *)
(***************************************************************************)
Later ==
    /\ load' = load
    /\ \A st \in Streams : \A r \in Ranks(st[1]), p \in DOMAIN Op[st[1]] :
         Asked(st, r, p) => Asked(st, r, p)'
    /\ \A o : o \in SentOthers => o \in SentOthers'

LEMMA LaterArriving ==
    ASSUME Later, NEW a, ArrivingOK(a)
    PROVE  ArrivingOK(a)'
<1>1. Streams' = Streams
  BY DEF Later, Streams
<1>2. ASSUME NEW st \in Streams, NEW r \in Ranks(st[1]), NEW p \in DOMAIN Op[st[1]],
             IsSent(a, st, r, p)
      PROVE  ArrivingOK(a)'
  <2>1. IsSent(a, st, r, p)'
    BY <1>1, <1>2 DEF IsSent, Pkt, Later
  <2>2. QED
    BY <1>1, <2>1 DEF ArrivingOK
<1>3. ASSUME NEW st \in Streams, NEW r \in Ranks(st[1]), NEW p \in DOMAIN Op[st[1]],
             NEW tos \in Tos(st[2]), IsLooped(a, st, r, p, tos)
      PROVE  ArrivingOK(a)'
  <2>1. IsLooped(a, st, r, p, tos)'
    BY <1>1, <1>3 DEF IsLooped, Pkt, AskedAll, Later
  <2>2. QED
    BY <1>1, <2>1 DEF ArrivingOK
<1>4. ASSUME NEW o \in SentOthers, IsOther(a, o)
      PROVE  ArrivingOK(a)'
  <2>1. o \in SentOthers' /\ IsOther(a, o)'
    BY <1>4 DEF IsOther, Later
  <2>2. QED
    BY <2>1 DEF ArrivingOK
<1>5. QED
  BY <1>2, <1>3, <1>4 DEF ArrivingOK

LEMMA LaterCopy ==
    ASSUME Later, NEW c, CopyOK(c)
    PROVE  CopyOK(c)'
<1>1. Streams' = Streams
  BY DEF Later, Streams
<1>2. ASSUME NEW st \in Streams, NEW r \in Ranks(st[1]), NEW p \in DOMAIN Op[st[1]],
             NEW tos \in Tos(st[2]), NEW len \in {60, 300}, IsLoopCopy(c, st, r, p, tos, len)
      PROVE  CopyOK(c)'
  <2>1. IsLoopCopy(c, st, r, p, tos, len)'
    BY <1>1, <1>2 DEF IsLoopCopy, Pkt, AskedAll, Later
  <2>2. QED
    BY <1>1, <2>1 DEF CopyOK
<1>3. ASSUME NEW st \in Streams, NEW r \in Ranks(st[1]), NEW p \in DOMAIN Op[st[1]],
             NEW tos \in Tos(st[2]), NEW q \in Ranks(st[1]), IsAnswerCopy(c, st, r, p, tos, q)
      PROVE  CopyOK(c)'
  <2>1. IsAnswerCopy(c, st, r, p, tos, q)'
    BY <1>1, <1>3 DEF IsAnswerCopy, Pkt, AskedAll, Later
  <2>2. QED
    BY <1>1, <2>1 DEF CopyOK
<1>4. ASSUME NEW o \in SentOthers, IsOtherCopy(c, o)
      PROVE  CopyOK(c)'
  <2>1. o \in SentOthers' /\ IsOtherCopy(c, o)'
    BY <1>4 DEF IsOtherCopy, Later
  <2>2. QED
    BY <2>1 DEF CopyOK
<1>5. QED
  BY <1>2, <1>3, <1>4 DEF CopyOK

LEMMA LaterDelivered ==
    ASSUME Later, NEW d, DeliveredOK(d)
    PROVE  DeliveredOK(d)'
<1>1. Streams' = Streams
  BY DEF Later, Streams
<1>2. ASSUME NEW st \in Streams, NEW q \in Ranks(st[1]), NEW p \in DOMAIN Op[st[1]],
             NEW tos \in Tos(st[2]), IsAnswer(d, st, q, p, tos)
      PROVE  DeliveredOK(d)'
  <2>1. IsAnswer(d, st, q, p, tos)'
    BY <1>1, <1>2 DEF IsAnswer, Pkt, Later
  <2>2. QED
    BY <1>1, <2>1 DEF DeliveredOK
<1>3. ASSUME NEW o \in SentOthers, IsOtherFrame(d, o)
      PROVE  DeliveredOK(d)'
  <2>1. o \in SentOthers' /\ IsOtherFrame(d, o)'
    BY <1>3 DEF IsOtherFrame, Later
  <2>2. QED
    BY <2>1 DEF DeliveredOK
<1>4. QED
  BY <1>2, <1>3 DEF DeliveredOK

\* The packets on their way after a step that takes nothing back.
LEMMA LaterIInv ==
    ASSUME IInv, Later,
           others_left' \subseteq load'.others,
           (bitmap = [a \in Aggregators |-> bitmap[a]])',
           (answered = [st \in Streams |-> answered[st]])',
           (\A st \in Streams : answered[st] \in [Ranks(st[1]) -> Nat])',
           BitmapOK',
           \A a \in arriving' : a \in arriving \/ ArrivingOK(a)',
           \A c \in tm' : c \in tm \/ CopyOK(c)',
           \A d \in delivered' : d \in delivered \/ DeliveredOK(d)'
    PROVE  IInv'
<1>1. load' \in Loads
  BY DEF IInv, Later
<1>2. \A a \in arriving' : ArrivingOK(a)'
  BY LaterArriving DEF IInv
<1>3. \A c \in tm' : CopyOK(c)'
  BY LaterCopy DEF IInv
<1>4. \A d \in delivered' : DeliveredOK(d)'
  BY LaterDelivered DEF IInv
<1>5. QED
  BY <1>1, <1>2, <1>3, <1>4 DEF IInv

\* Steps that leave the bitmaps, the workers and the other senders alone.
LEMMA SwitchIInv ==
    ASSUME IInv, UNCHANGED <<load, bitmap, answered, others_left>>,
           \A a \in arriving' : a \in arriving \/ ArrivingOK(a)',
           \A c \in tm' : c \in tm \/ CopyOK(c)',
           \A d \in delivered' : d \in delivered \/ DeliveredOK(d)'
    PROVE  IInv'
<1>1. Later
  BY DEF Later, Asked, SentOthers
<1>2. others_left' \subseteq load'.others /\ Streams' = Streams /\ Aggregators' = Aggregators
  BY DEF IInv, Streams, Aggregators
<1>3. (bitmap = [a \in Aggregators |-> bitmap[a]])'
  BY <1>2 DEF IInv
<1>4. /\ (answered = [st \in Streams |-> answered[st]])'
      /\ (\A st \in Streams : answered[st] \in [Ranks(st[1]) -> Nat])'
  BY <1>2 DEF IInv
<1>5. BitmapOK'
  BY <1>2 DEF IInv, BitmapOK, Asked
<1>6. QED
  BY <1>1, <1>2, <1>3, <1>4, <1>5, LaterIInv

-----------------------------------------------------------------------------
(***************************************************************************)
(* The steps.                                                              *)
(***************************************************************************)
LEMMA InitIInv ==
    ASSUME Init
    PROVE  IInv
<1>1. load \in Loads /\ others_left \subseteq load.others
  BY DEF Init
<1>2. bitmap = [a \in Aggregators |-> bitmap[a]]
  BY DEF Init
<1>3. /\ answered = [st \in Streams |-> answered[st]]
      /\ \A st \in Streams : answered[st] \in [Ranks(st[1]) -> Nat]
  BY DEF Init
<1>4. BitmapOK
  BY DEF Init, BitmapOK, Aggregators
<1>5. arriving = {} /\ tm = {} /\ delivered = {}
  BY DEF Init
<1>6. QED
  BY <1>1, <1>2, <1>3, <1>4, <1>5 DEF IInv

LEMMA SendIInv ==
    ASSUME IInv, NEW st \in Streams, NEW r \in Ranks(st[1]), Send(st, r)
    PROVE  IInv'
<1>1. PICK p, a : /\ p = answered[st][r] + 1
                  /\ a = onWire(ServerOf(st[1], r), fill_pkt(st, r, p))
  OBVIOUS
<1>2. /\ p \in DOMAIN Op[st[1]] /\ arriving' = arriving \cup {a}
      /\ UNCHANGED <<load, tm, delivered, bitmap, answered, others_left>>
  BY <1>1 DEF Send
<1>3. ArrivingOK(a)'
  <2>1. Streams' = Streams
    BY <1>2 DEF Streams
  <2>2. IsSent(a, st, r, p)'
    BY <1>1, <1>2, <2>1, StreamFacts DEF IsSent, Pkt, Asked
  <2>3. QED
    BY <1>2, <2>1, <2>2 DEF ArrivingOK
<1>4. QED
  BY <1>2, <1>3, SwitchIInv

LEMMA SendOtherIInv ==
    ASSUME IInv, NEW o \in others_left, SendOther(o)
    PROVE  IInv'
<1>1. PICK a : a = onWire(o.port, o.frame)
  OBVIOUS
<1>2. /\ others_left' = others_left \ {o} /\ arriving' = arriving \cup {a}
      /\ UNCHANGED <<load, tm, delivered, bitmap, answered>>
  BY <1>1 DEF SendOther
<1>3. SentOthers' = SentOthers \cup {o}
  BY <1>2 DEF IInv, SentOthers
<1>4. Later
  BY <1>2, <1>3 DEF Later, Asked
<1>5. Streams' = Streams /\ Aggregators' = Aggregators
  BY <1>2 DEF Streams, Aggregators
<1>6. /\ others_left' \subseteq load'.others
      /\ (bitmap = [b \in Aggregators |-> bitmap[b]])'
  BY <1>2, <1>5 DEF IInv
<1>7. /\ (answered = [st \in Streams |-> answered[st]])'
      /\ (\A st \in Streams : answered[st] \in [Ranks(st[1]) -> Nat])'
  BY <1>2, <1>5 DEF IInv
<1>8. BitmapOK'
  BY <1>2, <1>5 DEF IInv, BitmapOK, Asked
<1>9. ArrivingOK(a)'
  BY <1>1, <1>3 DEF ArrivingOK, IsOther
<1>10. QED
  BY <1>2, <1>4, <1>6, <1>7, <1>8, <1>9, LaterIInv

LEMMA DropIInv ==
    ASSUME IInv, NEW c \in tm, EgressDrop(c)
    PROVE  IInv'
BY SwitchIInv DEF EgressDrop

LEMMA ReceiveIInv ==
    ASSUME IInv, NEW st \in Streams, NEW r \in Ranks(st[1]), Receive(st, r)
    PROVE  IInv'
<1>1. PICK d \in rx_queue(st, r) :
        /\ delivered' = delivered \ {d}
        /\ answered' = IF d.frame.inc.psn = answered[st][r] + 1
                       THEN [answered EXCEPT ![st][r] = @ + 1]
                       ELSE answered
        /\ UNCHANGED <<load, arriving, tm, bitmap, others_left, drops>>
  BY DEF Receive
<1>2. Streams' = Streams /\ Aggregators' = Aggregators
  BY <1>1 DEF Streams, Aggregators
<1>3. /\ answered' = [s \in Streams |-> answered'[s]]
      /\ \A s \in Streams : answered'[s] \in [Ranks(s[1]) -> Nat]
      /\ \A s \in Streams : \A q \in Ranks(s[1]) : answered[s][q] <= answered'[s][q]
  <2>1. answered[st] \in [Ranks(st[1]) -> Nat]
    BY DEF IInv
  <2>2. PICK f : f = [answered[st] EXCEPT ![r] = @ + 1]
    OBVIOUS
  <2>3. f \in [Ranks(st[1]) -> Nat] /\ \A q \in Ranks(st[1]) : answered[st][q] <= f[q]
    BY <2>1, <2>2
  <2>4. CASE d.frame.inc.psn = answered[st][r] + 1
    <3>1. answered' = [answered EXCEPT ![st] = f]
      BY <1>1, <2>2, <2>4
    <3>2. answered = [s \in Streams |-> answered[s]]
      BY DEF IInv
    <3>3. answered' = [s \in Streams |-> IF s = st THEN f ELSE answered[s]]
      BY <3>1, <3>2
    <3>4. \A s \in Streams : answered[s] \in [Ranks(s[1]) -> Nat]
      BY DEF IInv
    <3>5. answered' = [s \in Streams |-> answered'[s]]
      BY <3>3
    <3>6. ASSUME NEW s \in Streams
          PROVE  /\ answered'[s] \in [Ranks(s[1]) -> Nat]
                 /\ \A q \in Ranks(s[1]) : answered[s][q] <= answered'[s][q]
      <4>1. answered'[s] = IF s = st THEN f ELSE answered[s]
        BY <3>3
      <4>2. answered[s] \in [Ranks(s[1]) -> Nat]
        BY <3>4
      <4>3. \A q \in Ranks(s[1]) : answered[s][q] <= answered[s][q]
        BY <4>2
      <4>4. QED
        BY <2>3, <4>1, <4>2, <4>3
    <3>7. QED
      BY <3>5, <3>6
  <2>5. CASE d.frame.inc.psn # answered[st][r] + 1
    <3>1. answered' = answered
      BY <1>1, <2>5
    <3>2. \A s \in Streams : \A q \in Ranks(s[1]) : answered[s][q] \in Nat
      BY StreamFacts
    <3>3. QED
      BY <3>1, <3>2 DEF IInv
  <2>6. QED
    BY <2>4, <2>5
<1>4. ASSUME NEW s \in Streams, NEW q \in Ranks(s[1]), NEW p, Asked(s, q, p), p \in Nat
      PROVE  Asked(s, q, p)'
  <2>1. answered[s][q] \in Nat /\ answered'[s][q] \in Nat
    BY <1>3, StreamFacts
  <2>2. QED
    BY <1>3, <1>4, <2>1 DEF Asked
<1>5. Later
  BY <1>1, <1>4, StreamFacts DEF Later, SentOthers
<1>6. BitmapOK'
  BY <1>1, <1>2, <1>4, StreamFacts DEF IInv, BitmapOK
<1>7. (bitmap = [a \in Aggregators |-> bitmap[a]])' /\ others_left' \subseteq load'.others
  BY <1>1, <1>2 DEF IInv
<1>8. QED
  BY <1>1, <1>2, <1>3, <1>5, <1>6, <1>7, LaterIInv

\* A packet enters pass 1.
LEMMA Pass1IInv ==
    ASSUME IInv, NEW a \in arriving, IngressPipe(a),
           NEW st \in Streams, NEW r \in Ranks(st[1]), NEW p \in DOMAIN Op[st[1]],
           IsSent(a, st, r, p)
    PROVE  IInv'
<1>1. PICK f : f = SentFrame(st, r, p)
  OBVIOUS
<1>2. a.port = ServerOf(st[1], r) /\ a.frame = f
  BY <1>1, FillPkt, StreamFacts DEF IsSent, onWire
<1>3. a.port # RecircPort /\ parse_netccl(a.frame)
  BY <1>1, <1>2, StreamFacts, PathAssumption, SentIsNetccl
<1>4. /\ Pass1(f) /\ arriving' = arriving \ {a}
      /\ UNCHANGED <<load, delivered, answered, others_left>>
  BY <1>2, <1>3 DEF IngressPipe
<1>5. f.inc.agg_addr = <<st, p>> /\ f.inc.rank = r /\ f.inc.group_id = st[1]
  BY <1>1, FrameFields, IncFields DEF SentFrame
<1>6. bitmap' = [bitmap EXCEPT ![<<st, p>>] = @ \cup {r}]
  BY <1>4, <1>5 DEF Pass1
<1>7. Streams' = Streams /\ Aggregators' = Aggregators
  BY <1>4 DEF Streams, Aggregators
<1>8. (bitmap = [b \in Aggregators |-> bitmap[b]])'
  <2>1. bitmap = [b \in Aggregators |-> bitmap[b]]
    BY DEF IInv
  <2>2. bitmap' = [b \in Aggregators |-> bitmap'[b]]
    BY <1>6, <2>1
  <2>3. QED
    BY <1>7, <2>2
<1>9. Asked(st, r, p) /\ Later
  BY <1>4 DEF IsSent, Later, Asked, SentOthers
<1>10. ASSUME NEW s \in Streams, NEW k \in DOMAIN Op[s[1]], NEW q \in Ranks(s[1]),
              q \in bitmap'[<<s, k>>]
       PROVE  Asked(s, q, k)
  <2>1. <<s, k>> \in Aggregators
    BY DEF Aggregators
  <2>2. <<s, k>> \in DOMAIN bitmap
    <3>1. bitmap = [b \in Aggregators |-> bitmap[b]]
      BY DEF IInv
    <3>2. QED
      BY <2>1, <3>1
  <2>3. q \in bitmap[<<s, k>>] \/ (<<s, k>> = <<st, p>> /\ q = r)
    BY <1>6, <1>10, <2>2
  <2>4. CASE q \in bitmap[<<s, k>>]
    BY <2>4 DEF IInv, BitmapOK
  <2>5. CASE <<s, k>> = <<st, p>> /\ q = r
    BY <1>9, <2>5
  <2>6. QED
    BY <2>3, <2>4, <2>5
<1>11. BitmapOK'
  BY <1>4, <1>7, <1>10 DEF BitmapOK, Asked
<1>12. ASSUME NEW c \in tm'
       PROVE  c \in tm \/ CopyOK(c)'
  <2>1. SUFFICES ASSUME c \notin tm
                 PROVE  CopyOK(c)'
    OBVIOUS
  <2>2. PICK mc : /\ bitmap[<<st, p>>] \cup {r} = Ranks(st[1])
                  /\ c = copy(RecircPort, 0, netccl_hdr(f, 1, mc))
    <3>1. PICK mc : mc = (r \notin bitmap[<<st, p>>])
      OBVIOUS
    <3>2. tm' = tm \cup IF bitmap[<<st, p>>] \cup {r} = Ranks(st[1])
                        THEN {copy(RecircPort, 0, netccl_hdr(f, 1, mc))} ELSE {}
      BY <1>4, <1>5, <3>1, Zenon DEF Pass1
    <3>3. QED
      BY <2>1, <3>2
  <2>3. AskedAll(st, p)
    BY <1>9, <2>2 DEF AskedAll, IInv, BitmapOK
  <2>4. /\ c.port = RecircPort
        /\ c.hdr = Header(1, mc, Inside(st, r, p, 4 * st[2] + 1, SentLength(st, r, p), 0))
    BY <1>1, <2>2, HdrOfSent DEF copy
  <2>5. c.hdr = Header(1, c.hdr.multicast, Inside(st, r, p, 4 * st[2] + 1, SentLength(st, r, p),
                                                 c.hdr.frame.checksum))
    <3>1. PICK g : g = Inside(st, r, p, 4 * st[2] + 1, SentLength(st, r, p), 0)
      OBVIOUS
    <3>2. c.hdr = Header(1, mc, g) /\ g.checksum = 0
      BY <2>4, <3>1, FrameSum
    <3>3. c.hdr.multicast = mc /\ c.hdr.frame = g
      BY <3>2 DEF Header
    <3>4. QED
      BY <3>1, <3>2, <3>3, Zenon
  <2>6. SentLength(st, r, p) \in {60, 300} /\ 4 * st[2] + 1 \in Tos(st[2])
    BY DEF SentLength, Tos
  <2>7. IsLoopCopy(c, st, r, p, 4 * st[2] + 1, SentLength(st, r, p))
    BY <2>3, <2>4, <2>5, <2>6 DEF IsLoopCopy, Pkt
  <2>8. CopyOK(c)
    BY <2>6, <2>7 DEF CopyOK
  <2>9. QED
    BY <1>9, <2>8, LaterCopy
<1>13. /\ (answered = [s \in Streams |-> answered[s]])'
       /\ (\A s \in Streams : answered[s] \in [Ranks(s[1]) -> Nat])'
       /\ others_left' \subseteq load'.others
  BY <1>4, <1>7 DEF IInv
<1>14. QED
  BY <1>4, <1>8, <1>9, <1>11, <1>12, <1>13, LaterIInv

\* Every node of a multicast group, or the sender's port.
LEMMA Pass2IInv ==
    ASSUME IInv, NEW a \in arriving, IngressPipe(a),
           NEW st \in Streams, NEW r \in Ranks(st[1]), NEW p \in DOMAIN Op[st[1]],
           NEW tos \in Tos(st[2]), IsLooped(a, st, r, p, tos)
    PROVE  IInv'
<1>1. PICK hdr, mc, f :
        /\ mc = a.multicast /\ f = Inside(st, r, p, tos, 300, a.frame.checksum)
        /\ hdr = Header(2, mc, f)
  OBVIOUS
<1>2. a.port = RecircPort /\ a.frame = Inside(st, r, p, tos, 302, a.frame.checksum)
  BY DEF IsLooped
<1>3. /\ Pass2(a) /\ arriving' = arriving \ {a}
      /\ UNCHANGED <<load, delivered, answered, others_left>>
  BY <1>2 DEF IngressPipe
<1>4. netccl_hdr([a.frame EXCEPT !.len = @ - InternalSize], 2, a.multicast) = hdr
  <2>1. \A x : netccl_hdr([Inside(st, r, p, tos, 302, x) EXCEPT !.len = @ - InternalSize], 2, mc)
                = Header(2, mc, Inside(st, r, p, tos, 300, x))
    BY HdrOfLooped
  <2>2. PICK x : x = a.frame.checksum
    OBVIOUS
  <2>3. a.frame = Inside(st, r, p, tos, 302, x)
    BY <1>2, <2>2, Zenon
  <2>4. hdr = Header(2, mc, Inside(st, r, p, tos, 300, x))
    BY <1>1, <2>2, Zenon
  <2>5. PICK g : g = Inside(st, r, p, tos, 302, x)
    OBVIOUS
  <2>6. netccl_hdr([g EXCEPT !.len = @ - InternalSize], 2, mc) = hdr
    BY <2>1, <2>4, <2>5, Zenon
  <2>7. a.frame = g
    BY <2>3, <2>5
  <2>8. QED
    BY <1>1, <2>6, <2>7, Zenon
<1>5. /\ a.frame.inc.group_id = st[1]
      /\ hdr.frame = f /\ f.dmac = ServerOf(st[1], r) /\ f.inc.rank = r /\ hdr.multicast = mc
  BY <1>1, <1>2, FrameFields, IncFields DEF Inside, Header
<1>6. /\ tm' = tm \cup IF mc THEN mgid(st[1], hdr) ELSE l2_forward_table(ServerOf(st[1], r), hdr)
      /\ UNCHANGED bitmap
  BY <1>1, <1>3, <1>4, <1>5, Zenon DEF Pass2
<1>7. ASSUME NEW c \in tm'
      PROVE  c \in tm \/ CopyOK(c)'
  <2>1. SUFFICES ASSUME c \notin tm
                 PROVE  CopyOK(c)'
    OBVIOUS
  <2>2. \E q \in Ranks(st[1]) :
          c.hdr = hdr /\ c.port = ServerOf(st[1], q) /\ rank_of_copy(c) = q
    <3>1. CASE mc
      <4>1. c \in mgid(st[1], hdr)
        BY <1>6, <2>1, <3>1
      <4>2. PICK q \in Ranks(st[1]) : c = copy(ServerOf(st[1], q), q, hdr)
        BY <4>1 DEF mgid
      <4>3. c.hdr = hdr /\ c.port = ServerOf(st[1], q) /\ c.rid = q
        BY <4>2 DEF copy
      <4>4. rank_of_copy(c) = q
        BY <1>5, <3>1, <4>3 DEF rank_of_copy
      <4>5. QED
        BY <4>3, <4>4
    <3>2. CASE ~mc
      <4>1. ServerOf(st[1], r) # Broadcast
        BY StreamFacts, ConfigAssumption
      <4>2. c \in l2_forward_table(ServerOf(st[1], r), hdr)
        BY <1>6, <2>1, <3>2
      <4>3. c = copy(ServerOf(st[1], r), 0, hdr)
        BY <4>1, <4>2 DEF l2_forward_table
      <4>4. c.hdr = hdr /\ c.port = ServerOf(st[1], r)
        BY <4>3 DEF copy
      <4>5. rank_of_copy(c) = r
        BY <1>5, <3>2, <4>4 DEF rank_of_copy
      <4>6. QED
        BY <4>4, <4>5
    <3>3. QED
      BY <3>1, <3>2
  <2>3. PICK q \in Ranks(st[1]) :
          c.hdr = hdr /\ c.port = ServerOf(st[1], q) /\ rank_of_copy(c) = q
    BY <2>2
  <2>4. c.hdr = Header(2, c.hdr.multicast, Inside(st, r, p, tos, 300, c.hdr.frame.checksum))
    BY <1>1, <1>5, <2>3, FrameSum
  <2>5. IsAnswerCopy(c, st, r, p, tos, q)
    BY <2>3, <2>4 DEF IsAnswerCopy, IsLooped
  <2>6. CopyOK(c)
    BY <2>5 DEF CopyOK
  <2>7. Later
    BY <1>3 DEF Later, Asked, SentOthers
  <2>8. QED
    BY <2>6, <2>7, LaterCopy
<1>8. QED
  BY <1>3, <1>6, <1>7, SwitchIInv

LEMMA PassOtherIInv ==
    ASSUME IInv, NEW a \in arriving, IngressPipe(a), NEW o \in SentOthers, IsOther(a, o)
    PROVE  IInv'
<1>1. PICK f : f = pad(o.frame)
  OBVIOUS
<1>2. a.port = o.port /\ a.frame = f
  BY <1>1 DEF IsOther, onWire
<1>3. load \in Loads /\ o \in load.others
  BY DEF IInv, SentOthers
<1>4. IsPadded(f) /\ f.dmac = o.frame.dmac /\ o.port \in Servers
  BY <1>1, <1>3, PadOther, OthersAssumption
<1>5. a.port # RecircPort /\ ~parse_netccl(a.frame)
  BY <1>2, <1>4, PathAssumption, PaddedIsOther
<1>6. /\ tm' = tm \cup l2_forward_table(f.dmac, other_hdr(f)) /\ arriving' = arriving \ {a}
      /\ UNCHANGED <<load, delivered, bitmap, answered, others_left>>
  BY <1>2, <1>5 DEF IngressPipe, PassOther
<1>7. ASSUME NEW c \in tm'
      PROVE  c \in tm \/ CopyOK(c)'
  <2>1. SUFFICES ASSUME c \notin tm
                 PROVE  CopyOK(c)'
    OBVIOUS
  <2>2. PICK s : s \in Servers /\ f.dmac \in {s, Broadcast} /\ c = copy(s, 0, other_hdr(f))
    BY <1>6, <2>1 DEF l2_forward_table
  <2>3. c.port = s /\ c.hdr = other_hdr(f)
    BY <2>2 DEF copy
  <2>4. IsOtherCopy(c, o)
    BY <1>1, <1>4, <2>2, <2>3 DEF IsOtherCopy
  <2>5. CopyOK(c)
    BY <2>4 DEF CopyOK
  <2>6. Later
    BY <1>6 DEF Later, Asked, SentOthers
  <2>7. QED
    BY <2>5, <2>6, LaterCopy
<1>8. QED
  BY <1>6, <1>7, SwitchIInv

LEMMA IngressIInv ==
    ASSUME IInv, NEW a \in arriving, IngressPipe(a)
    PROVE  IInv'
<1>1. ArrivingOK(a)
  BY DEF IInv
<1>2. QED
  BY <1>1, Pass1IInv, Pass2IInv, PassOtherIInv DEF ArrivingOK

LEMMA EgressIInv ==
    ASSUME IInv, NEW c \in tm, NEW busy \in Congestion(c.port), EgressPipe(c, busy)
    PROVE  IInv'
<1>1. PICK f : f = deparse(c, busy)
  OBVIOUS
<1>2. tm' = tm \ {c} /\ UNCHANGED <<load, bitmap, answered, others_left>>
  BY DEF EgressPipe
<1>3. CASE c.port = RecircPort
  <2>1. PICK a : a = [port |-> RecircPort, multicast |-> c.hdr.multicast, frame |-> f]
    OBVIOUS
  <2>2. arriving' = arriving \cup {a} /\ delivered' = delivered
    BY <1>1, <1>3, <2>1, Zenon DEF EgressPipe
  <2>3. PICK st \in Streams :
          \E r \in Ranks(st[1]), p \in DOMAIN Op[st[1]], tos \in Tos(st[2]) : \E len :
            IsLoopCopy(c, st, r, p, tos, len)
    <3>1. CopyOK(c)
      BY DEF IInv
    <3>2. \A st \in Streams : \A q \in Ranks(st[1]) : c.port # ServerOf(st[1], q)
      BY <1>3, StreamFacts, PathAssumption
    <3>3. \A st \in Streams : \A r \in Ranks(st[1]), p \in DOMAIN Op[st[1]] :
            \A tos \in Tos(st[2]) : \A q \in Ranks(st[1]) : ~IsAnswerCopy(c, st, r, p, tos, q)
      BY <3>2 DEF IsAnswerCopy
    <3>4. \A o : ~IsOtherCopy(c, o)
      BY <1>3, PathAssumption DEF IsOtherCopy
    <3>5. QED
      BY <3>1, <3>3, <3>4 DEF CopyOK
  <2>4. PICK r \in Ranks(st[1]), p \in DOMAIN Op[st[1]], tos \in Tos(st[2]) :
          \E len : IsLoopCopy(c, st, r, p, tos, len)
    BY <2>3
  <2>5. PICK t \in Tos(st[2]) : f = Inside(st, r, p, t, 302, f.checksum)
    BY <1>1, <2>4, StreamFacts, DeparseLoop, FrameSum DEF IsLoopCopy
  <2>6. IsLooped(a, st, r, p, t)
    BY <2>1, <2>4, <2>5 DEF IsLooped, IsLoopCopy
  <2>7. ArrivingOK(a)
    BY <2>6 DEF ArrivingOK
  <2>8. Later
    BY <1>2 DEF Later, Asked, SentOthers
  <2>9. ArrivingOK(a)'
    BY <2>7, <2>8, LaterArriving
  <2>10. QED
    BY <1>2, <2>2, <2>9, SwitchIInv
<1>4. CASE c.port # RecircPort
  <2>1. PICK d : d = [server |-> c.port, frame |-> pad(f)]
    OBVIOUS
  <2>2. arriving' = arriving /\ delivered' = delivered \cup {d}
    BY <1>1, <1>4, <2>1, Zenon DEF EgressPipe
  <2>3. ASSUME NEW st \in Streams, NEW r \in Ranks(st[1]), NEW p \in DOMAIN Op[st[1]],
               NEW tos \in Tos(st[2]), NEW q \in Ranks(st[1]), IsAnswerCopy(c, st, r, p, tos, q)
        PROVE  DeliveredOK(d)
    <3>1. PICK t \in Tos(st[2]) : pad(f) = ResultFrame(st, q, p, t, pad(f).checksum)
      <4>1. PICK x : x = c.hdr.frame.checksum
        OBVIOUS
      <4>2. c.hdr = Header(2, c.hdr.multicast, Inside(st, r, p, tos, 300, x)) /\ rank_of_copy(c) = q
        BY <2>3, <4>1, Zenon DEF IsAnswerCopy
      <4>3. \E t \in Tos(st[2]) : \E y : pad(f) = ResultFrame(st, q, p, t, y)
        BY <1>1, <4>2, StreamFacts, DeparseAnswer
      <4>4. PICK t \in Tos(st[2]) : \E y : pad(f) = ResultFrame(st, q, p, t, y)
        BY <4>3
      <4>5. PICK y : pad(f) = ResultFrame(st, q, p, t, y)
        BY <4>4
      <4>6. ResultFrame(st, q, p, t, y).checksum = y
        BY FrameSum
      <4>7. QED
        BY <4>5, <4>6, Zenon
    <3>2. IsAnswer(d, st, q, p, t)
      BY <2>1, <2>3, <3>1 DEF IsAnswer, IsAnswerCopy, Pkt, AskedAll
    <3>3. QED
      BY <3>2 DEF DeliveredOK
  <2>4. ASSUME NEW o \in SentOthers, IsOtherCopy(c, o)
        PROVE  DeliveredOK(d)
    <3>1. load \in Loads /\ o \in load.others
      BY DEF IInv, SentOthers
    <3>2. IsPadded(pad(o.frame))
      BY <3>1, PadOther
    <3>3. pad(f) = EgressChecksum(dcqcn(pad(o.frame), busy))
      BY <1>1, <2>4, <3>2, DeparseOther DEF IsOtherCopy
    <3>4. busy \in BOOLEAN
      BY DEF Congestion
    <3>5. d.server = c.port /\ d.frame = pad(f)
      BY <2>1
    <3>6. d.frame \in {EgressChecksum(dcqcn(pad(o.frame), b)) : b \in BOOLEAN}
      BY <3>3, <3>4, <3>5
    <3>7. o.frame.dmac \in {d.server, Broadcast}
      BY <2>4, <3>5 DEF IsOtherCopy
    <3>8. IsOtherFrame(d, o)
      BY <3>6, <3>7 DEF IsOtherFrame
    <3>9. QED
      BY <3>8 DEF DeliveredOK
  <2>5. DeliveredOK(d)
    <3>1. CopyOK(c)
      BY DEF IInv
    <3>2. \A st, r, p, tos, len : ~IsLoopCopy(c, st, r, p, tos, len)
      BY <1>4 DEF IsLoopCopy
    <3>3. QED
      BY <2>3, <2>4, <3>1, <3>2 DEF CopyOK
  <2>6. Later
    BY <1>2 DEF Later, Asked, SentOthers
  <2>7. DeliveredOK(d)'
    BY <2>5, <2>6, LaterDelivered
  <2>8. QED
    BY <1>2, <2>2, <2>7, SwitchIInv
<1>5. QED
  BY <1>3, <1>4

LEMMA NextIInv ==
    ASSUME IInv, [Next]_vars
    PROVE  IInv'
<1>1. CASE UNCHANGED vars
  BY <1>1, SwitchIInv DEF vars
<1>2. CASE Next
  <2>1. CASE \E st \in Streams : \E r \in Ranks(st[1]) : Send(st, r) \/ Receive(st, r)
    BY <2>1, SendIInv, ReceiveIInv
  <2>2. CASE \E o \in others_left : SendOther(o)
    BY <2>2, SendOtherIInv
  <2>3. CASE \E a \in arriving : IngressPipe(a)
    BY <2>3, IngressIInv
  <2>4. CASE \E c \in tm : \E busy \in Congestion(c.port) : EgressPipe(c, busy)
    BY <2>4, EgressIInv
  <2>5. CASE \E c \in tm : EgressDrop(c)
    BY <2>5, DropIInv
  <2>6. QED
    BY <1>2, <2>1, <2>2, <2>3, <2>4, <2>5, Zenon DEF Next
<1>3. QED
  BY <1>1, <1>2

-----------------------------------------------------------------------------
(***************************************************************************)
(* What is true of the packet path follows from it.                        *)
(***************************************************************************)
\* The answers in the queue of rank r, and nothing else, are found there.
LEMMA QueueFacts ==
    ASSUME IInv, NEW st \in Streams, NEW r \in Ranks(st[1]), NEW d \in rx_queue(st, r)
    PROVE  \E p \in DOMAIN Op[st[1]], tos \in Tos(st[2]) : IsAnswer(d, st, r, p, tos)
<1>1. d \in delivered /\ d.server = ServerOf(st[1], r) /\ flow(d.frame, st[2])
  BY DEF rx_queue
<1>2. DeliveredOK(d)
  BY <1>1 DEF IInv
<1>3. ASSUME NEW o \in SentOthers, IsOtherFrame(d, o)
      PROVE  FALSE
  <2>1. load \in Loads /\ o \in load.others
    BY DEF IInv, SentOthers
  <2>2. IsPadded(pad(o.frame))
    BY <2>1, PadOther
  <2>3. PICK busy : d.frame = EgressChecksum(dcqcn(pad(o.frame), busy))
    BY <1>3 DEF IsOtherFrame
  <2>4. IsPadded(d.frame)
    BY <2>2, <2>3, DcqcnPadded, ChecksumPadded
  <2>5. QED
    BY <1>1, <2>4, PaddedIsOther
<1>4. ASSUME NEW t \in Streams, NEW q \in Ranks(t[1]), NEW p \in DOMAIN Op[t[1]],
             NEW tos \in Tos(t[2]), IsAnswer(d, t, q, p, tos)
      PROVE  st = t /\ r = q
  <2>1. d.server = ServerOf(t[1], q) /\ d.frame = ResultFrame(t, q, p, tos, d.frame.checksum)
    BY <1>4 DEF IsAnswer
  <2>2. d.frame.ip.tos = tos
    BY <2>1, FrameFields DEF ResultFrame
  <2>3. tos \div 4 = t[2] /\ type_of_service(st[2]) \div 4 = st[2]
    BY TosByte, StreamFacts
  <2>4. st[2] = t[2]
    BY <1>1, <2>2, <2>3 DEF flow
  <2>5. ServerOf(st[1], r) = ServerOf(t[1], q)
    BY <1>1, <2>1
  <2>6. QED
    BY <2>4, <2>5, RankOfServer, Zenon
<1>5. QED
  BY <1>2, <1>3, <1>4 DEF DeliveredOK

LEMMA InvNoLengthError ==
    ASSUME IInv
    PROVE  NoLengthError
<1>1. SUFFICES ASSUME NEW st \in Streams, NEW r \in Ranks(st[1]), NEW d \in rx_queue(st, r)
               PROVE  error_code(d.frame, Op[st[1]][d.frame.inc.psn], r) = 0
  BY DEF NoLengthError
<1>2. PICK p \in DOMAIN Op[st[1]], tos \in Tos(st[2]) : IsAnswer(d, st, r, p, tos)
  BY QueueFacts
<1>3. d.frame = ResultFrame(st, r, p, tos, d.frame.checksum)
  BY <1>2 DEF IsAnswer
<1>4. d.frame.inc.psn = p /\ d.frame.len = ResultLength(st, r, p)
  BY <1>3, FrameFields, IncFields DEF ResultFrame
<1>5. Max({60, 44}) = 60
  BY MaxTwo
<1>6. HeaderSize = 44 /\ PayloadSize = 256 /\ MinFrame = 60
  BY DEF HeaderSize, EthSize, IpSize, IncSize, PayloadSize, MinFrame
<1>7. QED
  BY <1>4, <1>5, <1>6 DEF error_code, ResultLength

LEMMA InvRightAddressee ==
    ASSUME IInv
    PROVE  RightAddressee
<1>1. SUFFICES ASSUME NEW d \in delivered, parse_netccl(d.frame)
               PROVE  LET inc == d.frame.inc IN
                      \E st \in Streams :
                        /\ inc.agg_addr = <<st, inc.psn>> /\ inc.group_id = st[1]
                        /\ inc.rank \in Ranks(st[1])
                        /\ flow(d.frame, st[2])
                        /\ d.server = ServerOf(st[1], inc.rank)
                        /\ {d.frame.dmac, d.frame.ip.dip} = {d.server}
                        /\ {d.frame.smac, d.frame.ip.sip} = {SwitchAddr}
                        /\ inc.psn <= answered[st][inc.rank] + 1
  BY DEF RightAddressee
<1>2. DeliveredOK(d)
  BY DEF IInv
<1>3. ASSUME NEW o \in SentOthers, IsOtherFrame(d, o)
      PROVE  FALSE
  <2>1. load \in Loads /\ o \in load.others
    BY DEF IInv, SentOthers
  <2>2. IsPadded(pad(o.frame))
    BY <2>1, PadOther
  <2>3. PICK busy : d.frame = EgressChecksum(dcqcn(pad(o.frame), busy))
    BY <1>3 DEF IsOtherFrame
  <2>4. IsPadded(d.frame)
    BY <2>2, <2>3, DcqcnPadded, ChecksumPadded
  <2>5. QED
    BY <1>1, <2>4, PaddedIsOther
<1>4. PICK st \in Streams : \E q \in Ranks(st[1]), p \in DOMAIN Op[st[1]], tos \in Tos(st[2]) :
        IsAnswer(d, st, q, p, tos)
  BY <1>2, <1>3 DEF DeliveredOK
<1>5. PICK q \in Ranks(st[1]), p \in DOMAIN Op[st[1]], tos \in Tos(st[2]) :
        IsAnswer(d, st, q, p, tos)
  BY <1>4
<1>6. PICK s : s = ServerOf(st[1], q)
  OBVIOUS
<1>7. /\ d.server = s /\ d.frame = ResultFrame(st, q, p, tos, d.frame.checksum)
      /\ p <= answered[st][q] + 1
  BY <1>5, <1>6 DEF IsAnswer, Asked
<1>8. /\ d.frame.dmac = s /\ d.frame.ip.dip = s
      /\ d.frame.smac = SwitchAddr /\ d.frame.ip.sip = SwitchAddr
      /\ d.frame.ether_type = IP /\ d.frame.ip.protocol = NETCCL /\ d.frame.ip.tos = tos
      /\ d.frame.inc = IncHeader(st, q, p)
  BY <1>6, <1>7, FrameFields DEF ResultFrame
<1>9. /\ d.frame.inc.agg_addr = <<st, p>> /\ d.frame.inc.psn = p
      /\ d.frame.inc.group_id = st[1] /\ d.frame.inc.rank = q
  BY <1>8, IncFields
<1>10. flow(d.frame, st[2])
  BY <1>8, StreamFacts, TosByte DEF flow
<1>11. QED
  BY <1>6, <1>7, <1>8, <1>9, <1>10

LEMMA InvOthersUntouched ==
    ASSUME IInv
    PROVE  OthersUntouched
<1>1. SUFFICES ASSUME NEW d \in delivered, ~parse_netccl(d.frame)
               PROVE  \E o \in load.others \ others_left :
                        /\ o.frame.dmac \in {d.server, Broadcast}
                        /\ \E busy \in BOOLEAN :
                              d.frame = [dcqcn(pad(o.frame), busy)
                                           EXCEPT !.checksum = d.frame.checksum]
                        /\ o.frame.ether_type # IP => d.frame.checksum = o.frame.checksum
                        /\ o.frame.ether_type = IP /\ o.frame.options = NoOptions =>
                              d.frame.checksum = Checksum(d.frame)
  BY DEF OthersUntouched
<1>2. \A st, q, p, tos : ~IsAnswer(d, st, q, p, tos)
  BY <1>1, ResultIsNetccl DEF IsAnswer
<1>3. PICK o \in SentOthers : IsOtherFrame(d, o)
  BY <1>2 DEF IInv, DeliveredOK
<1>4. PICK busy \in BOOLEAN : d.frame = EgressChecksum(dcqcn(pad(o.frame), busy))
  BY <1>3 DEF IsOtherFrame
<1>5. PICK e, f : e = pad(o.frame) /\ f = dcqcn(e, busy)
  OBVIOUS
<1>6. /\ IsPadded(e) /\ e.ether_type = o.frame.ether_type
      /\ e.options = o.frame.options /\ e.checksum = o.frame.checksum
  BY <1>5, PadOther DEF IInv, SentOthers
<1>7. IsPadded(f) /\ f.options = e.options /\ f.ether_type = e.ether_type /\ f.checksum = e.checksum
  BY <1>5, <1>6, DcqcnPadded
<1>8. /\ d.frame.ip = f.ip /\ d.frame.options = f.options
      /\ d.frame = [f EXCEPT !.checksum = d.frame.checksum]
      /\ d.frame.checksum = IF f.ether_type = IP THEN <<f.ip, NoOptions>> ELSE f.checksum
  BY <1>4, <1>5, <1>7, ChecksumPadded
<1>9. o.frame.ether_type = IP /\ o.frame.options = NoOptions => d.frame.checksum = Checksum(d.frame)
  BY <1>6, <1>7, <1>8 DEF Checksum
<1>10. QED
  BY <1>3, <1>5, <1>6, <1>7, <1>8, <1>9 DEF IsOtherFrame, SentOthers

-----------------------------------------------------------------------------
(***************************************************************************)
(* Every frame, everywhere on the path, is what it is described to be.     *)
(***************************************************************************)
THEOREM PathInvariant == Spec => []IInv
<1>1. Init => IInv
  BY InitIInv
<1>2. IInv /\ [Next]_vars => IInv'
  BY NextIInv
<1>3. QED
  BY <1>1, <1>2, PTL DEF Spec

(***************************************************************************)
(* rx_process_one finds the length it expects in every response, for any   *)
(* groups, operations, roots and losses.                                   *)
(***************************************************************************)
THEOREM NoLengthErrorAlways == Spec => []NoLengthError
BY PathInvariant, InvNoLengthError, PTL

(***************************************************************************)
(* Every NetCCL frame reaches the rank that it names, in a queue of a      *)
(* worker that serves its group, and answers a packet that this worker has *)
(* sent.                                                                   *)
(***************************************************************************)
THEOREM RightAddresseeAlways == Spec => []RightAddressee
BY PathInvariant, InvRightAddressee, PTL

(***************************************************************************)
(* Other traffic goes where it is addressed to, changed in its mark and    *)
(* checksum at most, and the checksum is right if there are no options.    *)
(***************************************************************************)
THEOREM OthersUntouchedAlways == Spec => []OthersUntouched
BY PathInvariant, InvOthersUntouched, PTL

-----------------------------------------------------------------------------
(***************************************************************************)
(* The congestion window.                                                  *)
(***************************************************************************)

\* A product of natural numbers grows with its first factor.
LEMMA TimesMonotone ==
    ASSUME NEW a \in Nat, NEW b \in Nat, NEW s \in Nat, a <= b
    PROVE  a * s <= b * s
<1>1. (b - a) * s >= 0
  BY SMT
<1>2. b * s = a * s + (b - a) * s
  BY SMT
<1> QED  BY <1>1, <1>2

\* What the assumptions say about the bounds of cwnd.
LEMMA Bounds ==
    /\ Scale \in Nat \ {0} /\ WinLimit \in Nat \ {0} /\ Ai \in Nat \ {0} /\ FastRecovery \in Nat \ {0}
    /\ ReactionTime \in Nat \ {0} /\ CwndMin \in Nat \ {0}
    /\ CwndMin * Scale \in Nat /\ (WinLimit + 1) * Scale \in Nat /\ MaxCwnd \in Nat
    /\ CwndMin * Scale < (WinLimit + 1) * Scale
    /\ (WinLimit + 1) * Scale + Gap[0] + Ai <= MaxCwnd
    /\ MaxCwnd < MaxWinLen * Scale
<1>1. {Scale, MaxWinLen, WinLimit, CwndMin, Ai, FastRecovery, ReactionTime} \subseteq Nat \ {0}
      /\ CwndMin <= WinLimit
  BY CcAssumption
<1>2. CwndMin * Scale <= WinLimit * Scale
  BY <1>1, TimesMonotone
<1>3. WinLimit * Scale + Scale = (WinLimit + 1) * Scale /\ WinLimit * Scale \in Nat
  BY <1>1, SMT
<1>4. MaxCwnd + Scale = MaxWinLen * Scale /\ MaxCwnd \in Nat
  <2>1. MaxWinLen - 1 \in Nat /\ Scale \in Nat
    BY <1>1
  <2>2. (MaxWinLen - 1) * Scale \in Nat
    BY <2>1, SMT
  <2>3. (MaxWinLen - 1) * Scale + Scale = MaxWinLen * Scale
    BY <1>1, SMT
  <2> QED  BY <2>2, <2>3 DEF MaxCwnd
<1>5. CwndMin * Scale \in Nat
  BY <1>1, SMT
<1>6. (WinLimit + 1) * Scale + Gap[0] + Ai <= MaxCwnd
  BY GapAssumption
<1> DEFINE c == CwndMin * Scale
           w == WinLimit * Scale
           l == (WinLimit + 1) * Scale
           m == MaxWinLen * Scale
<1>7. c \in Nat /\ l \in Nat /\ c < l /\ MaxCwnd < m
  <2>1. w \in Nat /\ c \in Nat /\ c <= w /\ l = w + Scale /\ m = MaxCwnd + Scale
    BY <1>2, <1>3, <1>4, <1>5
  <2> HIDE DEF c, w, l, m
  <2> QED  BY <1>1, <1>4, <2>1
<1>8. {Scale, WinLimit, CwndMin, Ai, FastRecovery, ReactionTime} \subseteq Nat \ {0}
  BY <1>1
<1> QED  BY <1>4, <1>6, <1>7, <1>8, Zenon

\* A window that holds at least cwnd packets, and no more than the limit, bounds cwnd.
LEMMA AchievedBounds ==
    ASSUME NEW n \in Nat, n <= WinLimit, cwnd \in Nat, n >= Packets
    PROVE  cwnd < (WinLimit + 1) * Scale
<1> DEFINE q == cwnd \div Scale
           r == cwnd % Scale
<1>1. Scale \in Nat /\ Scale > 0 /\ WinLimit \in Nat
  BY Bounds
<1>2. q \in Nat /\ r \in 0 .. Scale - 1 /\ cwnd = q * Scale + r
  BY <1>1
<1>3. q <= WinLimit
  BY <1>1, <1>2 DEF Packets
<1> HIDE DEF q, r
<1>4. q * Scale <= WinLimit * Scale /\ q * Scale \in Nat
  BY <1>1, <1>2, <1>3, TimesMonotone, SMT
<1>5. (WinLimit + 1) * Scale = WinLimit * Scale + Scale /\ WinLimit * Scale \in Nat
  BY <1>1, SMT
<1> QED  BY <1>1, <1>2, <1>4, <1>5

-----------------------------------------------------------------------------
(* The invariant, action by action. *)

\* The variables CcInv speaks about.
window_vars == <<cwnd, target_cwnd, adjust_cnt, win_len, decrease_age, cwnd_achieved>>

LEMMA InitCcInv == CcInit => CcInv
<1> SUFFICES ASSUME CcInit PROVE CcInv
  OBVIOUS
<1>1. /\ cwnd = CwndMin * Scale /\ target_cwnd = MaxCwnd /\ adjust_cnt = -FastRecovery
      /\ win_len = 0 /\ decrease_age = 0 /\ cwnd_achieved = FALSE
  BY DEF CcInit
<1>2. adjust_cnt < 0 /\ -adjust_cnt = FastRecovery
  BY <1>1, Bounds
<1>3. Gap[0] \in Nat /\ Gap[FastRecovery] \in Nat /\ MaxCwnd <= Gap[FastRecovery]
  BY Bounds, GapAssumption
<1> QED  BY <1>1, <1>2, <1>3, Bounds DEF CcInv

LEMMA RxProcessCcInv ==
    ASSUME CcInv, NEW n \in 0 .. MaxWinLen - 1, RxProcess(n)
    PROVE  CcInv'
<1>1. UNCHANGED <<cwnd, target_cwnd, adjust_cnt, cwnd_achieved>>
  BY DEF RxProcess, rates
<1>2. win_len' = win_len - n /\ n <= win_len /\ n \in Nat
  <2>1. MaxWinLen \in Nat
    BY CcAssumption
  <2> QED  BY <2>1 DEF RxProcess
<1>3. PICK dt \in 1 .. TimeoutTime : decrease_age' = Smaller(decrease_age + dt, ReactionTime)
  BY DEF RxProcess
<1>4. decrease_age' \in 0 .. ReactionTime
  <2>1. TimeoutTime \in Nat
    BY CcAssumption
  <2> QED  BY <1>3, <2>1, Bounds DEF CcInv, Smaller
<1> QED  BY <1>1, <1>2, <1>4, Bounds DEF CcInv

LEMMA ShiftSendCcInv ==
    ASSUME CcInv, NEW n \in 0 .. MaxWinLen - 1, ShiftSend(n)
    PROVE  CcInv'
<1>1. UNCHANGED <<cwnd, target_cwnd, adjust_cnt, decrease_age>> /\ win_len' = n
  BY DEF ShiftSend, rates
<1>2. n \in Nat
  BY CcAssumption
<1>3. n <= WinLimit
  <2>1. {MaxWinLen, Burst, Scale, WinLimit} \subseteq Nat \ {0}
    BY CcAssumption
  <2>2. Packets \in Int
    BY <2>1 DEF Packets, CcInv
  <2>3. expect_win_len <= WinLimit
    BY <2>1, <2>2 DEF expect_win_len, Smaller, CcInv
  <2>4. expect_win_len \in Int
    BY <2>1, <2>2 DEF expect_win_len, Smaller, CcInv
  <2> HIDE DEF expect_win_len
  <2>5. n <= expect_win_len \/ n = win_len
    BY <2>4 DEF ShiftSend, CcInv
  <2> QED  BY <1>2, <2>1, <2>3, <2>4, <2>5 DEF CcInv
<1>4. cwnd_achieved' => cwnd < (WinLimit + 1) * Scale
  <2>1. cwnd_achieved' = (cwnd_achieved \/ Achieved(n))
    BY DEF ShiftSend
  <2>2. CASE cwnd_achieved
    BY <2>2 DEF CcInv
  <2>3. CASE Achieved(n)
    BY <2>3, <1>2, <1>3, AchievedBounds DEF Achieved, CcInv
  <2> QED  BY <2>1, <2>2, <2>3
<1> QED  BY <1>1, <1>2, <1>3, <1>4, Bounds DEF CcInv

\* cwnd falls and its old value is the target: a new fast recovery begins.
LEMMA FallCcInv ==
    ASSUME CcInv,
           target_cwnd' = cwnd, cwnd' \in Nat, CwndMin * Scale <= cwnd', cwnd' <= cwnd,
           adjust_cnt' = -FastRecovery, win_len' = win_len, decrease_age' = 0,
           cwnd_achieved' => cwnd' < (WinLimit + 1) * Scale
    PROVE  CcInv'
<1>1. adjust_cnt' < 0 /\ -adjust_cnt' = FastRecovery /\ adjust_cnt' \in Int
  BY Bounds
<1>2. Gap[FastRecovery] \in Nat /\ MaxCwnd <= Gap[FastRecovery]
  BY Bounds, GapAssumption
<1>3. target_cwnd' - cwnd' <= Gap[FastRecovery]
  BY <1>2, Bounds DEF CcInv
<1> QED  BY <1>1, <1>2, <1>3, Bounds DEF CcInv

LEMMA FullRetransCcInv ==
    ASSUME CcInv, FullRetrans
    PROVE  CcInv'
<1>1. CwndMin * Scale <= cwnd
  BY DEF CcInv
<1> QED  BY <1>1, FallCcInv, Bounds DEF FullRetrans

\* What adjust_rate(true) does to cwnd.
LEMMA AdjustDownFalls ==
    ASSUME CcInv, AdjustDown
    PROVE  cwnd' \in Nat /\ CwndMin * Scale <= cwnd' /\ cwnd' <= cwnd
<1>1. PICK x \in (cwnd \div 2) .. cwnd : cwnd' = AtLeastMin(x)
  BY DEF AdjustDown
<1>2. cwnd \in Nat /\ CwndMin * Scale <= cwnd
  BY DEF CcInv
<1>3. x \in Nat /\ x <= cwnd
  BY <1>2
<1> QED  BY <1>1, <1>2, <1>3, Bounds DEF AtLeastMin

LEMMA DecreaseCcInv ==
    ASSUME CcInv, Decrease
    PROVE  CcInv'
<1>1. AdjustDown /\ decrease_age' = 0 /\ win_len' = win_len
  BY DEF Decrease
<1>2. target_cwnd' = cwnd /\ adjust_cnt' = -FastRecovery /\ cwnd_achieved' = FALSE
  BY <1>1 DEF AdjustDown
<1> QED  BY <1>1, <1>2, AdjustDownFalls, FallCcInv

\* An increase goes halfway to the target, rounded down: it neither falls nor
\* passes the target, and halves the distance.
LEMMA Halfway ==
    ASSUME NEW c \in Nat, NEW t \in Nat, c <= t, NEW g \in Nat, t - c <= 2 * g
    PROVE  /\ (t + c) \div 2 \in Nat
           /\ c <= (t + c) \div 2 /\ (t + c) \div 2 <= t
           /\ t - ((t + c) \div 2) <= g
OBVIOUS

\* What adjust_rate(false) does when the window has achieved cwnd.
LEMMA AdjustUpRises ==
    ASSUME CcInv, AdjustUp, cwnd_achieved
    PROVE  /\ cwnd' \in Nat /\ target_cwnd' \in Nat /\ adjust_cnt' = adjust_cnt + 1
           /\ cwnd <= cwnd' /\ cwnd' <= target_cwnd' /\ target_cwnd' <= MaxCwnd
           /\ target_cwnd' - cwnd' <= Gap[IF adjust_cnt' >= 0 THEN 0 ELSE -adjust_cnt']
           /\ adjust_cnt' >= 0 => adjust_cnt' * Ai <= target_cwnd'
<1>1. /\ target_cwnd' = IF adjust_cnt >= 0 THEN target_cwnd + Ai ELSE target_cwnd
      /\ adjust_cnt' = adjust_cnt + 1
      /\ cwnd' = AtLeastMin((target_cwnd' + cwnd) \div 2)
  BY DEF AdjustUp, Counted
<1>2. /\ cwnd \in Nat /\ target_cwnd \in Nat /\ adjust_cnt \in Int /\ cwnd <= target_cwnd
      /\ target_cwnd <= MaxCwnd
      /\ CwndMin * Scale <= cwnd /\ cwnd < (WinLimit + 1) * Scale /\ adjust_cnt >= -FastRecovery
  BY DEF CcInv
<1> DEFINE g == Gap[IF adjust_cnt' >= 0 THEN 0 ELSE -adjust_cnt']
<1>3. /\ target_cwnd' \in Nat /\ cwnd <= target_cwnd' /\ target_cwnd' <= MaxCwnd
      /\ g \in Nat /\ target_cwnd' - cwnd <= 2 * g
  <2>1. CASE adjust_cnt >= 0
    <3>1. g = Gap[0] /\ Gap[0] \in Nat /\ Ai <= Gap[0]
      BY <1>1, <1>2, <2>1, Bounds, GapAssumption
    <3>2. target_cwnd - cwnd <= Gap[0]
      BY <2>1 DEF CcInv
    <3>3. target_cwnd' = target_cwnd + Ai
      BY <1>1, <2>1
    <3> QED  BY <1>2, <3>1, <3>2, <3>3, Bounds
  <2>2. CASE adjust_cnt < 0
    <3> DEFINE k == -adjust_cnt
    <3>1. k \in 1 .. FastRecovery /\ k - 1 \in 0 .. FastRecovery
      BY <1>2, <2>2, Bounds
    <3>2. g = Gap[k - 1]
      BY <1>1, <1>2, <2>2, <3>1
    <3>3. Gap[k] \in Nat /\ Gap[k - 1] \in Nat /\ Gap[k] <= 2 * Gap[k - 1]
      <4>1. k \in 0 .. FastRecovery
        BY <3>1, Bounds
      <4> HIDE DEF k
      <4> QED  BY <3>1, <4>1, GapAssumption
    <3>4. target_cwnd - cwnd <= Gap[k]
      BY <1>2, <2>2 DEF CcInv
    <3>5. target_cwnd' = target_cwnd
      BY <1>1, <1>2, <2>2
    <3> HIDE DEF g, k
    <3> QED  BY <1>2, <3>2, <3>3, <3>4, <3>5, Bounds
  <2> QED  BY <1>2, <2>1, <2>2
<1> HIDE DEF g
<1> DEFINE h == (target_cwnd' + cwnd) \div 2
<1>4. h \in Nat /\ cwnd <= h /\ h <= target_cwnd' /\ target_cwnd' - h <= g
  BY <1>2, <1>3, Halfway
<1> HIDE DEF h
<1>5. cwnd' = h
  BY <1>1, <1>2, <1>4, Bounds DEF AtLeastMin, h
<1>6. adjust_cnt' >= 0 => adjust_cnt' * Ai <= target_cwnd'
  <2>1. CASE adjust_cnt >= 0
    <3>1. adjust_cnt * Ai <= target_cwnd /\ target_cwnd' = target_cwnd + Ai
      BY <1>1, <2>1 DEF CcInv
    <3>2. (adjust_cnt + 1) * Ai = adjust_cnt * Ai + Ai /\ adjust_cnt * Ai \in Int
      BY <1>2, Bounds, SMT
    <3> QED  BY <1>1, <1>2, <3>1, <3>2, Bounds
  <2>2. CASE adjust_cnt < 0
    <3>1. adjust_cnt' >= 0 => adjust_cnt' = 0
      BY <1>1, <1>2, <2>2
    <3>2. 0 * Ai = 0
      BY Bounds
    <3> QED  BY <1>3, <3>1, <3>2
  <2> QED  BY <1>2, <2>1, <2>2
<1> QED  BY <1>1, <1>3, <1>4, <1>5, <1>6 DEF g

LEMMA IncreaseCcInv ==
    ASSUME CcInv, Increase
    PROVE  CcInv'
<1>1. AdjustUp /\ decrease_age' = decrease_age /\ win_len' = win_len
  BY DEF Increase
<1>2. cwnd_achieved' = FALSE
  BY <1>1 DEF AdjustUp
<1>3. CASE cwnd_achieved
  <2>1. /\ cwnd' \in Nat /\ target_cwnd' \in Nat /\ adjust_cnt' = adjust_cnt + 1
        /\ cwnd <= cwnd' /\ cwnd' <= target_cwnd' /\ target_cwnd' <= MaxCwnd
        /\ target_cwnd' - cwnd' <= Gap[IF adjust_cnt' >= 0 THEN 0 ELSE -adjust_cnt']
        /\ adjust_cnt' >= 0 => adjust_cnt' * Ai <= target_cwnd'
    BY <1>1, <1>3, AdjustUpRises
  <2> QED  BY <1>1, <1>2, <2>1, Bounds DEF CcInv
<1>4. CASE ~cwnd_achieved
  <2>1. UNCHANGED <<cwnd, target_cwnd, adjust_cnt>>
    BY <1>1, <1>4 DEF AdjustUp, rates
  <2> QED  BY <1>1, <1>2, <2>1 DEF CcInv
<1> QED  BY <1>3, <1>4

\* Every step keeps the invariant.
LEMMA NextCcInv == CcInv /\ [CcNext]_cc_vars => CcInv'
<1> SUFFICES ASSUME CcInv, [CcNext]_cc_vars PROVE CcInv'
  OBVIOUS
<1>1. ASSUME NEW n \in 0 .. MaxWinLen - 1, RxProcess(n) PROVE CcInv'
  BY <1>1, RxProcessCcInv
<1>2. ASSUME NEW n \in 0 .. MaxWinLen - 1, ShiftSend(n) PROVE CcInv'
  BY <1>2, ShiftSendCcInv
<1>3. CASE FullRetrans
  BY <1>3, FullRetransCcInv
<1>4. CASE Decrease
  BY <1>4, DecreaseCcInv
<1>5. CASE Increase
  BY <1>5, IncreaseCcInv
<1>6. CASE NoAdjust \/ CalmDown \/ UNCHANGED cc_vars
  <2>1. UNCHANGED window_vars
    BY <1>6 DEF NoAdjust, CalmDown, cc_vars, rates, ages, window_vars
  <2> QED  BY <2>1 DEF CcInv, window_vars
<1> QED  BY <1>1, <1>2, <1>3, <1>4, <1>5, <1>6 DEF CcNext, Loop

(***************************************************************************)
(* The inductive invariant: cwnd is below its target, at a distance that   *)
(* every step of fast recovery halves, and achieved only below the limit   *)
(* of the switch memory (adjust_rate, shift_send).                         *)
(***************************************************************************)
THEOREM CcInvariant == CcSpec => []CcInv
BY InitCcInv, NextCcInv, PTL DEF CcSpec

-----------------------------------------------------------------------------
(***************************************************************************)
(* The congestion window is never closed and never as long as the ring,    *)
(* whatever the network does (adjust_rate and cc_t::reinit of worker.cpp   *)
(* and common.hpp).                                                        *)
(***************************************************************************)
THEOREM CwndStaysInBounds == CcSpec => []CwndBounds
<1>1. CcInv => CwndBounds
  <2> SUFFICES ASSUME CcInv PROVE CwndBounds
    OBVIOUS
  <2>1. cwnd \in Nat /\ target_cwnd \in Nat /\ CwndMin * Scale <= cwnd /\ cwnd <= target_cwnd
        /\ target_cwnd <= MaxCwnd
    BY DEF CcInv
  <2>2. MaxCwnd \in Nat /\ MaxCwnd < MaxWinLen * Scale /\ MaxWinLen * Scale \in Nat
    <3>1. MaxWinLen \in Nat /\ Scale \in Nat
      BY CcAssumption
    <3>2. MaxWinLen * Scale \in Nat
      BY <3>1, SMT
    <3> QED  BY <3>2, Bounds
  <2> QED  BY <2>1, <2>2 DEF CwndBounds
<1> QED  BY <1>1, CcInvariant, PTL

LEMMA NegativeTimes ==
    ASSUME NEW a \in Int, NEW b \in Nat, a < 0
    PROVE  a * b <= 0
<1>1. (-a) * b \in Nat
  OBVIOUS
<1>2. a * b = -((-a) * b)
  OBVIOUS
<1> QED  BY <1>1, <1>2

(***************************************************************************)
(* adjust_cnt cannot overflow, however long nothing is congested: it is    *)
(* paid for by the target, which stays below the ring (adjust_rate).       *)
(***************************************************************************)
THEOREM AdjustCntStaysBounded == CcSpec => []AdjustCntBounded
<1>1. CcInv => AdjustCntBounded
  <2> SUFFICES ASSUME CcInv PROVE adjust_cnt * Ai <= MaxCwnd
    BY DEF AdjustCntBounded
  <2>1. /\ adjust_cnt \in Int /\ Ai \in Nat /\ MaxCwnd \in Nat
        /\ target_cwnd \in Nat /\ target_cwnd <= MaxCwnd
    BY Bounds DEF CcInv
  <2>2. CASE adjust_cnt >= 0
    <3>1. adjust_cnt * Ai <= target_cwnd
      BY <2>2 DEF CcInv
    <3>2. adjust_cnt * Ai \in Int
      BY <2>1
    <3> QED  BY <2>1, <3>1, <3>2
  <2>3. CASE adjust_cnt < 0
    <3>1. adjust_cnt * Ai <= 0 /\ adjust_cnt * Ai \in Int
      BY <2>1, <2>3, NegativeTimes
    <3> QED  BY <2>1, <3>1
  <2> QED  BY <2>1, <2>2, <2>3
<1> QED  BY <1>1, CcInvariant, PTL
=============================================================================
