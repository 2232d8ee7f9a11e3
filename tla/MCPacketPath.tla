---------------------------- MODULE MCPacketPath ----------------------------
(***************************************************************************)
(* Groups 1 and 2 share a server, which has rank 1 in the first and rank 0 *)
(* in the second; group 3 has operations of all kinds.  The loads: group 3 *)
(* with a loss, groups 1 and 2 side by side, group 2 among other traffic,  *)
(* and a frame with IP options alone.                                      *)
(***************************************************************************)
EXTENDS PacketPath

CONSTANTS s1, s2, s3

MCServers == {s1, s2, s3}
MCMember == << <<s1, s2>>, <<s2, s3>>, <<s3, s1>> >>
MCOp ==
    << << [code |-> "REDUCE", root |-> 1] >>,
       << [code |-> "ALLREDUCE", root |-> 0] >>,
       << [code |-> "REDUCE", root |-> 0], [code |-> "BROADCAST", root |-> 1],
          [code |-> "ALLREDUCE", root |-> 0] >> >>

NoInc == [coll_type |-> "none", group_id |-> 0, rank |-> 0, root |-> 0,
          agg_addr |-> <<<<0, 0>>, 0>>, psn |-> 0]

\* A frame from s1 with the given destination, type, TOS, protocol, options
\* and size, and with the right checksum.
OtherFrame(dmac, ether_type, tos, protocol, options, size) ==
    LET ip == [tos |-> tos, length |-> size - EthSize, protocol |-> protocol,
               sip |-> s1, dip |-> dmac]
    IN  [port |-> s1,
         frame |-> [dmac |-> dmac, smac |-> s1, ether_type |-> ether_type, ip |-> ip,
                    options |-> options, checksum |-> <<ip, options>>,
                    inc |-> NoInc, len |-> size]]

MCOthers ==
    {OtherFrame(Broadcast, 2054, 0, 0, NoOptions, 42),      \* ARP
     OtherFrame(s2, IP, 2, 6, NoOptions, 1514)}             \* TCP that admits marking

WithOptions == {OtherFrame(s2, IP, 2, 2, "router alert", 46)}   \* IGMP

MCLoads ==
    {[streams |-> {<<3, 2>>}, others |-> {},
      congested |-> MCServers \cup {RecircPort}, drops |-> 1],
     [streams |-> {<<1, 0>>, <<2, 1>>}, others |-> {}, congested |-> {s2}, drops |-> 0],
     [streams |-> {<<2, 1>>}, others |-> MCOthers, congested |-> {s2, RecircPort}, drops |-> 0],
     [streams |-> {}, others |-> WithOptions, congested |-> {s2}, drops |-> 0]}
=============================================================================
