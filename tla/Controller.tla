----------------------------- MODULE Controller -----------------------------
(***************************************************************************)
(* The controller of the switch (switch/bfrt_grpc.py).  It hands out group *)
(* ids, multicast nodes, recirculation ports and segments of aggregator    *)
(* memory, and keeps the tables of the data plane in step.  The server has *)
(* one thread, so a request is one action.                                 *)
(*                                                                         *)
(* Jobs are the clients: the first rank of every group creates it, and     *)
(* destroys it when its process exits; a process that is killed leaves the *)
(* group behind until the operator reinitialises the controller.  A table  *)
(* operation may raise (bitmap_mask of more than 32 members does not fit   *)
(* its field): CreateGroup ends there, and as the list of undo functions   *)
(* is stored only at its end, DestroyGroup will not know the group.        *)
(***************************************************************************)
EXTENDS Integers, Sequences, FiniteSets, Functions, FiniteSetsExt, SequencesExt

CONSTANTS
    MaxGroupNum,    \* MAX_GROUP_NUM
    MaxNodeNum,     \* MAX_WORKER_NUM
    NPorts,         \* number of recirculation ports
    MemSize,        \* SWITCH_MEM_SIZE, in aggregators
    SegSize,        \* ALLOC_SIZE, in aggregators
    GroupSizes,     \* sizes of the groups asked for
    MaxCreates,     \* bound of the model: number of groups created
    MaxFails        \* bound of the model: creations that fail between two reinitialisations

ASSUME ControllerAssumption ==
    /\ MaxGroupNum \in Nat \ {0} /\ MaxNodeNum \in Nat \ {0} /\ NPorts \in Nat \ {0}
    /\ SegSize \in Nat \ {0} /\ MemSize \in Nat \ {0}
    /\ GroupSizes \subseteq Nat \ {0, 1}   \* a group of one rank does not ask

VARIABLES
    free_group, free_node,   \* ids to hand out, first in first out
    recir_port_cnt,          \* groups on each recirculation port
    memseg,                  \* free segments <<l, r>>, by address
    undo,                    \* undo[g]: what group g was given
    leaked,                  \* leaked[g]: the same of a group whose creation failed
    recirculate_table, metadata_table, restore_table, pre_node, pre_mgid,
    reg_bitmap,              \* per aggregator: the creation whose version it holds, or 0
    creates,                 \* history: number of groups created
    jobs                     \* the groups of running jobs, [group, creation]

tables == <<recirculate_table, metadata_table, restore_table, pre_node, pre_mgid>>
resources == <<free_group, free_node, recir_port_cnt, memseg, undo, leaked>>
ctl_vars == <<resources, tables, reg_bitmap, creates, jobs>>

Ports == 1 .. NPorts
Aggregators == 0 .. MemSize - 1
Live == DOMAIN undo

\* What reinit makes available.
AllGroups == [i \in 1 .. MaxGroupNum - 1 |-> i]
AllNodes == [i \in 1 .. MaxNodeNum - 1 |-> i]
NoUse == [i \in Ports |-> 0]
AllMemory == << <<0, MemSize>> >>

CtlInit ==
    /\ free_group = AllGroups /\ free_node = AllNodes
    /\ recir_port_cnt = NoUse
    /\ memseg = AllMemory
    /\ undo = <<>> /\ leaked = <<>>
    /\ recirculate_table = <<>> /\ metadata_table = <<>> /\ restore_table = {}
    /\ pre_node = {} /\ pre_mgid = <<>>
    /\ reg_bitmap = [a \in Aggregators |-> 0]
    /\ creates = 0
    /\ jobs = {}

-----------------------------------------------------------------------------
\* The lowest multiple of y that is not below x.
upperalign(x, y) == ((x + y - 1) \div y) * y

\* Mutation of addr_in_seg: a segment that fits exactly is not taken.
addr_in_seg_less(seg) ==
    LET addr == upperalign(seg[1], SegSize)
    IN  IF addr + SegSize < seg[2] THEN {addr} ELSE {}

\* The address a segment can be given, if any.
addr_in_seg(seg) ==
    LET addr == upperalign(seg[1], SegSize)
    IN  IF addr + SegSize <= seg[2] THEN {addr} ELSE {}

\* The first free segment that fits; none when the set is empty.
fit_seg ==
    {i \in DOMAIN memseg :
        /\ addr_in_seg(memseg[i]) # {}
        /\ \A j \in 1 .. i - 1 : addr_in_seg(memseg[j]) = {}}

\* The segment <<l, r>> unless it is empty.
NonEmpty(l, r) == IF l = r THEN <<>> ELSE << <<l, r>> >>

alloc_seg(i, l, r) ==
    SubSeq(memseg, 1, i - 1)
        \o NonEmpty(memseg[i][1], l) \o NonEmpty(r, memseg[i][2])
        \o SubSeq(memseg, i + 1, Len(memseg))

\* The place in the list of the first free segment that ends above l.
r_index(l) == Min({i \in DOMAIN memseg : memseg[i][2] > l} \cup {Len(memseg) + 1})

\* Mutation of free_seg: a free segment above the freed one is dropped.
free_seg_drop(l, r) ==
    LET ri    == r_index(l)
        joinl == ri > 1 /\ memseg[ri - 1][2] = l
        k     == IF joinl THEN ri + 1 ELSE ri
        joinr == k <= Len(memseg) /\ memseg[k][1] = r
    IN  SubSeq(memseg, 1, IF joinl THEN ri - 2 ELSE ri - 1)
            \o << <<IF joinl THEN memseg[ri - 1][1] ELSE l, r>> >>
            \o (IF joinr THEN SubSeq(memseg, ri, k - 1) \o SubSeq(memseg, k + 1, Len(memseg))
                ELSE SubSeq(memseg, ri, Len(memseg)))

\* Free segments touching the freed one are merged with it.  r_index is not
\* corrected when the one below has been removed from the list: the segment then
\* compared is the second one above, so that the first stays unmerged.
free_seg(l, r) ==
    LET ri    == r_index(l)
        joinl == ri > 1 /\ memseg[ri - 1][2] = l
        k     == IF joinl THEN ri + 1 ELSE ri
        joinr == k <= Len(memseg) /\ memseg[k][1] = r
    IN  SubSeq(memseg, 1, IF joinl THEN ri - 2 ELSE ri - 1)
            \o << <<IF joinl THEN memseg[ri - 1][1] ELSE l,
                    IF joinr THEN memseg[k][2] ELSE r>> >>
            \o (IF joinr THEN SubSeq(memseg, ri, k - 1) \o SubSeq(memseg, k + 1, Len(memseg))
                ELSE SubSeq(memseg, ri, Len(memseg)))

\* The first of the least used recirculation ports.
select_recir_port_idx ==
    Min({i \in Ports : \A j \in Ports : recir_port_cnt[i] <= recir_port_cnt[j]})

\* Mutation of ResetBitmap: the registers of the segment keep their versions.
ResetBitmap_keep(addr) == reg_bitmap

ResetBitmap(addr) ==
    [a \in Aggregators |-> IF a \in addr .. addr + SegSize - 1 THEN 0 ELSE reg_bitmap[a]]

\* f with another argument, and f without one.
With(f, x, y) == [z \in DOMAIN f \cup {x} |-> IF z = x THEN y ELSE f[z]]
Without(f, x) == Restrict(f, DOMAIN f \ {x})

\* The operations on tables and registers, in order: recirculate_table,
\* metadata_table, the members' entries and nodes, the multicast group, reg_bitmap.
AllSteps == 5

\* What a group of n members takes before the first of these operations.
Taken(i, addr, n) ==
    /\ memseg' = alloc_seg(i, addr, addr + SegSize)
    /\ free_group' = Tail(free_group)
    /\ free_node' = SubSeq(free_node, n + 1, Len(free_node))
    /\ recir_port_cnt' = [recir_port_cnt EXCEPT ![select_recir_port_idx] = @ + 1]

\* CreateGroup for n members, of whose operations the first k succeed.  When
\* something is lacking the request is answered with group 0 and nothing changes.
Create(n, k) ==
    /\ creates < MaxCreates
    /\ free_group # <<>>
    /\ Len(free_node) >= n
    /\ \E i \in fit_seg : \E addr \in addr_in_seg(memseg[i]) :
         LET g == Head(free_group)
             node == SubSeq(free_node, 1, n)
             port == select_recir_port_idx
             given == [addr |-> addr, node |-> node, port |-> port, creation |-> creates + 1]
         IN  /\ Taken(i, addr, n)
             /\ recirculate_table' = IF k > 0 THEN With(recirculate_table, g, port) ELSE recirculate_table
             /\ metadata_table' = IF k > 1 THEN With(metadata_table, g, n) ELSE metadata_table
             /\ restore_table' = restore_table \cup IF k > 2 THEN {g} \X (0 .. n - 1) ELSE {}
             /\ pre_node' = pre_node \cup IF k > 2 THEN {<<node[x], x - 1>> : x \in 1 .. n} ELSE {}
             /\ pre_mgid' = IF k > 3 THEN With(pre_mgid, g, node) ELSE pre_mgid
             /\ IF k = AllSteps
                THEN /\ reg_bitmap' = ResetBitmap(addr)
                     /\ undo' = With(undo, g, given)
                     /\ jobs' = jobs \cup {[group |-> g, creation |-> creates + 1]}
                     /\ UNCHANGED leaked
                ELSE /\ leaked' = With(leaked, g, given)
                     /\ UNCHANGED <<reg_bitmap, undo, jobs>>
    /\ creates' = creates + 1

CreateGroup(n) == Create(n, AllSteps)

\* The caller gets an error and does not remember a group to destroy.
CreateGroupFails(n) ==
    /\ Cardinality(DOMAIN leaked) < MaxFails
    /\ \E k \in 0 .. AllSteps - 1 : Create(n, k)

ReturnNodes(node) == free_node \o node

LeavePort(port) == [recir_port_cnt EXCEPT ![port] = @ - 1]

\* restore_table without the entries of group g with n members.
restored(g, n) == restore_table \ ({g} \X (0 .. n - 1))

\* A job exits: its exit handler destroys the group, undoing the steps of
\* CreateGroup in reverse order.
DestroyGroup(job) ==
    LET g == job.group
        u == undo[g]
    IN  /\ job \in jobs
        /\ g \in Live
        /\ pre_mgid' = Without(pre_mgid, g)
        /\ pre_node' = {x \in pre_node : x[1] \notin Range(u.node)}
        /\ restore_table' = restored(g, Len(u.node))
        /\ metadata_table' = Without(metadata_table, g)
        /\ recirculate_table' = Without(recirculate_table, g)
        /\ recir_port_cnt' = LeavePort(u.port)
        /\ free_node' = ReturnNodes(u.node)
        /\ free_group' = Append(free_group, g)
        /\ memseg' = free_seg(u.addr, u.addr + SegSize)
        /\ undo' = Without(undo, g)
        /\ jobs' = jobs \ {job}
        /\ UNCHANGED <<leaked, reg_bitmap, creates>>

\* A job is killed; its exit handler does not run.
Kill(job) ==
    /\ job \in jobs
    /\ jobs' = jobs \ {job}
    /\ UNCHANGED <<resources, tables, reg_bitmap, creates>>

\* grpc_ctl.py init, when no job is running.
Reinit ==
    /\ jobs = {}
    /\ Live # {} \/ leaked # <<>>
    /\ free_group' = AllGroups /\ free_node' = AllNodes
    /\ recir_port_cnt' = NoUse
    /\ memseg' = AllMemory
    /\ undo' = <<>> /\ leaked' = <<>>
    /\ recirculate_table' = <<>> /\ metadata_table' = <<>> /\ restore_table' = {}
    /\ pre_node' = {} /\ pre_mgid' = <<>>
    /\ UNCHANGED <<reg_bitmap, creates, jobs>>

\* A packet of a running job takes an aggregator of its group.
Traffic(job, a) ==
    /\ job \in jobs
    /\ a \in undo[job.group].addr .. undo[job.group].addr + SegSize - 1
    /\ reg_bitmap' = [reg_bitmap EXCEPT ![a] = job.creation]
    /\ UNCHANGED <<resources, tables, creates, jobs>>

CtlNext ==
    \/ \E n \in GroupSizes : CreateGroup(n) \/ CreateGroupFails(n)
    \/ \E job \in jobs : DestroyGroup(job) \/ Kill(job)
    \/ \E job \in jobs, a \in Aggregators : Traffic(job, a)
    \/ Reinit

CtlSpec == CtlInit /\ [][CtlNext]_ctl_vars

-----------------------------------------------------------------------------
\* What existing groups and failed creations hold.
Given == [g \in Live \cup DOMAIN leaked |-> IF g \in Live THEN undo[g] ELSE leaked[g]]
Held == DOMAIN Given

Segments == {<<Given[g].addr, Given[g].addr + SegSize>> : g \in Held}

\* The addresses of a set of segments.
Covered(S) == UNION {seg[1] .. seg[2] - 1 : seg \in S}

(***************************************************************************)
(* The segments of the groups, those lost in a failed creation and the     *)
(* free segments partition the memory, and free segments are sorted, as    *)
(* free_seg expects: no two groups share an aggregator and none is lost,   *)
(* after any sequence of creations and destructions.                       *)
(***************************************************************************)
MemoryPartition ==
    /\ Cardinality(Segments) = Cardinality(Held)
    /\ \A s, t \in Segments \cup Range(memseg) :
         s # t => Covered({s}) \cap Covered({t}) = {}
    /\ Covered(Segments \cup Range(memseg)) = Aggregators
    /\ \A i \in 1 .. Len(memseg) - 1 : memseg[i][2] <= memseg[i + 1][1]

(***************************************************************************)
(* Every group id and every multicast node is either free or belongs to    *)
(* exactly one group or failed creation: an id a failed creation has left  *)
(* entries for is not handed out again before Init.                           *)
(***************************************************************************)
IdsConserved ==
    /\ IsInjective(free_group) /\ IsInjective(free_node)
    /\ Live \cap DOMAIN leaked = {}
    /\ Range(free_group) \cap Held = {}
    /\ Range(free_group) \cup Held = 1 .. MaxGroupNum - 1
    /\ \A g, h \in Held : g # h => Range(Given[g].node) \cap Range(Given[h].node) = {}
    /\ Range(free_node) \cup UNION {Range(Given[g].node) : g \in Held} = 1 .. MaxNodeNum - 1
    /\ \A g \in Held : Range(free_node) \cap Range(Given[g].node) = {}

(***************************************************************************)
(* The tables of the data plane have all entries of the existing groups,   *)
(* and beyond them only entries left by failed creations: no packet is     *)
(* restored or multicast to the members of a group that is gone.           *)
(***************************************************************************)
TablesMatch ==
    /\ \A t \in {DOMAIN recirculate_table, DOMAIN metadata_table, DOMAIN pre_mgid} :
         Live \subseteq t /\ t \subseteq Held
    /\ \A g \in DOMAIN pre_mgid : pre_mgid[g] = Given[g].node
    /\ \A g \in DOMAIN metadata_table : metadata_table[g] = Len(Given[g].node)
    /\ LET Members(S) == UNION {{g} \X (0 .. Len(Given[g].node) - 1) : g \in S}
           Nodes(S) == UNION {{<<Given[g].node[k], k - 1>> : k \in DOMAIN Given[g].node} : g \in S}
       IN  /\ Members(Live) \subseteq restore_table /\ restore_table \subseteq Members(Held)
           /\ Nodes(Live) \subseteq pre_node /\ pre_node \subseteq Nodes(Held)

(***************************************************************************)
(* The counters used to spread groups over the recirculation ports count   *)
(* the groups that use each port, and the failed creations.                *)
(***************************************************************************)
PortsCounted ==
    \A i \in Ports : recir_port_cnt[i] = Cardinality({g \in Held : Given[g].port = i})

(***************************************************************************)
(* The aggregators of a running group hold no version of an earlier group, *)
(* which might have had the same id: a first packet is never taken for a   *)
(* retransmission.                                                         *)
(***************************************************************************)
VersionsOwn ==
    \A job \in jobs :
        \A a \in undo[job.group].addr .. undo[job.group].addr + SegSize - 1 :
            reg_bitmap[a] \in {0, job.creation}

(***************************************************************************)
(* A request is not denied for lack of memory while there is room for one  *)
(* more segment in total, although free_seg leaves segments unmerged.      *)
(***************************************************************************)
NoFragmentation ==
    MemSize - SegSize * Cardinality(Held) >= SegSize => fit_seg # {}

(***************************************************************************)
(* Nothing the controller hands out is lost or handed out twice, after any *)
(* sequence of creations, failures and destructions: memory, group ids,    *)
(* multicast nodes, recirculation ports.                                   *)
(***************************************************************************)
ResourcesConserved == MemoryPartition /\ IdsConserved /\ PortsCounted

(***************************************************************************)
(* What the switch holds belongs to the groups that exist: the entries of  *)
(* its tables and the versions in their aggregators.                       *)
(***************************************************************************)
SwitchMatches == TablesMatch /\ VersionsOwn
=============================================================================
