--------------------------- MODULE GroupLifecycle ---------------------------
(***************************************************************************)
(* Groups come and go while packets flow: the group setup of the Python    *)
(* frontend (alloc_group_ctx, exit_handler), the steps of the controller's *)
(* CreateGroup and DestroyGroup, and the data plane, which looks up a      *)
(* group's table entries for every packet but writes to its aggregators    *)
(* whether they exist or not.                                              *)
(*                                                                         *)
(* The memory has room for one segment, so that jobs use it in turn, as    *)
(* first fit makes them; ids are taken in order and not reused so soon.    *)
(* The jobs call all_reduce only; a rank sends packet p + 1 after the      *)
(* answer to p, which is what half of AggLen = 2 aggregators allows.       *)
(*                                                                         *)
(* Nothing makes rank 0, whose exit destroys the group, wait for the other *)
(* ranks, or the controller for packets on their way: a job may still have *)
(* traffic when its aggregators are given to the next one.  Two variables  *)
(* that the code does not have, tenant and late, record when it does.      *)
(***************************************************************************)
EXTENDS Integers, Sequences, FiniteSets, Bags

CONSTANTS
    Jobs,           \* the jobs; job j has one group of all its ranks
    Ranks,          \* the ranks of every job, rank 0 among them
    NPkts,          \* packets sent by a rank of a job
    AggLen,         \* aggregators of the segment
    UpCap, DownCap, RecircCap   \* bounds of the model: packets in flight

ASSUME LifecycleAssumption ==
    /\ Jobs \subseteq Nat \ {0} /\ IsFiniteSet(Jobs)
    /\ 0 \in Ranks /\ IsFiniteSet(Ranks)
    /\ NPkts \in Nat /\ AggLen = 2

VARIABLES
    free_ids,       \* the controller's list of free ids
    mem_free,       \* is the segment in memseg?
    entries,        \* entries[g]: the table entries of group g
    rpc,            \* the request in progress (the server has one thread)
    answer,         \* answer[j]: the response to CreateGroup, which rank 0 scatters
    ctx,            \* ctx[j][r]: the group id in the context of rank r
    results,        \* results[j][r]: the sums received, in order of PSN
    exited,         \* exited[j]: the ranks whose process has exited
    up, down,       \* the links of each rank of each job
    recirc, bitmaps, aggregator_array,
    tenant,         \* history: the job the registers were reset for last, or 0
    late            \* late[j]: history: the jobs that were not finished then

history == <<tenant, late>>
control == <<free_ids, mem_free, entries, rpc, answer, history>>
hosts == <<ctx, results, exited>>
switch == <<recirc, bitmaps, aggregator_array>>
vars == <<control, hosts, up, down, switch>>

Ids == 1 .. Cardinality(Jobs)
AggAddrs == 0 .. AggLen - 1
NoAnswer == -1
NoVersion == <<0, 0>>
NoRpc == [job |-> 0, group |-> 0, todo |-> <<>>]

Init ==
    /\ free_ids = [i \in Ids |-> i] /\ mem_free = TRUE
    /\ entries = [g \in Ids |-> {}]
    /\ rpc = NoRpc
    /\ answer = [j \in Jobs |-> NoAnswer]
    /\ ctx = [j \in Jobs |-> [r \in Ranks |-> NoAnswer]]
    /\ results = [j \in Jobs |-> [r \in Ranks |-> <<>>]]
    /\ exited = [j \in Jobs |-> {}]
    /\ up = [j \in Jobs |-> [r \in Ranks |-> <<>>]]
    /\ down = [j \in Jobs |-> [r \in Ranks |-> <<>>]]
    /\ recirc = <<>>
    /\ bitmaps = [a \in AggAddrs |-> [version |-> NoVersion, bitmap |-> {}]]
    /\ aggregator_array = [a \in AggAddrs |-> [agg0 |-> EmptyBag, agg1 |-> EmptyBag]]
    /\ tenant = 0 /\ late = [j \in Jobs |-> {}]

-----------------------------------------------------------------------------
(***************************************************************************)
(* The controller.  What CreateGroup does after it has taken the memory    *)
(* and an id, and what DestroyGroup does, in this order.                   *)
(***************************************************************************)
CreateSteps ==
    << <<"add", "recirculate">>, <<"add", "metadata">>, <<"add", "mgid">>, <<"reset", "bitmap">> >>

\* Mutation of DestroySteps: the memory is not given back.
DestroySteps_leak ==
    << <<"delete", "mgid">>, <<"delete", "metadata">>, <<"delete", "recirculate">> >>

DestroySteps ==
    << <<"delete", "mgid">>, <<"delete", "metadata">>, <<"delete", "recirculate">>,
       <<"free", "memory">> >>

\* Mutation of CanFit: memory in use is handed out again.
CanFit_always == TRUE

\* Whether fit_seg finds a segment.
CanFit == mem_free

\* Rank 0 has gathered the addresses and asks for a group.  It gets group 0
\* when resources are lacking.  The jobs are numbered in the order they ask in.
CreateGroupRpc(j) ==
    /\ answer[j] = NoAnswer
    /\ rpc = NoRpc
    /\ \A k \in Jobs : k < j => answer[k] # NoAnswer
    /\ IF CanFit /\ free_ids # <<>>
       THEN /\ rpc' = [job |-> j, group |-> Head(free_ids), todo |-> CreateSteps]
            /\ free_ids' = Tail(free_ids)
            /\ mem_free' = FALSE
            /\ UNCHANGED answer
       ELSE /\ answer' = [answer EXCEPT ![j] = 0]
            /\ UNCHANGED <<free_ids, mem_free, rpc>>
    /\ UNCHANGED <<entries, hosts, up, down, switch, history>>

\* Job k has a group and lacks a response, or has packets on their way to
\* aggregators.
Unfinished(k) ==
    \/ answer[k] > 0 /\ \E r \in Ranks : Len(results[k][r]) < NPkts
    \/ \E r \in Ranks : up[k][r] # <<>>
    \/ \E i \in DOMAIN recirc : recirc[i].pkt.job = k

\* What is remembered when the registers are reset for job j.
Record(j) ==
    /\ tenant' = j
    /\ late' = [late EXCEPT ![j] = @ \cup {k \in Jobs \ {j} : Unfinished(k)}]

\* The next operation of the request in progress: a change of a table, of the
\* registers of the segment, or of the lists of the controller.
RpcStep ==
    /\ rpc.todo # <<>>
    /\ LET g == rpc.group
           step == Head(rpc.todo)
       IN  /\ rpc' = [rpc EXCEPT !.todo = Tail(@)]
           /\ entries' = [entries EXCEPT ![g] = CASE step[1] = "add" -> @ \cup {step[2]}
                                                 [] step[1] = "delete" -> @ \ {step[2]}
                                                 [] OTHER -> @]
           /\ mem_free' = (mem_free \/ step[1] = "free")
           /\ free_ids' = IF step[1] = "free" THEN Append(free_ids, g) ELSE free_ids
           /\ bitmaps' = IF step[1] = "reset"
                            THEN [a \in AggAddrs |-> [version |-> NoVersion, bitmap |-> {}]]
                            ELSE bitmaps
           /\ IF step[1] = "reset" THEN Record(rpc.job) ELSE UNCHANGED history
    /\ UNCHANGED <<answer, hosts, up, down, recirc, aggregator_array>>

\* Mutation of Complete: CreateGroup answers before its last three steps.
Complete_early == Len(rpc.todo) <= 3

Complete == rpc.todo = <<>>

\* The request is answered.
RpcReturn ==
    /\ rpc # NoRpc
    /\ Complete
    /\ IF answer[rpc.job] = NoAnswer
       THEN answer' = [answer EXCEPT ![rpc.job] = rpc.group]
       ELSE UNCHANGED answer
    /\ rpc' = NoRpc
    /\ UNCHANGED <<free_ids, mem_free, entries, hosts, up, down, switch, history>>

-----------------------------------------------------------------------------
(***************************************************************************)
(* The frontend of rank r of job j.  scatter_object_list hands the answer  *)
(* to every rank; with group 0 a rank has no context and uses NCCL.        *)
(***************************************************************************)
alloc_group_ctx(j, r) ==
    /\ answer[j] # NoAnswer
    /\ ctx[j][r] = NoAnswer
    /\ ctx' = [ctx EXCEPT ![j][r] = answer[j]]
    /\ UNCHANGED <<control, results, exited, up, down, switch>>

\* The calls of rank r have returned.  It is not asked whether those of the other
\* ranks have.
MayExit(j, r) == ctx[j][r] > 0 /\ Len(results[j][r]) = NPkts

\* Rank 0 calls DestroyGroup, for group 0 (nothing happens) too; finalize
\* follows, after which nobody takes a response to the rank.
exit_handler(j, r) ==
    /\ r \notin exited[j]
    /\ MayExit(j, r) \/ ctx[j][r] = 0
    /\ IF r = 0 /\ ctx[j][r] > 0
       THEN rpc = NoRpc /\ rpc' = [job |-> j, group |-> ctx[j][r], todo |-> DestroySteps]
       ELSE UNCHANGED rpc
    /\ exited' = [exited EXCEPT ![j] = @ \cup {r}]
    /\ down' = [down EXCEPT ![j][r] = <<>>]
    /\ UNCHANGED <<free_ids, mem_free, entries, answer, ctx, results, up, switch, history>>

\* The backend sends the packet whose answer is awaited, also again.
Transmit(j, r) ==
    /\ ctx[j][r] > 0
    /\ Len(results[j][r]) < NPkts
    /\ Len(up[j][r]) < UpCap
    /\ up' = [up EXCEPT ![j][r] = Append(@, [job |-> j, group |-> ctx[j][r], rank |-> r,
                                            psn |-> Len(results[j][r])])]
    /\ UNCHANGED <<control, hosts, down, switch>>

\* The backend takes the answer to the packet it waits for and skips others.
Receive(j, r) ==
    /\ down[j][r] # <<>>
    /\ LET d == Head(down[j][r])
       IN  results' = IF d.psn = Len(results[j][r])
                      THEN [results EXCEPT ![j][r] = Append(@, d.sum)]
                      ELSE results
    /\ down' = [down EXCEPT ![j][r] = Tail(@)]
    /\ UNCHANGED <<control, ctx, exited, up, switch>>

-----------------------------------------------------------------------------
(***************************************************************************)
(* The data plane, as in module Switch, with its table lookups.            *)
(***************************************************************************)
agg_addr(pkt) == pkt.psn % AggLen
set_version(pkt) == <<pkt.group, pkt.psn>>
Word(pkt) == SetToBag({<<pkt.job, pkt.rank, pkt.psn>>})

bitmap_old(pkt) ==
    LET reg == bitmaps[agg_addr(pkt)]
    IN  IF reg.version = set_version(pkt) THEN reg.bitmap ELSE {}

\* Without an entry the mask is 0.
bitmap_mask(pkt) == IF "metadata" \in entries[pkt.group] THEN Ranks ELSE {}

Flipped(S, T) == (S \ T) \cup (T \ S)

full(pkt) == bitmap_old(pkt) \in {Flipped({pkt.rank}, bitmap_mask(pkt)), bitmap_mask(pkt)}

agg_action(pkt) ==
    LET reg == aggregator_array[agg_addr(pkt)]
    IN  CASE bitmap_old(pkt) = {} -> [agg0 |-> Word(pkt), agg1 |-> Word(pkt)]
          [] bitmap_old(pkt) # {} /\ pkt.rank \notin bitmap_old(pkt) ->
                [agg0 |-> reg.agg0 (+) Word(pkt), agg1 |-> reg.agg1 (+) Word(pkt)]
          [] OTHER -> reg

\* Pass 1.  recirculate_table drops the packets of unknown groups.
Ingress(j, r) ==
    /\ up[j][r] # <<>>
    /\ Len(recirc) < RecircCap
    /\ LET pkt == Head(up[j][r])
           a == agg_addr(pkt)
       IN  /\ bitmaps' = [bitmaps EXCEPT ![a] =
                [version |-> set_version(pkt), bitmap |-> bitmap_old(pkt) \cup {r}]]
           /\ aggregator_array' = [aggregator_array EXCEPT ![a] = agg_action(pkt)]
           /\ recirc' = IF full(pkt) /\ "recirculate" \in entries[pkt.group]
                        THEN Append(recirc, [pkt |-> pkt, data0 |-> agg_action(pkt).agg0,
                                             multicast |-> r \notin bitmap_old(pkt)])
                        ELSE recirc
    /\ up' = [up EXCEPT ![j][r] = Tail(@)]
    /\ UNCHANGED <<control, hosts, down>>

\* A multicast group that does not exist has no copies; a unicast answer goes
\* back by its MAC address.
copies(e) ==
    IF ~e.multicast THEN {e.pkt.rank}
    ELSE IF "mgid" \in entries[e.pkt.group] THEN Ranks ELSE {}

\* The ranks that receive one.
destinations(e) == copies(e) \ exited[e.pkt.job]

\* Pass 2.  agg1 is read whatever version the aggregator has.
Recirculate ==
    /\ recirc # <<>>
    /\ LET e == Head(recirc)
           j == e.pkt.job
           d == [psn |-> e.pkt.psn,
                 sum |-> <<e.data0, aggregator_array[agg_addr(e.pkt)].agg1>>]
       IN  /\ \A s \in destinations(e) : Len(down[j][s]) < DownCap
           /\ down' = [down EXCEPT ![j] = [s \in Ranks |->
                IF s \in destinations(e) THEN Append(@[s], d) ELSE @[s]]]
    /\ recirc' = Tail(recirc)
    /\ UNCHANGED <<control, hosts, up, bitmaps, aggregator_array>>

\* A response is lost.
LoseDown(j, r) ==
    /\ down[j][r] # <<>>
    /\ down' = [down EXCEPT ![j][r] = Tail(@)]
    /\ UNCHANGED <<control, hosts, up, switch>>

\* Steps of which a behaviour has finitely many.
Control ==
    \/ \E j \in Jobs : CreateGroupRpc(j)
    \/ RpcStep \/ RpcReturn
    \/ \E j \in Jobs, r \in Ranks : alloc_group_ctx(j, r) \/ exit_handler(j, r)

Next ==
    \/ Control
    \/ \E j \in Jobs, r \in Ranks :
         \/ Transmit(j, r) \/ Receive(j, r)
         \/ Ingress(j, r) \/ LoseDown(j, r)
    \/ Recirculate

(***************************************************************************)
(* Processes, the controller and the switch keep running.  Responses are   *)
(* not lost for ever: when some come to the ranks numbered r again and     *)
(* again, some are received.                                               *)
(***************************************************************************)
DataFairness ==
    /\ WF_vars(Recirculate)
    /\ \A j \in Jobs, r \in Ranks : SF_vars(Transmit(j, r) \/ Ingress(j, r))
    /\ \A r \in Ranks : SF_vars(\E j \in Jobs : Receive(j, r))

Spec == Init /\ [][Next]_vars /\ WF_vars(Control) /\ DataFairness

-----------------------------------------------------------------------------
\* Job j and another one never met in the aggregators: nothing was left of earlier
\* jobs when they were reset for j, nor of j when they were reset for a later one.
Undisturbed(j) == late[j] = {} /\ \A k \in Jobs : j \notin late[k]

(***************************************************************************)
(* Every answer a rank takes holds, in both words, the sum over the ranks  *)
(* of its own job, each counted once, although the aggregators served      *)
(* another group before and packets may still arrive while the tables of a *)
(* group are being built or removed (ingress.p4, pass 2 of aggregator.p4), *)
(* whatever other jobs do to each other, unless the job has met another    *)
(* one in its aggregators.                                                 *)
(***************************************************************************)
ResultsOwn ==
    \A j \in Jobs : Undisturbed(j) =>
        \A r \in Ranks : \A p \in 1 .. Len(results[j][r]) :
            LET sum == SetToBag({<<j, s, p - 1>> : s \in Ranks})
            IN  results[j][r][p] = <<sum, sum>>

(***************************************************************************)
(* The aggregators given to a group in CreateGroup's response are the      *)
(* group's own until its DestroyGroup, but for jobs that were not finished *)
(* when they were reset for it: no other version appears in them.          *)
(***************************************************************************)
SharedOnlyWithLate ==
    \A j \in Jobs : (answer[j] > 0 /\ 0 \notin exited[j]) =>
        \A a \in AggAddrs :
            bitmaps[a].version[1] \in {0, answer[j]} \cup {answer[k] : k \in late[j]}

(***************************************************************************)
(* NetCCL_key.md:219 on creating and destroying groups: agg_addr and len   *)
(* are held explicitly, implicit sharing is forbidden.  No version of      *)
(* another group appears in the aggregators of a group.                    *)
(***************************************************************************)
NoImplicitSharing ==
    \A j \in Jobs : (answer[j] > 0 /\ 0 \notin exited[j]) =>
        \A a \in AggAddrs : bitmaps[a].version[1] \in {0, answer[j]}

\* Rank 0 of job j has destroyed the group, and this rank lacks its last response.
LeftBehind(j, r) ==
    ctx[j][r] > 0 /\ 0 \in exited[j] /\ Len(results[j][r]) = NPkts - 1

(***************************************************************************)
(* A job that meets no other one in its aggregators comes to an end,       *)
(* whether it got a group or not, and whatever becomes of the others: rank *)
(* 0 exits, the controller takes back the table entries and the memory of  *)
(* the group, and all ranks exit but those that rank 0 has left behind     *)
(* without their last response (exit_handler does not wait for them).      *)
(***************************************************************************)
EventuallyReturned ==
    <>[](\A j \in Jobs : Undisturbed(j) =>
            /\ \A r \in Ranks : r \in exited[j] \/ (r # 0 /\ LeftBehind(j, r))
            /\ answer[j] > 0 => entries[answer[j]] = {} /\ (tenant = j => mem_free \/ rpc # NoRpc))
=============================================================================
