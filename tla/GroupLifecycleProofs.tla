------------------------ MODULE GroupLifecycleProofs ------------------------
(***************************************************************************)
(* Proofs about the life cycle of groups, for any jobs, any ranks, any     *)
(* number of packets and any bounds on the links.                          *)
(*                                                                         *)
(* The argument.  The controller serves one request at a time and its      *)
(* memory holds one segment, so at most one job is live: it has its group  *)
(* and its rank 0 has not exited.  A live job is the tenant of the         *)
(* registers, but it may not be alone: of the other jobs, those have       *)
(* traffic that were not finished at the reset, and no others, for a job   *)
(* sends nothing before it has its answer or after its last response.  So  *)
(* if there were none, only packets of the tenant come to the aggregators, *)
(* until the next reset, and a window of one packet on two aggregators is  *)
(* the reduction protocol: M is the last packet begun, and packet M - 1 is *)
(* complete and still in its place.  That rank 0 leaves early, and takes   *)
(* the table entries away, does no harm to the sums: it has its last       *)
(* response, so that M is the last packet and complete.                    *)
(***************************************************************************)
EXTENDS GroupLifecycle, SequenceTheorems, FiniteSetTheorems, TLAPS

Psns == 0 .. NPkts - 1
Tables == {"recirculate", "metadata", "mgid"}

\* The words of the ranks in S for packet p of job j, and their sum.
SumOver(j, S, p) == SetToBag({<<j, s, p>> : s \in S})
Answer(j, p) == <<SumOver(j, Ranks, p), SumOver(j, Ranks, p)>>

Words == UNION {[T -> Nat] : T \in SUBSET (Jobs \X Ranks \X Psns)}
Packets == [job : Jobs, group : Ids, rank : Ranks, psn : Psns]
Entries == [pkt : Packets, data0 : Words, multicast : BOOLEAN]
Responses == [psn : Psns, sum : Words \X Words]
RpcSteps ==
    {<<"add", "recirculate">>, <<"add", "metadata">>, <<"add", "mgid">>, <<"reset", "bitmap">>,
     <<"delete", "mgid">>, <<"delete", "metadata">>, <<"delete", "recirculate">>,
     <<"free", "memory">>}
Requests == [job : Jobs, group : Ids, todo : Seq(RpcSteps)]

TypeOK ==
    /\ free_ids \in Seq(Ids)
    /\ mem_free \in BOOLEAN
    /\ entries \in [Ids -> SUBSET Tables]
    /\ rpc = NoRpc \/ rpc \in Requests
    /\ answer \in [Jobs -> Ids \cup {0, NoAnswer}]
    /\ ctx \in [Jobs -> [Ranks -> Ids \cup {0, NoAnswer}]]
    /\ results \in [Jobs -> [Ranks -> Seq(Words \X Words)]]
    /\ exited \in [Jobs -> SUBSET Ranks]
    /\ up \in [Jobs -> [Ranks -> Seq(Packets)]]
    /\ down \in [Jobs -> [Ranks -> Seq(Responses)]]
    /\ recirc \in Seq(Entries)
    /\ bitmaps \in [AggAddrs -> [version : (Ids \cup {0}) \X Nat, bitmap : SUBSET Ranks]]
    /\ aggregator_array \in [AggAddrs -> [agg0 : Words, agg1 : Words]]
    /\ tenant \in Jobs \cup {0}
    /\ late \in [Jobs -> SUBSET Jobs]

\* Job j has a group and has not asked for its removal.
Live(j) == answer[j] > 0 /\ 0 \notin exited[j]

\* The group that is being made has the entries that are no longer to be added.
Built ==
    /\ rpc.todo = Tail(CreateSteps) => {"recirculate"} \subseteq entries[rpc.group]
    /\ rpc.todo = Tail(Tail(CreateSteps)) => {"recirculate", "metadata"} \subseteq entries[rpc.group]
    /\ Len(rpc.todo) <= 1 => Tables \subseteq entries[rpc.group]

CreateTodos ==
    {CreateSteps, Tail(CreateSteps), Tail(Tail(CreateSteps)),
     Tail(Tail(Tail(CreateSteps))), <<>>}

DestroyTodos ==
    {DestroySteps, Tail(DestroySteps), Tail(Tail(DestroySteps)),
     Tail(Tail(Tail(DestroySteps))), <<>>}

\* One job at a time.
ControlOK ==
    /\ \A j, k \in Jobs : Live(j) /\ Live(k) => j = k
    /\ \A j \in Jobs : Live(j) =>
         rpc = NoRpc /\ ~mem_free /\ Tables \subseteq entries[answer[j]]
    /\ rpc # NoRpc /\ answer[rpc.job] = NoAnswer =>
         rpc.todo \in CreateTodos /\ ~mem_free /\ Built
    /\ rpc # NoRpc /\ answer[rpc.job] # NoAnswer => rpc.todo \in DestroyTodos

\* Rank r of job j has done nothing that the network shows.
Idle(j, r) == results[j][r] = <<>> /\ up[j][r] = <<>> /\ down[j][r] = <<>>

HostsOK ==
    \A j \in Jobs :
        /\ answer[j] = NoAnswer => exited[j] = {}
        /\ answer[j] > 0 /\ 0 \in exited[j] => Len(results[j][0]) = NPkts
        /\ \A r \in Ranks :
             /\ ctx[j][r] \in {NoAnswer, answer[j]}
             /\ answer[j] <= 0 => Idle(j, r)
             /\ Len(results[j][r]) <= NPkts

\* Packets carry what their senders have.
LinksOK ==
    /\ \A j \in Jobs, r \in Ranks : \A i \in DOMAIN up[j][r] :
         up[j][r][i].job = j /\ up[j][r][i].rank = r /\ up[j][r][i].group = answer[j]
    /\ \A i \in DOMAIN recirc :
         /\ answer[recirc[i].pkt.job] > 0
         /\ recirc[i].pkt.group = answer[recirc[i].pkt.job]

Clean == \A a \in AggAddrs : bitmaps[a].version = NoVersion

\* A live job is the tenant, and so is one that is about to be, in clean registers
\* when no other job was left.
TenantOK ==
    /\ \A j \in Jobs : Live(j) => tenant = j
    /\ rpc # NoRpc /\ answer[rpc.job] = NoAnswer /\ rpc.todo = <<>> =>
         tenant = rpc.job /\ (late[rpc.job] = {} => Clean)

\* The jobs that may have something on the way to the aggregators.
Present(k) == tenant # 0 /\ (k = tenant \/ k \in late[tenant])

TrafficOK == \A k \in Jobs : Unfinished(k) => Present(k)

\* The versions in the aggregators are theirs.
VersionsOK ==
    \A a \in AggAddrs :
        LET g == bitmaps[a].version[1] IN
        g = 0 \/ \E k \in Jobs : Present(k) /\ g = answer[k]

\* No packet of job j has been aggregated.
Fresh(j) ==
    /\ Clean /\ recirc = <<>>
    /\ \A r \in Ranks : results[j][r] = <<>> /\ down[j][r] = <<>>
    /\ \A r \in Ranks : \A i \in DOMAIN up[j][r] : up[j][r][i].psn = 0

Seen(M) == bitmaps[M % AggLen].bitmap

\* The aggregators when M is the last packet that has been begun.
CellsOK(j, M) ==
    /\ bitmaps[M % AggLen].version = <<answer[j], M>>
    /\ Seen(M) # {}
    /\ aggregator_array[M % AggLen] = [agg0 |-> SumOver(j, Seen(M), M),
                                       agg1 |-> SumOver(j, Seen(M), M)]
    /\ M = 0 => bitmaps[(M + 1) % AggLen].version = NoVersion
    /\ M > 0 => /\ bitmaps[(M + 1) % AggLen] = [version |-> <<answer[j], M - 1>>, bitmap |-> Ranks]
                /\ aggregator_array[(M + 1) % AggLen] = [agg0 |-> SumOver(j, Ranks, M - 1),
                                                         agg1 |-> SumOver(j, Ranks, M - 1)]

\* A packet that some rank may have an answer to, S having sent packet M.
Answerable(p, M, S) == p < M \/ (p = M /\ S = Ranks)

WindowOK(j, M) ==
    \A r \in Ranks :
        /\ M <= Len(results[j][r]) + 1
        /\ r \in Seen(M) => M <= Len(results[j][r])
        /\ Len(results[j][r]) <= M + 1
        /\ Len(results[j][r]) = M + 1 => Seen(M) = Ranks

UpOK(j, M) ==
    \A r \in Ranks : \A i \in DOMAIN up[j][r] :
        /\ up[j][r][i].psn <= Len(results[j][r])
        /\ M <= up[j][r][i].psn + 1
        /\ r \in Seen(M) => M <= up[j][r][i].psn
        /\ \A k \in DOMAIN up[j][r] : i <= k => up[j][r][i].psn <= up[j][r][k].psn

RecircOK(j, M) ==
    \A i \in DOMAIN recirc :
        LET p == recirc[i].pkt.psn IN
        /\ Answerable(p, M, Seen(M))
        /\ recirc[i].data0 = SumOver(j, Ranks, p)
        /\ \A s \in Ranks : Len(results[j][s]) <= p + 1
        /\ \A k \in DOMAIN recirc : i <= k => p <= recirc[k].pkt.psn

DownOK(j, M) ==
    \A r \in Ranks : \A i \in DOMAIN down[j][r] :
        LET p == down[j][r][i].psn IN
        /\ Answerable(p, M, Seen(M))
        /\ down[j][r][i].sum = Answer(j, p)
        /\ \A k \in DOMAIN recirc : p <= recirc[k].pkt.psn

Running(j, M) == CellsOK(j, M) /\ WindowOK(j, M) /\ UpOK(j, M) /\ RecircOK(j, M) /\ DownOK(j, M)

Reducing(j) == Fresh(j) \/ \E M \in Psns : Running(j, M)

\* Job j has its answer, and the aggregators for itself.
Alone(j) == tenant = j /\ late[j] = {} /\ answer[j] > 0

ReductionOK == \A j \in Jobs : Alone(j) => Reducing(j)

IInv ==
    /\ TypeOK /\ ControlOK /\ HostsOK /\ LinksOK
    /\ TenantOK /\ TrafficOK /\ VersionsOK /\ ReductionOK /\ ResultsOwn

-----------------------------------------------------------------------------
(* Numbers, sequences and sums. *)

LEMMA IdsNat ==
    /\ Ids \subseteq Nat \ {0}
    /\ Cardinality(Jobs) \in Nat
<1>1. Cardinality(Jobs) \in Nat
  BY LifecycleAssumption, FS_CardinalityType
<1> QED  BY <1>1 DEF Ids

LEMMA JobsNat ==
    ASSUME NEW j \in Jobs
    PROVE  j \in Nat /\ j # 0
BY LifecycleAssumption

\* A request of a job is not the absence of one.
LEMMA SomeRequest ==
    ASSUME NEW q \in Requests
    PROVE  q # NoRpc /\ q.job \in Jobs /\ q.group \in Ids /\ q.todo \in Seq(RpcSteps)
<1>1. q.job \in Jobs /\ q.group \in Ids /\ q.todo \in Seq(RpcSteps)
  BY DEF Requests
<1>2. q.job # 0
  BY <1>1, JobsNat
<1> QED  BY <1>1, <1>2 DEF NoRpc

\* The two aggregators take turns.
LEMMA Turns ==
    ASSUME NEW p \in Nat
    PROVE  /\ p % AggLen \in AggAddrs /\ (p + 1) % AggLen \in AggAddrs
           /\ (p + 1) % AggLen # p % AggLen
           /\ (p + 2) % AggLen = p % AggLen
           /\ AggAddrs = {p % AggLen, (p + 1) % AggLen}
<1>1. AggLen = 2
  BY LifecycleAssumption
<1>2. p % 2 \in {0, 1} /\ (p + 1) % 2 \in {0, 1} /\ (p + 1) % 2 # p % 2 /\ (p + 2) % 2 = p % 2
  OBVIOUS
<1>3. AggAddrs = {0, 1}
  BY <1>1 DEF AggAddrs
<1> QED  BY <1>1, <1>2, <1>3

LEMMA TailQueue ==
    ASSUME NEW S, NEW s \in Seq(S), s # <<>>
    PROVE  /\ Tail(s) \in Seq(S)
           /\ Head(s) \in S /\ Head(s) = s[1] /\ 1 \in DOMAIN s
           /\ \A i \in DOMAIN Tail(s) :
                i \in Nat /\ i + 1 \in DOMAIN s /\ 1 <= i + 1 /\ Tail(s)[i] = s[i + 1]
<1>1. /\ Len(s) \in Nat /\ Len(s) >= 1 /\ DOMAIN s = 1 .. Len(s)
      /\ s[1] \in S
  BY EmptySeq, LenProperties, ElementOfSeq
<1> QED  BY <1>1, HeadTailProperties

LEMMA AppendQueue ==
    ASSUME NEW S, NEW s \in Seq(S), NEW x \in S
    PROVE  /\ Append(s, x) \in Seq(S)
           /\ Len(Append(s, x)) = Len(s) + 1 /\ Len(s) \in Nat
           /\ Append(s, x) # <<>>
           /\ \A i \in DOMAIN Append(s, x) : i \in Nat /\ 1 <= i /\ i <= Len(s) + 1
           /\ \A i \in DOMAIN s : i \in Nat /\ i <= Len(s) /\ i \in DOMAIN Append(s, x)
           /\ \A i \in DOMAIN Append(s, x) :
                \/ i \in DOMAIN s /\ Append(s, x)[i] = s[i]
                \/ i = Len(s) + 1 /\ i \notin DOMAIN s /\ Append(s, x)[i] = x
<1>1. Len(s) \in Nat /\ DOMAIN s = 1 .. Len(s)
  BY LenProperties
<1> QED  BY <1>1, AppendProperties

LEMMA EmptyQueue ==
    ASSUME NEW S, NEW s \in Seq(S)
    PROVE  /\ s = <<>> => DOMAIN s = {} /\ Len(s) = 0
           /\ Len(s) = 0 => s = <<>>
           /\ Len(s) \in Nat
           /\ \A i \in DOMAIN s : i \in Nat /\ s[i] \in S
BY EmptySeq, LenProperties, ElementOfSeq

LEMMA NoElements ==
    ASSUME NEW S, NEW s \in Seq(S), \A i \in DOMAIN s : FALSE
    PROVE  s = <<>>
<1>1. ASSUME s # <<>>
      PROVE  FALSE
  <2>1. 1 \in DOMAIN s
    BY <1>1, TailQueue
  <2> QED  BY <2>1
<1> QED  BY <1>1

\* Adding the word of a rank that is not yet in the sum.
LEMMA AddWord ==
    ASSUME NEW j, NEW S, NEW r, r \notin S, NEW p
    PROVE  SumOver(j, S, p) (+) SetToBag({<<j, r, p>>}) = SumOver(j, S \cup {r}, p)
BY DEF SumOver, SetToBag, (+)

LEMMA OneWord ==
    ASSUME NEW j, NEW r, NEW p
    PROVE  SetToBag({<<j, r, p>>}) = SumOver(j, {r}, p)
BY DEF SumOver, SetToBag

LEMMA SumWord ==
    ASSUME NEW j \in Jobs, NEW S \in SUBSET Ranks, NEW p \in Psns
    PROVE  SumOver(j, S, p) \in Words
<1> DEFINE T == {<<j, s, p>> : s \in S}
<1>1. T \in SUBSET (Jobs \X Ranks \X Psns)
  OBVIOUS
<1>2. SumOver(j, S, p) \in [T -> Nat]
  BY DEF SumOver, SetToBag
<1> QED  BY <1>1, <1>2 DEF Words

\* Sums of words are words.
LEMMA WordsClosed ==
    ASSUME NEW v \in Words, NEW w \in Words
    PROVE  v (+) w \in Words
<1> DEFINE T == DOMAIN v \cup DOMAIN w
<1>1. /\ v \in [DOMAIN v -> Nat] /\ DOMAIN v \in SUBSET (Jobs \X Ranks \X Psns)
      /\ w \in [DOMAIN w -> Nat] /\ DOMAIN w \in SUBSET (Jobs \X Ranks \X Psns)
  BY DEF Words
<1>2. v (+) w \in [T -> Nat]
  BY <1>1 DEF (+)
<1>3. T \in SUBSET (Jobs \X Ranks \X Psns)
  BY <1>1
<1> QED  BY <1>2, <1>3 DEF Words

LEMMA StepsType ==
    CreateSteps \in Seq(RpcSteps) /\ DestroySteps \in Seq(RpcSteps)
<1>1. ASSUME NEW S, NEW a \in S, NEW b \in S, NEW c \in S, NEW d \in S
      PROVE  <<a, b, c, d>> \in Seq(S)
  OBVIOUS
<1>2. /\ <<"add", "recirculate">> \in RpcSteps /\ <<"add", "metadata">> \in RpcSteps
      /\ <<"add", "mgid">> \in RpcSteps /\ <<"reset", "bitmap">> \in RpcSteps
  BY DEF RpcSteps
<1>3. /\ <<"delete", "mgid">> \in RpcSteps /\ <<"delete", "metadata">> \in RpcSteps
      /\ <<"delete", "recirculate">> \in RpcSteps /\ <<"free", "memory">> \in RpcSteps
  BY DEF RpcSteps
<1>4. CreateSteps \in Seq(RpcSteps)
  BY <1>1, <1>2, Zenon DEF CreateSteps
<1>5. DestroySteps \in Seq(RpcSteps)
  BY <1>1, <1>3, Zenon DEF DestroySteps
<1> QED  BY <1>4, <1>5

LEMMA AnswerType ==
    ASSUME TypeOK, NEW j \in Jobs
    PROVE  answer[j] \in Int /\ (answer[j] > 0 => answer[j] \in Ids)
<1>1. answer[j] \in Ids \/ answer[j] = 0 \/ answer[j] = -1
  BY DEF TypeOK, NoAnswer
<1>2. answer[j] \in Ids => answer[j] \in Nat /\ answer[j] # 0
  BY IdsNat, Zenon
<1> QED  BY <1>1, <1>2

LEMMA RecircType ==
    ASSUME TypeOK, NEW i \in DOMAIN recirc
    PROVE  /\ i \in Nat /\ recirc[i] \in Entries /\ recirc[i].pkt \in Packets
           /\ recirc[i].pkt.job \in Jobs /\ recirc[i].pkt.group \in Ids
           /\ recirc[i].pkt.rank \in Ranks /\ recirc[i].pkt.psn \in Psns
<1>1. recirc \in Seq(Entries)
  BY DEF TypeOK
<1>2. i \in Nat /\ recirc[i] \in Entries
  BY <1>1, EmptyQueue
<1> QED  BY <1>2 DEF Entries, Packets

LEMMA UpType ==
    ASSUME TypeOK, NEW j \in Jobs, NEW r \in Ranks
    PROVE  /\ up[j][r] \in Seq(Packets)
           /\ \A i \in DOMAIN up[j][r] :
                i \in Nat /\ up[j][r][i] \in Packets /\ up[j][r][i].psn \in Psns
<1>1. up[j][r] \in Seq(Packets)
  BY DEF TypeOK
<1>2. \A i \in DOMAIN up[j][r] : i \in Nat /\ up[j][r][i] \in Packets
  BY <1>1, EmptyQueue
<1> QED  BY <1>1, <1>2 DEF Packets

LEMMA DownType ==
    ASSUME TypeOK, NEW j \in Jobs, NEW r \in Ranks
    PROVE  /\ down[j][r] \in Seq(Responses)
           /\ \A i \in DOMAIN down[j][r] :
                i \in Nat /\ down[j][r][i] \in Responses /\ down[j][r][i].psn \in Psns
<1>1. down[j][r] \in Seq(Responses)
  BY DEF TypeOK
<1>2. \A i \in DOMAIN down[j][r] : i \in Nat /\ down[j][r][i] \in Responses
  BY <1>1, EmptyQueue
<1> QED  BY <1>1, <1>2 DEF Responses

LEMMA ResultsType ==
    ASSUME TypeOK, NEW j \in Jobs, NEW r \in Ranks
    PROVE  results[j][r] \in Seq(Words \X Words) /\ Len(results[j][r]) \in Nat
<1>1. results[j][r] \in Seq(Words \X Words)
  BY DEF TypeOK
<1> QED  BY <1>1, EmptyQueue

LEMMA PsnsNat == Psns \subseteq Nat /\ \A p \in Psns : p < NPkts
BY LifecycleAssumption DEF Psns

-----------------------------------------------------------------------------
(* What depends on what. *)

\* The lists of steps, written out.
LEMMA Todos ==
    /\ CreateTodos =
         {<< <<"add", "recirculate">>, <<"add", "metadata">>, <<"add", "mgid">>, <<"reset", "bitmap">> >>,
          << <<"add", "metadata">>, <<"add", "mgid">>, <<"reset", "bitmap">> >>,
          << <<"add", "mgid">>, <<"reset", "bitmap">> >>,
          << <<"reset", "bitmap">> >>, <<>>}
    /\ DestroyTodos =
         {<< <<"delete", "mgid">>, <<"delete", "metadata">>, <<"delete", "recirculate">>, <<"free", "memory">> >>,
          << <<"delete", "metadata">>, <<"delete", "recirculate">>, <<"free", "memory">> >>,
          << <<"delete", "recirculate">>, <<"free", "memory">> >>,
          << <<"free", "memory">> >>, <<>>}
BY DEF CreateTodos, CreateSteps, DestroyTodos, DestroySteps

LEMMA CreateTodoStep ==
    ASSUME NEW s \in CreateTodos, s # <<>>
    PROVE  /\ Tail(s) \in CreateTodos
           /\ s = CreateSteps => Head(s) = <<"add", "recirculate">> /\ Tail(s) = Tail(CreateSteps)
           /\ s = Tail(CreateSteps) => Head(s) = <<"add", "metadata">> /\ Tail(s) = Tail(Tail(CreateSteps))
           /\ s = Tail(Tail(CreateSteps)) => Head(s) = <<"add", "mgid">> /\ Len(Tail(s)) = 1
           /\ Len(s) <= 1 => Head(s) = <<"reset", "bitmap">> /\ Tail(s) = <<>>
           /\ s \in {CreateSteps, Tail(CreateSteps), Tail(Tail(CreateSteps))} \/ Len(s) <= 1
<1>1. CASE s = << <<"add", "recirculate">>, <<"add", "metadata">>, <<"add", "mgid">>, <<"reset", "bitmap">> >>
  BY <1>1 DEF CreateTodos, CreateSteps
<1>2. CASE s = << <<"add", "metadata">>, <<"add", "mgid">>, <<"reset", "bitmap">> >>
  BY <1>2 DEF CreateTodos, CreateSteps
<1>3. CASE s = << <<"add", "mgid">>, <<"reset", "bitmap">> >>
  BY <1>3 DEF CreateTodos, CreateSteps
<1>4. CASE s = << <<"reset", "bitmap">> >>
  BY <1>4 DEF CreateTodos, CreateSteps
<1> QED  BY <1>1, <1>2, <1>3, <1>4, Todos

LEMMA DestroyTodoStep ==
    ASSUME NEW s \in DestroyTodos, s # <<>>
    PROVE  /\ Tail(s) \in DestroyTodos
           /\ Head(s) \in {<<"delete", "mgid">>, <<"delete", "metadata">>,
                           <<"delete", "recirculate">>, <<"free", "memory">>}
<1>1. CASE s = << <<"delete", "mgid">>, <<"delete", "metadata">>, <<"delete", "recirculate">>, <<"free", "memory">> >>
  BY <1>1 DEF DestroyTodos, DestroySteps
<1>2. CASE s = << <<"delete", "metadata">>, <<"delete", "recirculate">>, <<"free", "memory">> >>
  BY <1>2 DEF DestroyTodos, DestroySteps
<1>3. CASE s = << <<"delete", "recirculate">>, <<"free", "memory">> >>
  BY <1>3 DEF DestroyTodos, DestroySteps
<1>4. CASE s = << <<"free", "memory">> >>
  BY <1>4 DEF DestroyTodos, DestroySteps
<1> QED  BY <1>1, <1>2, <1>3, <1>4, Todos

\* What the reduction of a job depends on.
SameReduction(j) ==
    /\ answer'[j] = answer[j] /\ results'[j] = results[j] /\ down'[j] = down[j]
    /\ up'[j] = up[j] /\ recirc' = recirc
    /\ bitmaps' = bitmaps /\ aggregator_array' = aggregator_array

LEMMA KeepReducing ==
    ASSUME NEW j \in Jobs, SameReduction(j), Reducing(j)
    PROVE  Reducing(j)'
<1> USE DEF SameReduction
<1>1. CASE Fresh(j)
  <2>1. Fresh(j)'
    BY <1>1 DEF Fresh, Clean
  <2> QED  BY <2>1 DEF Reducing
<1>2. ASSUME NEW M \in Psns, Running(j, M)
      PROVE  Running(j, M)'
  <2>1. Seen(M)' = Seen(M)
    BY DEF Seen
  <2>2. CellsOK(j, M)'
    BY <1>2, <2>1 DEF Running, CellsOK
  <2>3. WindowOK(j, M)'
    BY <1>2, <2>1 DEF Running, WindowOK
  <2>4. UpOK(j, M)'
    BY <1>2, <2>1 DEF Running, UpOK
  <2>5. RecircOK(j, M)'
    BY <1>2, <2>1 DEF Running, RecircOK, Answerable
  <2>6. DownOK(j, M)'
    BY <1>2, <2>1 DEF Running, DownOK, Answerable
  <2> QED  BY <2>2, <2>3, <2>4, <2>5, <2>6 DEF Running
<1> QED  BY <1>1, <1>2 DEF Reducing

LEMMA KeepReductions ==
    ASSUME ReductionOK, UNCHANGED <<answer, results, up, down, switch, tenant, late>>
    PROVE  ReductionOK'
<1> SUFFICES ASSUME NEW j \in Jobs, Alone(j)'
             PROVE  Reducing(j)'
  BY DEF ReductionOK
<1>1. Reducing(j)
  BY DEF ReductionOK, Alone
<1>2. SameReduction(j)
  BY DEF SameReduction, switch
<1> QED  BY <1>1, <1>2, KeepReducing

\* Jobs that have met in the aggregators have met for good.
LEMMA KeepResults ==
    ASSUME ResultsOwn, results' = results, \A k \in Jobs : late[k] \subseteq late'[k]
    PROVE  ResultsOwn'
<1>1. ASSUME NEW j \in Jobs, Undisturbed(j)'
      PROVE  Undisturbed(j)
  BY <1>1 DEF Undisturbed
<1> QED  BY <1>1 DEF ResultsOwn

LEMMA KeepHosts ==
    ASSUME HostsOK, UNCHANGED <<answer, exited, ctx, results, up, down>>
    PROVE  HostsOK'
BY DEF HostsOK, Idle

LEMMA KeepLinks ==
    ASSUME LinksOK, UNCHANGED <<answer, up, recirc>>
    PROVE  LinksOK'
BY DEF LinksOK

LEMMA KeepControl ==
    ASSUME ControlOK, UNCHANGED <<answer, exited, rpc, mem_free, entries>>
    PROVE  ControlOK'
BY DEF ControlOK, Live, Built

LEMMA KeepTenant ==
    ASSUME TenantOK, UNCHANGED <<answer, exited, rpc, tenant, late, bitmaps>>
    PROVE  TenantOK'
BY DEF TenantOK, Live, Clean

LEMMA KeepTraffic ==
    ASSUME TrafficOK, UNCHANGED <<tenant, late>>,
           \A k \in Jobs : Unfinished(k)' => Unfinished(k)
    PROVE  TrafficOK'
BY DEF TrafficOK, Present

LEMMA KeepUnfinished ==
    ASSUME UNCHANGED <<answer, results, up, recirc>>
    PROVE  \A k \in Jobs : Unfinished(k)' = Unfinished(k)
BY DEF Unfinished

LEMMA KeepVersions ==
    ASSUME VersionsOK, UNCHANGED <<answer, bitmaps, tenant, late>>
    PROVE  VersionsOK'
BY DEF VersionsOK, Present

\* An answer that is given does not disturb the versions, which are those of groups.
LEMMA AnswerVersions ==
    ASSUME TypeOK, VersionsOK, UNCHANGED <<bitmaps, tenant, late>>,
           NEW j \in Jobs, answer[j] = NoAnswer,
           \A k \in Jobs : k # j => answer'[k] = answer[k]
    PROVE  VersionsOK'
<1> SUFFICES ASSUME NEW a \in AggAddrs, NEW k \in Jobs, Present(k),
                    bitmaps[a].version[1] = answer[k]
             PROVE  answer'[k] = answer[k]
  BY DEF VersionsOK, Present
<1>1. bitmaps[a].version[1] \in Ids \cup {0}
  BY DEF TypeOK
<1>2. bitmaps[a].version[1] # NoAnswer
  BY <1>1, IdsNat DEF NoAnswer
<1> QED  BY <1>2

\* Where a job is alone, only its own packets are on the way to the aggregators.
LEMMA OwnTraffic ==
    ASSUME TrafficOK, NEW j \in Jobs, tenant = j, late[j] = {}, NEW k \in Jobs, Unfinished(k)
    PROVE  k = j
BY DEF TrafficOK, Present

-----------------------------------------------------------------------------
(* The initial state and the controller. *)

LEMMA InitIInv ==
    ASSUME Init
    PROVE  IInv
<1> USE DEF Init
<1>0. /\ IsFiniteSet(Ranks) /\ NPkts \in Nat /\ Ids \subseteq Nat \ {0}
      /\ Cardinality(Jobs) \in Nat
  BY LifecycleAssumption, IdsNat
<1>1. EmptyBag \in Words
  BY DEF EmptyBag, SetToBag, Words
<1>2. TypeOK
  <2>1. free_ids \in Seq(Ids)
    <3>1. free_ids \in [1 .. Cardinality(Jobs) -> Ids]
      BY DEF Ids
    <3> QED  BY <1>0, <3>1
  <2>2. entries \in [Ids -> SUBSET Tables] /\ mem_free \in BOOLEAN
    OBVIOUS
  <2>3. /\ answer \in [Jobs -> Ids \cup {0, NoAnswer}]
        /\ ctx \in [Jobs -> [Ranks -> Ids \cup {0, NoAnswer}]]
        /\ exited \in [Jobs -> SUBSET Ranks]
    OBVIOUS
  <2>4. /\ results \in [Jobs -> [Ranks -> Seq(Words \X Words)]]
        /\ up \in [Jobs -> [Ranks -> Seq(Packets)]]
        /\ down \in [Jobs -> [Ranks -> Seq(Responses)]]
        /\ recirc \in Seq(Entries)
    BY EmptySeq
  <2>5. /\ bitmaps \in [AggAddrs -> [version : (Ids \cup {0}) \X Nat, bitmap : SUBSET Ranks]]
        /\ aggregator_array \in [AggAddrs -> [agg0 : Words, agg1 : Words]]
        /\ tenant \in Jobs \cup {0} /\ late \in [Jobs -> SUBSET Jobs]
    BY <1>1 DEF NoVersion
  <2> QED  BY <2>1, <2>2, <2>3, <2>4, <2>5 DEF TypeOK
<1>3. \A j \in Jobs : answer[j] = NoAnswer /\ ~Live(j)
  BY DEF Live, NoAnswer
<1>4. ControlOK /\ ReductionOK
  BY <1>3 DEF ControlOK, ReductionOK, Alone, NoAnswer
<1>5. HostsOK
  <2>1. \A j \in Jobs : ~(answer[j] > 0) /\ exited[j] = {}
    BY <1>3 DEF NoAnswer
  <2>2. \A j \in Jobs, r \in Ranks : Idle(j, r) /\ ctx[j][r] = NoAnswer /\ Len(results[j][r]) = 0
    BY DEF Idle
  <2> QED  BY <1>0, <2>1, <2>2 DEF HostsOK
<1>6. LinksOK /\ TenantOK
  BY <1>3 DEF LinksOK, TenantOK
<1>7. ResultsOwn
  BY DEF ResultsOwn
<1>8. TrafficOK
  <2>1. \A k \in Jobs : ~Unfinished(k)
    BY <1>3 DEF Unfinished, NoAnswer
  <2> QED  BY <2>1 DEF TrafficOK
<1>9. VersionsOK
  BY DEF VersionsOK, NoVersion
<1> QED  BY <1>2, <1>4, <1>5, <1>6, <1>7, <1>8, <1>9 DEF IInv

LEMMA CreateGroupStep ==
    ASSUME IInv, NEW j \in Jobs, CreateGroupRpc(j)
    PROVE  IInv'
<1> USE DEF IInv
<1>0. /\ UNCHANGED <<entries, ctx, results, exited, up, down, recirc, bitmaps, aggregator_array,
                     tenant, late>>
      /\ answer[j] = NoAnswer /\ rpc = NoRpc
  BY DEF CreateGroupRpc, hosts, switch, history
<1>1. ResultsOwn'
  BY <1>0, KeepResults
<1>2. CASE CanFit /\ free_ids # <<>>
  <2>1. /\ rpc' = [job |-> j, group |-> Head(free_ids), todo |-> CreateSteps]
        /\ free_ids' = Tail(free_ids) /\ mem_free' = FALSE /\ answer' = answer
    BY <1>2 DEF CreateGroupRpc
  <2>2. Head(free_ids) \in Ids /\ Tail(free_ids) \in Seq(Ids)
    BY <1>2, TailQueue DEF TypeOK
  <2>3. rpc' \in Requests
    BY <2>1, <2>2, StepsType DEF Requests
  <2>4. TypeOK'
    BY <1>0, <2>1, <2>2, <2>3 DEF TypeOK
  <2>5. \A k \in Jobs : ~Live(k) /\ ~Live(k)'
    BY <1>0, <1>2, <2>1 DEF ControlOK, CanFit, Live
  <2>6. CreateSteps # <<>> /\ CreateSteps \in CreateTodos /\ Len(CreateSteps) = 4
        /\ CreateSteps # Tail(CreateSteps) /\ CreateSteps # Tail(Tail(CreateSteps))
    BY DEF CreateSteps, CreateTodos
  <2>7. ControlOK'
    BY <1>0, <2>1, <2>5, <2>6 DEF ControlOK, Built
  <2>8. TenantOK'
    BY <2>1, <2>5, <2>6 DEF TenantOK
  <2>9. HostsOK' /\ LinksOK'
    BY <1>0, <2>1, KeepHosts, KeepLinks
  <2>10. TrafficOK' /\ VersionsOK'
    BY <1>0, <2>1, KeepUnfinished, KeepTraffic, KeepVersions
  <2>11. ReductionOK'
    BY <1>0, <2>1, KeepReductions DEF switch
  <2> QED  BY <1>1, <2>4, <2>7, <2>8, <2>9, <2>10, <2>11
<1>3. CASE ~(CanFit /\ free_ids # <<>>)
  <2>1. UNCHANGED <<free_ids, mem_free, rpc>> /\ answer' = [answer EXCEPT ![j] = 0]
    BY <1>3 DEF CreateGroupRpc
  <2>2. answer'[j] = 0 /\ \A k \in Jobs : k # j => answer'[k] = answer[k]
    BY <2>1 DEF TypeOK
  <2>3. TypeOK'
    BY <1>0, <2>1 DEF TypeOK
  <2>4. ~Live(j) /\ ~Live(j)' /\ \A k \in Jobs : Live(k)' => k # j /\ Live(k)
    BY <1>0, <2>2 DEF Live, NoAnswer
  <2>5. ControlOK' /\ TenantOK'
    BY <1>0, <2>1, <2>2, <2>4 DEF ControlOK, TenantOK
  <2>6. ASSUME NEW k \in Jobs, Alone(k)'
        PROVE  Reducing(k)'
    <3>1. Alone(k) /\ k # j
      BY <1>0, <2>2, <2>6 DEF Alone
    <3>2. SameReduction(k)
      BY <1>0, <2>2, <3>1 DEF SameReduction
    <3> QED  BY <3>1, <3>2, KeepReducing DEF ReductionOK
  <2>7. HostsOK'
    <3>1. answer[j] <= 0 /\ ~(answer'[j] > 0) /\ answer'[j] # NoAnswer
      BY <1>0, <2>2 DEF NoAnswer
    <3>2. \A k \in Jobs, r \in Ranks : Idle(k, r)' = Idle(k, r)
      BY <1>0 DEF Idle
    <3> QED  BY <1>0, <2>2, <3>1, <3>2 DEF HostsOK
  <2>8. LinksOK'
    <3>1. \A r \in Ranks : up[j][r] = <<>>
      BY <1>0 DEF HostsOK, Idle, NoAnswer
    <3>2. \A i \in DOMAIN recirc : recirc[i].pkt.job \in Jobs
      BY RecircType
    <3>3. \A i \in DOMAIN recirc : recirc[i].pkt.job # j
      BY <1>0 DEF LinksOK, NoAnswer
    <3> QED  BY <1>0, <2>2, <3>1, <3>2, <3>3 DEF LinksOK
  <2>9. VersionsOK'
    BY <1>0, <2>2, AnswerVersions
  <2>10. TrafficOK'
    <3>1. ASSUME NEW k \in Jobs, Unfinished(k)'
          PROVE  Unfinished(k)
      BY <1>0, <2>2, <3>1 DEF Unfinished
    <3> QED  BY <1>0, <3>1, KeepTraffic
  <2> QED  BY <1>1, <2>3, <2>5, <2>6, <2>7, <2>8, <2>9, <2>10 DEF ReductionOK
<1> QED  BY <1>2, <1>3

LEMMA RpcStepStep ==
    ASSUME IInv, RpcStep
    PROVE  IInv'
<1> USE DEF IInv
<1> DEFINE g == rpc.group
           step == Head(rpc.todo)
<1>0. /\ UNCHANGED <<answer, ctx, results, exited, up, down, recirc, aggregator_array>>
      /\ rpc.todo # <<>>
      /\ IF step[1] = "reset" THEN Record(rpc.job) ELSE tenant' = tenant /\ late' = late
      /\ rpc' = [rpc EXCEPT !.todo = Tail(@)]
      /\ entries' = [entries EXCEPT ![g] = CASE step[1] = "add" -> @ \cup {step[2]}
                                             [] step[1] = "delete" -> @ \ {step[2]}
                                             [] OTHER -> @]
      /\ mem_free' = (mem_free \/ step[1] = "free")
      /\ free_ids' = IF step[1] = "free" THEN Append(free_ids, g) ELSE free_ids
      /\ bitmaps' = IF step[1] = "reset"
                       THEN [a \in AggAddrs |-> [version |-> NoVersion, bitmap |-> {}]]
                       ELSE bitmaps
  BY DEF RpcStep, hosts, history
<1>1. rpc \in Requests
  BY <1>0 DEF TypeOK, NoRpc
<1>2. /\ rpc # NoRpc /\ rpc.job \in Jobs /\ g \in Ids /\ rpc.todo \in Seq(RpcSteps)
  BY <1>1, SomeRequest
<1>3. /\ rpc'.job = rpc.job /\ rpc'.group = g /\ rpc'.todo = Tail(rpc.todo)
      /\ rpc' \in Requests /\ rpc' # NoRpc
  <2>1. Tail(rpc.todo) \in Seq(RpcSteps)
    BY <1>0, <1>2, TailQueue
  <2>2. rpc' \in Requests /\ rpc'.job = rpc.job /\ rpc'.group = g /\ rpc'.todo = Tail(rpc.todo)
    BY <1>0, <1>1, <2>1 DEF Requests
  <2> QED  BY <2>2, SomeRequest
<1>4. \A k \in Jobs : ~Live(k) /\ ~Live(k)'
  BY <1>0, <1>2 DEF ControlOK, Live
<1> HIDE DEF g, step
<1>5. HostsOK' /\ LinksOK' /\ \A k \in Jobs : Unfinished(k)' = Unfinished(k)
  BY <1>0, KeepHosts, KeepLinks, KeepUnfinished
<1>9. ASSUME step[1] # "reset"
      PROVE  ResultsOwn' /\ TrafficOK' /\ VersionsOK' /\ ReductionOK'
  <2>1. UNCHANGED <<answer, results, up, down, recirc, bitmaps, aggregator_array, tenant, late>>
    BY <1>0, <1>9
  <2> QED  BY <1>5, <2>1, KeepResults, KeepTraffic, KeepVersions, KeepReductions DEF switch
<1>6. \/ rpc.todo \in CreateTodos /\ answer[rpc.job] = NoAnswer /\ ~mem_free /\ Built
      \/ rpc.todo \in DestroyTodos /\ answer[rpc.job] # NoAnswer
  BY <1>2 DEF ControlOK
<1>7. CASE rpc.todo \in CreateTodos /\ answer[rpc.job] = NoAnswer /\ ~mem_free /\ Built
  <2>1. /\ Tail(rpc.todo) \in CreateTodos
        /\ rpc.todo = CreateSteps => step = <<"add", "recirculate">> /\ Tail(rpc.todo) = Tail(CreateSteps)
        /\ rpc.todo = Tail(CreateSteps) => step = <<"add", "metadata">> /\ Tail(rpc.todo) = Tail(Tail(CreateSteps))
        /\ rpc.todo = Tail(Tail(CreateSteps)) => step = <<"add", "mgid">> /\ Len(Tail(rpc.todo)) = 1
        /\ Len(rpc.todo) <= 1 => step = <<"reset", "bitmap">> /\ Tail(rpc.todo) = <<>>
        /\ rpc.todo \in {CreateSteps, Tail(CreateSteps), Tail(Tail(CreateSteps))} \/ Len(rpc.todo) <= 1
    BY <1>0, <1>7, CreateTodoStep DEF step
  <2>2. Tail(CreateSteps) # Tail(Tail(CreateSteps)) /\ Len(Tail(CreateSteps)) = 3 /\ Len(Tail(Tail(CreateSteps))) = 2
        /\ Tail(CreateSteps) # <<>> /\ Tail(Tail(CreateSteps)) # <<>> /\ Len(<<>>) = 0
    BY DEF CreateSteps
  <2>3. /\ entries'[g] \in SUBSET Tables
        /\ entries' \in [Ids -> SUBSET Tables]
        /\ mem_free' = FALSE /\ free_ids' = free_ids
        /\ step[1] = "add" => entries'[g] = entries[g] \cup {step[2]}
        /\ step[1] = "reset" => entries'[g] = entries[g]
    <3>1. step \in {<<"add", "recirculate">>, <<"add", "metadata">>, <<"add", "mgid">>, <<"reset", "bitmap">>}
      BY <2>1
    <3>2. entries[g] \in SUBSET Tables /\ entries \in [Ids -> SUBSET Tables] /\ mem_free = FALSE
      BY <1>2, <1>7 DEF TypeOK
    <3>6. step[1] \in {"add", "reset"}
      BY <3>1
    <3>7. step[1] # "free"
      BY <3>6
    <3>3. mem_free' = FALSE /\ free_ids' = free_ids
      BY <1>0, <3>2, <3>7
    <3>4. CASE step[1] = "add"
      <4>1. step[2] \in Tables /\ entries' = [entries EXCEPT ![g] = @ \cup {step[2]}]
        BY <1>0, <3>1, <3>4 DEF Tables
      <4> QED  BY <1>2, <3>2, <3>3, <3>4, <4>1
    <3>5. CASE step = <<"reset", "bitmap">>
      <4>1. entries' = [entries EXCEPT ![g] = @]
        BY <1>0, <3>5
      <4> QED  BY <1>2, <3>2, <3>3, <3>5, <4>1
    <3>8. step[1] = "add" \/ step = <<"reset", "bitmap">>
      BY <3>1
    <3> QED  BY <3>4, <3>5, <3>8
  <2>4. Built'
    <3>1. CASE rpc.todo = CreateSteps
      BY <1>3, <2>1, <2>2, <2>3, <3>1 DEF Built
    <3>2. CASE rpc.todo = Tail(CreateSteps)
      <4>1. {"recirculate"} \subseteq entries[g] /\ entries'[g] = entries[g] \cup {"metadata"}
        BY <1>7, <2>1, <2>3, <3>2 DEF Built, g
      <4>2. Tail(rpc.todo) # Tail(CreateSteps) /\ ~(Len(Tail(rpc.todo)) <= 1)
        <5>1. Tail(rpc.todo) = Tail(Tail(CreateSteps))
          BY <2>1, <3>2
        <5>2. Len(Tail(rpc.todo)) = 2
          BY <2>2, <5>1, Zenon
        <5>3. Tail(rpc.todo) # Tail(CreateSteps)
          BY <2>2, <5>1, Zenon
        <5>4. ~(Len(Tail(rpc.todo)) <= 1)
          BY <5>2
        <5> QED  BY <5>3, <5>4, Zenon
      <4> QED  BY <1>3, <4>1, <4>2 DEF Built
    <3>3. CASE rpc.todo = Tail(Tail(CreateSteps))
      <4>1. {"recirculate", "metadata"} \subseteq entries[g] /\ entries'[g] = entries[g] \cup {"mgid"}
        BY <1>7, <2>1, <2>3, <3>3 DEF Built, g
      <4>2. Tables \subseteq entries'[g]
        BY <4>1 DEF Tables
      <4>3. Tail(rpc.todo) # Tail(CreateSteps) /\ Tail(rpc.todo) # Tail(Tail(CreateSteps))
        <5>1. Len(Tail(rpc.todo)) = 1
          BY <2>1, <3>3, Zenon
        <5>2. 1 # 3 /\ 1 # 2
          OBVIOUS
        <5>3. Tail(rpc.todo) # Tail(CreateSteps)
          BY <2>2, <5>1, <5>2, Zenon
        <5>4. Tail(rpc.todo) # Tail(Tail(CreateSteps))
          BY <2>2, <5>1, <5>2, Zenon
        <5> QED  BY <5>3, <5>4
      <4> QED  BY <1>3, <4>2, <4>3 DEF Built
    <3>4. CASE Len(rpc.todo) <= 1
      BY <1>3, <1>7, <2>1, <2>2, <2>3, <3>4 DEF Built, g
    <3> QED  BY <2>1, <3>1, <3>2, <3>3, <3>4
  <2>5. ControlOK'
    BY <1>0, <1>3, <1>4, <1>7, <2>1, <2>3, <2>4 DEF ControlOK
  <2>6. CASE step[1] = "reset"
    <3> DEFINE left == {k \in Jobs \ {rpc.job} : Unfinished(k)}
    <3>1. /\ bitmaps' = [a \in AggAddrs |-> [version |-> NoVersion, bitmap |-> {}]]
          /\ tenant' = rpc.job /\ late' = [late EXCEPT ![rpc.job] = @ \cup left]
      BY <1>0, <2>6 DEF Record
    <3> HIDE DEF left
    <3>2. /\ left \subseteq Jobs /\ \A k \in Jobs : Unfinished(k) => k = rpc.job \/ k \in left
      BY DEF left
    <3>3. late' \in [Jobs -> SUBSET Jobs] /\ late'[rpc.job] = late[rpc.job] \cup left
          /\ \A k \in Jobs : late[k] \subseteq late'[k]
      BY <1>2, <3>1, <3>2 DEF TypeOK
    <3>4. Clean' /\ VersionsOK'
      BY <3>1 DEF Clean, VersionsOK, NoVersion
    <3>5. TenantOK'
      BY <1>3, <1>4, <3>1, <3>4 DEF TenantOK
    <3>6. TypeOK'
      <4>1. bitmaps' \in [AggAddrs -> [version : (Ids \cup {0}) \X Nat, bitmap : SUBSET Ranks]]
        BY <3>1 DEF NoVersion
      <4>2. tenant' \in Jobs \cup {0} /\ late' \in [Jobs -> SUBSET Jobs]
        BY <1>2, <3>1, <3>3
      <4>3. free_ids' \in Seq(Ids) /\ mem_free' \in BOOLEAN
        BY <2>3 DEF TypeOK
      <4> QED  BY <1>0, <1>3, <2>3, <4>1, <4>2, <4>3 DEF TypeOK
    <3>7. TrafficOK'
      <4>1. tenant' # 0
        BY <1>2, <3>1, JobsNat
      <4> QED  BY <1>5, <3>1, <3>2, <3>3, <4>1 DEF TrafficOK, Present
    <3>8. ReductionOK'
      BY <1>0, <1>7, <3>1 DEF ReductionOK, Alone, NoAnswer
    <3>9. ResultsOwn'
      BY <1>0, <3>3, KeepResults
    <3> QED  BY <1>5, <2>5, <3>4, <3>5, <3>6, <3>7, <3>8, <3>9
  <2>7. CASE step[1] # "reset"
    <3>4. ~(Len(rpc.todo) <= 1)
      BY <2>1, <2>7
    <3>5. rpc.todo = Tail(Tail(CreateSteps)) => Tail(rpc.todo) # <<>>
      <4>1. rpc.todo = Tail(Tail(CreateSteps)) => Len(Tail(rpc.todo)) = 1
        BY <2>1
      <4>2. Len(<<>>) # 1
        BY <2>2
      <4> QED  BY <4>1, <4>2, Zenon
    <3>1. Tail(rpc.todo) # <<>>
      BY <2>1, <2>2, <3>4, <3>5
    <3>2. TenantOK'
      BY <1>3, <1>4, <3>1 DEF TenantOK
    <3>3. TypeOK'
      BY <1>0, <1>3, <2>3, <2>7 DEF TypeOK
    <3> QED  BY <1>5, <1>9, <2>5, <2>7, <3>2, <3>3
  <2> QED  BY <2>6, <2>7
<1>8. CASE rpc.todo \in DestroyTodos /\ answer[rpc.job] # NoAnswer
  <2>1. /\ Tail(rpc.todo) \in DestroyTodos
        /\ step \in {<<"delete", "mgid">>, <<"delete", "metadata">>,
                     <<"delete", "recirculate">>, <<"free", "memory">>}
    BY <1>0, <1>8, DestroyTodoStep DEF step
  <2>2. ControlOK' /\ TenantOK'
    BY <1>0, <1>3, <1>4, <1>8, <2>1 DEF ControlOK, TenantOK
  <2>8. step[1] # "reset"
    BY <2>1
  <2>3. bitmaps' = bitmaps /\ tenant' = tenant /\ late' = late
    BY <1>0, <2>8
  <2>4. mem_free' \in BOOLEAN
    BY <1>0
  <2>5. free_ids' \in Seq(Ids)
    <3>1. free_ids \in Seq(Ids)
      BY DEF TypeOK
    <3> QED  BY <1>0, <1>2, <3>1, AppendQueue
  <2>6. entries' \in [Ids -> SUBSET Tables]
    <3>1. entries[g] \in SUBSET Tables /\ entries \in [Ids -> SUBSET Tables]
      BY <1>2 DEF TypeOK
    <3>2. \/ entries' = [entries EXCEPT ![g] = @ \ {step[2]}]
          \/ entries' = [entries EXCEPT ![g] = @]
      <4>1. step[1] \in {"delete", "free"}
        BY <2>1
      <4>2. CASE step[1] = "delete"
        BY <1>0, <4>2
      <4>3. CASE step[1] = "free"
        BY <1>0, <4>3
      <4> QED  BY <4>1, <4>2, <4>3
    <3> QED  BY <1>2, <3>1, <3>2
  <2>7. TypeOK'
    BY <1>0, <1>3, <2>3, <2>4, <2>5, <2>6 DEF TypeOK
  <2> QED  BY <1>5, <1>9, <2>2, <2>7, <2>8
<1> QED  BY <1>6, <1>7, <1>8

\* Before its answer a job that is alone in the aggregators has nothing on the way
\* to them, and nobody else has.
LEMMA AllQuiet ==
    ASSUME TypeOK, HostsOK, LinksOK, TrafficOK,
           NEW j \in Jobs, tenant = j, late[j] = {}, answer[j] = NoAnswer
    PROVE  recirc = <<>> /\ \A r \in Ranks : up[j][r] = <<>>
<1>1. \A k \in Jobs : Unfinished(k) => k = j
  BY OwnTraffic
<1>2. ASSUME NEW i \in DOMAIN recirc
      PROVE  FALSE
  <2>1. recirc[i].pkt.job \in Jobs /\ answer[recirc[i].pkt.job] > 0
    BY RecircType DEF LinksOK
  <2>2. Unfinished(recirc[i].pkt.job)
    BY DEF Unfinished
  <2> QED  BY <1>1, <2>1, <2>2 DEF NoAnswer
<1>3. recirc = <<>>
  <2>1. recirc \in Seq(Entries)
    BY DEF TypeOK
  <2> QED  BY <1>2, <2>1, NoElements
<1>4. \A r \in Ranks : up[j][r] = <<>>
  BY DEF HostsOK, Idle, NoAnswer
<1> QED  BY <1>3, <1>4

LEMMA RpcReturnStep ==
    ASSUME IInv, RpcReturn
    PROVE  IInv'
<1> USE DEF IInv
<1>0. /\ UNCHANGED <<free_ids, mem_free, entries, ctx, results, exited, up, down,
                     recirc, bitmaps, aggregator_array, tenant, late>>
      /\ rpc # NoRpc /\ rpc.todo = <<>> /\ rpc' = NoRpc
      /\ answer' = IF answer[rpc.job] = NoAnswer
                   THEN [answer EXCEPT ![rpc.job] = rpc.group] ELSE answer
  BY DEF RpcReturn, Complete, hosts, switch, history
<1>1. rpc.job \in Jobs /\ rpc.group \in Ids
  BY <1>0, SomeRequest DEF TypeOK
<1>2. \A k \in Jobs : ~Live(k)
  BY <1>0 DEF ControlOK
<1>3. ResultsOwn'
  BY <1>0, KeepResults
<1>5. CASE answer[rpc.job] # NoAnswer
  <2>1. answer' = answer
    BY <1>0, <1>5
  <2>2. TypeOK' /\ HostsOK' /\ LinksOK'
    BY <1>0, <2>1, KeepHosts, KeepLinks DEF TypeOK
  <2>3. \A k \in Jobs : ~Live(k)'
    BY <1>0, <1>2, <2>1 DEF Live
  <2>4. ControlOK' /\ TenantOK'
    BY <1>0, <2>3 DEF ControlOK, TenantOK
  <2>5. TrafficOK' /\ VersionsOK' /\ ReductionOK'
    BY <1>0, <2>1, KeepUnfinished, KeepTraffic, KeepVersions, KeepReductions DEF switch
  <2> QED  BY <1>3, <2>2, <2>4, <2>5
<1>6. ASSUME NEW j \in Jobs, j = rpc.job, answer[rpc.job] = NoAnswer
      PROVE  IInv'
  <2>1. /\ answer' = [answer EXCEPT ![j] = rpc.group]
        /\ answer'[j] = rpc.group /\ answer'[j] # NoAnswer
        /\ \A k \in Jobs : k # j => answer'[k] = answer[k]
        /\ rpc.group \in Nat /\ rpc.group > 0
    <3>1. rpc.group \in Nat /\ rpc.group # 0
      BY <1>1, IdsNat, Zenon
    <3>2. rpc.group # NoAnswer /\ rpc.group > 0
      BY <3>1 DEF NoAnswer
    <3>3. answer' = [answer EXCEPT ![j] = rpc.group]
      BY <1>0, <1>6
    <3>4. answer'[j] = rpc.group /\ \A k \in Jobs : k # j => answer'[k] = answer[k]
      BY <1>1, <3>3 DEF TypeOK
    <3> QED  BY <3>1, <3>2, <3>3, <3>4
  <2>2. tenant = j /\ (late[j] = {} => Clean)
    BY <1>0, <1>6 DEF TenantOK
  <2>3. /\ exited[j] = {} /\ \A r \in Ranks : Idle(j, r) /\ ctx[j][r] = NoAnswer
    BY <1>1, <1>6 DEF HostsOK, NoAnswer
  <2>4. ~mem_free /\ Tables \subseteq entries[rpc.group]
    BY <1>0, <1>6 DEF ControlOK, Built
  <2>5. j \in Jobs /\ j # 0
    BY JobsNat
  <2>6. \A k \in Jobs : Live(k)' => k = j
    BY <1>0, <1>2, <2>1 DEF Live
  <2>7. ControlOK'
    BY <1>0, <2>1, <2>4, <2>5, <2>6 DEF ControlOK
  <2>8. TypeOK'
    BY <1>0, <1>1, <2>1 DEF TypeOK
  <2>9. HostsOK'
    <3>1. \A k \in Jobs, r \in Ranks : Idle(k, r)' = Idle(k, r)
      BY <1>0 DEF Idle
    <3>3. ~(answer'[j] <= 0)
      BY <2>1
    <3> QED  BY <1>0, <2>1, <2>3, <2>5, <3>1, <3>3 DEF HostsOK
  <2>10. LinksOK'
    <3>1. \A r \in Ranks : up[j][r] = <<>>
      BY <2>3 DEF Idle
    <3>2. \A i \in DOMAIN recirc : recirc[i].pkt.job \in Jobs /\ recirc[i].pkt.job # j
      BY <1>6, RecircType DEF LinksOK, NoAnswer
    <3> QED  BY <1>0, <2>1, <3>1, <3>2 DEF LinksOK
  <2>11. TenantOK'
    BY <1>0, <2>2, <2>6 DEF TenantOK
  <2>12. TrafficOK'
    <3>1. ASSUME NEW k \in Jobs, Unfinished(k)', k # j
          PROVE  Unfinished(k)
      BY <1>0, <2>1, <3>1 DEF Unfinished
    <3> QED  BY <1>0, <2>2, <2>5, <3>1 DEF TrafficOK, Present
  <2>13. VersionsOK'
    BY <1>0, <1>6, <2>1, AnswerVersions
  <2>14. ASSUME NEW k \in Jobs, Alone(k)'
         PROVE  Reducing(k)'
    <3>1. k = j /\ late[j] = {}
      BY <1>0, <2>2, <2>14 DEF Alone
    <3>2. Clean /\ recirc = <<>> /\ \A r \in Ranks : up[j][r] = <<>>
      BY <1>6, <2>2, <3>1, AllQuiet
    <3>3. Fresh(j)'
      BY <1>0, <2>3, <2>5, <3>2 DEF Fresh, Clean, Idle
    <3> QED  BY <3>1, <3>3 DEF Reducing
  <2> QED  BY <1>3, <2>7, <2>8, <2>9, <2>10, <2>11, <2>12, <2>13, <2>14 DEF ReductionOK
<1> QED  BY <1>1, <1>5, <1>6

LEMMA AllocStep ==
    ASSUME IInv, NEW j \in Jobs, NEW r \in Ranks, alloc_group_ctx(j, r)
    PROVE  IInv'
<1> USE DEF IInv
<1>0. /\ UNCHANGED <<free_ids, mem_free, entries, rpc, answer, results, exited, up, down,
                     recirc, bitmaps, aggregator_array, tenant, late>>
      /\ ctx' = [ctx EXCEPT ![j][r] = answer[j]]
  BY DEF alloc_group_ctx, control, switch, history
<1>1. TypeOK'
  BY <1>0 DEF TypeOK
<1>2. \A k \in Jobs, s \in Ranks : ctx'[k][s] \in {ctx[k][s], answer[k]}
  BY <1>0 DEF TypeOK
<1>3. HostsOK'
  <2>1. \A k \in Jobs, s \in Ranks : Idle(k, s)' = Idle(k, s)
    BY <1>0 DEF Idle
  <2> QED  BY <1>0, <1>2, <2>1 DEF HostsOK
<1>4. ResultsOwn' /\ LinksOK' /\ ControlOK' /\ TenantOK'
  BY <1>0, KeepResults, KeepLinks, KeepControl, KeepTenant
<1>5. TrafficOK' /\ VersionsOK' /\ ReductionOK'
  BY <1>0, KeepUnfinished, KeepTraffic, KeepVersions, KeepReductions DEF switch
<1> QED  BY <1>1, <1>3, <1>4, <1>5

\* No response is new.
FewerDown ==
    /\ down' \in [Jobs -> [Ranks -> Seq(Responses)]]
    /\ \A k \in Jobs, s \in Ranks : \A i \in DOMAIN down'[k][s] :
         \E h \in DOMAIN down[k][s] : down'[k][s][i] = down[k][s][h]

\* A response the more or the less does not matter to the reduction.
LEMMA LessDown ==
    ASSUME TypeOK, NEW j \in Jobs, FewerDown, Reducing(j),
           UNCHANGED <<answer, results, up, switch>>
    PROVE  Reducing(j)'
<1>0. UNCHANGED <<answer, results, up, recirc, bitmaps, aggregator_array>>
  BY DEF switch
<1>1. /\ \A s \in Ranks : \A i \in DOMAIN down'[j][s] :
           \E h \in DOMAIN down[j][s] : down'[j][s][i] = down[j][s][h]
  BY DEF FewerDown
<1>3. CASE Fresh(j)
  <2>1. ASSUME NEW s \in Ranks
        PROVE  down'[j][s] = <<>>
    <3>1. down'[j][s] \in Seq(Responses) /\ down[j][s] = <<>>
      BY <1>3 DEF Fresh, FewerDown
    <3>2. \A i \in DOMAIN down'[j][s] : FALSE
      BY <1>1, <3>1
    <3> QED  BY <3>1, <3>2, NoElements
  <2>2. Fresh(j)'
    BY <1>0, <1>3, <2>1 DEF Fresh, Clean
  <2> QED  BY <2>2 DEF Reducing
<1>4. ASSUME NEW M \in Psns, Running(j, M)
      PROVE  Running(j, M)'
  <2>1. Seen(M)' = Seen(M)
    BY <1>0 DEF Seen
  <2>2. CellsOK(j, M)'
    BY <1>0, <1>4, <2>1 DEF Running, CellsOK
  <2>3. WindowOK(j, M)'
    BY <1>0, <1>4, <2>1 DEF Running, WindowOK
  <2>4. UpOK(j, M)'
    BY <1>0, <1>4, <2>1 DEF Running, UpOK
  <2>5. RecircOK(j, M)'
    BY <1>0, <1>4, <2>1 DEF Running, RecircOK, Answerable
  <2>6. DownOK(j, M)'
    <3>1. DownOK(j, M) /\ recirc' = recirc
      BY <1>0, <1>4 DEF Running
    <3> QED  BY <1>1, <2>1, <3>1 DEF DownOK
  <2> QED  BY <2>2, <2>3, <2>4, <2>5, <2>6 DEF Running
<1> QED  BY <1>3, <1>4 DEF Reducing

\* Neither do the others.
LEMMA LessDownElsewhere ==
    ASSUME IInv, FewerDown, UNCHANGED <<answer, results, up, switch, tenant, late>>
    PROVE  /\ LinksOK' /\ TrafficOK' /\ VersionsOK' /\ ReductionOK' /\ ResultsOwn'
<1> USE DEF IInv
<1>1. UNCHANGED <<answer, results, up, recirc, bitmaps, tenant, late>>
  BY DEF switch
<1>2. LinksOK' /\ TrafficOK' /\ VersionsOK' /\ ResultsOwn'
  BY <1>1, KeepLinks, KeepUnfinished, KeepTraffic, KeepVersions, KeepResults
<1>3. ASSUME NEW k \in Jobs, Alone(k)'
      PROVE  Reducing(k)'
  <2>1. Reducing(k)
    BY <1>1, <1>3 DEF ReductionOK, Alone
  <2> QED  BY <2>1, LessDown
<1> QED  BY <1>2, <1>3 DEF ReductionOK

\* Rank 0 exits when its own calls have returned.
LEMMA ExitStep ==
    ASSUME IInv, NEW j \in Jobs, NEW r \in Ranks, exit_handler(j, r)
    PROVE  IInv'
<1> USE DEF IInv
<1>0. /\ UNCHANGED <<free_ids, mem_free, entries, answer, ctx, results, up,
                     recirc, bitmaps, aggregator_array, tenant, late>>
      /\ exited' = [exited EXCEPT ![j] = @ \cup {r}]
      /\ down' = [down EXCEPT ![j][r] = <<>>]
      /\ r \notin exited[j]
      /\ MayExit(j, r) \/ ctx[j][r] = 0
  BY DEF exit_handler, switch, history
<1>1. /\ exited'[j] = exited[j] \cup {r} /\ \A k \in Jobs : k # j => exited'[k] = exited[k]
  BY <1>0 DEF TypeOK
<1>2. answer[j] # NoAnswer /\ (answer[j] > 0 => ctx[j][r] > 0 /\ Len(results[j][r]) = NPkts)
  <2>1. ctx[j][r] \in {NoAnswer, answer[j]}
    BY DEF HostsOK
  <2>2. CASE MayExit(j, r)
    <3>1. ctx[j][r] > 0 /\ Len(results[j][r]) = NPkts
      BY <2>2 DEF MayExit
    <3>2. answer[j] = ctx[j][r]
      BY <2>1, <3>1 DEF NoAnswer
    <3>3. answer[j] # NoAnswer
      BY <3>1, <3>2 DEF NoAnswer
    <3> QED  BY <3>1, <3>3
  <2>3. CASE ctx[j][r] = 0
    BY <2>1, <2>3 DEF NoAnswer
  <2> QED  BY <1>0, <2>2, <2>3
<1>9. \A k \in Jobs, s \in Ranks : down'[k][s] = down[k][s] \/ down'[k][s] = <<>>
  BY <1>0 DEF TypeOK
<1>10. FewerDown
  <2>1. down' \in [Jobs -> [Ranks -> Seq(Responses)]]
    <3>1. <<>> \in Seq(Responses)
      BY EmptySeq
    <3> QED  BY <1>0, <3>1 DEF TypeOK
  <2>2. \A i \in DOMAIN <<>> : FALSE
    OBVIOUS
  <2> QED  BY <1>9, <2>1, <2>2 DEF FewerDown
<1>3. HostsOK'
  <2>1. \A k \in Jobs, s \in Ranks : Idle(k, s) => Idle(k, s)'
    BY <1>0, <1>9 DEF Idle
  <2> QED  BY <1>0, <1>1, <1>2, <2>1 DEF HostsOK
<1>4. LinksOK' /\ TrafficOK' /\ VersionsOK' /\ ReductionOK' /\ ResultsOwn'
  BY <1>0, <1>10, LessDownElsewhere DEF switch
<1>6. exited' \in [Jobs -> SUBSET Ranks] /\ down' \in [Jobs -> [Ranks -> Seq(Responses)]]
  BY <1>0, <1>10 DEF TypeOK, FewerDown
<1>5. \A k \in Jobs : Live(k)' => Live(k)
  BY <1>0, <1>1 DEF Live
<1>7. CASE r = 0 /\ ctx[j][r] > 0
  <2>1. /\ rpc = NoRpc /\ rpc' = [job |-> j, group |-> ctx[j][r], todo |-> DestroySteps]
    BY <1>7 DEF exit_handler
  <2>2. answer[j] = ctx[j][r]
    BY <1>7 DEF HostsOK, NoAnswer
  <2>3. answer[j] > 0 /\ answer[j] \in Ids
    BY <1>7, <2>2, AnswerType
  <2>4. Live(j)
    BY <1>0, <1>7, <2>3 DEF Live
  <2>5. \A k \in Jobs : ~Live(k)'
    <3>1. ~Live(j)'
      BY <1>1, <1>7 DEF Live
    <3> QED  BY <1>5, <2>4, <3>1 DEF ControlOK
  <2>6. rpc' \in Requests
    BY <2>1, <2>2, <2>3, StepsType DEF Requests
  <2>7. rpc'.job = j /\ rpc'.todo = DestroySteps
    BY <2>1
  <2>8. ControlOK'
    BY <1>0, <1>2, <2>5, <2>7 DEF ControlOK, DestroyTodos
  <2>9. TenantOK'
    BY <1>0, <1>2, <2>5, <2>7 DEF TenantOK
  <2>10. TypeOK'
    BY <1>0, <1>6, <2>6 DEF TypeOK
  <2> QED  BY <1>3, <1>4, <2>8, <2>9, <2>10
<1>8. CASE ~(r = 0 /\ ctx[j][r] > 0)
  <2>1. rpc' = rpc
    BY <1>8 DEF exit_handler
  <2>2. TypeOK'
    BY <1>0, <1>6, <2>1 DEF TypeOK
  <2>3. ControlOK'
    BY <1>0, <1>5, <2>1 DEF ControlOK, Built
  <2>4. TenantOK'
    BY <1>0, <1>5, <2>1 DEF TenantOK, Clean
  <2> QED  BY <1>3, <1>4, <2>2, <2>3, <2>4
<1> QED  BY <1>7, <1>8

-----------------------------------------------------------------------------
(* The hosts. *)

\* Whoever has something on its link has, or had, a group.
LEMMA Granted ==
    ASSUME TypeOK, HostsOK, NEW j \in Jobs, NEW r \in Ranks, ~Idle(j, r)
    PROVE  answer[j] > 0
BY AnswerType DEF HostsOK

LEMMA TransmitStep ==
    ASSUME IInv, NEW j \in Jobs, NEW r \in Ranks, Transmit(j, r)
    PROVE  IInv'
<1> USE DEF IInv
<1> DEFINE n == Len(results[j][r])
           pkt == [job |-> j, group |-> ctx[j][r], rank |-> r, psn |-> n]
<1>0. /\ UNCHANGED <<free_ids, mem_free, entries, rpc, answer, ctx, results, exited, down,
                     recirc, bitmaps, aggregator_array, tenant, late>>
      /\ up' = [up EXCEPT ![j][r] = Append(@, pkt)]
      /\ ctx[j][r] > 0 /\ n < NPkts
  BY DEF Transmit, control, hosts, switch, history
<1>1. answer[j] = ctx[j][r] /\ answer[j] > 0 /\ answer[j] \in Ids
  <2>1. answer[j] = ctx[j][r]
    BY <1>0 DEF HostsOK, NoAnswer
  <2> QED  BY <1>0, <2>1, AnswerType
<1>2. Unfinished(j)
  BY <1>0, <1>1 DEF Unfinished
<1>3. n \in Nat /\ n \in Psns
  BY <1>0, ResultsType, LifecycleAssumption DEF Psns
<1>4. pkt \in Packets /\ pkt.psn = n /\ pkt.job = j /\ pkt.rank = r /\ pkt.group = answer[j]
  BY <1>1, <1>3 DEF Packets
<1>5. /\ up[j][r] \in Seq(Packets) /\ up'[j][r] = Append(up[j][r], pkt)
      /\ \A k \in Jobs, s \in Ranks : k # j \/ s # r => up'[k][s] = up[k][s]
      /\ \A k \in Jobs : k # j => up'[k] = up[k]
  BY <1>0, UpType DEF TypeOK
<1> HIDE DEF pkt, n
<1>6. TypeOK'
  <2>1. up'[j][r] \in Seq(Packets)
    BY <1>4, <1>5, AppendQueue
  <2>2. up' \in [Jobs -> [Ranks -> Seq(Packets)]]
    BY <1>0, <1>5, <2>1 DEF TypeOK
  <2> QED  BY <1>0, <2>2 DEF TypeOK
<1>7. /\ \A i \in DOMAIN up'[j][r] :
           \/ i \in DOMAIN up[j][r] /\ up'[j][r][i] = up[j][r][i]
           \/ i \notin DOMAIN up[j][r] /\ up'[j][r][i] = pkt /\ \A k \in DOMAIN up'[j][r] : k <= i
      /\ \A i \in DOMAIN up'[j][r] : i \in Nat
  BY <1>4, <1>5, AppendQueue
<1>8. ResultsOwn' /\ ControlOK' /\ TenantOK' /\ VersionsOK'
  BY <1>0, KeepResults, KeepControl, KeepTenant, KeepVersions
<1>9. TrafficOK'
  <2>1. ASSUME NEW k \in Jobs, Unfinished(k)', k # j
        PROVE  Unfinished(k)
    BY <1>0, <1>5, <2>1 DEF Unfinished
  <2> QED  BY <1>0, <1>2, <2>1, KeepTraffic
<1>10. LinksOK'
  BY <1>0, <1>4, <1>5, <1>7 DEF LinksOK
<1>11. HostsOK'
  <2>1. \A k \in Jobs, s \in Ranks : k # j => (Idle(k, s)' = Idle(k, s))
    BY <1>0, <1>5 DEF Idle
  <2>3. ~(answer[j] <= 0)
    BY <1>1, AnswerType
  <2> QED  BY <1>0, <2>1, <2>3 DEF HostsOK
<1>12. ASSUME NEW k \in Jobs, k # j, Alone(k)'
       PROVE  Reducing(k)'
  <2>1. Reducing(k)
    BY <1>0, <1>12 DEF ReductionOK, Alone
  <2>2. SameReduction(k)
    BY <1>0, <1>5, <1>12 DEF SameReduction
  <2> QED  BY <2>1, <2>2, KeepReducing
<1>15. ASSUME Fresh(j)
       PROVE  Fresh(j)'
  <2>1. n = 0
    BY <1>15 DEF Fresh, n
  <2> QED  BY <1>0, <1>4, <1>5, <1>7, <1>15, <2>1 DEF Fresh, Clean
<1>16. ASSUME NEW M \in Psns, Running(j, M)
       PROVE  Running(j, M)'
  <2>1. Seen(M)' = Seen(M)
    BY <1>0 DEF Seen
  <2>2. CellsOK(j, M)'
    BY <1>0, <1>16, <2>1 DEF Running, CellsOK
  <2>3. WindowOK(j, M)'
    BY <1>0, <1>16, <2>1 DEF Running, WindowOK
  <2>4. RecircOK(j, M)' /\ DownOK(j, M)'
    BY <1>0, <1>16, <2>1 DEF Running, RecircOK, DownOK, Answerable
  <2>5. UpOK(j, M)'
    <3>1. /\ M <= n + 1 /\ (r \in Seen(M) => M <= n)
      BY <1>16 DEF Running, WindowOK, n
    <3>2. \A i \in DOMAIN up[j][r] :
            /\ up[j][r][i].psn <= n /\ M <= up[j][r][i].psn + 1
            /\ r \in Seen(M) => M <= up[j][r][i].psn
            /\ \A k \in DOMAIN up[j][r] : i <= k => up[j][r][i].psn <= up[j][r][k].psn
      BY <1>16 DEF Running, UpOK, n
    <3>3. n' = n
      BY <1>0 DEF n
    <3>4. ASSUME NEW i \in DOMAIN up'[j][r]
          PROVE  /\ up'[j][r][i].psn <= n /\ M <= up'[j][r][i].psn + 1
                 /\ r \in Seen(M) => M <= up'[j][r][i].psn
                 /\ \A k \in DOMAIN up'[j][r] : i <= k => up'[j][r][i].psn <= up'[j][r][k].psn
      <4>1. CASE i \in DOMAIN up[j][r] /\ up'[j][r][i] = up[j][r][i]
        BY <1>4, <1>7, <3>2, <4>1
      <4>2. CASE up'[j][r][i] = pkt /\ \A k \in DOMAIN up'[j][r] : k <= i
        <5>1. \A k \in DOMAIN up'[j][r] : i <= k => k = i
          BY <1>7, <4>2
        <5> QED  BY <1>3, <1>4, <3>1, <4>2, <5>1
      <4> QED  BY <1>7, <4>1, <4>2
    <3>5. \A s \in Ranks : s # r => up'[j][s] = up[j][s]
      BY <1>5
    <3>6. results' = results
      BY <1>0
    <3>7. UpOK(j, M)
      BY <1>16 DEF Running
    <3>8. \A i \in DOMAIN up'[j][r] :
             /\ up'[j][r][i].psn <= Len(results'[j][r]) /\ M <= up'[j][r][i].psn + 1
             /\ r \in Seen(M) => M <= up'[j][r][i].psn
             /\ \A k \in DOMAIN up'[j][r] : i <= k => up'[j][r][i].psn <= up'[j][r][k].psn
      BY <3>4, <3>6 DEF n
    <3> QED  BY <2>1, <3>5, <3>6, <3>7, <3>8 DEF UpOK
  <2> QED  BY <2>2, <2>3, <2>4, <2>5 DEF Running
<1>17. Alone(j)' => Reducing(j)'
  BY <1>0, <1>15, <1>16 DEF ReductionOK, Reducing, Alone
<1> QED  BY <1>6, <1>8, <1>9, <1>10, <1>11, <1>12, <1>17 DEF ReductionOK

\* The first response is taken off a link.
TakesDown(j, r) == down[j][r] # <<>> /\ down' = [down EXCEPT ![j][r] = Tail(@)]

LEMMA TakeDown ==
    ASSUME TypeOK, NEW j \in Jobs, NEW r \in Ranks, TakesDown(j, r)
    PROVE  /\ down' \in [Jobs -> [Ranks -> Seq(Responses)]]
           /\ Head(down[j][r]) \in Responses /\ 1 \in DOMAIN down[j][r]
           /\ Head(down[j][r]) = down[j][r][1]
           /\ \A k \in Jobs : k # j => down'[k] = down[k]
           /\ FewerDown
           /\ ~Idle(j, r)
<1>1. /\ down[j][r] \in Seq(Responses) /\ down[j][r] # <<>>
      /\ down'[j][r] = Tail(down[j][r])
      /\ \A k \in Jobs, s \in Ranks : k # j \/ s # r => down'[k][s] = down[k][s]
      /\ \A k \in Jobs : k # j => down'[k] = down[k]
  BY DownType DEF TypeOK, TakesDown
<1>2. Tail(down[j][r]) \in Seq(Responses)
  BY <1>1, TailQueue
<1>3. down' \in [Jobs -> [Ranks -> Seq(Responses)]]
  BY <1>1, <1>2 DEF TypeOK, TakesDown
<1>4. /\ Head(down[j][r]) \in Responses /\ 1 \in DOMAIN down[j][r]
      /\ Head(down[j][r]) = down[j][r][1]
  BY <1>1, TailQueue
<1>5. \A i \in DOMAIN Tail(down[j][r]) :
        i + 1 \in DOMAIN down[j][r] /\ Tail(down[j][r])[i] = down[j][r][i + 1]
  BY <1>1, TailQueue
<1>6. \A i \in DOMAIN down'[j][r] : \E h \in DOMAIN down[j][r] : down'[j][r][i] = down[j][r][h]
  BY <1>1, <1>5
<1>7. \A k \in Jobs, s \in Ranks : \A i \in DOMAIN down'[k][s] :
        \E h \in DOMAIN down[k][s] : down'[k][s][i] = down[k][s][h]
  <2> TAKE k \in Jobs, s \in Ranks
  <2>1. CASE k = j /\ s = r
    BY <1>6, <2>1
  <2>2. CASE k # j \/ s # r
    BY <1>1, <2>2
  <2> QED  BY <2>1, <2>2
<1>8. ~Idle(j, r)
  BY DEF Idle, TakesDown
<1> QED  BY <1>1, <1>3, <1>4, <1>7, <1>8 DEF FewerDown

\* A response is dropped: lost, or not the one waited for.
LEMMA DropDown ==
    ASSUME IInv, NEW j \in Jobs, NEW r \in Ranks, TakesDown(j, r),
           UNCHANGED <<control, hosts, up, switch>>
    PROVE  IInv'
<1> USE DEF IInv
<1>0. UNCHANGED <<free_ids, mem_free, entries, rpc, answer, ctx, results, exited, up,
                  recirc, bitmaps, aggregator_array, tenant, late>>
  BY DEF control, hosts, switch, history
<1>1. TypeOK'
  BY <1>0, TakeDown DEF TypeOK
<1>2. ControlOK' /\ TenantOK'
  BY <1>0, KeepControl, KeepTenant
<1>3. HostsOK'
  <2>1. \A k \in Jobs : k # j => down'[k] = down[k]
    BY TakeDown
  <2>2. \A k \in Jobs, s \in Ranks : k # j => (Idle(k, s)' = Idle(k, s))
    BY <1>0, <2>1 DEF Idle
  <2>4. ~(answer[j] <= 0)
    BY TakeDown DEF HostsOK
  <2> QED  BY <1>0, <2>2, <2>4 DEF HostsOK
<1>4. LinksOK' /\ TrafficOK' /\ VersionsOK' /\ ReductionOK' /\ ResultsOwn'
  BY <1>0, TakeDown, LessDownElsewhere DEF switch
<1> QED  BY <1>1, <1>2, <1>3, <1>4

LEMMA LoseDownStep ==
    ASSUME IInv, NEW j \in Jobs, NEW r \in Ranks, LoseDown(j, r)
    PROVE  IInv'
<1>1. TakesDown(j, r) /\ UNCHANGED <<control, hosts, up, switch>>
  BY DEF LoseDown, TakesDown
<1> QED  BY <1>1, DropDown

\* Rank r of job j takes its first response, d, for packet n.
Takes(j, r, d, n) ==
    /\ 1 \in DOMAIN down[j][r] /\ d = down[j][r][1]
    /\ n = Len(results[j][r]) /\ d.psn = n
    /\ results'[j][r] = Append(results[j][r], d.sum) /\ Len(results'[j][r]) = n + 1
    /\ \A k \in Jobs, s \in Ranks : k # j \/ s # r => results'[k][s] = results[k][s]
    /\ \A s \in Ranks : \A i \in DOMAIN down'[j][s] :
         \E h \in DOMAIN down[j][s] : down'[j][s][i] = down[j][s][h]
    /\ UNCHANGED <<answer, up, recirc, bitmaps, aggregator_array>>

\* A rank of a running reduction takes the response it waits for: it is the sum,
\* and the reduction goes on.
LEMMA Received ==
    ASSUME TypeOK, NEW j \in Jobs, NEW r \in Ranks, NEW M \in Psns, Running(j, M),
           NEW d, NEW n, Takes(j, r, d, n)
    PROVE  d.sum = Answer(j, n) /\ Running(j, M)'
<1> USE DEF Takes
<1>1. /\ Answerable(n, M, Seen(M)) /\ d.sum = Answer(j, n)
      /\ \A k \in DOMAIN recirc : n <= recirc[k].pkt.psn
  BY DEF Running, DownOK
<1>2. M \in Nat /\ n \in Nat /\ Seen(M)' = Seen(M)
  BY ResultsType, PsnsNat DEF Seen
<1>3. WindowOK(j, M)'
  <2>1. n + 1 <= M + 1 /\ (n + 1 = M + 1 => Seen(M) = Ranks)
    BY <1>1, <1>2 DEF Answerable
  <2>2. WindowOK(j, M)
    BY DEF Running
  <2>3. M <= n + 2 /\ (r \in Seen(M) => M <= n + 1)
    BY <1>2, <2>2 DEF WindowOK
  <2> SUFFICES ASSUME NEW s \in Ranks
               PROVE  /\ M <= Len(results'[j][s]) + 1
                      /\ s \in Seen(M) => M <= Len(results'[j][s])
                      /\ Len(results'[j][s]) <= M + 1
                      /\ Len(results'[j][s]) = M + 1 => Seen(M) = Ranks
    BY <1>2 DEF WindowOK
  <2>4. CASE s = r
    <3>1. Len(results'[j][s]) = n + 1 /\ (n + 1) + 1 = n + 2
      BY <1>2, <2>4
    <3> QED  BY <2>1, <2>3, <2>4, <3>1
  <2>5. CASE s # r
    BY <2>2, <2>5 DEF WindowOK
  <2> QED  BY <2>4, <2>5
<1>4. UpOK(j, M)'
  <2>1. UpOK(j, M)
    BY DEF Running
  <2>2. \A s \in Ranks : \A i \in DOMAIN up[j][s] : up[j][s][i].psn <= Len(results'[j][s])
    <3>1. \A i \in DOMAIN up[j][r] : up[j][r][i].psn <= n /\ up[j][r][i].psn \in Nat
      BY <2>1, UpType, PsnsNat DEF UpOK
    <3>2. \A i \in DOMAIN up[j][r] : up[j][r][i].psn <= n + 1
      BY <1>2, <3>1
    <3> QED  BY <2>1, <3>2 DEF UpOK
  <2> QED  BY <1>2, <2>1, <2>2 DEF UpOK
<1>5. RecircOK(j, M)'
  <2>1. RecircOK(j, M)
    BY DEF Running
  <2>2. \A i \in DOMAIN recirc : recirc[i].pkt.psn \in Nat
    BY RecircType, PsnsNat
  <2>3. \A i \in DOMAIN recirc : n + 1 <= recirc[i].pkt.psn + 1
    BY <1>1, <1>2, <2>2
  <2>4. \A i \in DOMAIN recirc : \A s \in Ranks : Len(results'[j][s]) <= recirc[i].pkt.psn + 1
    BY <2>1, <2>3 DEF RecircOK
  <2> QED  BY <1>2, <2>1, <2>4 DEF RecircOK
<1>6. DownOK(j, M)'
  <2>1. DownOK(j, M)
    BY DEF Running
  <2> QED  BY <1>2, <2>1 DEF DownOK
<1>7. CellsOK(j, M)'
  BY <1>2 DEF Running, CellsOK
<1> QED  BY <1>1, <1>3, <1>4, <1>5, <1>6, <1>7 DEF Running

LEMMA ReceiveStep ==
    ASSUME IInv, NEW j \in Jobs, NEW r \in Ranks, Receive(j, r)
    PROVE  IInv'
<1> USE DEF IInv
<1> DEFINE d == Head(down[j][r])
           n == Len(results[j][r])
<1>0. /\ TakesDown(j, r)
      /\ UNCHANGED <<free_ids, mem_free, entries, rpc, answer, ctx, exited, up,
                     recirc, bitmaps, aggregator_array, tenant, late>>
      /\ results' = IF d.psn = n THEN [results EXCEPT ![j][r] = Append(@, d.sum)] ELSE results
  BY DEF Receive, control, switch, history, TakesDown
<1>1. CASE d.psn # n
  <2>1. results' = results
    BY <1>0, <1>1
  <2> QED  BY <1>0, <2>1, DropDown DEF control, hosts, switch, history
<1>2. CASE d.psn = n
  <2>1. /\ d \in Responses /\ 1 \in DOMAIN down[j][r] /\ d = down[j][r][1] /\ ~Idle(j, r)
        /\ \A k \in Jobs : k # j => down'[k] = down[k]
        /\ \A s \in Ranks : \A i \in DOMAIN down'[j][s] :
             \E h \in DOMAIN down[j][s] : down'[j][s][i] = down[j][s][h]
    BY <1>0, TakeDown DEF FewerDown
  <2>2. /\ d.psn \in Psns /\ d.sum \in Words \X Words
    BY <2>1 DEF Responses
  <2>3. /\ results[j][r] \in Seq(Words \X Words) /\ n \in Nat /\ n < NPkts
    BY <1>2, <2>2, ResultsType, PsnsNat
  <2> HIDE DEF d
  <2>4. /\ results'[j][r] = Append(results[j][r], d.sum)
        /\ \A k \in Jobs, s \in Ranks : k # j \/ s # r => results'[k][s] = results[k][s]
        /\ \A k \in Jobs : k # j => results'[k] = results[k]
    BY <1>0, <1>2 DEF TypeOK
  <2>5. /\ results'[j][r] \in Seq(Words \X Words)
        /\ Len(results'[j][r]) = n + 1
        /\ \A p \in DOMAIN results'[j][r] :
             \/ p \in DOMAIN results[j][r] /\ results'[j][r][p] = results[j][r][p]
             \/ p = n + 1 /\ results'[j][r][p] = d.sum
    BY <2>2, <2>3, <2>4, AppendQueue
  <2>6. TypeOK'
    <3>1. results' \in [Jobs -> [Ranks -> Seq(Words \X Words)]]
      <4>1. results \in [Jobs -> [Ranks -> Seq(Words \X Words)]]
        BY DEF TypeOK
      <4>2. results' = [results EXCEPT ![j][r] = Append(results[j][r], d.sum)]
        BY <1>0, <1>2
      <4>3. Append(results[j][r], d.sum) \in Seq(Words \X Words)
        BY <2>4, <2>5
      <4> QED  BY <4>1, <4>2, <4>3
    <3>2. down' \in [Jobs -> [Ranks -> Seq(Responses)]]
      BY <1>0, TakeDown
    <3> QED  BY <1>0, <3>1, <3>2 DEF TypeOK
  <2>7. answer[j] > 0 /\ Unfinished(j)
    <3>1. answer[j] > 0
      BY <2>1, Granted
    <3> QED  BY <2>3, <3>1 DEF Unfinished
  <2>8. ControlOK' /\ LinksOK' /\ TenantOK' /\ VersionsOK' /\ TrafficOK'
    <3>1. ASSUME NEW k \in Jobs, Unfinished(k)', k # j
          PROVE  Unfinished(k)
      BY <1>0, <2>4, <3>1 DEF Unfinished
    <3> QED  BY <1>0, <2>7, <3>1, KeepControl, KeepLinks, KeepTenant, KeepVersions, KeepTraffic
  <2>9. HostsOK'
    <3>1. \A k \in Jobs, s \in Ranks : k # j => (Idle(k, s)' = Idle(k, s))
      BY <1>0, <2>1, <2>4 DEF Idle
    <3>2. \A k \in Jobs : 0 \in exited[k] /\ answer[k] > 0 => Len(results'[k][0]) = NPkts
      <4>1. r = 0 => 0 \notin exited[j]
        BY <2>3, <2>7 DEF HostsOK
      <4>2. 0 \in Ranks
        BY LifecycleAssumption
      <4> QED  BY <2>4, <4>1, <4>2 DEF HostsOK
    <3>3. ~(answer[j] <= 0) /\ answer[j] # NoAnswer
      BY <2>7, AnswerType DEF NoAnswer
    <3>4. \A k \in Jobs, s \in Ranks : Len(results'[k][s]) <= NPkts
      <4>1. n + 1 <= NPkts
        BY <2>3, LifecycleAssumption
      <4> QED  BY <2>4, <2>5, <4>1 DEF HostsOK
    <3> QED  BY <1>0, <3>1, <3>2, <3>3, <3>4 DEF HostsOK
  <2>10. ASSUME NEW k \in Jobs, k # j, Alone(k)'
         PROVE  Reducing(k)'
    <3>1. Reducing(k)
      BY <1>0, <2>10 DEF ReductionOK, Alone
    <3>2. SameReduction(k)
      BY <1>0, <2>1, <2>4, <2>10 DEF SameReduction
    <3> QED  BY <3>1, <3>2, KeepReducing
  <2>11. ASSUME Alone(j)
         PROVE  d.sum = Answer(j, n) /\ Reducing(j)'
    <3>1. PICK M \in Psns : Running(j, M)
      <4>1. ~Fresh(j)
        BY <2>1 DEF Fresh
      <4> QED  BY <2>11, <4>1 DEF ReductionOK, Reducing
    <3>2. PICK x, m : x = d /\ m = n
      OBVIOUS
    <3>3. Takes(j, r, x, m)
      BY <1>0, <1>2, <2>1, <2>4, <2>5, <3>2 DEF Takes
    <3>4. TypeOK
      OBVIOUS
    <3>5. x.sum = Answer(j, m) /\ Running(j, M)'
      BY <3>1, <3>3, <3>4, Received
    <3>6. d.sum = Answer(j, n)
      BY <3>2, <3>5
    <3> QED  BY <3>1, <3>5, <3>6 DEF Reducing
  <2>21. ASSUME NEW k \in Jobs, Undisturbed(k)', NEW s \in Ranks, NEW p \in 1 .. Len(results'[k][s])
         PROVE  results'[k][s][p] = Answer(k, p - 1)
    <3>1. \A q \in 1 .. Len(results[k][s]) : results[k][s][q] = Answer(k, q - 1)
      <4>1. Undisturbed(k)
        BY <1>0, <2>21 DEF Undisturbed
      <4> QED  BY <4>1 DEF ResultsOwn, Answer, SumOver
    <3>2. CASE k = j /\ s = r
      <4>1. Alone(j)
        <5>1. Present(j) /\ late[j] = {} /\ \A i \in Jobs : j \notin late[i]
          BY <1>0, <2>7, <2>21, <3>2 DEF TrafficOK, Undisturbed
        <5>2. tenant = j
          BY <5>1 DEF Present, TypeOK
        <5> QED  BY <2>7, <5>1, <5>2 DEF Alone
      <4>2. p \in DOMAIN results'[j][r] /\ DOMAIN results[j][r] = 1 .. n
        BY <2>3, <2>5, <3>2, LenProperties
      <4>3. (n + 1) - 1 = n
        BY <2>3
      <4> QED  BY <2>5, <2>11, <3>1, <3>2, <4>1, <4>2, <4>3
    <3>3. CASE ~(k = j /\ s = r)
      BY <2>4, <3>1, <3>3
    <3> QED  BY <3>2, <3>3
  <2>22. ResultsOwn'
    BY <2>21 DEF ResultsOwn, Answer, SumOver
  <2>23. Alone(j)' => Alone(j)
    BY <1>0 DEF Alone
  <2> QED  BY <2>6, <2>8, <2>9, <2>10, <2>11, <2>22, <2>23 DEF ReductionOK
<1> QED  BY <1>1, <1>2

-----------------------------------------------------------------------------
(* Pass 1. *)

\* Pass 1 of packet pkt.
Ingested(j, r, pkt) ==
    /\ pkt \in Packets /\ pkt.job = j /\ pkt.rank = r /\ pkt.group = answer[j]
    /\ pkt.psn \in Psns /\ pkt = up[j][r][1] /\ 1 \in DOMAIN up[j][r]
    /\ up[j][r] # <<>>
    /\ up' \in [Jobs -> [Ranks -> Seq(Packets)]]
    /\ \A k \in Jobs, s \in Ranks : k # j \/ s # r => up'[k][s] = up[k][s]
    /\ \A i \in DOMAIN up'[j][r] :
         i \in Nat /\ i + 1 \in DOMAIN up[j][r] /\ 1 <= i + 1 /\ up'[j][r][i] = up[j][r][i + 1]
    /\ bitmaps' = [bitmaps EXCEPT ![agg_addr(pkt)] =
         [version |-> set_version(pkt), bitmap |-> bitmap_old(pkt) \cup {r}]]
    /\ aggregator_array' = [aggregator_array EXCEPT ![agg_addr(pkt)] = agg_action(pkt)]
    /\ recirc' = IF full(pkt) /\ "recirculate" \in entries[pkt.group]
                 THEN Append(recirc, [pkt |-> pkt, data0 |-> agg_action(pkt).agg0,
                                      multicast |-> r \notin bitmap_old(pkt)])
                 ELSE recirc
    /\ UNCHANGED <<free_ids, mem_free, entries, rpc, answer, ctx, results, exited, down, tenant, late>>

\* The packet that pass 1 takes, and what pass 1 does with it.
LEMMA IngressFacts ==
    ASSUME TypeOK, LinksOK, NEW j \in Jobs, NEW r \in Ranks, Ingress(j, r),
           NEW pkt, pkt = Head(up[j][r])
    PROVE  Ingested(j, r, pkt)
<1>1. up[j][r] \in Seq(Packets) /\ up[j][r] # <<>>
  BY UpType DEF Ingress
<1>2. /\ pkt \in Packets /\ pkt = up[j][r][1] /\ 1 \in DOMAIN up[j][r]
      /\ Tail(up[j][r]) \in Seq(Packets)
      /\ \A i \in DOMAIN Tail(up[j][r]) :
           i \in Nat /\ i + 1 \in DOMAIN up[j][r] /\ 1 <= i + 1 /\ Tail(up[j][r])[i] = up[j][r][i + 1]
  BY <1>1, TailQueue
<1>3. pkt.job = j /\ pkt.rank = r /\ pkt.group = answer[j] /\ pkt.psn \in Psns
  BY <1>2, UpType DEF LinksOK
<1>4. /\ up' = [up EXCEPT ![j][r] = Tail(@)]
      /\ UNCHANGED <<free_ids, mem_free, entries, rpc, answer, ctx, results, exited, down, tenant, late>>
  BY DEF Ingress, control, hosts, history
<1>5. /\ up'[j][r] = Tail(up[j][r])
      /\ \A k \in Jobs, s \in Ranks : k # j \/ s # r => up'[k][s] = up[k][s]
      /\ up' \in [Jobs -> [Ranks -> Seq(Packets)]]
  BY <1>2, <1>4 DEF TypeOK
<1>6. /\ bitmaps' = [bitmaps EXCEPT ![agg_addr(pkt)] =
           [version |-> set_version(pkt), bitmap |-> bitmap_old(pkt) \cup {r}]]
      /\ aggregator_array' = [aggregator_array EXCEPT ![agg_addr(pkt)] = agg_action(pkt)]
      /\ recirc' = IF full(pkt) /\ "recirculate" \in entries[pkt.group]
                   THEN Append(recirc, [pkt |-> pkt, data0 |-> agg_action(pkt).agg0,
                                        multicast |-> r \notin bitmap_old(pkt)])
                   ELSE recirc
  BY DEF Ingress
<1> QED  BY <1>1, <1>2, <1>3, <1>4, <1>5, <1>6 DEF Ingested

LEMMA IngressType ==
    ASSUME TypeOK, NEW pkt \in Packets
    PROVE  /\ agg_addr(pkt) \in AggAddrs
           /\ set_version(pkt) \in (Ids \cup {0}) \X Nat
           /\ bitmap_old(pkt) \in SUBSET Ranks
           /\ agg_action(pkt) \in [agg0 : Words, agg1 : Words]
           /\ agg_action(pkt).agg0 \in Words
<1>1. /\ pkt.psn \in Psns /\ pkt.psn \in Nat /\ pkt.group \in Ids /\ pkt.job \in Jobs /\ pkt.rank \in Ranks
  BY PsnsNat DEF Packets
<1>2. agg_addr(pkt) \in AggAddrs
  BY <1>1, Turns DEF agg_addr
<1>3. set_version(pkt) \in (Ids \cup {0}) \X Nat
  BY <1>1 DEF set_version
<1>4. bitmap_old(pkt) \in SUBSET Ranks
  BY <1>2 DEF bitmap_old, TypeOK
<1>5. Word(pkt) \in Words
  <2>1. Word(pkt) = SumOver(pkt.job, {pkt.rank}, pkt.psn)
    BY OneWord DEF Word
  <2> QED  BY <1>1, <2>1, SumWord
<1> DEFINE reg == aggregator_array[agg_addr(pkt)]
<1>6. reg \in [agg0 : Words, agg1 : Words] /\ reg.agg0 \in Words /\ reg.agg1 \in Words
  BY <1>2 DEF TypeOK
<1>7. reg.agg0 (+) Word(pkt) \in Words /\ reg.agg1 (+) Word(pkt) \in Words
  BY <1>5, <1>6, WordsClosed
<1>8. \/ agg_action(pkt) = [agg0 |-> Word(pkt), agg1 |-> Word(pkt)]
      \/ agg_action(pkt) = [agg0 |-> reg.agg0 (+) Word(pkt), agg1 |-> reg.agg1 (+) Word(pkt)]
      \/ agg_action(pkt) = reg
  BY DEF agg_action
<1> HIDE DEF reg
<1>9. agg_action(pkt) \in [agg0 : Words, agg1 : Words]
  BY <1>5, <1>6, <1>7, <1>8
<1> QED  BY <1>2, <1>3, <1>4, <1>9

\* What pass 1 of packet p of rank r has done, M2 now being the last packet begun.
Progress(j, r, p, M, M2) ==
    /\ CellsOK(j, M2)'
    /\ M2 = M \/ (M2 = M + 1 /\ Seen(M) = Ranks)
    /\ p <= M2 /\ M2 <= p + 1
    /\ M2 = M => /\ Seen(M) \subseteq Seen(M)' /\ Seen(M)' \subseteq Seen(M) \cup {r}
                 /\ r \in Seen(M)' => p = M \/ r \in Seen(M)
    /\ M2 = M + 1 => p = M2 /\ Seen(M2)' = {r}

\* The answer to packet p, if pass 1 gives one.
Answered(j, p, act, M2) ==
    act.agg0 = SumOver(j, Ranks, p) /\ Answerable(p, M2, Seen(M2)')

\* All answers there are belong to packets up to p.
InOrder(p, M, M2) ==
    \A q \in Psns : Answerable(q, M, Seen(M)) => q <= p /\ Answerable(q, M2, Seen(M2)')

\* Pass 1 of a packet, while there is a group or the packet is complete: one of
\* its two aggregators has the packet, or the packet is the next.
LEMMA Aggregate ==
    ASSUME TypeOK, NEW j \in Jobs, NEW r \in Ranks, NEW pkt \in Packets, NEW M \in Psns,
           answer[j] > 0,
           "metadata" \in entries[answer[j]] \/ bitmap_old(pkt) = Ranks,
           CellsOK(j, M), WindowOK(j, M),
           pkt.job = j, pkt.rank = r, pkt.group = answer[j],
           pkt.psn <= Len(results[j][r]), M <= pkt.psn + 1, r \in Seen(M) => M <= pkt.psn,
           answer' = answer,
           bitmaps' = [bitmaps EXCEPT ![agg_addr(pkt)] =
             [version |-> set_version(pkt), bitmap |-> bitmap_old(pkt) \cup {r}]],
           aggregator_array' = [aggregator_array EXCEPT ![agg_addr(pkt)] = agg_action(pkt)]
    PROVE  \E M2 \in Psns : /\ Progress(j, r, pkt.psn, M, M2)
                            /\ full(pkt) => Answered(j, pkt.psn, agg_action(pkt), M2)
                            /\ InOrder(pkt.psn, M, M2)
<1> DEFINE p == pkt.psn
           g == answer[j]
           a == M % AggLen
           b == (M + 1) % AggLen
           Sum(S, q) == [agg0 |-> SumOver(j, S, q), agg1 |-> SumOver(j, S, q)]
           act == agg_action(pkt)
<1>1. /\ p \in Nat /\ p \in Psns /\ M \in Nat /\ g \in Ids /\ Len(results[j][r]) \in Nat
      /\ Len(results[j][r]) <= M + 1 /\ \A q \in Psns : q \in Nat
      /\ Len(results[j][r]) = M + 1 => Seen(M) = Ranks
  BY PsnsNat, AnswerType, ResultsType DEF Packets, WindowOK
<1>2. a \in AggAddrs /\ b \in AggAddrs /\ a # b /\ (M + 2) % AggLen = a
  BY <1>1, Turns
<1>3. agg_addr(pkt) = p % AggLen /\ set_version(pkt) = <<g, p>>
  BY DEF agg_addr, set_version
<1>4. full(pkt) => bitmap_old(pkt) \cup {r} = Ranks
  <2>1. CASE "metadata" \in entries[answer[j]]
    <3>1. bitmap_mask(pkt) = Ranks
      BY <2>1 DEF bitmap_mask
    <3> QED  BY <3>1 DEF full, Flipped
  <2>2. CASE bitmap_old(pkt) = Ranks
    BY <2>2
  <2> QED  BY <2>1, <2>2
<1>5. Word(pkt) = SumOver(j, {r}, p)
  <2>1. Word(pkt) = SetToBag({<<j, r, p>>})
    BY DEF Word
  <2>2. {<<j, s, p>> : s \in {r}} = {<<j, r, p>>}
    OBVIOUS
  <2> QED  BY <2>1, <2>2, Zenon DEF SumOver
<1>6. /\ bitmaps[a].version = <<g, M>> /\ Seen(M) = bitmaps[a].bitmap /\ Seen(M) # {}
      /\ aggregator_array[a] = Sum(Seen(M), M)
      /\ M = 0 => bitmaps[b].version = NoVersion
      /\ M > 0 => bitmaps[b] = [version |-> <<g, M - 1>>, bitmap |-> Ranks]
                  /\ aggregator_array[b] = Sum(Ranks, M - 1)
      /\ Seen(M) \subseteq Ranks
  BY <1>2 DEF CellsOK, Seen, TypeOK
<1>7. /\ DOMAIN bitmaps = AggAddrs /\ DOMAIN aggregator_array = AggAddrs
  BY DEF TypeOK
<1>8. p = M + 1 \/ p = M \/ p = M - 1
  BY <1>1
<1>9. CASE p = M
  <2>1. agg_addr(pkt) = a /\ bitmap_old(pkt) = Seen(M)
    BY <1>3, <1>6, <1>9 DEF bitmap_old
  <2>2. act = Sum(Seen(M) \cup {r}, M)
    <3>1. CASE r \in Seen(M)
      <4>1. Seen(M) \cup {r} = Seen(M)
        BY <3>1
      <4>2. act = aggregator_array[a]
        BY <2>1, <3>1 DEF agg_action
      <4> QED  BY <1>6, <4>1, <4>2
    <3>2. CASE r \notin Seen(M)
      <4>1. act = [agg0 |-> SumOver(j, Seen(M), M) (+) Word(pkt),
                   agg1 |-> SumOver(j, Seen(M), M) (+) Word(pkt)]
        BY <1>6, <2>1, <3>2 DEF agg_action
      <4>2. SumOver(j, Seen(M), M) (+) Word(pkt) = SumOver(j, Seen(M) \cup {r}, M)
        BY <1>9, <3>2, AddWord DEF Word
      <4> QED  BY <4>1, <4>2
    <3> QED  BY <3>1, <3>2
  <2>3. /\ bitmaps'[a] = [version |-> <<g, M>>, bitmap |-> Seen(M) \cup {r}]
        /\ bitmaps'[b] = bitmaps[b]
        /\ aggregator_array'[a] = Sum(Seen(M) \cup {r}, M)
        /\ aggregator_array'[b] = aggregator_array[b]
    BY <1>2, <1>3, <1>7, <1>9, <2>1, <2>2
  <2>4. Seen(M)' = Seen(M) \cup {r}
    BY <2>3 DEF Seen
  <2>5. CellsOK(j, M)'
    BY <1>6, <2>3, <2>4 DEF CellsOK
  <2>6. Progress(j, r, p, M, M)
    BY <1>1, <1>9, <2>4, <2>5 DEF Progress
  <2>7. full(pkt) => Answered(j, p, act, M)
    <3>1. full(pkt) => act = Sum(Ranks, M) /\ Seen(M)' = Ranks
      BY <1>4, <2>1, <2>2, <2>4
    <3> QED  BY <1>9, <3>1 DEF Answered, Answerable
  <2>8. InOrder(p, M, M)
    <3>1. Seen(M) = Ranks => Seen(M)' = Ranks
      BY <2>4
    <3> QED  BY <1>1, <1>9, <3>1 DEF InOrder, Answerable
  <2> QED  BY <2>6, <2>7, <2>8
<1>10. CASE p = M - 1
  <2>1. M > 0 /\ agg_addr(pkt) = b /\ r \notin Seen(M)
    <3>1. M > 0 /\ p + 2 = M + 1
      BY <1>1, <1>10
    <3>2. (p + 2) % AggLen = p % AggLen
      BY <1>1, Turns
    <3>3. ~(M <= p)
      BY <1>1, <1>10
    <3> QED  BY <1>3, <3>1, <3>2, <3>3
  <2>2. bitmap_old(pkt) = Ranks
    BY <1>3, <1>6, <1>10, <2>1 DEF bitmap_old
  <2>3. act = Sum(Ranks, p)
    <3>1. act = aggregator_array[b]
      BY <2>1, <2>2 DEF agg_action
    <3> QED  BY <1>6, <1>10, <2>1, <3>1
  <2>4. Ranks \cup {r} = Ranks
    OBVIOUS
  <2>5. /\ bitmaps'[b] = [version |-> <<g, M - 1>>, bitmap |-> Ranks]
        /\ bitmaps'[a] = bitmaps[a]
        /\ aggregator_array'[b] = Sum(Ranks, M - 1)
        /\ aggregator_array'[a] = aggregator_array[a]
    BY <1>2, <1>3, <1>7, <1>10, <2>1, <2>2, <2>3, <2>4
  <2>6. Seen(M)' = Seen(M)
    BY <2>5 DEF Seen
  <2>7. CellsOK(j, M)'
    BY <1>6, <2>1, <2>5, <2>6 DEF CellsOK
  <2>8. Progress(j, r, p, M, M)
    BY <1>1, <1>10, <2>6, <2>7 DEF Progress
  <2>9. Answered(j, p, act, M)
    BY <1>1, <1>10, <2>3 DEF Answered, Answerable
  <2>10. InOrder(p, M, M)
    <3>1. Seen(M) # Ranks
      BY <2>1
    <3> SUFFICES ASSUME NEW q \in Psns, Answerable(q, M, Seen(M))
                 PROVE  q <= p /\ Answerable(q, M, Seen(M)')
      BY DEF InOrder
    <3>2. q < M
      BY <3>1 DEF Answerable
    <3>3. q <= p
      BY <1>1, <1>10, <3>2
    <3>4. Answerable(q, M, Seen(M)')
      BY <3>2 DEF Answerable
    <3> QED  BY <3>3, <3>4
  <2> QED  BY <2>8, <2>9, <2>10
<1>11. CASE p = M + 1
  <2>1. Seen(M) = Ranks /\ agg_addr(pkt) = b
    BY <1>1, <1>3, <1>11
  <2>2. bitmap_old(pkt) = {}
    <3>1. bitmaps[b].version # <<g, p>>
      <4>1. CASE M = 0
        <5>1. g # 0
          BY <1>1, IdsNat
        <5> QED  BY <1>6, <4>1, <5>1 DEF NoVersion
      <4>2. CASE M > 0
        <5>1. M - 1 # p
          BY <1>1, <1>11
        <5> QED  BY <1>6, <4>2, <5>1
      <4> QED  BY <1>1, <4>1, <4>2
    <3> QED  BY <1>3, <2>1, <3>1 DEF bitmap_old
  <2>3. act = Sum({r}, p)
    BY <1>5, <2>2 DEF agg_action
  <2>4. /\ bitmaps'[b] = [version |-> <<g, p>>, bitmap |-> {r}]
        /\ bitmaps'[a] = bitmaps[a]
        /\ aggregator_array'[b] = Sum({r}, p)
        /\ aggregator_array'[a] = aggregator_array[a]
    BY <1>2, <1>3, <1>7, <2>1, <2>2, <2>3
  <2>5. p % AggLen = b /\ (p + 1) % AggLen = a /\ p > 0 /\ p - 1 = M
    <3>1. p + 1 = M + 2 /\ p > 0 /\ p - 1 = M
      BY <1>1, <1>11
    <3> QED  BY <1>2, <1>11, <3>1
  <2>6. Seen(p)' = {r}
    BY <2>4, <2>5 DEF Seen
  <2>7. CellsOK(j, p)'
    <3>1. bitmaps[a] = [version |-> <<g, M>>, bitmap |-> Ranks]
      BY <1>2, <1>6, <2>1 DEF TypeOK
    <3>2. aggregator_array[a] = Sum(Ranks, M)
      BY <1>6, <2>1
    <3> QED  BY <2>4, <2>5, <2>6, <3>1, <3>2 DEF CellsOK
  <2>8. Progress(j, r, p, M, p)
    <3>1. p # M /\ p <= p /\ p <= p + 1
      BY <1>1, <1>11
    <3> QED  BY <1>11, <2>1, <2>6, <2>7, <3>1 DEF Progress
  <2>9. full(pkt) => Answered(j, p, act, p)
    <3>1. full(pkt) => {r} = Ranks
      BY <1>4, <2>2
    <3>2. full(pkt) => act.agg0 = SumOver(j, Ranks, p)
      <4>1. act.agg0 = SumOver(j, {r}, p)
        BY <2>3
      <4> QED  BY <3>1, <4>1, Zenon
    <3>3. full(pkt) => Answerable(p, p, Seen(p)')
      BY <2>6, <3>1 DEF Answerable
    <3> QED  BY <3>2, <3>3 DEF Answered
  <2>10. InOrder(p, M, p)
    BY <1>1, <1>11 DEF InOrder, Answerable
  <2> QED  BY <1>1, <2>8, <2>9, <2>10
<1> QED  BY <1>8, <1>9, <1>10, <1>11

\* The state after pass 1 of the first packet, whose number is M.
Begun(j, r, pkt, M) ==
    /\ CellsOK(j, M)' /\ Seen(M)' = {r}
    /\ full(pkt) => Answered(j, M, agg_action(pkt), M)

\* The first packet of the job finds the registers as the reset left them.
LEMMA FirstPacket ==
    ASSUME TypeOK, NEW j \in Jobs, NEW r \in Ranks, NEW pkt \in Packets, ~(pkt.psn > 0),
           answer[j] > 0, "metadata" \in entries[answer[j]], Clean,
           pkt.job = j, pkt.rank = r, pkt.group = answer[j],
           answer' = answer,
           bitmaps' = [bitmaps EXCEPT ![agg_addr(pkt)] =
             [version |-> set_version(pkt), bitmap |-> bitmap_old(pkt) \cup {r}]],
           aggregator_array' = [aggregator_array EXCEPT ![agg_addr(pkt)] = agg_action(pkt)]
    PROVE  Begun(j, r, pkt, pkt.psn)
<1>0. PICK M \in Psns : pkt.psn = M /\ ~(M > 0)
  BY DEF Packets
<1> DEFINE g == answer[j]
           a == M % AggLen
           b == (M + 1) % AggLen
           Sum == [agg0 |-> SumOver(j, {r}, M), agg1 |-> SumOver(j, {r}, M)]
           act == agg_action(pkt)
<1>1. a \in AggAddrs /\ b \in AggAddrs /\ a # b
  BY Turns, PsnsNat
<1>2. agg_addr(pkt) = a /\ set_version(pkt) = <<g, M>>
  BY <1>0 DEF agg_addr, set_version
<1>3. bitmaps[a].version = NoVersion /\ bitmaps[b].version = NoVersion
  BY <1>1 DEF Clean
<1>4. bitmap_old(pkt) = {}
  <2>1. g # 0
    BY AnswerType
  <2>2. NoVersion # <<g, M>>
    BY <2>1 DEF NoVersion
  <2> QED  BY <1>2, <1>3, <2>2 DEF bitmap_old
<1>5. act = Sum
  <2>1. Word(pkt) = SetToBag({<<j, r, M>>})
    BY <1>0 DEF Word
  <2>2. {<<j, s, M>> : s \in {r}} = {<<j, r, M>>}
    OBVIOUS
  <2>3. Word(pkt) = SumOver(j, {r}, M)
    BY <2>1, <2>2, Zenon DEF SumOver
  <2> QED  BY <1>4, <2>3 DEF agg_action
<1>6. full(pkt) => {r} = Ranks
  <2>1. bitmap_mask(pkt) = Ranks
    BY DEF bitmap_mask
  <2> QED  BY <1>4, <2>1 DEF full, Flipped
<1>7. DOMAIN bitmaps = AggAddrs /\ DOMAIN aggregator_array = AggAddrs
  BY DEF TypeOK
<1>8. /\ bitmaps'[a] = [version |-> <<g, M>>, bitmap |-> {r}]
      /\ bitmaps'[b] = bitmaps[b]
      /\ aggregator_array'[a] = Sum
  BY <1>1, <1>2, <1>4, <1>5, <1>7
<1>9. Seen(M)' = {r}
  BY <1>8 DEF Seen
<1>10. CellsOK(j, M)'
  BY <1>0, <1>3, <1>8, <1>9 DEF CellsOK
<1>11. full(pkt) => Answered(j, M, act, M)
  <2>1. act.agg0 = SumOver(j, {r}, M)
    BY <1>5
  <2>2. full(pkt) => act.agg0 = SumOver(j, Ranks, M)
    BY <1>6, <2>1, Zenon
  <2>3. full(pkt) => Answerable(M, M, Seen(M)')
    BY <1>6, <1>9 DEF Answerable
  <2> QED  BY <2>2, <2>3 DEF Answered
<1> QED  BY <1>0, <1>9, <1>10, <1>11 DEF Begun

\* The recirculation queue after pass 1: what there was, and perhaps an answer
\* to packet p.
Recirculates(j, p, act, isFull) ==
    \A i \in DOMAIN recirc' :
        \/ i \in DOMAIN recirc /\ recirc'[i] = recirc[i]
        \/ /\ isFull /\ i \notin DOMAIN recirc
           /\ recirc'[i].pkt.psn = p /\ recirc'[i].data0 = act.agg0
           /\ \A k \in DOMAIN recirc' : k <= i

LEMMA Pass1Recirc ==
    ASSUME TypeOK, NEW j \in Jobs, NEW r \in Ranks, NEW pkt \in Packets, pkt.job = j,
           recirc' = (IF full(pkt) /\ "recirculate" \in entries[pkt.group]
                      THEN Append(recirc, [pkt |-> pkt, data0 |-> agg_action(pkt).agg0,
                                           multicast |-> r \notin bitmap_old(pkt)])
                      ELSE recirc)
    PROVE  /\ recirc' \in Seq(Entries)
           /\ Recirculates(j, pkt.psn, agg_action(pkt), full(pkt))
           /\ \A i \in DOMAIN recirc' :
                recirc'[i].pkt = pkt \/ (i \in DOMAIN recirc /\ recirc'[i] = recirc[i])
<1> DEFINE e == [pkt |-> pkt, data0 |-> agg_action(pkt).agg0, multicast |-> r \notin bitmap_old(pkt)]
<1>1. recirc \in Seq(Entries)
  BY DEF TypeOK
<1>2. agg_action(pkt).agg0 \in Words
  BY IngressType
<1>3. e \in Entries /\ e.pkt = pkt /\ e.data0 = agg_action(pkt).agg0
  BY <1>2 DEF Entries
<1>4. CASE full(pkt) /\ recirc' = Append(recirc, e)
  <2> HIDE DEF e
  <2>1. /\ recirc' \in Seq(Entries)
        /\ \A i \in DOMAIN recirc' : i \in Nat /\ i <= Len(recirc) + 1
        /\ \A i \in DOMAIN recirc' :
             \/ i \in DOMAIN recirc /\ recirc'[i] = recirc[i]
             \/ i = Len(recirc) + 1 /\ i \notin DOMAIN recirc /\ recirc'[i] = e
    BY <1>1, <1>3, <1>4, AppendQueue
  <2> QED  BY <1>3, <1>4, <2>1 DEF Recirculates
<1>5. CASE recirc' = recirc
  BY <1>1, <1>5 DEF Recirculates
<1> QED  BY <1>4, <1>5

\* When rank 0 has its last response, the last packet is complete, and the packets
\* that are still sent are the last one again.
LEMMA LastComplete ==
    ASSUME TypeOK, NEW j \in Jobs, NEW r \in Ranks, NEW pkt \in Packets, NEW M \in Psns,
           CellsOK(j, M), WindowOK(j, M), pkt.group = answer[j],
           r \in Seen(M) => M <= pkt.psn,
           "metadata" \in entries[answer[j]] \/ Len(results[j][0]) = NPkts
    PROVE  "metadata" \in entries[answer[j]] \/ bitmap_old(pkt) = Ranks
<1>1. SUFFICES ASSUME Len(results[j][0]) = NPkts
               PROVE  bitmap_old(pkt) = Ranks
  OBVIOUS
<1>2. /\ pkt.psn \in Nat /\ pkt.psn < NPkts /\ M \in Nat /\ M < NPkts /\ NPkts \in Nat
      /\ 0 \in Ranks
  BY PsnsNat, LifecycleAssumption DEF Packets
<1>3. NPkts <= M + 1 /\ (NPkts = M + 1 => Seen(M) = Ranks)
  BY <1>1, <1>2 DEF WindowOK
<1>4. NPkts = M + 1 /\ Seen(M) = Ranks
  BY <1>2, <1>3
<1>5. pkt.psn = M
  BY <1>2, <1>4
<1> QED  BY <1>4, <1>5 DEF bitmap_old, agg_addr, set_version, CellsOK, Seen

LEMMA IngressReducing ==
    ASSUME IInv, NEW j \in Jobs, NEW r \in Ranks, Ingress(j, r), Alone(j)
    PROVE  Reducing(j)'
<1> USE DEF IInv
<1>1. PICK pkt : pkt = Head(up[j][r])
  OBVIOUS
<1> DEFINE p == pkt.psn
           act == agg_action(pkt)
<1>2. /\ pkt \in Packets /\ pkt.job = j /\ pkt.rank = r /\ pkt.group = answer[j]
      /\ p \in Psns /\ pkt = up[j][r][1] /\ 1 \in DOMAIN up[j][r]
      /\ \A k \in Jobs, s \in Ranks : k # j \/ s # r => up'[k][s] = up[k][s]
      /\ \A i \in DOMAIN up'[j][r] :
           i \in Nat /\ i + 1 \in DOMAIN up[j][r] /\ 1 <= i + 1 /\ up'[j][r][i] = up[j][r][i + 1]
      /\ bitmaps' = [bitmaps EXCEPT ![agg_addr(pkt)] =
           [version |-> set_version(pkt), bitmap |-> bitmap_old(pkt) \cup {r}]]
      /\ aggregator_array' = [aggregator_array EXCEPT ![agg_addr(pkt)] = agg_action(pkt)]
      /\ recirc' = IF full(pkt) /\ "recirculate" \in entries[pkt.group]
                   THEN Append(recirc, [pkt |-> pkt, data0 |-> agg_action(pkt).agg0,
                                        multicast |-> r \notin bitmap_old(pkt)])
                   ELSE recirc
      /\ UNCHANGED <<answer, results, down>>
  <2>1. Ingested(j, r, pkt)
    BY <1>1, IngressFacts
  <2> QED  BY <2>1 DEF Ingested
<1>3. answer[j] > 0 /\ ("metadata" \in entries[answer[j]] \/ Len(results[j][0]) = NPkts)
  BY DEF ControlOK, HostsOK, Live, Alone, Tables
<1>4. /\ Recirculates(j, p, act, full(pkt)) /\ recirc' \in Seq(Entries)
      /\ \A i \in DOMAIN recirc' :
           recirc'[i].pkt = pkt \/ (i \in DOMAIN recirc /\ recirc'[i] = recirc[i])
  <2>1. TypeOK
    OBVIOUS
  <2>2. /\ pkt \in Packets /\ pkt.job = j
        /\ recirc' = IF full(pkt) /\ "recirculate" \in entries[pkt.group]
                     THEN Append(recirc, [pkt |-> pkt, data0 |-> agg_action(pkt).agg0,
                                          multicast |-> r \notin bitmap_old(pkt)])
                     ELSE recirc
    BY <1>2
  <2> QED  BY <2>1, <2>2, Pass1Recirc
<1>5. Reducing(j)
  BY DEF ReductionOK
<1>7. /\ p \in Nat /\ \A q \in Psns : q \in Nat
      /\ \A s \in Ranks : Len(results[j][s]) \in Nat
      /\ \A s \in Ranks : \A i \in DOMAIN up[j][s] : up[j][s][i].psn \in Nat
  BY <1>2, PsnsNat, ResultsType, UpType
<1>8. CASE Fresh(j)
  <2>0. PICK M \in Psns : M = 0 /\ p = M
    BY <1>2, <1>8 DEF Fresh
  <2>1. p = M /\ M = 0 /\ pkt.psn = M
    BY <2>0
  <2>2. /\ CellsOK(j, M)' /\ Seen(M)' = {r} /\ (full(pkt) => Answered(j, M, act, M))
    <3>1. Clean /\ ~(pkt.psn > 0) /\ "metadata" \in entries[answer[j]]
      <4>1. results[j][0] = <<>> /\ NPkts > 0
        BY <1>8, <2>1, PsnsNat, LifecycleAssumption DEF Fresh
      <4>2. Len(results[j][0]) # NPkts
        BY <4>1
      <4> QED  BY <1>3, <1>8, <2>1, <4>2 DEF Fresh
    <3>2. Begun(j, r, pkt, pkt.psn)
      BY <1>2, <1>3, <3>1, FirstPacket
    <3>3. Begun(j, r, pkt, M)
      BY <2>1, <3>2
    <3> QED  BY <3>3 DEF Begun
  <2>3. \A s \in Ranks : Len(results'[j][s]) = 0 /\ down'[j][s] = <<>>
    BY <1>2, <1>8 DEF Fresh
  <2>4. WindowOK(j, M)'
    <3>1. 0 <= 0 + 1 /\ 0 <= 0 /\ 0 # 0 + 1
      OBVIOUS
    <3> QED  BY <2>1, <2>3, <3>1, Zenon DEF WindowOK
  <2>5. \A s \in Ranks : \A i \in DOMAIN up'[j][s] : up'[j][s][i].psn = M
    <3>1. \A s \in Ranks : \A i \in DOMAIN up[j][s] : up[j][s][i].psn = M
      BY <1>8, <2>1 DEF Fresh
    <3> TAKE s \in Ranks
    <3>2. CASE s = r
      BY <1>2, <3>1, <3>2
    <3>3. CASE s # r
      BY <1>2, <3>1, <3>3
    <3> QED  BY <3>2, <3>3
  <2>6. UpOK(j, M)'
    BY <2>1, <2>3, <2>5 DEF UpOK
  <2>7. DownOK(j, M)'
    BY <2>3 DEF DownOK
  <2>8. RecircOK(j, M)'
    <3>1. \A i \in DOMAIN recirc' :
            full(pkt) /\ recirc'[i].pkt.psn = M /\ recirc'[i].data0 = act.agg0
      BY <1>4, <1>8, <2>1 DEF Recirculates, Fresh
    <3> QED  BY <2>1, <2>2, <2>3, <3>1 DEF RecircOK, Answered
  <2> QED  BY <2>2, <2>4, <2>6, <2>7, <2>8 DEF Reducing, Running
<1>9. ASSUME NEW M \in Psns, Running(j, M)
      PROVE  Reducing(j)'
  <2>1. /\ CellsOK(j, M) /\ WindowOK(j, M) /\ UpOK(j, M) /\ RecircOK(j, M) /\ DownOK(j, M)
        /\ M \in Nat
    BY <1>7, <1>9 DEF Running
  <2>2. p <= Len(results[j][r]) /\ M <= p + 1 /\ (r \in Seen(M) => M <= p)
    BY <1>2, <2>1 DEF UpOK
  <2>11. "metadata" \in entries[answer[j]] \/ bitmap_old(pkt) = Ranks
    BY <1>2, <1>3, <2>1, <2>2, LastComplete
  <2>3. PICK M2 \in Psns : /\ Progress(j, r, p, M, M2)
                           /\ full(pkt) => Answered(j, p, act, M2)
                           /\ InOrder(p, M, M2)
    BY <1>2, <1>3, <2>1, <2>2, <2>11, Aggregate
  <2>4. M2 \in Nat
    BY <1>7
  <2> HIDE DEF p, act
  <2>5. WindowOK(j, M2)'
    <3> SUFFICES ASSUME NEW s \in Ranks
                 PROVE  /\ M2 <= Len(results[j][s]) + 1
                        /\ s \in Seen(M2)' => M2 <= Len(results[j][s])
                        /\ Len(results[j][s]) <= M2 + 1
                        /\ Len(results[j][s]) = M2 + 1 => Seen(M2)' = Ranks
      BY <1>2 DEF WindowOK
    <3>1. /\ M <= Len(results[j][s]) + 1 /\ (s \in Seen(M) => M <= Len(results[j][s]))
          /\ Len(results[j][s]) <= M + 1 /\ (Len(results[j][s]) = M + 1 => Seen(M) = Ranks)
          /\ Len(results[j][s]) \in Nat
      BY <1>7, <2>1 DEF WindowOK
    <3>2. CASE M2 = M
      <4>1. Seen(M) \subseteq Seen(M)' /\ Seen(M)' \subseteq Seen(M) \cup {r}
            /\ (r \in Seen(M)' => p = M \/ r \in Seen(M))
        BY <2>3, <3>2 DEF Progress
      <4>2. Seen(M) = Ranks => Seen(M)' = Ranks
        BY <4>1
      <4>3. s \in Seen(M)' => M <= Len(results[j][s])
        BY <2>2, <3>1, <4>1
      <4> QED  BY <3>1, <3>2, <4>2, <4>3
    <3>3. CASE M2 = M + 1
      <4>1. p = M2 /\ Seen(M2)' = {r} /\ Seen(M) = Ranks
        BY <2>1, <2>3, <3>3 DEF Progress
      <4>2. M <= Len(results[j][s])
        BY <3>1, <4>1
      <4>3. s = r => M2 <= Len(results[j][s])
        BY <2>2, <4>1
      <4> QED  BY <2>1, <3>1, <3>3, <4>1, <4>2, <4>3
    <3> QED  BY <2>3, <3>2, <3>3 DEF Progress
  <2>6. UpOK(j, M2)'
    <3>1. ASSUME NEW i \in DOMAIN up'[j][r]
          PROVE  /\ up'[j][r][i].psn \in Nat /\ p <= up'[j][r][i].psn
                 /\ \E h \in DOMAIN up[j][r] : up'[j][r][i] = up[j][r][h]
      <4>1. i + 1 \in DOMAIN up[j][r] /\ 1 <= i + 1 /\ up'[j][r][i] = up[j][r][i + 1]
        BY <1>2
      <4>2. up[j][r][1].psn <= up[j][r][i + 1].psn
        BY <1>2, <2>1, <4>1 DEF UpOK
      <4> QED  BY <1>2, <1>7, <4>1, <4>2 DEF p
    <3>2. ASSUME NEW s \in Ranks, NEW i \in DOMAIN up'[j][s]
          PROVE  /\ up'[j][s][i].psn \in Nat /\ (s = r => p <= up'[j][s][i].psn)
                 /\ up'[j][s][i].psn <= Len(results[j][s])
                 /\ M <= up'[j][s][i].psn + 1
                 /\ s \in Seen(M) => M <= up'[j][s][i].psn
      <4>1. PICK h \in DOMAIN up[j][s] : up'[j][s][i] = up[j][s][h]
        BY <1>2, <3>1
      <4> QED  BY <1>7, <2>1, <3>1, <4>1 DEF UpOK
    <3>3. ASSUME NEW s \in Ranks, NEW i \in DOMAIN up'[j][s]
          PROVE  /\ M2 <= up'[j][s][i].psn + 1
                 /\ s \in Seen(M2)' => M2 <= up'[j][s][i].psn
      <4>1. CASE M2 = M
        <5>1. s \in Seen(M)' => s \in Seen(M) \/ (s = r /\ p = M)
          BY <2>3, <4>1 DEF Progress
        <5> QED  BY <3>2, <4>1, <5>1
      <4>2. CASE M2 = M + 1
        <5>1. p = M2 /\ Seen(M2)' = {r} /\ Seen(M) = Ranks
          BY <2>1, <2>3, <4>2 DEF Progress
        <5> QED  BY <2>1, <3>2, <4>2, <5>1
      <4> QED  BY <2>3, <4>1, <4>2 DEF Progress
    <3>4. ASSUME NEW s \in Ranks, NEW i \in DOMAIN up'[j][s], NEW k \in DOMAIN up'[j][s], i <= k
          PROVE  up'[j][s][i].psn <= up'[j][s][k].psn
      <4>1. CASE s = r
        <5>1. /\ i \in Nat /\ k \in Nat /\ i + 1 \in DOMAIN up[j][r] /\ k + 1 \in DOMAIN up[j][r]
              /\ up'[j][r][i] = up[j][r][i + 1] /\ up'[j][r][k] = up[j][r][k + 1]
          BY <1>2, <4>1
        <5>2. i + 1 <= k + 1
          BY <3>4, <5>1
        <5> QED  BY <2>1, <4>1, <5>1, <5>2 DEF UpOK
      <4>2. CASE s # r
        BY <1>2, <2>1, <3>4, <4>2 DEF UpOK
      <4> QED  BY <4>1, <4>2
    <3> QED  BY <1>2, <3>2, <3>3, <3>4 DEF UpOK
  <2>7. \A i \in DOMAIN recirc : recirc[i].pkt.psn \in Psns /\ recirc[i].pkt.psn <= p
                                 /\ Answerable(recirc[i].pkt.psn, M2, Seen(M2)')
    BY <2>1, <2>3, RecircType DEF RecircOK, InOrder
  <2>8. RecircOK(j, M2)'
    <3>1. full(pkt) => \A s \in Ranks : Len(results[j][s]) <= p + 1
      <4> SUFFICES ASSUME NEW s \in Ranks
                   PROVE  Len(results[j][s]) <= p + 1
        OBVIOUS
      <4>1. Len(results[j][s]) \in Nat /\ Len(results[j][s]) <= M + 1
            /\ (Len(results[j][s]) = M + 1 => Seen(M) = Ranks)
        BY <1>7, <2>1 DEF WindowOK
      <4>2. Seen(M) = Ranks => M <= p
        BY <2>2
      <4> QED  BY <1>7, <2>1, <2>2, <4>1, <4>2 DEF p
    <3>5. results' = results
      BY <1>2
    <3> SUFFICES ASSUME NEW i \in DOMAIN recirc'
                 PROVE  /\ Answerable(recirc'[i].pkt.psn, M2, Seen(M2)')
                        /\ recirc'[i].data0 = SumOver(j, Ranks, recirc'[i].pkt.psn)
                        /\ \A s \in Ranks : Len(results[j][s]) <= recirc'[i].pkt.psn + 1
                        /\ \A k \in DOMAIN recirc' : i <= k => recirc'[i].pkt.psn <= recirc'[k].pkt.psn
      BY <3>5 DEF RecircOK
    <3>2. CASE i \in DOMAIN recirc /\ recirc'[i] = recirc[i]
      <4>1. \A k \in DOMAIN recirc' : i <= k => recirc'[i].pkt.psn <= recirc'[k].pkt.psn
        BY <1>4, <2>1, <2>7, <3>2 DEF Recirculates, RecircOK
      <4> QED  BY <2>1, <2>7, <3>2, <4>1 DEF RecircOK
    <3>3. CASE /\ full(pkt) /\ recirc'[i].pkt.psn = p /\ recirc'[i].data0 = act.agg0
               /\ \A k \in DOMAIN recirc' : k <= i
      <4>1. \A k \in DOMAIN recirc' : k \in Nat
        BY <1>4, EmptyQueue
      <4>2. \A k \in DOMAIN recirc' : i <= k => k = i
        BY <3>3, <4>1
      <4> QED  BY <1>7, <2>3, <3>1, <3>3, <4>2 DEF Answered, p
    <3> QED  BY <1>4, <3>2, <3>3 DEF Recirculates
  <2>9. DownOK(j, M2)'
    <3>1. \A s \in Ranks : \A i \in DOMAIN down[j][s] :
            /\ down[j][s][i].psn \in Psns
            /\ Answerable(down[j][s][i].psn, M, Seen(M))
            /\ down[j][s][i].sum = Answer(j, down[j][s][i].psn)
            /\ \A k \in DOMAIN recirc : down[j][s][i].psn <= recirc[k].pkt.psn
      BY <2>1, DownType DEF DownOK
    <3>2. \A s \in Ranks : \A i \in DOMAIN down[j][s] :
            down[j][s][i].psn <= p /\ Answerable(down[j][s][i].psn, M2, Seen(M2)')
      BY <2>3, <3>1 DEF InOrder
    <3>3. \A s \in Ranks : \A i \in DOMAIN down[j][s] :
            \A k \in DOMAIN recirc' : down[j][s][i].psn <= recirc'[k].pkt.psn
      BY <1>4, <3>1, <3>2 DEF Recirculates
    <3> QED  BY <1>2, <3>1, <3>2, <3>3 DEF DownOK
  <2>10. CellsOK(j, M2)'
    BY <2>3 DEF Progress
  <2> QED  BY <2>5, <2>6, <2>8, <2>9, <2>10 DEF Reducing, Running
<1> QED  BY <1>5, <1>8, <1>9 DEF Reducing

LEMMA IngressStep ==
    ASSUME IInv, NEW j \in Jobs, NEW r \in Ranks, Ingress(j, r)
    PROVE  IInv'
<1> USE DEF IInv
<1>1. PICK pkt : pkt = Head(up[j][r])
  OBVIOUS
<1>2. Ingested(j, r, pkt)
  BY <1>1, IngressFacts
<1>3. /\ pkt \in Packets /\ pkt.job = j /\ pkt.rank = r /\ pkt.group = answer[j]
      /\ up[j][r] # <<>> /\ up' \in [Jobs -> [Ranks -> Seq(Packets)]]
      /\ UNCHANGED <<free_ids, mem_free, entries, rpc, answer, ctx, results, exited, down, tenant, late>>
  BY <1>2 DEF Ingested
<1>4. /\ recirc' \in Seq(Entries)
      /\ \A i \in DOMAIN recirc' :
           recirc'[i].pkt = pkt \/ (i \in DOMAIN recirc /\ recirc'[i] = recirc[i])
  BY <1>2, <1>3, Pass1Recirc DEF Ingested
<1>5. TypeOK'
  <2>1. /\ agg_addr(pkt) \in AggAddrs
        /\ set_version(pkt) \in (Ids \cup {0}) \X Nat
        /\ bitmap_old(pkt) \cup {r} \in SUBSET Ranks
        /\ agg_action(pkt) \in [agg0 : Words, agg1 : Words]
    BY <1>3, IngressType
  <2>2. bitmaps' \in [AggAddrs -> [version : (Ids \cup {0}) \X Nat, bitmap : SUBSET Ranks]]
    BY <1>2, <2>1 DEF Ingested, TypeOK
  <2>3. aggregator_array' \in [AggAddrs -> [agg0 : Words, agg1 : Words]]
    BY <1>2, <2>1 DEF Ingested, TypeOK
  <2> QED  BY <1>3, <1>4, <2>2, <2>3 DEF TypeOK
<1>6. ~Idle(j, r) /\ answer[j] > 0 /\ Unfinished(j) /\ Present(j)
  <2>1. ~Idle(j, r) /\ Unfinished(j)
    BY <1>3 DEF Idle, Unfinished
  <2> QED  BY <2>1, Granted DEF TrafficOK
<1>7. \A k \in Jobs, s \in Ranks : k # j \/ s # r => up'[k][s] = up[k][s]
  BY <1>2 DEF Ingested
<1>8. ResultsOwn' /\ ControlOK'
  BY <1>3, KeepResults, KeepControl
<1>9. HostsOK'
  <2>1. \A k \in Jobs, s \in Ranks : k # j => (Idle(k, s)' = Idle(k, s))
    BY <1>3, <1>7 DEF Idle
  <2>3. ~(answer[j] <= 0)
    BY <1>6, AnswerType
  <2> QED  BY <1>3, <2>1, <2>3 DEF HostsOK
<1>10. LinksOK'
  <2>1. \A k \in Jobs, s \in Ranks : \A i \in DOMAIN up'[k][s] :
          \E h \in DOMAIN up[k][s] : up'[k][s][i] = up[k][s][h]
    <3>1. \A i \in DOMAIN up'[j][r] : \E h \in DOMAIN up[j][r] : up'[j][r][i] = up[j][r][h]
      BY <1>2 DEF Ingested
    <3> TAKE k \in Jobs, s \in Ranks
    <3>2. CASE k = j /\ s = r
      BY <3>1, <3>2
    <3>3. CASE k # j \/ s # r
      BY <1>7, <3>3
    <3> QED  BY <3>2, <3>3
  <2>2. \A i \in DOMAIN recirc' :
          answer[recirc'[i].pkt.job] > 0 /\ recirc'[i].pkt.group = answer[recirc'[i].pkt.job]
    <3> TAKE i \in DOMAIN recirc'
    <3>1. CASE recirc'[i].pkt = pkt
      BY <1>3, <1>6, <3>1
    <3>2. CASE i \in DOMAIN recirc /\ recirc'[i] = recirc[i]
      BY <3>2 DEF LinksOK
    <3> QED  BY <1>4, <3>1, <3>2
  <2>3. \A k \in Jobs, s \in Ranks : \A i \in DOMAIN up'[k][s] :
          up'[k][s][i].job = k /\ up'[k][s][i].rank = s /\ up'[k][s][i].group = answer[k]
    BY <2>1 DEF LinksOK
  <2> QED  BY <1>3, <2>2, <2>3 DEF LinksOK
<1>11. TenantOK'
  <2>1. \A k \in Jobs : Live(k)' = Live(k)
    BY <1>3 DEF Live
  <2>2. ASSUME rpc # NoRpc, answer[rpc.job] = NoAnswer, tenant = rpc.job, late[rpc.job] = {}
        PROVE  FALSE
    <3>1. j = rpc.job
      BY <1>6, <2>2 DEF Present
    <3> QED  BY <1>6, <2>2, <3>1 DEF NoAnswer
  <2> QED  BY <1>3, <2>1, <2>2 DEF TenantOK
<1>12. ASSUME NEW k \in Jobs, Alone(k)'
       PROVE  Reducing(k)'
  <2>1. Alone(k)
    BY <1>3, <1>12 DEF Alone
  <2>2. k = j
    BY <1>6, <2>1 DEF Alone, Present
  <2> QED  BY <2>1, <2>2, IngressReducing
<1>13. TrafficOK'
  <2>1. ASSUME NEW k \in Jobs, Unfinished(k)', k # j
        PROVE  Unfinished(k)
    <3>1. \A s \in Ranks : up'[k][s] = up[k][s]
      BY <1>7, <2>1
    <3>2. \A i \in DOMAIN recirc' : recirc'[i].pkt.job = k => \E h \in DOMAIN recirc : recirc[h].pkt.job = k
      BY <1>3, <1>4, <2>1
    <3> QED  BY <1>3, <2>1, <3>1, <3>2 DEF Unfinished
  <2> QED  BY <1>3, <1>6, <2>1, KeepTraffic
<1>14. VersionsOK'
  <2> SUFFICES ASSUME NEW a \in AggAddrs
               PROVE  \/ bitmaps'[a].version[1] = 0
                      \/ \E k \in Jobs : Present(k) /\ bitmaps'[a].version[1] = answer[k]
    BY <1>3 DEF VersionsOK, Present
  <2>1. bitmaps' = [bitmaps EXCEPT ![agg_addr(pkt)] =
          [version |-> set_version(pkt), bitmap |-> bitmap_old(pkt) \cup {r}]]
    BY <1>2 DEF Ingested
  <2>2. CASE a = agg_addr(pkt)
    <3>1. bitmaps'[a].version = <<answer[j], pkt.psn>>
      BY <1>3, <2>1, <2>2 DEF TypeOK, set_version
    <3> QED  BY <1>6, <3>1
  <2>3. CASE a # agg_addr(pkt)
    <3>1. bitmaps'[a] = bitmaps[a]
      BY <2>1, <2>3 DEF TypeOK
    <3> QED  BY <3>1 DEF VersionsOK
  <2> QED  BY <2>2, <2>3
<1> QED  BY <1>5, <1>8, <1>9, <1>10, <1>11, <1>12, <1>13, <1>14 DEF ReductionOK

-----------------------------------------------------------------------------
(* Pass 2. *)

\* Pass 2 of entry e: the answer d goes to those who get it.
Forwards(e, d) ==
    /\ recirc # <<>> /\ recirc' = Tail(recirc)
    /\ e = recirc[1] /\ e \in Entries /\ 1 \in DOMAIN recirc
    /\ e.pkt.job \in Jobs /\ e.pkt.rank \in Ranks /\ e.pkt.psn \in Psns
    /\ recirc' \in Seq(Entries)
    /\ \A i \in DOMAIN recirc' :
         i \in Nat /\ i + 1 \in DOMAIN recirc /\ 1 <= i + 1 /\ recirc'[i] = recirc[i + 1]
    /\ d = [psn |-> e.pkt.psn, sum |-> <<e.data0, aggregator_array[agg_addr(e.pkt)].agg1>>]
    /\ d \in Responses
    /\ down' \in [Jobs -> [Ranks -> Seq(Responses)]]
    /\ \A k \in Jobs : k # e.pkt.job => down'[k] = down[k]
    /\ \A s \in Ranks : \A i \in DOMAIN down'[e.pkt.job][s] :
         \/ down'[e.pkt.job][s][i] = d
         \/ i \in DOMAIN down[e.pkt.job][s] /\ down'[e.pkt.job][s][i] = down[e.pkt.job][s][i]
    /\ UNCHANGED <<free_ids, mem_free, entries, rpc, answer, ctx, results, exited, up,
                   bitmaps, aggregator_array, tenant, late>>

LEMMA RecirculateFacts ==
    ASSUME TypeOK, Recirculate
    PROVE  \E e, d : Forwards(e, d)
<1>1. PICK e : e = Head(recirc)
  OBVIOUS
<1>2. PICK d : d = [psn |-> e.pkt.psn, sum |-> <<e.data0, aggregator_array[agg_addr(e.pkt)].agg1>>]
  OBVIOUS
<1>3. recirc \in Seq(Entries) /\ recirc # <<>> /\ recirc' = Tail(recirc)
  BY DEF TypeOK, Recirculate
<1>4. /\ e \in Entries /\ e = recirc[1] /\ 1 \in DOMAIN recirc /\ recirc' \in Seq(Entries)
      /\ \A i \in DOMAIN recirc' :
           i \in Nat /\ i + 1 \in DOMAIN recirc /\ 1 <= i + 1 /\ recirc'[i] = recirc[i + 1]
  BY <1>1, <1>3, TailQueue
<1>5. /\ e.pkt \in Packets /\ e.pkt.job \in Jobs /\ e.pkt.rank \in Ranks /\ e.pkt.psn \in Psns
      /\ e.data0 \in Words
  BY <1>4 DEF Entries, Packets
<1>6. aggregator_array[agg_addr(e.pkt)].agg1 \in Words
  <2>1. agg_addr(e.pkt) \in AggAddrs
    BY <1>5, IngressType
  <2> QED  BY <2>1 DEF TypeOK
<1>7. d \in Responses
  BY <1>2, <1>5, <1>6 DEF Responses
<1> DEFINE j == e.pkt.job
<1>8. /\ down' = [down EXCEPT ![j] = [s \in Ranks |->
            IF s \in destinations(e) THEN Append(@[s], d) ELSE @[s]]]
      /\ UNCHANGED <<free_ids, mem_free, entries, rpc, answer, ctx, results, exited, up,
                     bitmaps, aggregator_array, tenant, late>>
  BY <1>1, <1>2 DEF Recirculate, control, hosts, history
<1>9. /\ \A k \in Jobs : k # j => down'[k] = down[k]
      /\ DOMAIN down' = Jobs
      /\ down'[j] = [s \in Ranks |-> IF s \in destinations(e) THEN Append(down[j][s], d)
                                                              ELSE down[j][s]]
  BY <1>5, <1>8 DEF TypeOK
<1>10. ASSUME NEW s \in Ranks
       PROVE  /\ down'[j][s] \in Seq(Responses)
              /\ \A i \in DOMAIN down'[j][s] :
                   down'[j][s][i] = d \/ (i \in DOMAIN down[j][s] /\ down'[j][s][i] = down[j][s][i])
  <2>1. down[j][s] \in Seq(Responses)
    BY <1>5, DownType
  <2>2. down'[j][s] = Append(down[j][s], d) \/ down'[j][s] = down[j][s]
    BY <1>9
  <2>3. CASE down'[j][s] = Append(down[j][s], d)
    <3> HIDE DEF j
    <3> QED  BY <1>7, <2>1, <2>3, AppendQueue
  <2>4. CASE down'[j][s] = down[j][s]
    BY <2>1, <2>4
  <2> QED  BY <2>2, <2>3, <2>4
<1>11. down' \in [Jobs -> [Ranks -> Seq(Responses)]]
  <2>1. down'[j] \in [Ranks -> Seq(Responses)]
    BY <1>9, <1>10
  <2> QED  BY <1>8, <2>1 DEF TypeOK
<1>12. Forwards(e, d)
  BY <1>2, <1>3, <1>4, <1>5, <1>7, <1>8, <1>9, <1>10, <1>11 DEF Forwards
<1> QED  BY <1>12

\* Pass 2 finds the packet still in its aggregator.
LEMMA StillThere ==
    ASSUME TypeOK, NEW j \in Jobs, NEW M \in Psns, NEW p \in Psns,
           CellsOK(j, M), WindowOK(j, M), Answerable(p, M, Seen(M)),
           \A s \in Ranks : Len(results[j][s]) <= p + 1
    PROVE  aggregator_array[p % AggLen].agg1 = SumOver(j, Ranks, p)
<1>1. M \in Nat /\ p \in Nat
  BY PsnsNat
<1>2. PICK s \in Seen(M) : s \in Ranks
  <2>1. M % AggLen \in AggAddrs
    BY <1>1, Turns
  <2>2. Seen(M) # {} /\ Seen(M) \subseteq Ranks
    BY <2>1 DEF CellsOK, Seen, TypeOK
  <2> QED  BY <2>2
<1>3. M <= Len(results[j][s]) /\ Len(results[j][s]) \in Nat /\ Len(results[j][s]) <= p + 1
  BY <1>2, ResultsType DEF WindowOK
<1>4. M <= p + 1
  BY <1>1, <1>3
<1>5. CASE p = M /\ Seen(M) = Ranks
  <2>1. aggregator_array[M % AggLen] = [agg0 |-> SumOver(j, Ranks, M), agg1 |-> SumOver(j, Ranks, M)]
    BY <1>5 DEF CellsOK
  <2> QED  BY <1>5, <2>1
<1>6. CASE p < M
  <2>1. M > 0 /\ p = M - 1 /\ p + 2 = M + 1
    BY <1>1, <1>4, <1>6
  <2>2. (M + 1) % AggLen = p % AggLen
    BY <1>1, <2>1, Turns
  <2>3. aggregator_array[(M + 1) % AggLen] =
          [agg0 |-> SumOver(j, Ranks, M - 1), agg1 |-> SumOver(j, Ranks, M - 1)]
    BY <2>1 DEF CellsOK
  <2>4. aggregator_array[p % AggLen].agg1 = SumOver(j, Ranks, M - 1)
    BY <2>2, <2>3
  <2> QED  BY <2>1, <2>4
<1> QED  BY <1>5, <1>6 DEF Answerable

LEMMA RecirculateReducing ==
    ASSUME IInv, NEW e, NEW d, Forwards(e, d), NEW j \in Jobs, Alone(j), j = e.pkt.job
    PROVE  Reducing(j)'
<1> USE DEF IInv
<1>1. PICK p \in Psns : p = e.pkt.psn
  BY DEF Forwards
<1>2. Reducing(j) /\ ~Fresh(j)
  BY DEF ReductionOK, Forwards, Fresh
<1>3. PICK M \in Psns : Running(j, M)
  BY <1>2 DEF Reducing
<1>4. /\ CellsOK(j, M) /\ WindowOK(j, M) /\ UpOK(j, M) /\ RecircOK(j, M) /\ DownOK(j, M)
  BY <1>3 DEF Running
<1>5. /\ Answerable(p, M, Seen(M)) /\ e.data0 = SumOver(j, Ranks, p)
      /\ \A s \in Ranks : Len(results[j][s]) <= p + 1
      /\ \A k \in DOMAIN recirc : 1 <= k => p <= recirc[k].pkt.psn
  <2>1. 1 \in DOMAIN recirc /\ recirc[1] = e
    BY DEF Forwards
  <2> QED  BY <1>1, <1>4, <2>1 DEF RecircOK
<1>6. d.psn = p /\ d.sum = Answer(j, p)
  <2>1. agg_addr(e.pkt) = p % AggLen
    BY <1>1 DEF agg_addr
  <2>2. aggregator_array[p % AggLen].agg1 = SumOver(j, Ranks, p)
    BY <1>4, <1>5, StillThere
  <2>3. d = [psn |-> p, sum |-> <<SumOver(j, Ranks, p), SumOver(j, Ranks, p)>>]
    BY <1>1, <1>5, <2>1, <2>2 DEF Forwards
  <2> QED  BY <2>3 DEF Answer
<1>7. /\ UNCHANGED <<answer, results, up, bitmaps, aggregator_array>>
      /\ \A i \in DOMAIN recirc' :
           i \in Nat /\ i + 1 \in DOMAIN recirc /\ 1 <= i + 1 /\ recirc'[i] = recirc[i + 1]
      /\ \A s \in Ranks : \A i \in DOMAIN down'[j][s] :
           down'[j][s][i] = d \/ (i \in DOMAIN down[j][s] /\ down'[j][s][i] = down[j][s][i])
  BY DEF Forwards
<1>8. Seen(M)' = Seen(M)
  BY <1>7 DEF Seen
<1>10. CellsOK(j, M)' /\ WindowOK(j, M)' /\ UpOK(j, M)'
  <2>1. CellsOK(j, M)'
    BY <1>4, <1>7, <1>8 DEF CellsOK
  <2>2. WindowOK(j, M)'
    BY <1>4, <1>7, <1>8 DEF WindowOK
  <2>3. UpOK(j, M)'
    <3>1. UNCHANGED <<up, results>> /\ Seen(M)' = Seen(M) /\ UpOK(j, M)
      BY <1>4, <1>7, <1>8
    <3> QED  BY <3>1 DEF UpOK
  <2> QED  BY <2>1, <2>2, <2>3
<1>11. RecircOK(j, M)'
  <2> SUFFICES ASSUME NEW i \in DOMAIN recirc'
               PROVE  /\ Answerable(recirc'[i].pkt.psn, M, Seen(M))
                      /\ recirc'[i].data0 = SumOver(j, Ranks, recirc'[i].pkt.psn)
                      /\ \A s \in Ranks : Len(results[j][s]) <= recirc'[i].pkt.psn + 1
                      /\ \A k \in DOMAIN recirc' : i <= k => recirc'[i].pkt.psn <= recirc'[k].pkt.psn
    BY <1>7, <1>8 DEF RecircOK
  <2>1. i \in Nat /\ i + 1 \in DOMAIN recirc /\ recirc'[i] = recirc[i + 1]
    BY <1>7
  <2>2. ASSUME NEW k \in DOMAIN recirc', i <= k
        PROVE  recirc'[i].pkt.psn <= recirc'[k].pkt.psn
    <3>1. k \in Nat /\ k + 1 \in DOMAIN recirc /\ recirc'[k] = recirc[k + 1]
      BY <1>7
    <3>2. i + 1 <= k + 1
      BY <2>1, <2>2, <3>1
    <3> QED  BY <1>4, <2>1, <3>1, <3>2 DEF RecircOK
  <2> QED  BY <1>4, <2>1, <2>2 DEF RecircOK
<1>12. DownOK(j, M)'
  <2>1. \A i \in DOMAIN recirc' : p <= recirc'[i].pkt.psn
    BY <1>5, <1>7
  <2>2. ASSUME NEW s \in Ranks, NEW i \in DOMAIN down'[j][s]
        PROVE  /\ Answerable(down'[j][s][i].psn, M, Seen(M))
               /\ down'[j][s][i].sum = Answer(j, down'[j][s][i].psn)
               /\ \A k \in DOMAIN recirc' : down'[j][s][i].psn <= recirc'[k].pkt.psn
    <3>1. CASE down'[j][s][i] = d
      BY <1>5, <1>6, <2>1, <3>1
    <3>2. CASE i \in DOMAIN down[j][s] /\ down'[j][s][i] = down[j][s][i]
      BY <1>4, <1>7, <3>2 DEF DownOK
    <3> QED  BY <1>7, <3>1, <3>2
  <2> QED  BY <1>8, <2>2 DEF DownOK
<1> QED  BY <1>10, <1>11, <1>12 DEF Reducing, Running

LEMMA RecirculateStep ==
    ASSUME IInv, Recirculate
    PROVE  IInv'
<1> USE DEF IInv
<1>1. PICK e, d : Forwards(e, d)
  BY RecirculateFacts
<1>2. /\ UNCHANGED <<free_ids, mem_free, entries, rpc, answer, ctx, results, exited, up,
                     bitmaps, aggregator_array, tenant, late>>
      /\ recirc' \in Seq(Entries) /\ down' \in [Jobs -> [Ranks -> Seq(Responses)]]
      /\ \A i \in DOMAIN recirc' : i + 1 \in DOMAIN recirc /\ recirc'[i] = recirc[i + 1]
      /\ e.pkt.job \in Jobs /\ 1 \in DOMAIN recirc /\ recirc[1] = e /\ recirc # <<>>
      /\ \A k \in Jobs : k # e.pkt.job => down'[k] = down[k]
  BY <1>1 DEF Forwards
<1>3. TypeOK'
  BY <1>2 DEF TypeOK
<1>4. ResultsOwn' /\ ControlOK' /\ TenantOK' /\ VersionsOK'
  BY <1>2, KeepResults, KeepControl, KeepTenant, KeepVersions
<1>5. LinksOK'
  BY <1>2 DEF LinksOK
<1>6. TrafficOK'
  <2>1. \A k \in Jobs : Unfinished(k)' => Unfinished(k)
    BY <1>2 DEF Unfinished
  <2> QED  BY <1>2, <2>1, KeepTraffic
<1>7. HostsOK'
  <2>1. \A k \in Jobs, s \in Ranks : k # e.pkt.job => (Idle(k, s)' = Idle(k, s))
    BY <1>2 DEF Idle
  <2>3. answer[e.pkt.job] > 0
    BY <1>2 DEF LinksOK
  <2>4. ~(answer[e.pkt.job] <= 0)
    BY <1>2, <2>3, AnswerType
  <2> QED  BY <1>2, <2>1, <2>4 DEF HostsOK
<1>8. ASSUME NEW k \in Jobs, Alone(k)'
      PROVE  Reducing(k)'
  <2>1. Alone(k)
    BY <1>2, <1>8 DEF Alone
  <2>2. k = e.pkt.job
    <3>1. Unfinished(e.pkt.job)
      BY <1>2 DEF Unfinished
    <3> QED  BY <1>2, <2>1, <3>1, OwnTraffic DEF Alone
  <2> QED  BY <1>1, <2>1, <2>2, RecirculateReducing
<1> QED  BY <1>3, <1>4, <1>5, <1>6, <1>7, <1>8 DEF ReductionOK

-----------------------------------------------------------------------------
(* The theorems. *)

LEMMA NextIInv ==
    ASSUME IInv, [Next]_vars
    PROVE  IInv'
<1>1. CASE \E j \in Jobs : CreateGroupRpc(j)
  BY <1>1, CreateGroupStep
<1>2. CASE RpcStep
  BY <1>2, RpcStepStep
<1>3. CASE RpcReturn
  BY <1>3, RpcReturnStep
<1>4. CASE \E j \in Jobs, r \in Ranks : alloc_group_ctx(j, r) \/ exit_handler(j, r)
  BY <1>4, AllocStep, ExitStep
<1>5. CASE \E j \in Jobs, r \in Ranks : Transmit(j, r) \/ Receive(j, r)
  BY <1>5, TransmitStep, ReceiveStep
<1>6. CASE \E j \in Jobs, r \in Ranks : Ingress(j, r) \/ LoseDown(j, r)
  BY <1>6, IngressStep, LoseDownStep
<1>7. CASE Recirculate
  BY <1>7, RecirculateStep
<1>8. CASE UNCHANGED vars
  <2>1. UNCHANGED <<free_ids, mem_free, entries, rpc, answer, ctx, results, exited, up, down,
                    recirc, bitmaps, aggregator_array, tenant, late>>
    BY <1>8 DEF vars, control, hosts, switch, history
  <2>2. TypeOK' /\ ResultsOwn' /\ ControlOK' /\ LinksOK' /\ TenantOK' /\ HostsOK'
    BY <2>1, KeepResults, KeepControl, KeepLinks, KeepTenant, KeepHosts DEF IInv, TypeOK
  <2>3. TrafficOK' /\ VersionsOK' /\ ReductionOK'
    BY <2>1, KeepUnfinished, KeepTraffic, KeepVersions, KeepReductions DEF IInv, switch
  <2> QED  BY <2>2, <2>3 DEF IInv
<1> QED  BY <1>1, <1>2, <1>3, <1>4, <1>5, <1>6, <1>7, <1>8 DEF Next, Control

(***************************************************************************)
(* The inductive invariant of the life of groups, in which rank 0 waits    *)
(* for nobody when it exits: one group at a time has the memory, the jobs  *)
(* with traffic are the tenant of the registers and those left over when   *)
(* they were reset for it, and a tenant without such company reduces.      *)
(***************************************************************************)
THEOREM LifecycleInvariant == Spec => []IInv
<1>1. Init => IInv
  BY InitIInv
<1>2. IInv /\ [Next]_vars => IInv'
  BY NextIInv
<1> QED  BY <1>1, <1>2, PTL DEF Spec

(***************************************************************************)
(* ResultsOwn for any jobs, ranks, streams and links: whatever the         *)
(* aggregators held before, while tables of other groups are built and     *)
(* removed and after rank 0 has left, every answer a rank takes is the sum *)
(* over its own job, if the job did not meet another in its aggregators.   *)
(***************************************************************************)
THEOREM ResultsOwnAlways == Spec => []ResultsOwn
<1>1. IInv => ResultsOwn
  BY DEF IInv
<1> QED  BY <1>1, LifecycleInvariant, PTL

(***************************************************************************)
(* SharedOnlyWithLate for any jobs, ranks, streams and links: what breaks  *)
(* into the aggregators of a group between the responses to CreateGroup    *)
(* and DestroyGroup is left over from the reset, and nothing else.         *)
(***************************************************************************)
THEOREM SharedOnlyWithLateAlways == Spec => []SharedOnlyWithLate
<1>1. ASSUME IInv
      PROVE  SharedOnlyWithLate
  <2> SUFFICES ASSUME NEW j \in Jobs, Live(j), NEW a \in AggAddrs
               PROVE  bitmaps[a].version[1] \in {0, answer[j]} \cup {answer[k] : k \in late[j]}
    BY DEF SharedOnlyWithLate, Live
  <2>1. tenant = j
    BY <1>1 DEF IInv, TenantOK
  <2>2. \/ bitmaps[a].version[1] = 0
        \/ \E k \in Jobs : (k = j \/ k \in late[j]) /\ bitmaps[a].version[1] = answer[k]
    BY <1>1, <2>1 DEF IInv, VersionsOK, Present
  <2> QED  BY <2>2
<1> QED  BY <1>1, LifecycleInvariant, PTL
=============================================================================
