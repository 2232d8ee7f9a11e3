---------------------------- MODULE Collectives -----------------------------
(***************************************************************************)
(* The Python layer (server/frontend/src/py/__init__.py) on all ranks of a *)
(* group: one call of the torch.distributed API becomes a sequence of      *)
(* collectives, each of which goes either through the switch or to NCCL.   *)
(* Ranks run independently and meet only in collectives; a collective that *)
(* ranks enter on different ways never ends.                               *)
(*                                                                         *)
(* Data is abstracted twice: a tensor segment is the bag of the ranks      *)
(* summed in it, and its largest absolute value is one of Classes.         *)
(***************************************************************************)
EXTENDS Integers, Sequences, FiniteSets, Bags, Functions

CONSTANT Members   \* the group: Members[k] is the global rank of group rank k - 1

\* What is assumed of the group.
MembersAssumption == Members \in Seq(Nat) /\ IsInjective(Members) /\ Len(Members) >= 2

\* The group of all ranks, in which group ranks are global ranks.
WorldMembers == \A k \in DOMAIN Members : Members[k] = k - 1

Apis == {"all_reduce", "reduce", "broadcast", "reduce_scatter_tensor", "all_gather_into_tensor"}
Group == Range(Members)

\* dist.get_group_rank and dist.get_global_rank.
get_group_rank(global) == (CHOOSE k \in DOMAIN Members : Members[k] = global) - 1
get_global_rank(rank) == Members[rank + 1]

\* zero; so small that the factor is not an FP32 number; ordinary; so large that
\* two of them overflow FP32; infinite; NAN.
Classes == {"zero", "tiny", "normal", "huge", "inf", "nan"}

VARIABLES
    api, root,     \* the call, the same on all ranks; root is a global rank
    inc,           \* enable_inc and check_inc_requirement, the same on all ranks
    max_class,     \* max_class[r][n]: class of the largest value in segment n of rank r
    step,          \* step[r]: number of the collective rank r is in
    at,            \* at[r]: where in call_collective it is
    tensor,        \* tensor[r][n]: segment n at rank r
    maxes,         \* maxes[n]: ranks that entered the all_reduce of max_abs
    entered        \* entered[n]: [rank, way, data] of the ranks in collective n

inputs == <<api, root, inc, max_class>>
collective_vars == <<inputs, step, at, tensor, maxes, entered>>

\* The collectives a call is made of.
ScatterLike == {"reduce_scatter_tensor", "all_gather_into_tensor"}
Steps == IF api \in ScatterLike THEN 1 .. Len(Members) ELSE {1}

OpCode ==
    CASE api = "all_reduce" -> "ALL_REDUCE"
      [] api \in {"reduce", "reduce_scatter_tensor"} -> "REDUCE"
      [] api \in {"broadcast", "all_gather_into_tensor"} -> "BROADCAST"

\* The root of collective n, as a global rank.
RootOf(n) == IF api \in ScatterLike THEN get_global_rank(n - 1) ELSE root

reduce_like == OpCode \in {"ALL_REDUCE", "REDUCE"}

\* The data of rank r in segment n; zeros do not count in a sum.
Term(r, n) == IF max_class[r][n] = "zero" THEN EmptyBag ELSE SetToBag({<<r, n>>})

CollectiveInit ==
    /\ api \in Apis /\ root \in Group /\ inc \in BOOLEAN
    /\ max_class \in [Group -> [Steps -> IF reduce_like THEN Classes ELSE {"normal"}]]
    /\ step = [r \in Group |-> 1]
    /\ at = [r \in Group |-> "start"]
    /\ tensor = [r \in Group |-> [n \in Steps |-> Term(r, n)]]
    /\ maxes = [n \in Steps |-> {}]
    /\ entered = [n \in Steps |-> {}]

-----------------------------------------------------------------------------
\* Mutation of max_abs: a NAN is seen only by the rank that has it.
max_abs_own(r, n) ==
    IF \E s \in Group : max_class[s][n] = "nan"
    THEN IF max_class[r][n] = "nan" THEN "nan" ELSE "normal"
    ELSE IF \A s \in Group : max_class[s][n] = "zero" THEN "zero" ELSE "normal"

\* The all-reduced sum of the largest values, as rank r sees it.
max_abs(r, n) ==
    LET Is(class) == {s \in Group : max_class[s][n] = class}
    IN  IF Is("nan") # {} THEN "nan"
        ELSE IF Is("inf") # {} \/ Cardinality(Is("huge")) >= 2 THEN "inf"
        ELSE IF Is("zero") = Group THEN "zero"
        ELSE IF Is("zero") \cup Is("tiny") = Group THEN "tiny"
        ELSE "normal"

\* The next collective of rank r, or the end of the call.
Finish(r) ==
    IF step[r] + 1 \in Steps
    THEN step' = [step EXCEPT ![r] = @ + 1] /\ at' = [at EXCEPT ![r] = "start"]
    ELSE step' = step /\ at' = [at EXCEPT ![r] = "end"]

\* Rank r enters collective n on a way ("inc" or "nccl") with its data.
Enter(r, way) ==
    /\ entered' = [entered EXCEPT ![step[r]] =
                    @ \cup {[rank |-> r, way |-> way, data |-> tensor[r][step[r]]]}]
    /\ at' = [at EXCEPT ![r] = way]
    /\ UNCHANGED <<inputs, step, tensor, maxes>>

\* call_collective begins.
Begin(r) ==
    /\ at[r] = "start"
    /\ IF ~ inc THEN Enter(r, "nccl")
       ELSE IF ~ reduce_like THEN Enter(r, "inc")
       ELSE /\ maxes' = [maxes EXCEPT ![step[r]] = @ \cup {r}]
            /\ at' = [at EXCEPT ![r] = "max"]
            /\ UNCHANGED <<inputs, step, tensor, entered>>

\* The all_reduce of max_abs is complete with the given result at rank r, which
\* decides how to go on.
Decides(r, class) ==
    at[r] = "max" /\ maxes[step[r]] = Group /\ max_abs(r, step[r]) = class

DecideInc(r) == Decides(r, "normal") /\ Enter(r, "inc")

DecideFallback(r) == (Decides(r, "nan") \/ Decides(r, "tiny")) /\ Enter(r, "nccl")

\* All values are zero: there is nothing to do.
DecideZero(r) ==
    /\ Decides(r, "zero")
    /\ Finish(r)
    /\ UNCHANGED <<inputs, tensor, maxes, entered>>

\* "factor should not be zero": the process exits.
DecideExit(r) ==
    /\ Decides(r, "inf")
    /\ at' = [at EXCEPT ![r] = "exit"]
    /\ UNCHANGED <<inputs, step, tensor, maxes, entered>>

-----------------------------------------------------------------------------
\* What the ranks in S brought into collective n.
Sum(n, S) ==
    BagUnion({e.data : e \in {x \in entered[n] : x.rank \in S}})

\* All ranks are in collective n on the same way.
Met(n, way) == {e.rank : e \in {x \in entered[n] : x.way = way}} = Group

\* tensor_int32 of rank r after the C library's collective, whose root is a
\* group rank: received by the ranks that need it, otherwise what it sent.
Received(r, n) ==
    LET root_group_rank == get_group_rank(RootOf(n))
        IsRoot(s) == get_group_rank(s) = root_group_rank
    IN  CASE OpCode = "ALL_REDUCE" -> Sum(n, Group)
          [] OpCode = "REDUCE" /\ IsRoot(r) -> Sum(n, {s \in Group : ~ IsRoot(s)})
          [] OpCode = "BROADCAST" /\ ~ IsRoot(r) -> Sum(n, {s \in Group : IsRoot(s)})
          [] OTHER -> Sum(n, {r})

\* Mutation of rank_need_rx: every rank adds what it has.
rank_need_rx_all(r, n) == TRUE

\* Whether call_collective puts tensor_int32 into the tensor.
rank_need_rx(r, n) ==
    \/ OpCode = "ALL_REDUCE"
    \/ OpCode = "REDUCE" /\ get_group_rank(r) = RootOf(n)

\* The collective through the switch returns at rank r.
LeaveInc(r) ==
    LET n == step[r] IN
    /\ at[r] = "inc"
    /\ Met(n, "inc")
    /\ tensor' = [tensor EXCEPT ![r][n] =
            CASE ~ reduce_like -> Received(r, n)
              [] reduce_like /\ rank_need_rx(r, n) ->
                    IF OpCode = "ALL_REDUCE" THEN Received(r, n) ELSE @ (+) Received(r, n)
              [] OTHER -> @]
    /\ Finish(r)
    /\ UNCHANGED <<inputs, maxes, entered>>

\* What torch.distributed promises of collective n at rank r.
Promised(r, n) ==
    LET All == BagUnion({Term(s, n) : s \in Group})
    IN  CASE OpCode = "ALL_REDUCE" -> All
          [] OpCode = "REDUCE" /\ r = RootOf(n) -> All
          [] OpCode = "BROADCAST" -> Term(RootOf(n), n)
          [] OTHER -> Term(r, n)

\* NCCL's collective (or NCCL's native version of the whole call) returns.
LeaveNccl(r) ==
    /\ at[r] = "nccl"
    /\ Met(step[r], "nccl")
    /\ tensor' = [tensor EXCEPT ![r][step[r]] = Promised(r, step[r])]
    /\ Finish(r)
    /\ UNCHANGED <<inputs, maxes, entered>>

Rank(r) ==
    \/ Begin(r)
    \/ DecideInc(r) \/ DecideFallback(r) \/ DecideZero(r) \/ DecideExit(r)
    \/ LeaveInc(r) \/ LeaveNccl(r)

CollectiveNext == \E r \in Group : Rank(r)

CollectiveFairness == \A r \in Group : WF_collective_vars(Rank(r))

CollectiveSpec == CollectiveInit /\ [][CollectiveNext]_collective_vars /\ CollectiveFairness

-----------------------------------------------------------------------------
(***************************************************************************)
(* When the call has returned at a rank, its tensor holds what             *)
(* torch.distributed promises, whatever the values are and however far the *)
(* other ranks are.                                                        *)
(***************************************************************************)
ResultAsPromised ==
    \A r \in Group :
        at[r] = "end" => \A n \in Steps : tensor[r][n] = Promised(r, n)

(***************************************************************************)
(* The call returns on all ranks, or all of them exit: ranks never choose  *)
(* different ways, although each of them decides on its own.               *)
(***************************************************************************)
AllReturn == <>(\A r \in Group : at[r] = "end") \/ <>(\A r \in Group : at[r] = "exit")
=============================================================================
