------------------------------ MODULE Quantize ------------------------------
(***************************************************************************)
(* The numbers of a reduction: call_collective scales FP32 values by a     *)
(* factor all ranks agree on, truncates them to INT32, the switch adds     *)
(* them with saturation in the order packets arrive (reg_aggregate), and   *)
(* the sum is scaled back.  One element of the tensor is followed; every   *)
(* rank also has the largest magnitude in its tensor, at least that of the *)
(* element.                                                                *)
(*                                                                         *)
(* Floating-point numbers have P bits of significand, integers W bits      *)
(* (24 and 32).  Values are integers; the factor is a multiple of 2^-K.    *)
(***************************************************************************)
EXTENDS Integers, FiniteSets, FiniteSetsExt

CONSTANTS
    Ranks,      \* the ranks of the group
    Root,       \* the root of a reduce
    P, W, K,
    Magnitudes, \* the magnitudes of values tried
    Tolerance   \* allowed error, in units of 2^-P of the largest sum

\* What is assumed of the constants.
QuantizeAssumption ==
    /\ Root \in Ranks /\ IsFiniteSet(Ranks)
    /\ {P, W, K} \subseteq Nat \ {0} /\ P < W - 1
    /\ Magnitudes \subseteq Nat

VARIABLES
    op,         \* ALL_REDUCE or REDUCE
    x, top,     \* x[r]: the element; top[r]: the largest magnitude of rank r
    summed,     \* ranks whose top is in max_abs_sum
    max_abs_sum,\* the sum of the largest magnitudes that NCCL computes
    added, agg  \* ranks whose integer is in the aggregator, its value

vars == <<op, x, top, summed, max_abs_sum, added, agg>>

Abs(n) == IF n < 0 THEN -n ELSE n
Sign(n) == IF n < 0 THEN -1 ELSE 1

\* a / b rounded to P bits, to nearest, ties to even, for natural a and b > 0.
RoundDiv(a, b) ==
    LET unit == b * CHOOSE u \in {2^k : k \in 0 .. 3 * W} :
                     a < 2^P * u * b /\ (u = 1 \/ 2^(P - 1) * u * b <= a)
        q == a \div unit
        r == a % unit
    IN  (IF 2 * r > unit \/ (2 * r = unit /\ q % 2 = 1) THEN q + 1 ELSE q) * (unit \div b)

Fp(n) == Sign(n) * RoundDiv(Abs(n), 1)

\* The largest floating-point number among the integers (0x7fffff80), and the
\* range of integers.
FpMax == 2^(W - 1) - 2^(W - 1 - P)
IntMax == 2^(W - 1) - 1
IntMin == -(2^(W - 1))

Init ==
    /\ op \in {"ALL_REDUCE", "REDUCE"}
    /\ x \in [Ranks -> Magnitudes \cup {-n : n \in Magnitudes}]
    /\ top \in [Ranks -> Magnitudes]
    /\ \A r \in Ranks : Abs(x[r]) <= top[r]
    /\ \E r \in Ranks : top[r] # 0
    /\ summed = {} /\ max_abs_sum = 0
    /\ added = {} /\ agg = 0

\* fallback_all_reduce of the largest magnitudes, in any order.
SumMax(r) ==
    /\ r \notin summed
    /\ summed' = summed \cup {r}
    /\ max_abs_sum' = Fp(max_abs_sum + top[r])
    /\ UNCHANGED <<op, x, top, added, agg>>

\* factor, as FP32, times 2^K.
factor == RoundDiv(FpMax * 2^K, max_abs_sum)

\* tensor.mul_(factor) at rank r, times 2^K.
scaled(r) == Fp(x[r] * factor)

Clamp(n) == IF n > IntMax THEN IntMax ELSE IF n < IntMin THEN IntMin ELSE n

\* tensor.type(torch.int32): towards zero, and to the limits of the range.
tensor_int32(r) == Clamp(Sign(x[r]) * (Abs(scaled(r)) \div 2^K))

\* Mutation of SatAdd: the sum wraps around.
SatAdd_wrap(m, n) == ((m + n - IntMin) % 2^W) + IntMin

\* |+| of reg_aggregate.
SatAdd(m, n) == Clamp(m + n)

Senders == IF op = "REDUCE" THEN Ranks \ {Root} ELSE Ranks

\* The packet of rank r is added.
Aggregate(r) ==
    /\ summed = Ranks
    /\ r \in Senders \ added
    /\ added' = added \cup {r}
    /\ agg' = SatAdd(agg, tensor_int32(r))
    /\ UNCHANGED <<op, x, top, summed, max_abs_sum>>

Next == \E r \in Ranks : SumMax(r) \/ Aggregate(r)

Spec == Init /\ [][Next]_vars

-----------------------------------------------------------------------------
Done == summed = Ranks /\ added = Senders

\* The tensor before div_(factor), times 2^K: copy_, or add_ at the root.
Received ==
    IF op = "REDUCE" THEN Fp(Fp(agg) * 2^K + scaled(Root)) ELSE Fp(agg) * 2^K

(***************************************************************************)
(* The result is the sum of the elements up to a few units in the last     *)
(* place of the largest sum possible, whatever rounds up on the way: the   *)
(* sum of the largest magnitudes, the factor, the products, each by FP32   *)
(* rounding.  These may carry the integers past INT32, and saturation, not *)
(* wrapping around to the other sign, keeps the result close.              *)
(***************************************************************************)
ResultClose ==
    Done => 2^P * Abs(Received - factor * MapThenSumSet(LAMBDA r : x[r], Ranks)) <= Tolerance * factor * max_abs_sum
=============================================================================
