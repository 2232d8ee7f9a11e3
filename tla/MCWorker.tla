------------------------------ MODULE MCWorker ------------------------------
(***************************************************************************)
(* The worker thread and the data of its packets: splitting and byte order *)
(* in Payload, scaling and saturation in Quantize.  Each has a             *)
(* specification of its own; a behaviour runs one of them, chosen at the   *)
(* beginning, and the others stay in one of their initial states.          *)
(***************************************************************************)
EXTENDS Worker, Payload

VARIABLES
    part,                                               \* the part that runs
    q_op, x, top, summed, max_abs_sum, added, agg       \* of Quantize

\* Two groups.
MCGroups == {1, 2}

\* Three ranks, significands of three bits, integers of seven.
Quantization == INSTANCE Quantize WITH
    Ranks <- {0, 1, 2}, Root <- 0, P <- 3, W <- 7, K <- 6,
    Magnitudes <- {0, 1, 3, 5, 7, 12}, Tolerance <- 2, op <- q_op

\* Two ranks; the low bytes of their words often carry into the high ones.
MCRanks == {0, 1}
MCData ==
    [r \in MCRanks |-> [b \in 0 .. MaxSize + PayloadSize - 1 |->
        IF b % 2 = 1 THEN (b \div 2 + r) % 2 ELSE (b * (r + 1) + 3 * r + 4) % 8]]

ASSUME QuantizeAssumed == Quantization!QuantizeAssumption
ASSUME PayloadAssumed == PayloadAssumption

q_vars == <<q_op, x, top, summed, max_abs_sum, added, agg>>

PartsInit ==
    /\ part \in {"worker", "quantize", "payload"}
    /\ part # "quantize" => q_op = "REDUCE" /\ x = [r \in 0 .. 2 |-> 0] /\ top = [r \in 0 .. 2 |-> 1]
    /\ part # "payload" => op = [op_code |-> "REDUCE", root |-> 0, size |-> 0] /\ nworker = 1
    /\ Init /\ Quantization!Init /\ PayloadInit

PartsNext ==
    /\ \/ part = "worker" /\ Next /\ UNCHANGED <<q_vars, payload_vars>>
       \/ part = "quantize" /\ Quantization!Next /\ UNCHANGED <<vars, payload_vars>>
       \/ part = "payload" /\ PayloadNext /\ UNCHANGED <<vars, q_vars>>
    /\ UNCHANGED part

PartsSpec == PartsInit /\ [][PartsNext]_<<part, vars, q_vars, payload_vars>>

-----------------------------------------------------------------------------
(***************************************************************************)
(* The sum that scaling and saturating addition give is the true one up to *)
(* a few units in the last place of the largest sum possible.              *)
(***************************************************************************)
ResultClose == Quantization!ResultClose
=============================================================================
