----------------------------- MODULE OpPipeline -----------------------------
(***************************************************************************)
(* The way of an operation through one server: the Python thread           *)
(* (server/frontend/src/c/api.cpp) posts the segments of a call, the       *)
(* daemon thread (daemon.cpp) copies them between device and host memory,  *)
(* the load balancer (server/backend/load_balancer.cpp) splits them over   *)
(* the workers and joins them again.  The threads meet only in queue pairs *)
(* (queue_pair_t), each with one requester and one responder, so that a    *)
(* handler is one action.                                                  *)
(*                                                                         *)
(* CUDA is external: streams are FIFO queues of copies, and a kernel that  *)
(* produces or still uses the tensor may run in the caller's stream when   *)
(* the collective is called.  Data is kept as far as it matters here: a    *)
(* memory holds "raw" (not produced yet), "input" or "output".             *)
(***************************************************************************)
EXTENDS Integers, Sequences, FiniteSets, Functions

CONSTANTS
    QueueSize,   \* QUEUE_SIZE
    NWorkers,    \* nworker
    Segs,        \* numbers of segments of a call
    NCalls       \* bound of the model: number of calls

ASSUME PipelineAssumption ==
    /\ QueueSize \in Nat \ {0} /\ NWorkers \in Nat \ {0}
    /\ Segs \subseteq Nat \ {0} /\ NCalls \in Nat

\* What this rank does in a collective: need_tx and need_rx of its operations.
Kinds == [tx : BOOLEAN, rx : BOOLEAN] \ {[tx |-> FALSE, rx |-> FALSE]}
Workers == 1 .. NWorkers

VARIABLES
    call,         \* [kind, left]: the call of the Python thread, left = -1: no call
    calls,        \* number of calls so far
    kernel,       \* whether the kernel before the call is still running
    ops,          \* history: the operations created, [call, kind, is_first, is_last]
    head, cnt,    \* op_buffer_t
    buffer,       \* the op_t in each place of the op buffer: a number of ops
    copying,      \* operations whose copy has been started
    py, shm, wk,  \* queue pairs [wq, cq, num]; wk is one for each worker
    sent,         \* per worker: operations sent and not yet complete
    d2h, h2d,     \* copies waiting in the streams, [op, waits]
    dev, host     \* contents per operation: tensor, and copy buffer per worker

python == <<call, calls, ops, head, cnt, buffer>>
cuda == <<d2h, h2d, dev, kernel>>
vars == <<python, copying, py, shm, wk, sent, cuda, host>>

NoCall == [kind |-> [tx |-> TRUE, rx |-> TRUE], left |-> -1]
EmptyPair == [wq |-> <<>>, cq |-> <<>>, num |-> 0]

Init ==
    /\ call = NoCall /\ calls = 0 /\ kernel = FALSE
    /\ ops = <<>>
    /\ head = 0 /\ cnt = 0 /\ buffer = [i \in 0 .. QueueSize - 1 |-> 0]
    /\ copying = {}
    /\ py = EmptyPair /\ shm = EmptyPair /\ wk = [i \in Workers |-> EmptyPair]
    /\ sent = [i \in Workers |-> <<>>]
    /\ d2h = <<>> /\ h2d = <<>>
    /\ dev = <<>> /\ host = <<>>

-----------------------------------------------------------------------------
\* queue_pair_t.  push_req on a full pair returns false and changes nothing.
CanPush(q) == q.num < QueueSize
push_req(q, e) == IF CanPush(q) THEN [q EXCEPT !.wq = Append(@, e), !.num = @ + 1] ELSE q
pop_req(q) == [q EXCEPT !.wq = Tail(@)]
push_resp(q, e) == [q EXCEPT !.cq = Append(@, e)]
pop_resp(q) == [q EXCEPT !.cq = Tail(@), !.num = @ - 1]

need_tx(op) == ops[op].kind.tx
need_rx(op) == ops[op].kind.rx

-----------------------------------------------------------------------------
(***************************************************************************)
(* The Python thread.                                                      *)
(***************************************************************************)

\* A collective is called; a kernel before it in the stream may be running.
Call(kind, n, busy) ==
    /\ call.left = -1
    /\ calls < NCalls
    /\ call' = [kind |-> kind, left |-> n]
    /\ calls' = calls + 1
    /\ kernel' = busy
    /\ UNCHANGED <<ops, head, cnt, buffer, copying, py, shm, wk, sent, d2h, h2d, dev, host>>

\* Mutation of available: one operation more than there is room for.
available_more == cnt <= QueueSize

\* op_buffer.available() > 0; the copy buffer has a module of its own.
available == cnt < QueueSize

\* Mutation of NextPlace: the place is not moved on.
NextPlace_same == head

NextPlace == (head + 1) % QueueSize

\* post_sub_collective: the next segment.
PostSub ==
    LET op == Len(ops) + 1
        first == ops = <<>> \/ ops[Len(ops)].is_last
    IN  /\ call.left > 0
        /\ py.cq = <<>>            \* recv_all_resp has emptied it
        /\ available
        /\ ops' = Append(ops, [call |-> calls, kind |-> call.kind,
                               is_first |-> first, is_last |-> call.left = 1])
        /\ dev' = Append(dev, IF kernel THEN "raw" ELSE "input")
        /\ host' = Append(host, [i \in Workers |-> "raw"])
        /\ buffer' = [buffer EXCEPT ![head] = op]
        /\ head' = NextPlace
        /\ cnt' = cnt + 1
        /\ py' = push_req(py, [op |-> op, place |-> head])
        /\ call' = [call EXCEPT !.left = @ - 1]
        /\ UNCHANGED <<calls, copying, shm, wk, sent, d2h, h2d, kernel>>

\* Mutation of fifo_free: the place of the operation is not freed.
fifo_free_not == cnt

fifo_free == cnt - 1

\* recv_all_resp: an operation is destroyed and its place freed.
RecvResp ==
    /\ call.left >= 0
    /\ py.cq # <<>>
    /\ cnt' = fifo_free
    /\ py' = pop_resp(py)
    /\ UNCHANGED <<call, calls, ops, head, buffer, copying, shm, wk, sent, cuda, host>>

\* post_collective_c returns when the op buffer is empty.
Return ==
    /\ call.left = 0
    /\ cnt = 0
    /\ call' = NoCall
    /\ UNCHANGED <<calls, ops, head, cnt, buffer, copying, py, shm, wk, sent, cuda, host>>

-----------------------------------------------------------------------------
(***************************************************************************)
(* The daemon thread.  A copy is started in one call of a handler and      *)
(* found complete (cudaEventQuery) in a later one.                         *)
(***************************************************************************)
\* Mutation of Complete: the event is not queried.
Complete_any(stream, op) == TRUE

Complete(stream, op) == \A i \in DOMAIN stream : stream[i].op # op

\* The first segment waits for the work before the call in the caller's stream.
WaitD2H(op) == ops[op].is_first

\* Mutation of WaitH2D: a rank that only receives does not wait.
WaitH2D_never(op) == FALSE

WaitH2D(op) == ops[op].is_first /\ ~ need_tx(op)

\* try_post_op starts the copy to host memory.
StartD2H ==
    /\ py.wq # <<>>
    /\ LET op == Head(py.wq).op IN
         /\ need_tx(op) /\ op \notin copying
         /\ copying' = copying \cup {op}
         /\ d2h' = Append(d2h, [op |-> op, waits |-> WaitD2H(op)])
    /\ UNCHANGED <<python, py, shm, wk, sent, h2d, dev, kernel, host>>

\* try_post_op passes the operation on to the backend.
try_post_op ==
    /\ py.wq # <<>>
    /\ LET e == Head(py.wq) IN
         /\ need_tx(e.op) => e.op \in copying /\ Complete(d2h, e.op)
         /\ copying' = copying \ {e.op}
         /\ py' = pop_req(py)
         /\ shm' = push_req(shm, e)
    /\ UNCHANGED <<python, wk, sent, cuda, host>>

\* try_complete_op starts the copy to device memory.
StartH2D ==
    /\ shm.cq # <<>>
    /\ LET op == buffer[Head(shm.cq).place] IN
         /\ need_rx(op) /\ op \notin copying
         /\ copying' = copying \cup {op}
         /\ h2d' = Append(h2d, [op |-> op, waits |-> WaitH2D(op)])
    /\ UNCHANGED <<python, py, shm, wk, sent, d2h, dev, kernel, host>>

\* try_complete_op passes the operation back to the Python thread.
try_complete_op ==
    /\ shm.cq # <<>>
    /\ LET e == Head(shm.cq)
           op == buffer[e.place]
       IN  /\ need_rx(op) => op \in copying /\ Complete(h2d, op)
           /\ copying' = copying \ {op}
           /\ shm' = pop_resp(shm)
           /\ py' = push_resp(py, [op |-> op, place |-> e.place])
    /\ UNCHANGED <<python, wk, sent, cuda, host>>

-----------------------------------------------------------------------------
(***************************************************************************)
(* CUDA.                                                                   *)
(***************************************************************************)
CopyD2H ==
    /\ d2h # <<>>
    /\ Head(d2h).waits => ~ kernel
    /\ host' = [host EXCEPT ![Head(d2h).op] = [i \in Workers |-> dev[Head(d2h).op]]]
    /\ d2h' = Tail(d2h)
    /\ UNCHANGED <<python, copying, py, shm, wk, sent, h2d, dev, kernel>>

CopyH2D ==
    /\ h2d # <<>>
    /\ Head(h2d).waits => ~ kernel
    /\ LET op == Head(h2d).op IN
         dev' = [dev EXCEPT ![op] = IF \A i \in Workers : host[op][i] = "output" THEN "output" ELSE "raw"]
    /\ h2d' = Tail(h2d)
    /\ UNCHANGED <<python, copying, py, shm, wk, sent, d2h, kernel, host>>

\* The kernel before the call ends, leaving its output in the whole tensor.
KernelEnds ==
    /\ kernel
    /\ kernel' = FALSE
    /\ dev' = [op \in DOMAIN dev |-> IF ops[op].call = calls THEN "input" ELSE dev[op]]
    /\ UNCHANGED <<python, copying, py, shm, wk, sent, d2h, h2d, host>>

-----------------------------------------------------------------------------
(***************************************************************************)
(* The load balancer and the workers.                                      *)
(***************************************************************************)
\* The workers that get a part of the operation: all, even if it is empty.
Targets(op) == Workers

\* try_post_op of the load balancer; the result of push_req is not looked at.
LbPost ==
    /\ shm.wq # <<>>
    /\ LET e == Head(shm.wq) IN
         wk' = [i \in Workers |-> IF i \in Targets(buffer[e.place])
                                  THEN push_req(wk[i], e) ELSE wk[i]]
    /\ shm' = pop_req(shm)
    /\ UNCHANGED <<python, copying, py, sent, cuda, host>>

\* try_complete_op of the load balancer: every worker has completed its part.
LbComplete ==
    /\ \A i \in Workers : wk[i].cq # <<>>
    /\ wk' = [i \in Workers |-> pop_resp(wk[i])]
    /\ shm' = push_resp(shm, Head(wk[NWorkers].cq))
    /\ UNCHANGED <<python, copying, py, sent, cuda, host>>

\* A worker has generated the last packet of its part.
WorkerSend(i) ==
    /\ wk[i].wq # <<>>
    /\ sent' = [sent EXCEPT ![i] = Append(@, Head(wk[i].wq))]
    /\ wk' = [wk EXCEPT ![i] = pop_req(@)]
    /\ UNCHANGED <<python, copying, py, shm, cuda, host>>

\* A worker has stored the last response of its oldest part (Worker).
WorkerDone(i) ==
    /\ sent[i] # <<>>
    /\ LET e == Head(sent[i])
           op == buffer[e.place]
       IN  /\ host' = IF need_rx(op) THEN [host EXCEPT ![op][i] = "output"] ELSE host
           /\ wk' = [wk EXCEPT ![i] = push_resp(@, e)]
    /\ sent' = [sent EXCEPT ![i] = Tail(@)]
    /\ UNCHANGED <<python, copying, py, shm, cuda>>

Daemon == StartD2H \/ try_post_op \/ StartH2D \/ try_complete_op
Cuda == CopyD2H \/ CopyH2D
LoadBalancer == LbPost \/ LbComplete
Worker(i) == WorkerSend(i) \/ WorkerDone(i)

Next ==
    \/ \E kind \in Kinds, n \in Segs, busy \in BOOLEAN : Call(kind, n, busy)
    \/ PostSub \/ RecvResp \/ Return
    \/ Daemon
    \/ Cuda \/ KernelEnds
    \/ LoadBalancer
    \/ \E i \in Workers : Worker(i)

(***************************************************************************)
(* Every thread polls in an endless loop, the device executes its streams, *)
(* and packets are answered (NetReduceLive).                               *)
(***************************************************************************)
Fairness ==
    /\ WF_vars(PostSub) /\ WF_vars(RecvResp) /\ WF_vars(Return)
    /\ WF_vars(StartD2H \/ try_post_op) /\ WF_vars(StartH2D \/ try_complete_op)
    /\ WF_vars(CopyD2H) /\ WF_vars(CopyH2D) /\ WF_vars(KernelEnds)
    /\ WF_vars(LbPost) /\ WF_vars(LbComplete)
    /\ \A i \in Workers : WF_vars(WorkerSend(i)) /\ WF_vars(WorkerDone(i))

Spec == Init /\ [][Next]_vars /\ Fairness

-----------------------------------------------------------------------------
(***************************************************************************)
(* No request is ever refused by a full queue: the op buffer bounds all    *)
(* queues behind it, so that the assertions of api.cpp and daemon.cpp hold *)
(* and the load balancer may ignore the result of push_req.                *)
(***************************************************************************)
NothingDropped ==
    /\ call.left > 0 /\ available => CanPush(py)
    /\ py.wq # <<>> => CanPush(shm)
    /\ shm.wq # <<>> => \A i \in Workers : CanPush(wk[i])

(***************************************************************************)
(* The load balancer joins parts of one and the same operation.            *)
(***************************************************************************)
SameOperation ==
    \A i, j \in Workers :
        wk[i].cq # <<>> /\ wk[j].cq # <<>> /\ (\A k \in Workers : wk[k].cq # <<>>)
            => Head(wk[i].cq) = Head(wk[j].cq)

\* Everything in queues behind the daemon.
Referenced ==
    UNION {Range(q) : q \in {shm.wq, shm.cq} \cup {wk[i].wq : i \in Workers}
                             \cup {wk[i].cq : i \in Workers} \cup {sent[i] : i \in Workers}}

(***************************************************************************)
(* A place of the op buffer is not taken again as long as some thread      *)
(* holds a pointer to it.                                                  *)
(***************************************************************************)
PlacesStable == \A e \in Referenced : buffer[e.place] = e.op

(***************************************************************************)
(* Operations are never mixed up: every pointer leads to the operation it  *)
(* was made for, and the parts that are joined are parts of one operation. *)
(***************************************************************************)
OperationsNotMixed == PlacesStable /\ SameOperation

(***************************************************************************)
(* What a worker sends is the tensor as the caller's kernel left it, never *)
(* the copy buffer before the copy is complete.                            *)
(***************************************************************************)
WorkerSendsInput ==
    \A i \in Workers : \A k \in DOMAIN wk[i].wq :
        need_tx(wk[i].wq[k].op) => host[wk[i].wq[k].op][i] = "input"

(***************************************************************************)
(* When the call returns the tensor holds the output in all its segments,  *)
(* or, on a rank that only sends, still the input; no copy is under way.   *)
(***************************************************************************)
ResultDelivered ==
    call.left = -1 /\ ~ kernel =>
        /\ d2h = <<>> /\ h2d = <<>>
        /\ \A op \in DOMAIN ops : dev[op] = IF need_rx(op) THEN "output" ELSE "input"

(***************************************************************************)
(* Every call returns.                                                     *)
(***************************************************************************)
CallReturns == (call.left # -1) ~> (call.left = -1)
=============================================================================
