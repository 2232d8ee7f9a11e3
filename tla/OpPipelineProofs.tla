-------------------------- MODULE OpPipelineProofs --------------------------
(***************************************************************************)
(* The operation pipeline of a server, for every number of workers, every  *)
(* size of the queues, and any calls: no queue overflows, operations are   *)
(* not mixed up, workers send the caller's data, and a call returns with   *)
(* its result.                                                             *)
(*                                                                         *)
(* The argument.  Operations are numbered, and every queue holds a run of  *)
(* consecutive numbers.  The runs are adjacent, from the completions the   *)
(* Python thread has not fetched to the operation posted last, so that     *)
(* seven boundaries describe all queues; for each worker there is a        *)
(* different way from the operation split last to the one joined last.     *)
(* All of it together is never longer than the op buffer.                  *)
(*                                                                         *)
(* Above the pipeline, the Python layer on all ranks of a group, for every *)
(* group: segments of a tensor hold a rank's own data until the collective *)
(* they belong to is over at that rank, and what is promised from then on; *)
(* and the values of all ranks together decide the way of a collective.    *)
(***************************************************************************)
EXTENDS OpPipeline, Collectives, Arithmetic, SequenceTheorems, TLAPS

\* The place of operation k in the op buffer, and the pointer to it.
Place(k) == (k - 1) % QueueSize
Entry(k) == [op |-> k, place |-> Place(k)]

\* The pointers to the operations after a up to b.
Run(a, b) == [x \in 1 .. b - a |-> Entry(a + x)]

Data == {"raw", "input", "output"}
Op == [call : Nat, kind : Kinds, is_first : BOOLEAN, is_last : BOOLEAN]

\* The op buffer: the operations of the last QueueSize are where they belong.
Ring ==
    /\ head = Len(ops) % QueueSize
    /\ buffer \in [0 .. QueueSize - 1 -> Nat]
    /\ \A k \in 1 .. Len(ops) : k > Len(ops) - QueueSize => buffer[Place(k)] = k

\* The queues.  Up to c0 operations are destroyed, up to c1 passed back to the
\* Python thread, up to c2 joined, up to f split, up to g passed to the backend;
\* worker i has completed the operations up to d[i] and sent those up to e[i].
Queues(c0, c1, c2, f, g, d, e) ==
    /\ c0 <= c1 /\ c1 <= c2 /\ c2 <= f /\ f <= g /\ g <= Len(ops)
    /\ \A i \in Workers : c2 <= d[i] /\ d[i] <= e[i] /\ e[i] <= f
    /\ cnt \in 0 .. QueueSize /\ c0 = Len(ops) - cnt
    /\ py = [wq |-> Run(g, Len(ops)), cq |-> Run(c0, c1), num |-> cnt]
    /\ shm = [wq |-> Run(f, g), cq |-> Run(c1, c2), num |-> g - c1]
    /\ wk = [i \in Workers |-> [wq |-> Run(e[i], f), cq |-> Run(c2, d[i]), num |-> f - c2]]
    /\ sent = [i \in Workers |-> Run(d[i], e[i])]

\* At most one copy in each direction is under way, and it is the next one.
Copies(c1, c2, g) ==
    /\ copying \subseteq Nat
    /\ \A k \in copying : \/ k = g + 1 /\ g < Len(ops) /\ need_tx(k)
                          \/ k = c1 + 1 /\ c1 < c2 /\ need_rx(k)
    /\ \/ d2h = <<>>
       \/ /\ d2h = <<[op |-> g + 1, waits |-> ops[g + 1].is_first]>>
          /\ g + 1 \in copying /\ g < Len(ops)
    /\ \/ h2d = <<>>
       \/ /\ h2d = <<[op |-> c1 + 1, waits |-> ops[c1 + 1].is_first /\ ~ need_tx(c1 + 1)]>>
          /\ c1 + 1 \in copying /\ c1 < c2

\* The calls.  A kernel can only be running while no operation of the call has got
\* past the copy that waits for it.
Calling(c0, c1, g) ==
    /\ call \in [kind : Kinds, left : Nat \cup {-1}]
    /\ calls \in Nat /\ kernel \in BOOLEAN
    /\ ops \in Seq(Op)
    /\ call.left = -1 => cnt = 0 /\ ~ kernel
    /\ call.left = 0 => Len(ops) > 0 /\ ops[Len(ops)].call = calls
    /\ \A k \in 1 .. Len(ops) : ops[k].call <= calls
    /\ \A k \in 1 .. Len(ops) : k > c0 => ops[k].call = calls /\ ops[k].kind = call.kind
    /\ \A k \in 1 .. Len(ops) : k = 1 \/ ops[k - 1].call # ops[k].call => ops[k].is_first
    /\ Len(ops) > 0 /\ (ops[Len(ops)].call # calls \/ call.left <= 0) => ops[Len(ops)].is_last
    /\ kernel => \A k \in 1 .. Len(ops) :
                    ops[k].call = calls => k > IF call.kind.tx THEN g ELSE c1

\* The copy of the next operation to the host, or to the device, is over.
CopiedToHost(g) == g < Len(ops) /\ g + 1 \in copying /\ d2h = <<>>
CopiedToDev(c1, c2) == c1 < c2 /\ c1 + 1 \in copying /\ h2d = <<>>

\* The contents of tensor and copy buffer.
Contents(c1, c2, g, d) ==
    /\ dev \in Seq(Data) /\ Len(dev) = Len(ops)
    /\ host \in Seq([Workers -> Data]) /\ Len(host) = Len(ops)
    /\ CopiedToHost(g) \/ CopiedToDev(c1, c2) => ~ kernel
    /\ \A k \in 1 .. c1 : dev[k] = IF need_rx(k) THEN "output" ELSE "input"
    /\ \A k \in c1 + 1 .. Len(ops) :
         dev[k] = IF k = c1 + 1 /\ CopiedToDev(c1, c2) THEN "output"
                  ELSE IF kernel THEN "raw" ELSE "input"
    /\ \A i \in Workers :
         /\ \A k \in 1 .. d[i] : need_rx(k) => host[k][i] = "output"
         /\ \A k \in d[i] + 1 .. g : need_tx(k) => host[k][i] = "input"
         /\ CopiedToHost(g) => host[g + 1][i] = "input"

\* The inductive invariant.
Layout(c0, c1, c2, f, g, d, e) ==
    /\ Ring
    /\ Queues(c0, c1, c2, f, g, d, e)
    /\ Copies(c1, c2, g)
    /\ Calling(c0, c1, g)
    /\ Contents(c1, c2, g, d)

PipeInv ==
    \E c0, c1, c2, f, g \in Nat, d, e \in [Workers -> Nat] : Layout(c0, c1, c2, f, g, d, e)

-----------------------------------------------------------------------------
(* Runs of pointers. *)

LEMMA PlaceType ==
    ASSUME NEW k \in Nat, k > 0
    PROVE  Place(k) \in 0 .. QueueSize - 1
<1>1. k - 1 \in Nat /\ QueueSize \in Nat /\ QueueSize > 0
  BY PipelineAssumption
<1> QED  BY <1>1, DivMod DEF Place

\* What a run is as a sequence.
LEMMA RunIs ==
    ASSUME NEW a \in Nat, NEW b \in Nat, a <= b
    PROVE  /\ Run(a, b) \in Seq([op : Nat, place : 0 .. QueueSize - 1])
           /\ Len(Run(a, b)) = b - a
           /\ \A x \in 1 .. b - a : Run(a, b)[x] = Entry(a + x)
<1>1. ASSUME NEW x \in 1 .. b - a
      PROVE  Entry(a + x) \in [op : Nat, place : 0 .. QueueSize - 1]
  <2>1. a + x \in Nat /\ a + x > 0
    OBVIOUS
  <2> QED  BY <2>1, PlaceType DEF Entry
<1>2. Run(a, b) \in Seq([op : Nat, place : 0 .. QueueSize - 1])
  <2>1. b - a \in Nat
    OBVIOUS
  <2> HIDE DEF Entry
  <2>2. [x \in 1 .. b - a |-> Entry(a + x)] \in [1 .. b - a -> [op : Nat, place : 0 .. QueueSize - 1]]
    BY <1>1
  <2> QED  BY <2>1, <2>2 DEF Run
<1>3. DOMAIN Run(a, b) = 1 .. b - a
  BY DEF Run
<1>4. Len(Run(a, b)) = b - a
  BY <1>2, <1>3, LenProperties
<1> QED  BY <1>2, <1>4 DEF Run

LEMMA RunEmpty ==
    ASSUME NEW a \in Nat, NEW b \in Nat, a <= b
    PROVE  Run(a, b) = <<>> <=> a = b
<1>1. Run(a, b) \in Seq([op : Nat, place : 0 .. QueueSize - 1]) /\ Len(Run(a, b)) = b - a
  BY RunIs
<1> QED  BY <1>1, EmptySeq, LenProperties

\* A run takes up the next operation at its end.
LEMMA RunAppend ==
    ASSUME NEW a \in Nat, NEW b \in Nat, a <= b
    PROVE  Append(Run(a, b), Entry(b + 1)) = Run(a, b + 1)
<1> DEFINE S == [op : Nat, place : 0 .. QueueSize - 1]
           r == Run(a, b)
           t == Run(a, b + 1)
<1>1. /\ r \in Seq(S) /\ Len(r) = b - a /\ \A x \in 1 .. b - a : r[x] = Entry(a + x)
      /\ t \in Seq(S) /\ Len(t) = b + 1 - a /\ \A x \in 1 .. b + 1 - a : t[x] = Entry(a + x)
  <2>1. b + 1 \in Nat /\ a <= b + 1
    OBVIOUS
  <2>2. r \in Seq(S) /\ Len(r) = b - a /\ \A x \in 1 .. b - a : r[x] = Entry(a + x)
    BY RunIs
  <2>3. PICK c \in Nat : c = b + 1
    BY <2>1
  <2>4. Run(a, c) \in Seq(S) /\ Len(Run(a, c)) = c - a /\ \A x \in 1 .. c - a : Run(a, c)[x] = Entry(a + x)
    BY <2>1, <2>3, RunIs
  <2>5. t \in Seq(S) /\ Len(t) = b + 1 - a /\ \A x \in 1 .. b + 1 - a : t[x] = Entry(a + x)
    BY <2>3, <2>4
  <2> QED  BY <2>2, <2>5
<1>2. Entry(b + 1) \in S
  <2>1. b + 1 \in Nat /\ b + 1 > 0
    OBVIOUS
  <2> QED  BY <2>1, PlaceType DEF Entry
<1>3. /\ Append(r, Entry(b + 1)) \in Seq(S)
      /\ Len(Append(r, Entry(b + 1))) = b + 1 - a
      /\ \A x \in 1 .. b - a : Append(r, Entry(b + 1))[x] = r[x]
      /\ Append(r, Entry(b + 1))[b - a + 1] = Entry(b + 1)
  <2> HIDE DEF S, r, t
  <2>1. Len(r) + 1 = b - a + 1 /\ b - a + 1 = b + 1 - a
    BY <1>1
  <2> QED  BY <1>1, <1>2, <2>1, AppendProperties
<1>4. \A x \in 1 .. b + 1 - a : Append(r, Entry(b + 1))[x] = t[x]
  <2> SUFFICES ASSUME NEW x \in 1 .. b + 1 - a
               PROVE  Append(r, Entry(b + 1))[x] = t[x]
    OBVIOUS
  <2> HIDE DEF S, r, t
  <2>1. CASE x \in 1 .. b - a
    BY <1>1, <1>3, <2>1
  <2>2. CASE x = b + 1 - a
    <3>1. a + x = b + 1 /\ x = b - a + 1
      BY <2>2
    <3> QED  BY <1>1, <1>3, <3>1
  <2>3. x \in 1 .. b - a \/ x = b + 1 - a
    OBVIOUS
  <2> QED  BY <2>1, <2>2, <2>3
<1> HIDE DEF S, r, t
<1>5. Append(r, Entry(b + 1)) = t
  BY <1>1, <1>3, <1>4, SeqEqual
<1> QED  BY <1>5 DEF r, t

\* A run gives up its first operation.
LEMMA RunTail ==
    ASSUME NEW a \in Nat, NEW b \in Nat, a < b
    PROVE  Head(Run(a, b)) = Entry(a + 1) /\ Tail(Run(a, b)) = Run(a + 1, b)
<1> DEFINE S == [op : Nat, place : 0 .. QueueSize - 1]
           r == Run(a, b)
           t == Run(a + 1, b)
<1>1. /\ r \in Seq(S) /\ Len(r) = b - a /\ \A x \in 1 .. b - a : r[x] = Entry(a + x)
      /\ t \in Seq(S) /\ Len(t) = b - (a + 1) /\ \A x \in 1 .. b - (a + 1) : t[x] = Entry(a + 1 + x)
      /\ r # <<>>
  <2>1. a + 1 \in Nat /\ a + 1 <= b /\ a <= b /\ a # b
    OBVIOUS
  <2> QED  BY <2>1, RunIs, RunEmpty, Zenon
<1> HIDE DEF S, r, t
<1>2. Head(r) = Entry(a + 1)
  BY <1>1, HeadTailProperties
<1>3. /\ Tail(r) \in Seq(S) /\ Len(Tail(r)) = b - (a + 1)
      /\ \A x \in 1 .. b - (a + 1) : Tail(r)[x] = r[x + 1]
  BY <1>1, HeadTailProperties
<1>4. \A x \in 1 .. b - (a + 1) : Tail(r)[x] = t[x]
  <2> SUFFICES ASSUME NEW x \in 1 .. b - (a + 1)
               PROVE  Tail(r)[x] = t[x]
    OBVIOUS
  <2>1. x + 1 \in 1 .. b - a /\ a + (x + 1) = a + 1 + x
    OBVIOUS
  <2> QED  BY <1>1, <1>3, <2>1
<1>5. Tail(r) = t
  BY <1>1, <1>3, <1>4, SeqEqual
<1> QED  BY <1>2, <1>5 DEF r, t

-----------------------------------------------------------------------------
(* Queue pairs and the op buffer. *)

\* The operations of a queue pair.
LEMMA PushReq ==
    ASSUME NEW w, NEW c, NEW n, NEW x, n < QueueSize
    PROVE  push_req([wq |-> w, cq |-> c, num |-> n], x)
             = [wq |-> Append(w, x), cq |-> c, num |-> n + 1]
BY DEF push_req, CanPush

LEMMA PopReq ==
    ASSUME NEW w, NEW c, NEW n
    PROVE  pop_req([wq |-> w, cq |-> c, num |-> n]) = [wq |-> Tail(w), cq |-> c, num |-> n]
<1> DEFINE q == [wq |-> w, cq |-> c, num |-> n]
<1>1. q.wq = w
  OBVIOUS
<1>2. \A y : [q EXCEPT !.wq = y] = [wq |-> y, cq |-> c, num |-> n]
  OBVIOUS
<1> QED  BY <1>1, <1>2, Zenon DEF pop_req

LEMMA PushResp ==
    ASSUME NEW w, NEW c, NEW n, NEW x
    PROVE  push_resp([wq |-> w, cq |-> c, num |-> n], x) = [wq |-> w, cq |-> Append(c, x), num |-> n]
BY DEF push_resp

LEMMA PopResp ==
    ASSUME NEW w, NEW c, NEW n
    PROVE  pop_resp([wq |-> w, cq |-> c, num |-> n]) = [wq |-> w, cq |-> Tail(c), num |-> n - 1]
<1> DEFINE q == [wq |-> w, cq |-> c, num |-> n]
<1>1. q.cq = c /\ q.num = n
  OBVIOUS
<1>2. ASSUME NEW y, NEW z
      PROVE  [q EXCEPT !.cq = y, !.num = z] = [wq |-> w, cq |-> y, num |-> z]
  <2>1. [q EXCEPT !.cq = y, !.num = z]
          = [f \in DOMAIN q |-> IF f = "num" THEN z ELSE IF f = "cq" THEN y ELSE q[f]]
    OBVIOUS
  <2>2. [wq |-> w, cq |-> y, num |-> z]
          = [f \in DOMAIN q |-> IF f = "num" THEN z ELSE IF f = "cq" THEN y ELSE q[f]]
    OBVIOUS
  <2> QED  BY <2>1, <2>2
<1> QED  BY <1>1, <1>2, Zenon DEF pop_resp

\* The boundaries as numbers: everything fits into the op buffer.
Ordered(c0, c1, c2, f, g) ==
    /\ QueueSize \in Nat /\ QueueSize > 0 /\ cnt \in Nat /\ cnt <= QueueSize
    /\ ops \in Seq(Op) /\ Len(ops) \in Nat
    /\ c0 = Len(ops) - cnt
    /\ c0 <= c1 /\ c1 <= c2 /\ c2 <= f /\ f <= g /\ g <= Len(ops)
    /\ g - c1 \in Nat /\ f - c2 \in Nat

LEMMA Bounds ==
    ASSUME NEW c0 \in Nat, NEW c1 \in Nat, NEW c2 \in Nat, NEW f \in Nat, NEW g \in Nat,
           NEW d, NEW e, Layout(c0, c1, c2, f, g, d, e)
    PROVE  Ordered(c0, c1, c2, f, g)
<1>1. ops \in Seq(Op)
  BY DEF Layout, Calling
<1>2. Len(ops) \in Nat
  BY <1>1, LenProperties
<1>3. QueueSize \in Nat /\ QueueSize > 0
  BY PipelineAssumption
<1>4. /\ c0 <= c1 /\ c1 <= c2 /\ c2 <= f /\ f <= g /\ g <= Len(ops)
      /\ cnt \in 0 .. QueueSize /\ c0 = Len(ops) - cnt
  BY DEF Layout, Queues
<1>5. cnt \in Nat /\ cnt <= QueueSize
  BY <1>3, <1>4
<1>6. g - c1 \in Nat /\ f - c2 \in Nat
  BY <1>4
<1> QED  BY <1>1, <1>2, <1>3, <1>4, <1>5, <1>6 DEF Ordered

LEMMA WorkerBounds ==
    ASSUME NEW c0 \in Nat, NEW c1 \in Nat, NEW c2 \in Nat, NEW f \in Nat, NEW g \in Nat,
           NEW d \in [Workers -> Nat], NEW e \in [Workers -> Nat],
           Layout(c0, c1, c2, f, g, d, e), NEW i \in Workers
    PROVE  d[i] \in Nat /\ e[i] \in Nat /\ c2 <= d[i] /\ d[i] <= e[i] /\ e[i] <= f
BY DEF Layout, Queues

\* A pointer to an operation that is not destroyed leads to it.
LEMMA BufferHolds ==
    ASSUME NEW c0 \in Nat, NEW c1 \in Nat, NEW c2 \in Nat, NEW f \in Nat, NEW g \in Nat,
           NEW d \in [Workers -> Nat], NEW e \in [Workers -> Nat],
           Layout(c0, c1, c2, f, g, d, e), NEW k \in Nat, k > c0, k <= Len(ops)
    PROVE  buffer[Entry(k).place] = k /\ Entry(k).op = k
<1>1. k \in 1 .. Len(ops) /\ k > Len(ops) - QueueSize
  <2>1. Ordered(c0, c1, c2, f, g)
    BY Bounds
  <2> QED  BY <2>1 DEF Ordered
<1>2. buffer[Place(k)] = k
  BY <1>1 DEF Layout, Ring
<1> QED  BY <1>2 DEF Entry

\* The fields of an operation.
LEMMA OpFields ==
    ASSUME ops \in Seq(Op), NEW k \in 1 .. Len(ops)
    PROVE  /\ ops[k] \in Op /\ ops[k].call \in Nat /\ ops[k].kind \in Kinds
           /\ ops[k].is_first \in BOOLEAN /\ ops[k].is_last \in BOOLEAN
           /\ need_tx(k) \in BOOLEAN /\ need_rx(k) \in BOOLEAN
           /\ need_tx(k) \/ need_rx(k)
<1>1. ops[k] \in Op
  BY ElementOfSeq
<1>2. /\ ops[k].call \in Nat /\ ops[k].kind \in Kinds
      /\ ops[k].is_first \in BOOLEAN /\ ops[k].is_last \in BOOLEAN
  BY <1>1 DEF Op
<1>3. ASSUME NEW kind \in Kinds
      PROVE  kind.tx \in BOOLEAN /\ kind.rx \in BOOLEAN /\ (kind.tx \/ kind.rx)
  BY DEF Kinds
<1> QED  BY <1>1, <1>2, <1>3 DEF need_tx, need_rx

\* Parts of the invariant that a step does not touch.
LEMMA RingSame ==
    ASSUME Ring, UNCHANGED <<head, buffer, ops>>
    PROVE  Ring'
BY DEF Ring

LEMMA CopiesSame ==
    ASSUME NEW c1 \in Nat, NEW c2 \in Nat, NEW g \in Nat,
           Copies(c1, c2, g), UNCHANGED <<copying, d2h, h2d, ops>>
    PROVE  Copies(c1, c2, g)'
BY DEF Copies, need_tx, need_rx

LEMMA CallingSame ==
    ASSUME NEW c0 \in Nat, NEW c1 \in Nat, NEW g \in Nat,
           Calling(c0, c1, g), UNCHANGED <<call, calls, kernel, ops, cnt>>
    PROVE  Calling(c0, c1, g)'
BY DEF Calling

LEMMA ContentsSame ==
    ASSUME NEW c1 \in Nat, NEW c2 \in Nat, NEW g \in Nat, NEW d \in [Workers -> Nat],
           Contents(c1, c2, g, d), UNCHANGED <<dev, host, kernel, copying, d2h, h2d, ops>>
    PROVE  Contents(c1, c2, g, d)'
BY DEF Contents, CopiedToHost, CopiedToDev, need_tx, need_rx

-----------------------------------------------------------------------------
(* The invariant holds initially. *)

LEMMA InitPipeInv == Init => PipeInv
<1> SUFFICES ASSUME Init PROVE PipeInv
  OBVIOUS
<1> DEFINE z == [i \in Workers |-> 0]
<1>1. Run(0, 0) = <<>> /\ 0 \in Nat /\ z \in [Workers -> Nat]
  BY RunEmpty
<1>2. Len(ops) = 0 /\ ops = <<>> /\ ops \in Seq(Op)
  BY EmptySeq DEF Init
<1>3. QueueSize \in Nat /\ QueueSize > 0
  BY PipelineAssumption
<1>4. Ring
  <2>1. 0 % QueueSize = 0
    BY <1>3
  <2> QED  BY <1>2, <1>3, <2>1 DEF Init, Ring
<1>5. Queues(0, 0, 0, 0, 0, z, z)
  <2>1. cnt = 0 /\ cnt \in 0 .. QueueSize /\ Len(ops) = 0 /\ 0 - 0 = 0
    BY <1>2, <1>3 DEF Init
  <2>2. py = [wq |-> <<>>, cq |-> <<>>, num |-> 0] /\ shm = py
    BY DEF Init, EmptyPair
  <2>3. wk = [i \in Workers |-> [wq |-> Run(z[i], 0), cq |-> Run(0, z[i]), num |-> 0]]
    BY <1>1 DEF Init, EmptyPair
  <2>4. sent = [i \in Workers |-> Run(z[i], z[i])]
    BY <1>1 DEF Init
  <2> HIDE DEF z
  <2>5. \A i \in Workers : 0 <= z[i] /\ z[i] <= z[i] /\ z[i] <= 0
    BY DEF z
  <2> QED  BY <1>1, <2>1, <2>2, <2>3, <2>4, <2>5 DEF Queues
<1>6. Copies(0, 0, 0)
  BY <1>2 DEF Init, Copies
<1>7. Calling(0, 0, 0)
  <2>1. call \in [kind : Kinds, left : Nat \cup {-1}] /\ call.left = -1
    BY DEF Init, NoCall, Kinds
  <2>2. calls \in Nat /\ kernel \in BOOLEAN /\ cnt = 0 /\ ~ kernel
    BY DEF Init
  <2>3. 1 .. Len(ops) = {} /\ ~ (Len(ops) > 0)
    BY <1>2
  <2> QED  BY <1>2, <2>1, <2>2, <2>3 DEF Calling
<1>8. Contents(0, 0, 0, z)
  <2>1. dev = <<>> /\ host = <<>> /\ dev \in Seq(Data) /\ host \in Seq([Workers -> Data])
    BY EmptySeq DEF Init
  <2>2. kernel = FALSE
    BY DEF Init
  <2> QED  BY <1>2, <2>1, <2>2 DEF Contents, CopiedToHost
<1> HIDE DEF z
<1>9. Layout(0, 0, 0, 0, 0, z, z)
  BY <1>4, <1>5, <1>6, <1>7, <1>8 DEF Layout
<1> QED  BY <1>1, <1>9 DEF PipeInv

-----------------------------------------------------------------------------
(* The steps of workers and load balancer. *)

LEMMA WorkerSendPipeInv ==
    ASSUME NEW c0 \in Nat, NEW c1 \in Nat, NEW c2 \in Nat, NEW f \in Nat, NEW g \in Nat,
           NEW d \in [Workers -> Nat], NEW e \in [Workers -> Nat],
           Layout(c0, c1, c2, f, g, d, e), NEW j \in Workers, WorkerSend(j)
    PROVE  PipeInv'
<1>1. /\ c0 <= c1 /\ c1 <= c2 /\ c2 <= f /\ f <= g /\ g <= Len(ops) /\ Len(ops) \in Nat
      /\ \A i \in Workers : /\ d[i] \in Nat /\ e[i] \in Nat
                            /\ c2 <= d[i] /\ d[i] <= e[i] /\ e[i] <= f
  <2>1. Ordered(c0, c1, c2, f, g)
    BY Bounds
  <2>2. ASSUME NEW i \in Workers
        PROVE  d[i] \in Nat /\ e[i] \in Nat /\ c2 <= d[i] /\ d[i] <= e[i] /\ e[i] <= f
    BY WorkerBounds, Zenon
  <2> QED  BY <2>1, <2>2 DEF Ordered
<1> DEFINE e1 == [e EXCEPT ![j] = @ + 1]
           n == Len(ops)
<1>2. /\ wk = [i \in Workers |-> [wq |-> Run(e[i], f), cq |-> Run(c2, d[i]), num |-> f - c2]]
      /\ sent = [i \in Workers |-> Run(d[i], e[i])]
  BY DEF Layout, Queues
<1>3. wk[j] = [wq |-> Run(e[j], f), cq |-> Run(c2, d[j]), num |-> f - c2] /\ sent[j] = Run(d[j], e[j])
  BY <1>2
<1>4. e[j] < f /\ e[j] + 1 \in Nat
  <2>1. Run(e[j], f) # <<>>
    BY <1>3 DEF WorkerSend
  <2> QED  BY <1>1, <2>1, RunEmpty
<1>5. Head(Run(e[j], f)) = Entry(e[j] + 1) /\ Tail(Run(e[j], f)) = Run(e[j] + 1, f)
  BY <1>1, <1>4, RunTail
<1>6. Append(Run(d[j], e[j]), Entry(e[j] + 1)) = Run(d[j], e[j] + 1)
  BY <1>1, RunAppend
<1>7. pop_req(wk[j]) = [wq |-> Run(e[j] + 1, f), cq |-> Run(c2, d[j]), num |-> f - c2]
  <2>1. pop_req([wq |-> Run(e[j], f), cq |-> Run(c2, d[j]), num |-> f - c2])
          = [wq |-> Tail(Run(e[j], f)), cq |-> Run(c2, d[j]), num |-> f - c2]
    BY PopReq
  <2> QED  BY <1>3, <1>5, <2>1
<1>8. e1 \in [Workers -> Nat] /\ \A i \in Workers : e1[i] = IF i = j THEN e[j] + 1 ELSE e[i]
  BY <1>1, <1>4
<1> HIDE DEF e1, n
<1>9. wk' = [i \in Workers |-> [wq |-> Run(e1[i], f), cq |-> Run(c2, d[i]), num |-> f - c2]]
  <2>1. wk' = [wk EXCEPT ![j] = pop_req(wk[j])]
    BY DEF WorkerSend
  <2> QED  BY <1>2, <1>7, <1>8, <2>1
<1>10. sent' = [i \in Workers |-> Run(d[i], e1[i])]
  <2>1. sent' = [sent EXCEPT ![j] = Append(sent[j], Head(wk[j].wq))]
    BY DEF WorkerSend
  <2>2. Append(sent[j], Head(wk[j].wq)) = Run(d[j], e[j] + 1)
    BY <1>3, <1>5, <1>6
  <2> QED  BY <1>2, <1>8, <2>1, <2>2
<1>11. UNCHANGED <<python, copying, py, shm, cuda, host>>
  BY DEF WorkerSend
<1>12. Queues(c0, c1, c2, f, g, d, e1)'
  <2>1. \A i \in Workers : c2 <= d[i] /\ d[i] <= e1[i] /\ e1[i] <= f
    BY <1>1, <1>4, <1>8
  <2> QED  BY <1>9, <1>10, <1>11, <2>1 DEF Layout, Queues, python
<1>13. Ring' /\ Copies(c1, c2, g)' /\ Calling(c0, c1, g)' /\ Contents(c1, c2, g, d)'
  BY <1>11, RingSame, CopiesSame, CallingSame, ContentsSame DEF Layout, python, cuda
<1>14. Layout(c0, c1, c2, f, g, d, e1)'
  BY <1>12, <1>13 DEF Layout
<1> QED  BY <1>8, <1>14 DEF PipeInv

LEMMA WorkerDonePipeInv ==
    ASSUME NEW c0 \in Nat, NEW c1 \in Nat, NEW c2 \in Nat, NEW f \in Nat, NEW g \in Nat,
           NEW d \in [Workers -> Nat], NEW e \in [Workers -> Nat],
           Layout(c0, c1, c2, f, g, d, e), NEW j \in Workers, WorkerDone(j)
    PROVE  PipeInv'
<1>1. /\ c0 <= c1 /\ c1 <= c2 /\ c2 <= f /\ f <= g /\ g <= Len(ops) /\ Len(ops) \in Nat
      /\ ops \in Seq(Op)
      /\ \A i \in Workers : /\ d[i] \in Nat /\ e[i] \in Nat
                            /\ c2 <= d[i] /\ d[i] <= e[i] /\ e[i] <= f
  <2>1. Ordered(c0, c1, c2, f, g)
    BY Bounds
  <2>2. ASSUME NEW i \in Workers
        PROVE  d[i] \in Nat /\ e[i] \in Nat /\ c2 <= d[i] /\ d[i] <= e[i] /\ e[i] <= f
    BY WorkerBounds, Zenon
  <2> QED  BY <2>1, <2>2 DEF Ordered
<1> DEFINE d1 == [d EXCEPT ![j] = @ + 1]
           n == Len(ops)
           m == d[j] + 1
<1>2. /\ wk = [i \in Workers |-> [wq |-> Run(e[i], f), cq |-> Run(c2, d[i]), num |-> f - c2]]
      /\ sent = [i \in Workers |-> Run(d[i], e[i])]
  BY DEF Layout, Queues
<1>3. wk[j] = [wq |-> Run(e[j], f), cq |-> Run(c2, d[j]), num |-> f - c2] /\ sent[j] = Run(d[j], e[j])
  BY <1>2
<1>4. d[j] < e[j] /\ m \in Nat /\ m <= g /\ m > c0 /\ m <= n /\ m > 0
  <2>1. Run(d[j], e[j]) # <<>>
    BY <1>3 DEF WorkerDone
  <2>2. d[j] # e[j]
    BY <1>1, <2>1, RunEmpty
  <2>3. d[j] \in Nat /\ e[j] \in Nat /\ c2 <= d[j] /\ d[j] <= e[j] /\ e[j] <= f
    BY <1>1
  <2> QED  BY <1>1, <2>2, <2>3
<1>5. Head(Run(d[j], e[j])) = Entry(m) /\ Tail(Run(d[j], e[j])) = Run(m, e[j])
  BY <1>1, <1>4, RunTail
<1>6. Append(Run(c2, d[j]), Entry(m)) = Run(c2, m)
  BY <1>1, RunAppend
<1>7. push_resp(wk[j], Entry(m)) = [wq |-> Run(e[j], f), cq |-> Run(c2, m), num |-> f - c2]
  <2>1. push_resp([wq |-> Run(e[j], f), cq |-> Run(c2, d[j]), num |-> f - c2], Entry(m))
          = [wq |-> Run(e[j], f), cq |-> Append(Run(c2, d[j]), Entry(m)), num |-> f - c2]
    BY PushResp
  <2> QED  BY <1>3, <1>6, <2>1
<1>8. d1 \in [Workers -> Nat] /\ \A i \in Workers : d1[i] = IF i = j THEN m ELSE d[i]
  BY <1>1, <1>4
<1>9. buffer[Entry(m).place] = m
  BY <1>4, BufferHolds DEF n
<1> HIDE DEF d1, n, m
<1>10. wk' = [i \in Workers |-> [wq |-> Run(e[i], f), cq |-> Run(c2, d1[i]), num |-> f - c2]]
  <2>1. wk' = [wk EXCEPT ![j] = push_resp(wk[j], Entry(m))]
    BY <1>3, <1>5 DEF WorkerDone
  <2> QED  BY <1>2, <1>7, <1>8, <2>1
<1>11. sent' = [i \in Workers |-> Run(d1[i], e[i])]
  <2>1. sent' = [sent EXCEPT ![j] = Run(m, e[j])]
    BY <1>3, <1>5 DEF WorkerDone
  <2> QED  BY <1>2, <1>8, <2>1
<1>12. host' = IF need_rx(m) THEN [host EXCEPT ![m][j] = "output"] ELSE host
  BY <1>3, <1>5, <1>9 DEF WorkerDone
<1>13. UNCHANGED <<python, copying, py, shm, cuda>>
  BY DEF WorkerDone
<1>14. Queues(c0, c1, c2, f, g, d1, e)'
  <2>1. ASSUME NEW i \in Workers
        PROVE  c2 <= d1[i] /\ d1[i] <= e[i] /\ e[i] <= f
    <3>1. c2 <= d[i] /\ d[i] <= e[i] /\ e[i] <= f /\ d[i] \in Nat /\ e[i] \in Nat
      BY <1>1
    <3>2. d1[i] = IF i = j THEN d[i] + 1 ELSE d[i]
      BY <1>8 DEF m
    <3> QED  BY <1>4, <3>1, <3>2
  <2> QED  BY <1>10, <1>11, <1>13, <2>1 DEF Layout, Queues, python
<1>15. Ring' /\ Copies(c1, c2, g)' /\ Calling(c0, c1, g)'
  BY <1>13, RingSame, CopiesSame, CallingSame DEF Layout, python, cuda
<1>16. Contents(c1, c2, g, d1)'
  <2>1. host \in Seq([Workers -> Data]) /\ Len(host) = n
    BY DEF Layout, Contents, n
  <2>2. m \in 1 .. Len(host) /\ host[m] \in [Workers -> Data]
    BY <1>1, <1>4, <2>1, ElementOfSeq
  <2>3. [host[m] EXCEPT ![j] = "output"] \in [Workers -> Data]
    BY <2>2 DEF Data
  <2>4. /\ host' \in Seq([Workers -> Data]) /\ Len(host') = n
        /\ \A k \in 1 .. n : host'[k] = IF k = m /\ need_rx(m) THEN [host[m] EXCEPT ![j] = "output"] ELSE host[k]
    <3>1. CASE need_rx(m)
      <4> DEFINE h == [host[m] EXCEPT ![j] = "output"]
      <4>1. host' = [host EXCEPT ![m] = h]
        BY <1>12, <3>1
      <4>2. h \in [Workers -> Data]
        BY <2>3
      <4> HIDE DEF h
      <4>3. /\ host' \in Seq([Workers -> Data]) /\ Len(host') = Len(host)
            /\ \A k \in 1 .. Len(host) : host'[k] = IF k = m THEN h ELSE host[k]
        BY <2>1, <2>2, <4>1, <4>2, ExceptSeq
      <4> QED  BY <2>1, <3>1, <4>3 DEF h
    <3>2. CASE ~ need_rx(m)
      BY <1>12, <2>1, <3>2
    <3> QED  BY <3>1, <3>2
  <2>5. \A k \in 1 .. n, i \in Workers :
           host'[k][i] = IF k = m /\ need_rx(m) /\ i = j THEN "output" ELSE host[k][i]
    BY <2>2, <2>4
  <2>6. /\ CopiedToHost(g)' = CopiedToHost(g) /\ CopiedToDev(c1, c2)' = CopiedToDev(c1, c2)
        /\ \A k : need_rx(k)' = need_rx(k) /\ need_tx(k)' = need_tx(k)
    BY <1>13 DEF CopiedToHost, CopiedToDev, need_tx, need_rx, python, cuda
  <2>7. ASSUME NEW i \in Workers
        PROVE  /\ \A k \in 1 .. d1[i] : need_rx(k) => host'[k][i] = "output"
               /\ \A k \in d1[i] + 1 .. g : need_tx(k) => host'[k][i] = "input"
               /\ CopiedToHost(g) => host'[g + 1][i] = "input"
    <3>1. /\ \A k \in 1 .. d[i] : need_rx(k) => host[k][i] = "output"
          /\ \A k \in d[i] + 1 .. g : need_tx(k) => host[k][i] = "input"
          /\ CopiedToHost(g) => host[g + 1][i] = "input"
      BY DEF Layout, Contents
    <3>2. /\ d[i] \in Nat /\ d[i] <= g /\ d1[i] = IF i = j THEN m ELSE d[i]
          /\ g <= n /\ n \in Nat /\ m \in Nat /\ m = d[j] + 1 /\ m <= g
      BY <1>1, <1>4, <1>8 DEF m, n
    <3>3. \A k \in 1 .. d1[i] : need_rx(k) => host'[k][i] = "output"
      <4> SUFFICES ASSUME NEW k \in 1 .. d1[i], need_rx(k)
                   PROVE  host'[k][i] = "output"
        OBVIOUS
      <4>1. k \in 1 .. n
        BY <3>2
      <4>2. k \in 1 .. d[i] \/ (i = j /\ k = m)
        BY <3>2
      <4> QED  BY <3>1, <4>1, <4>2, <2>5
    <3>4. \A k \in d1[i] + 1 .. g : need_tx(k) => host'[k][i] = "input"
      <4> SUFFICES ASSUME NEW k \in d1[i] + 1 .. g, need_tx(k)
                   PROVE  host'[k][i] = "input"
        OBVIOUS
      <4>1. k \in 1 .. n /\ k \in d[i] + 1 .. g /\ ~ (i = j /\ k = m)
        BY <3>2
      <4> QED  BY <3>1, <4>1, <2>5
    <3>5. CopiedToHost(g) => host'[g + 1][i] = "input"
      <4>1. CopiedToHost(g) => g + 1 \in 1 .. n /\ g + 1 # m
        BY <3>2 DEF CopiedToHost, n
      <4> QED  BY <3>1, <4>1, <2>5
    <3> QED  BY <3>3, <3>4, <3>5
  <2>8. UNCHANGED <<dev, kernel, ops>>
    BY <1>13 DEF python, cuda
  <2> QED  BY <2>4, <2>6, <2>7, <2>8 DEF Layout, Contents, n
<1>17. Layout(c0, c1, c2, f, g, d1, e)'
  BY <1>14, <1>15, <1>16 DEF Layout
<1> QED  BY <1>8, <1>17 DEF PipeInv

LEMMA LbPostPipeInv ==
    ASSUME NEW c0 \in Nat, NEW c1 \in Nat, NEW c2 \in Nat, NEW f \in Nat, NEW g \in Nat,
           NEW d \in [Workers -> Nat], NEW e \in [Workers -> Nat],
           Layout(c0, c1, c2, f, g, d, e), LbPost
    PROVE  PipeInv'
<1>1. Ordered(c0, c1, c2, f, g)
  BY Bounds
<1>2. /\ shm = [wq |-> Run(f, g), cq |-> Run(c1, c2), num |-> g - c1]
      /\ wk = [i \in Workers |-> [wq |-> Run(e[i], f), cq |-> Run(c2, d[i]), num |-> f - c2]]
  BY DEF Layout, Queues
<1>3. f < g /\ f + 1 \in Nat /\ f + 1 <= g
  <2>1. Run(f, g) # <<>>
    BY <1>2 DEF LbPost
  <2> QED  BY <1>1, <2>1, RunEmpty DEF Ordered
<1>4. Head(Run(f, g)) = Entry(f + 1) /\ Tail(Run(f, g)) = Run(f + 1, g)
  BY <1>3, RunTail
<1>5. shm' = [wq |-> Run(f + 1, g), cq |-> Run(c1, c2), num |-> g - c1]
  <2>1. pop_req([wq |-> Run(f, g), cq |-> Run(c1, c2), num |-> g - c1])
          = [wq |-> Tail(Run(f, g)), cq |-> Run(c1, c2), num |-> g - c1]
    BY PopReq
  <2> QED  BY <1>2, <1>4, <2>1 DEF LbPost
<1>6. wk' = [i \in Workers |-> [wq |-> Run(e[i], f + 1), cq |-> Run(c2, d[i]), num |-> (f + 1) - c2]]
  <2>1. wk' = [i \in Workers |-> push_req(wk[i], Entry(f + 1))]
    BY <1>2, <1>4 DEF LbPost, Targets
  <2>2. ASSUME NEW i \in Workers
        PROVE  push_req(wk[i], Entry(f + 1)) = [wq |-> Run(e[i], f + 1), cq |-> Run(c2, d[i]), num |-> (f + 1) - c2]
    <3>1. d[i] \in Nat /\ e[i] \in Nat /\ c2 <= d[i] /\ d[i] <= e[i] /\ e[i] <= f
      BY WorkerBounds, Zenon
    <3>2. Append(Run(e[i], f), Entry(f + 1)) = Run(e[i], f + 1)
      BY <3>1, RunAppend
    <3>3. f - c2 < QueueSize /\ (f - c2) + 1 = (f + 1) - c2
      BY <1>1, <1>3 DEF Ordered
    <3>4. push_req([wq |-> Run(e[i], f), cq |-> Run(c2, d[i]), num |-> f - c2], Entry(f + 1))
            = [wq |-> Append(Run(e[i], f), Entry(f + 1)), cq |-> Run(c2, d[i]), num |-> (f - c2) + 1]
      BY <3>3, PushReq
    <3>5. wk[i] = [wq |-> Run(e[i], f), cq |-> Run(c2, d[i]), num |-> f - c2]
      BY <1>2
    <3> QED  BY <3>2, <3>3, <3>4, <3>5
  <2> QED  BY <2>1, <2>2
<1>7. UNCHANGED <<python, copying, py, sent, cuda, host>>
  BY DEF LbPost
<1>8. Queues(c0, c1, c2, f + 1, g, d, e)'
  <2>1. ASSUME NEW i \in Workers
        PROVE  c2 <= d[i] /\ d[i] <= e[i] /\ e[i] <= f + 1
    <3>1. d[i] \in Nat /\ e[i] \in Nat /\ c2 <= d[i] /\ d[i] <= e[i] /\ e[i] <= f
      BY WorkerBounds, Zenon
    <3> QED  BY <3>1
  <2>2. c2 <= f + 1
    BY <1>1 DEF Ordered
  <2> QED  BY <1>3, <1>5, <1>6, <1>7, <2>1, <2>2 DEF Layout, Queues, python
<1>9. Ring' /\ Copies(c1, c2, g)' /\ Calling(c0, c1, g)' /\ Contents(c1, c2, g, d)'
  BY <1>7, RingSame, CopiesSame, CallingSame, ContentsSame DEF Layout, python, cuda
<1>10. Layout(c0, c1, c2, f + 1, g, d, e)'
  BY <1>8, <1>9 DEF Layout
<1> QED  BY <1>3, <1>10 DEF PipeInv

LEMMA LbCompletePipeInv ==
    ASSUME NEW c0 \in Nat, NEW c1 \in Nat, NEW c2 \in Nat, NEW f \in Nat, NEW g \in Nat,
           NEW d \in [Workers -> Nat], NEW e \in [Workers -> Nat],
           Layout(c0, c1, c2, f, g, d, e), LbComplete
    PROVE  PipeInv'
<1>1. Ordered(c0, c1, c2, f, g)
  BY Bounds
<1>2. /\ shm = [wq |-> Run(f, g), cq |-> Run(c1, c2), num |-> g - c1]
      /\ wk = [i \in Workers |-> [wq |-> Run(e[i], f), cq |-> Run(c2, d[i]), num |-> f - c2]]
  BY DEF Layout, Queues
<1>3. ASSUME NEW i \in Workers
      PROVE  /\ c2 < d[i] /\ d[i] \in Nat /\ e[i] \in Nat /\ d[i] <= e[i] /\ e[i] <= f
             /\ wk[i] = [wq |-> Run(e[i], f), cq |-> Run(c2, d[i]), num |-> f - c2]
             /\ Head(wk[i].cq) = Entry(c2 + 1) /\ Tail(Run(c2, d[i])) = Run(c2 + 1, d[i])
  <2>1. d[i] \in Nat /\ e[i] \in Nat /\ c2 <= d[i] /\ d[i] <= e[i] /\ e[i] <= f
    BY WorkerBounds, Zenon
  <2>2. wk[i] = [wq |-> Run(e[i], f), cq |-> Run(c2, d[i]), num |-> f - c2]
    BY <1>2
  <2>3. Run(c2, d[i]) # <<>>
    BY <2>2 DEF LbComplete
  <2>4. c2 < d[i]
    BY <2>1, <2>3, RunEmpty
  <2> QED  BY <2>1, <2>2, <2>4, RunTail, SMTT(30)
<1>4. NWorkers \in Workers
  BY PipelineAssumption DEF Workers
<1>5. c2 < f /\ c2 + 1 \in Nat /\ c2 + 1 <= f
  <2>1. /\ c2 < d[NWorkers] /\ d[NWorkers] \in Nat /\ e[NWorkers] \in Nat
        /\ d[NWorkers] <= e[NWorkers] /\ e[NWorkers] <= f
    BY <1>3, <1>4
  <2> QED  BY <2>1
<1>6. shm' = [wq |-> Run(f, g), cq |-> Run(c1, c2 + 1), num |-> g - c1]
  <2>1. shm' = push_resp(shm, Entry(c2 + 1))
    BY <1>3, <1>4 DEF LbComplete
  <2>2. Append(Run(c1, c2), Entry(c2 + 1)) = Run(c1, c2 + 1)
    BY <1>1, RunAppend DEF Ordered
  <2>3. push_resp([wq |-> Run(f, g), cq |-> Run(c1, c2), num |-> g - c1], Entry(c2 + 1))
          = [wq |-> Run(f, g), cq |-> Append(Run(c1, c2), Entry(c2 + 1)), num |-> g - c1]
    BY PushResp
  <2> QED  BY <1>2, <2>1, <2>2, <2>3
<1>7. wk' = [i \in Workers |-> [wq |-> Run(e[i], f), cq |-> Run(c2 + 1, d[i]), num |-> f - (c2 + 1)]]
  <2>1. ASSUME NEW i \in Workers
        PROVE  pop_resp(wk[i]) = [wq |-> Run(e[i], f), cq |-> Run(c2 + 1, d[i]), num |-> f - (c2 + 1)]
    <3>1. pop_resp([wq |-> Run(e[i], f), cq |-> Run(c2, d[i]), num |-> f - c2])
            = [wq |-> Run(e[i], f), cq |-> Tail(Run(c2, d[i])), num |-> (f - c2) - 1]
      BY PopResp
    <3>2. (f - c2) - 1 = f - (c2 + 1)
      OBVIOUS
    <3> QED  BY <1>3, <3>1, <3>2
  <2> QED  BY <2>1 DEF LbComplete
<1>8. UNCHANGED <<python, copying, py, sent, cuda, host>>
  BY DEF LbComplete
<1>9. Queues(c0, c1, c2 + 1, f, g, d, e)'
  <2>1. ASSUME NEW i \in Workers
        PROVE  c2 + 1 <= d[i] /\ d[i] <= e[i] /\ e[i] <= f
    <3>1. c2 < d[i] /\ d[i] \in Nat /\ e[i] \in Nat /\ d[i] <= e[i] /\ e[i] <= f
      BY <1>3
    <3> QED  BY <3>1
  <2>2. c1 <= c2 + 1
    BY <1>1 DEF Ordered
  <2> QED  BY <1>5, <1>6, <1>7, <1>8, <2>1, <2>2 DEF Layout, Queues, python
\* Nothing is copied to the device before it has been joined.
<1>10. c1 < c2 + 1 /\ c1 + 1 \in copying => c1 < c2
  <2>1. ASSUME c1 + 1 \in copying PROVE c1 < c2
    <3>1. \/ c1 + 1 = g + 1
          \/ c1 < c2
      BY <2>1 DEF Layout, Copies
    <3> QED  BY <1>1, <1>5, <3>1 DEF Ordered
  <2> QED  BY <2>1
<1>11. Copies(c1, c2 + 1, g)'
  <2>1. Copies(c1, c2, g)'
    BY <1>8, CopiesSame DEF Layout, python, cuda
  <2>2. c1 < c2 => c1 < c2 + 1
    OBVIOUS
  <2> QED  BY <2>1, <2>2 DEF Copies
<1>12. Contents(c1, c2 + 1, g, d)'
  <2>1. Contents(c1, c2, g, d)'
    BY <1>8, ContentsSame DEF Layout, python, cuda
  <2>2. CopiedToDev(c1, c2 + 1)' <=> CopiedToDev(c1, c2)'
    <3>1. c1 < c2 => c1 < c2 + 1
      OBVIOUS
    <3> QED  BY <1>8, <1>10, <3>1 DEF CopiedToDev
  <2> QED  BY <2>1, <2>2 DEF Contents
<1>13. Ring' /\ Calling(c0, c1, g)'
  BY <1>8, RingSame, CallingSame DEF Layout, python, cuda
<1>14. Layout(c0, c1, c2 + 1, f, g, d, e)'
  BY <1>9, <1>11, <1>12, <1>13 DEF Layout
<1> QED  BY <1>5, <1>14 DEF PipeInv

-----------------------------------------------------------------------------
(* The steps of the daemon. *)

\* What the copies under way tell.
LEMMA CopyFacts ==
    ASSUME NEW c0 \in Nat, NEW c1 \in Nat, NEW c2 \in Nat, NEW f \in Nat, NEW g \in Nat,
           NEW d, NEW e, Layout(c0, c1, c2, f, g, d, e)
    PROVE  /\ \A k \in copying : k = g + 1 \/ k = c1 + 1
           /\ g + 1 \in copying => g < Len(ops) /\ need_tx(g + 1)
           /\ c1 + 1 \in copying /\ c1 < c2 => need_rx(c1 + 1)
           /\ d2h # <<>> => g + 1 \in copying
           /\ h2d # <<>> => c1 + 1 \in copying
<1>1. c1 < c2 => c1 + 1 # g + 1
  BY Bounds DEF Ordered
<1>2. /\ \A k \in copying : \/ k = g + 1 /\ g < Len(ops) /\ need_tx(k)
                            \/ k = c1 + 1 /\ c1 < c2 /\ need_rx(k)
      /\ d2h # <<>> => g + 1 \in copying
      /\ h2d # <<>> => c1 + 1 \in copying
  BY DEF Layout, Copies
<1>3. \A k \in copying : k = g + 1 \/ k = c1 + 1
  BY <1>2
<1>4. g + 1 \in copying => g < Len(ops) /\ need_tx(g + 1)
  <2> SUFFICES ASSUME g + 1 \in copying PROVE g < Len(ops) /\ need_tx(g + 1)
    OBVIOUS
  <2>1. \/ g < Len(ops) /\ need_tx(g + 1)
        \/ g + 1 = c1 + 1 /\ c1 < c2
    BY <1>2
  <2> QED  BY <1>1, <2>1
<1>5. c1 + 1 \in copying /\ c1 < c2 => need_rx(c1 + 1)
  <2> SUFFICES ASSUME c1 + 1 \in copying, c1 < c2 PROVE need_rx(c1 + 1)
    OBVIOUS
  <2>1. \/ c1 + 1 = g + 1
        \/ need_rx(c1 + 1)
    BY <1>2
  <2> QED  BY <1>1, <2>1
<1> QED  BY <1>2, <1>3, <1>4, <1>5

\* Operations that are not destroyed are of the current call.
LEMMA OfCall ==
    ASSUME NEW c0 \in Nat, NEW c1 \in Nat, NEW c2 \in Nat, NEW f \in Nat, NEW g \in Nat,
           NEW d, NEW e, Layout(c0, c1, c2, f, g, d, e),
           NEW k \in 1 .. Len(ops), k > c0
    PROVE  /\ ops[k].call = calls
           /\ need_tx(k) = call.kind.tx /\ need_rx(k) = call.kind.rx
           /\ kernel /\ need_tx(k) => k > g
           /\ kernel => k > c1
<1>1. ops[k].call = calls /\ ops[k].kind = call.kind
  BY DEF Layout, Calling
<1>2. kernel => k > IF call.kind.tx THEN g ELSE c1
  BY <1>1 DEF Layout, Calling
<1>3. c1 <= g
  BY Bounds DEF Ordered
<1> QED  BY <1>1, <1>2, <1>3 DEF need_tx, need_rx

\* If the kernel is running, the next operation is the first of the call.
LEMMA KernelRuns ==
    ASSUME NEW c0 \in Nat, NEW c1 \in Nat, NEW c2 \in Nat, NEW f \in Nat, NEW g \in Nat,
           NEW d, NEW e, Layout(c0, c1, c2, f, g, d, e), kernel
    PROVE  /\ g < Len(ops) /\ need_tx(g + 1) => ops[g + 1].is_first
           /\ c1 < c2 => ops[c1 + 1].is_first /\ ~ need_tx(c1 + 1)
<1>1. Ordered(c0, c1, c2, f, g)
  BY Bounds
<1>2. ASSUME NEW k \in 1 .. Len(ops), k > c0, k = 1 \/ ~ ops[k - 1].call = calls
      PROVE  ops[k].is_first
  <2>1. ops[k].call = calls
    BY <1>2, OfCall
  <2>2. k = 1 \/ ops[k - 1].call # ops[k].call
    BY <1>2, <2>1
  <2> QED  BY <2>2 DEF Layout, Calling
<1>3. \A k \in 1 .. Len(ops) : ops[k].call = calls => k > IF call.kind.tx THEN g ELSE c1
  BY DEF Layout, Calling
<1>4. ASSUME g < Len(ops), need_tx(g + 1) PROVE ops[g + 1].is_first
  <2>1. g + 1 \in 1 .. Len(ops) /\ g + 1 > c0
    BY <1>1, <1>4 DEF Ordered
  <2>2. call.kind.tx
    BY <1>4, <2>1, OfCall
  <2>3. g + 1 = 1 \/ ~ ops[(g + 1) - 1].call = calls
    <3>1. CASE g = 0
      BY <3>1
    <3>2. CASE g # 0
      <4>1. g \in 1 .. Len(ops) /\ (g + 1) - 1 = g /\ ~ g > g
        BY <1>1, <3>2 DEF Ordered
      <4> QED  BY <1>3, <2>2, <4>1
    <3> QED  BY <3>1, <3>2
  <2> QED  BY <1>2, <2>1, <2>3
<1>5. ASSUME c1 < c2 PROVE ops[c1 + 1].is_first /\ ~ need_tx(c1 + 1)
  <2>1. c1 + 1 \in 1 .. Len(ops) /\ c1 + 1 > c0 /\ ~ c1 + 1 > g
    BY <1>1, <1>5 DEF Ordered
  <2>2. ~ need_tx(c1 + 1) /\ ~ call.kind.tx
    BY <2>1, OfCall
  <2>3. c1 + 1 = 1 \/ ~ ops[(c1 + 1) - 1].call = calls
    <3>1. CASE c1 = 0
      BY <3>1
    <3>2. CASE c1 # 0
      <4>1. c1 \in 1 .. Len(ops) /\ (c1 + 1) - 1 = c1 /\ ~ c1 > c1
        BY <1>1, <3>2 DEF Ordered
      <4> QED  BY <1>3, <2>2, <4>1
    <3> QED  BY <3>1, <3>2
  <2> QED  BY <1>2, <2>1, <2>2, <2>3
<1> QED  BY <1>4, <1>5

LEMMA StartD2HPipeInv ==
    ASSUME NEW c0 \in Nat, NEW c1 \in Nat, NEW c2 \in Nat, NEW f \in Nat, NEW g \in Nat,
           NEW d \in [Workers -> Nat], NEW e \in [Workers -> Nat],
           Layout(c0, c1, c2, f, g, d, e), StartD2H
    PROVE  PipeInv'
<1>1. Ordered(c0, c1, c2, f, g)
  BY Bounds
<1>2. py = [wq |-> Run(g, Len(ops)), cq |-> Run(c0, c1), num |-> cnt]
  BY DEF Layout, Queues
<1>3. g < Len(ops)
  <2>1. Run(g, Len(ops)) # <<>>
    BY <1>2 DEF StartD2H
  <2> QED  BY <1>1, <2>1, RunEmpty DEF Ordered
<1>4. Head(py.wq).op = g + 1
  BY <1>1, <1>2, <1>3, RunTail DEF Ordered, Entry
<1>5. /\ need_tx(g + 1) /\ g + 1 \notin copying
      /\ copying' = copying \cup {g + 1}
      /\ d2h' = Append(d2h, [op |-> g + 1, waits |-> ops[g + 1].is_first])
  BY <1>4 DEF StartD2H, WaitD2H
<1>6. UNCHANGED <<python, py, shm, wk, sent, h2d, dev, kernel, host>>
  BY DEF StartD2H
<1>7. d2h = <<>> /\ d2h' = <<[op |-> g + 1, waits |-> ops[g + 1].is_first]>>
  <2>1. d2h = <<>>
    BY <1>5, CopyFacts
  <2> QED  BY <1>5, <2>1
<1>8. c1 < c2 => (c1 + 1 \in copying' <=> c1 + 1 \in copying)
  <2>1. c1 < c2 => c1 + 1 # g + 1
    BY <1>1 DEF Ordered
  <2> QED  BY <1>5, <2>1
<1>9. Copies(c1, c2, g)'
  <2>1. ops' = ops /\ h2d' = h2d
    BY <1>6 DEF python
  <2>2. copying' \subseteq Nat
    BY <1>5 DEF Layout, Copies
  <2>3. \A k \in copying' : \/ k = g + 1 /\ g < Len(ops) /\ need_tx(k)
                            \/ k = c1 + 1 /\ c1 < c2 /\ need_rx(k)
    BY <1>3, <1>5 DEF Layout, Copies
  <2>4. \/ h2d = <<>>
        \/ /\ h2d = <<[op |-> c1 + 1, waits |-> ops[c1 + 1].is_first /\ ~ need_tx(c1 + 1)]>>
           /\ c1 + 1 \in copying /\ c1 < c2
    BY DEF Layout, Copies
  <2>5. g + 1 \in copying' /\ (c1 + 1 \in copying => c1 + 1 \in copying')
    BY <1>5
  <2> QED  BY <1>3, <1>7, <2>1, <2>2, <2>3, <2>4, <2>5 DEF Copies, need_tx, need_rx
<1>10. Contents(c1, c2, g, d)'
  <2>1. ~ CopiedToHost(g) /\ ~ CopiedToHost(g)'
    BY <1>5, <1>7 DEF CopiedToHost
  <2>2. CopiedToDev(c1, c2)' <=> CopiedToDev(c1, c2)
    BY <1>6, <1>8 DEF CopiedToDev
  <2>3. Contents(c1, c2, g, d) /\ UNCHANGED <<dev, host, kernel, ops>>
    BY <1>6 DEF Layout, python
  <2> QED  BY <2>1, <2>2, <2>3 DEF Contents, need_tx, need_rx
<1>11. Ring' /\ Calling(c0, c1, g)'
  BY <1>6, RingSame, CallingSame DEF Layout, python
<1>12. Queues(c0, c1, c2, f, g, d, e)'
  BY <1>6 DEF Layout, Queues, python
<1>13. Layout(c0, c1, c2, f, g, d, e)'
  BY <1>9, <1>10, <1>11, <1>12 DEF Layout
<1> QED  BY <1>13 DEF PipeInv

LEMMA PostOpPipeInv ==
    ASSUME NEW c0 \in Nat, NEW c1 \in Nat, NEW c2 \in Nat, NEW f \in Nat, NEW g \in Nat,
           NEW d \in [Workers -> Nat], NEW e \in [Workers -> Nat],
           Layout(c0, c1, c2, f, g, d, e), try_post_op
    PROVE  PipeInv'
<1>1. Ordered(c0, c1, c2, f, g)
  BY Bounds
<1>2. /\ py = [wq |-> Run(g, Len(ops)), cq |-> Run(c0, c1), num |-> cnt]
      /\ shm = [wq |-> Run(f, g), cq |-> Run(c1, c2), num |-> g - c1]
  BY DEF Layout, Queues
<1>3. g < Len(ops) /\ g + 1 \in Nat /\ g + 1 \in 1 .. Len(ops) /\ g + 1 > c0
  <2>1. Run(g, Len(ops)) # <<>>
    BY <1>2 DEF try_post_op
  <2>2. g < Len(ops)
    BY <1>1, <2>1, RunEmpty DEF Ordered
  <2> QED  BY <1>1, <2>2 DEF Ordered
<1>4. Head(py.wq) = Entry(g + 1) /\ Entry(g + 1).op = g + 1 /\ Tail(Run(g, Len(ops))) = Run(g + 1, Len(ops))
  BY <1>1, <1>2, <1>3, RunTail DEF Ordered, Entry
<1>5. /\ need_tx(g + 1) => g + 1 \in copying /\ Complete(d2h, g + 1)
      /\ copying' = copying \ {g + 1}
      /\ py' = pop_req(py)
      /\ shm' = push_req(shm, Entry(g + 1))
  BY <1>4 DEF try_post_op
<1>6. UNCHANGED <<python, wk, sent, cuda, host>>
  BY DEF try_post_op
\* The copy to the host is over.
<1>7. d2h = <<>>
  <2> SUFFICES ASSUME d2h # <<>> PROVE FALSE
    OBVIOUS
  <2>1. need_tx(g + 1)
    BY CopyFacts
  <2>2. d2h = <<[op |-> g + 1, waits |-> ops[g + 1].is_first]>>
    BY DEF Layout, Copies
  <2>3. 1 \in DOMAIN d2h /\ d2h[1].op = g + 1
    BY <2>2
  <2> QED  BY <1>5, <2>1, <2>3 DEF Complete
<1>8. need_tx(g + 1) => CopiedToHost(g) /\ ~ kernel
  <2>1. need_tx(g + 1) => CopiedToHost(g)
    BY <1>3, <1>5, <1>7 DEF CopiedToHost
  <2> QED  BY <2>1 DEF Layout, Contents
<1>9. \A k \in copying' : k = c1 + 1 /\ c1 < c2 /\ need_rx(k)
  BY <1>5 DEF Layout, Copies
<1>10. c1 < c2 => (c1 + 1 \in copying' <=> c1 + 1 \in copying)
  <2>1. c1 < c2 => c1 + 1 # g + 1
    BY <1>1 DEF Ordered
  <2> QED  BY <1>5, <2>1
<1>11. Queues(c0, c1, c2, f, g + 1, d, e)'
  <2>1. py' = [wq |-> Run(g + 1, Len(ops)), cq |-> Run(c0, c1), num |-> cnt]
    <3>1. pop_req([wq |-> Run(g, Len(ops)), cq |-> Run(c0, c1), num |-> cnt])
            = [wq |-> Tail(Run(g, Len(ops))), cq |-> Run(c0, c1), num |-> cnt]
      BY PopReq
    <3> QED  BY <1>2, <1>4, <1>5, <3>1
  <2>2. shm' = [wq |-> Run(f, g + 1), cq |-> Run(c1, c2), num |-> (g + 1) - c1]
    <3>1. g - c1 < QueueSize /\ (g - c1) + 1 = (g + 1) - c1
      BY <1>1, <1>3 DEF Ordered
    <3>2. push_req([wq |-> Run(f, g), cq |-> Run(c1, c2), num |-> g - c1], Entry(g + 1))
            = [wq |-> Append(Run(f, g), Entry(g + 1)), cq |-> Run(c1, c2), num |-> (g - c1) + 1]
      BY <3>1, PushReq
    <3>3. Append(Run(f, g), Entry(g + 1)) = Run(f, g + 1)
      BY <1>1, RunAppend DEF Ordered
    <3> QED  BY <1>2, <1>5, <3>1, <3>2, <3>3
  <2>3. f <= g + 1 /\ g + 1 <= Len(ops)
    BY <1>1, <1>3 DEF Ordered
  <2> QED  BY <1>6, <2>1, <2>2, <2>3 DEF Layout, Queues, python
<1>12. Copies(c1, c2, g + 1)'
  <2>1. ops' = ops /\ h2d' = h2d /\ d2h' = <<>>
    BY <1>6, <1>7 DEF python, cuda
  <2>2. copying' \subseteq Nat
    BY <1>5 DEF Layout, Copies
  <2>3. \/ h2d = <<>>
        \/ /\ h2d = <<[op |-> c1 + 1, waits |-> ops[c1 + 1].is_first /\ ~ need_tx(c1 + 1)]>>
           /\ c1 + 1 \in copying' /\ c1 < c2
    BY <1>10 DEF Layout, Copies
  <2> QED  BY <1>9, <2>1, <2>2, <2>3 DEF Copies, need_tx, need_rx
<1>13. Calling(c0, c1, g + 1)'
  <2>1. Calling(c0, c1, g)'
    BY <1>6, CallingSame DEF Layout, python, cuda
  <2>2. ASSUME kernel, NEW k \in 1 .. Len(ops), ops[k].call = calls
        PROVE  k > IF call.kind.tx THEN g + 1 ELSE c1
    <3>1. k > IF call.kind.tx THEN g ELSE c1
      BY <2>2 DEF Layout, Calling
    <3>2. ~ call.kind.tx
      BY <1>3, <1>8, <2>2, OfCall
    <3> QED  BY <3>1, <3>2
  <2>3. UNCHANGED <<kernel, ops, calls, call>>
    BY <1>6 DEF python, cuda
  <2> QED  BY <2>1, <2>2, <2>3 DEF Calling
<1>14. Contents(c1, c2, g + 1, d)'
  <2>1. Contents(c1, c2, g, d) /\ UNCHANGED <<dev, host, kernel, ops>>
    BY <1>6 DEF Layout, python, cuda
  <2>2. CopiedToDev(c1, c2)' <=> CopiedToDev(c1, c2)
    BY <1>6, <1>10 DEF CopiedToDev, cuda
  <2>3. ~ CopiedToHost(g + 1)'
    <3>1. (g + 1) + 1 # c1 + 1
      BY <1>1 DEF Ordered
    <3> QED  BY <1>9, <3>1 DEF CopiedToHost
  <2>4. ASSUME NEW i \in Workers, NEW k \in d[i] + 1 .. g + 1, need_tx(k)
        PROVE  host[k][i] = "input"
    <3>1. CASE k = g + 1
      BY <1>8, <2>1, <2>4, <3>1 DEF Contents
    <3>2. CASE k # g + 1
      <4>1. d[i] \in Nat
        OBVIOUS
      <4>2. k \in d[i] + 1 .. g
        BY <3>2, <4>1
      <4> QED  BY <2>1, <2>4, <4>2 DEF Contents
    <3> QED  BY <3>1, <3>2
  <2> QED  BY <2>1, <2>2, <2>3, <2>4 DEF Contents, need_tx, need_rx
<1>15. Ring'
  BY <1>6, RingSame DEF Layout, python
<1>16. Layout(c0, c1, c2, f, g + 1, d, e)'
  BY <1>11, <1>12, <1>13, <1>14, <1>15 DEF Layout
<1> QED  BY <1>3, <1>16 DEF PipeInv

LEMMA StartH2DPipeInv ==
    ASSUME NEW c0 \in Nat, NEW c1 \in Nat, NEW c2 \in Nat, NEW f \in Nat, NEW g \in Nat,
           NEW d \in [Workers -> Nat], NEW e \in [Workers -> Nat],
           Layout(c0, c1, c2, f, g, d, e), StartH2D
    PROVE  PipeInv'
<1>1. Ordered(c0, c1, c2, f, g)
  BY Bounds
<1>2. shm = [wq |-> Run(f, g), cq |-> Run(c1, c2), num |-> g - c1]
  BY DEF Layout, Queues
<1>3. c1 < c2 /\ c1 + 1 \in Nat /\ c1 + 1 > c0 /\ c1 + 1 <= Len(ops) /\ c1 + 1 # g + 1
  <2>1. Run(c1, c2) # <<>>
    BY <1>2 DEF StartH2D
  <2>2. c1 < c2
    BY <1>1, <2>1, RunEmpty DEF Ordered
  <2> QED  BY <1>1, <2>2 DEF Ordered
<1>4. buffer[Head(shm.cq).place] = c1 + 1
  <2>1. Head(Run(c1, c2)) = Entry(c1 + 1)
    BY <1>3, RunTail
  <2>2. buffer[Entry(c1 + 1).place] = c1 + 1
    BY <1>3, BufferHolds
  <2> QED  BY <1>2, <2>1, <2>2
<1>5. /\ need_rx(c1 + 1) /\ c1 + 1 \notin copying
      /\ copying' = copying \cup {c1 + 1}
      /\ h2d' = Append(h2d, [op |-> c1 + 1, waits |-> ops[c1 + 1].is_first /\ ~ need_tx(c1 + 1)])
  BY <1>4 DEF StartH2D, WaitH2D
<1>6. UNCHANGED <<python, py, shm, wk, sent, d2h, dev, kernel, host>>
  BY DEF StartH2D
<1>7. h2d' = <<[op |-> c1 + 1, waits |-> ops[c1 + 1].is_first /\ ~ need_tx(c1 + 1)]>>
  <2>1. h2d = <<>>
    BY <1>5, CopyFacts
  <2> QED  BY <1>5, <2>1
<1>8. Copies(c1, c2, g)'
  <2>1. ops' = ops /\ d2h' = d2h
    BY <1>6 DEF python
  <2>2. copying' \subseteq Nat
    BY <1>3, <1>5 DEF Layout, Copies
  <2>3. \A k \in copying' : \/ k = g + 1 /\ g < Len(ops) /\ need_tx(k)
                            \/ k = c1 + 1 /\ c1 < c2 /\ need_rx(k)
    BY <1>3, <1>5 DEF Layout, Copies
  <2>4. \/ d2h = <<>>
        \/ /\ d2h = <<[op |-> g + 1, waits |-> ops[g + 1].is_first]>>
           /\ g + 1 \in copying' /\ g < Len(ops)
    BY <1>5 DEF Layout, Copies
  <2>5. c1 + 1 \in copying'
    BY <1>5
  <2> QED  BY <1>3, <1>7, <2>1, <2>2, <2>3, <2>4, <2>5 DEF Copies, need_tx, need_rx
<1>9. Contents(c1, c2, g, d)'
  <2>1. ~ CopiedToDev(c1, c2) /\ ~ CopiedToDev(c1, c2)'
    BY <1>5, <1>7, SMTT(30) DEF CopiedToDev
  <2>2. CopiedToHost(g)' <=> CopiedToHost(g)
    BY <1>3, <1>5, <1>6 DEF CopiedToHost, python
  <2>3. Contents(c1, c2, g, d) /\ UNCHANGED <<dev, host, kernel, ops>>
    BY <1>6 DEF Layout, python
  <2> QED  BY <2>1, <2>2, <2>3 DEF Contents, need_tx, need_rx
<1>10. Ring' /\ Calling(c0, c1, g)'
  BY <1>6, RingSame, CallingSame DEF Layout, python
<1>11. Queues(c0, c1, c2, f, g, d, e)'
  BY <1>6 DEF Layout, Queues, python
<1>12. Layout(c0, c1, c2, f, g, d, e)'
  BY <1>8, <1>9, <1>10, <1>11 DEF Layout
<1> QED  BY <1>12 DEF PipeInv

LEMMA CompleteOpPipeInv ==
    ASSUME NEW c0 \in Nat, NEW c1 \in Nat, NEW c2 \in Nat, NEW f \in Nat, NEW g \in Nat,
           NEW d \in [Workers -> Nat], NEW e \in [Workers -> Nat],
           Layout(c0, c1, c2, f, g, d, e), try_complete_op
    PROVE  PipeInv'
<1>1. Ordered(c0, c1, c2, f, g)
  BY Bounds
<1>2. /\ py = [wq |-> Run(g, Len(ops)), cq |-> Run(c0, c1), num |-> cnt]
      /\ shm = [wq |-> Run(f, g), cq |-> Run(c1, c2), num |-> g - c1]
  BY DEF Layout, Queues
<1>3. /\ c1 < c2 /\ c1 + 1 \in Nat /\ c1 + 1 > c0 /\ c1 + 1 <= Len(ops)
      /\ c1 + 1 # g + 1 /\ c1 + 1 <= g /\ c1 + 1 \in 1 .. Len(ops)
  <2>1. Run(c1, c2) # <<>>
    BY <1>2 DEF try_complete_op
  <2>2. c1 < c2
    BY <1>1, <2>1, RunEmpty DEF Ordered
  <2> QED  BY <1>1, <2>2 DEF Ordered
<1>4. Head(shm.cq) = Entry(c1 + 1) /\ Tail(Run(c1, c2)) = Run(c1 + 1, c2) /\ buffer[Entry(c1 + 1).place] = c1 + 1
  <2>1. Head(Run(c1, c2)) = Entry(c1 + 1) /\ Tail(Run(c1, c2)) = Run(c1 + 1, c2)
    BY <1>3, RunTail
  <2>2. buffer[Entry(c1 + 1).place] = c1 + 1
    BY <1>3, BufferHolds
  <2> QED  BY <1>2, <2>1, <2>2
<1>5. /\ need_rx(c1 + 1) => c1 + 1 \in copying /\ Complete(h2d, c1 + 1)
      /\ copying' = copying \ {c1 + 1}
      /\ shm' = pop_resp(shm)
      /\ py' = push_resp(py, Entry(c1 + 1))
  <2>1. [op |-> c1 + 1, place |-> Entry(c1 + 1).place] = Entry(c1 + 1)
    BY DEF Entry
  <2> QED  BY <1>4, <2>1 DEF try_complete_op
<1>6. UNCHANGED <<python, wk, sent, cuda, host>>
  BY DEF try_complete_op
\* The copy to the device is over.
<1>7. h2d = <<>>
  <2> SUFFICES ASSUME h2d # <<>> PROVE FALSE
    OBVIOUS
  <2>1. need_rx(c1 + 1)
    BY <1>3, CopyFacts
  <2>2. h2d = <<[op |-> c1 + 1, waits |-> ops[c1 + 1].is_first /\ ~ need_tx(c1 + 1)]>>
    BY DEF Layout, Copies
  <2>3. 1 \in DOMAIN h2d /\ h2d[1].op = c1 + 1
    BY <2>2
  <2> QED  BY <1>5, <2>1, <2>3 DEF Complete
<1>8. need_rx(c1 + 1) <=> CopiedToDev(c1, c2)
  BY <1>3, <1>5, <1>7, CopyFacts DEF CopiedToDev
\* The kernel has ended: a rank that does not receive has sent.
<1>9. ~ kernel
  <2>1. CASE need_rx(c1 + 1)
    BY <1>8, <2>1 DEF Layout, Contents
  <2>2. CASE ~ need_rx(c1 + 1)
    <3>1. need_tx(c1 + 1)
      BY <1>1, <1>3, <2>2, OpFields DEF Ordered
    <3> QED  BY <1>3, <3>1, KernelRuns
  <2> QED  BY <2>1, <2>2
<1>10. \A k \in copying' : k = g + 1 /\ g < Len(ops) /\ need_tx(k)
  BY <1>5 DEF Layout, Copies
<1>11. g + 1 \in copying' <=> g + 1 \in copying
  BY <1>3, <1>5
<1>12. Queues(c0, c1 + 1, c2, f, g, d, e)'
  <2>1. py' = [wq |-> Run(g, Len(ops)), cq |-> Run(c0, c1 + 1), num |-> cnt]
    <3>1. push_resp([wq |-> Run(g, Len(ops)), cq |-> Run(c0, c1), num |-> cnt], Entry(c1 + 1))
            = [wq |-> Run(g, Len(ops)), cq |-> Append(Run(c0, c1), Entry(c1 + 1)), num |-> cnt]
      BY PushResp
    <3>2. Append(Run(c0, c1), Entry(c1 + 1)) = Run(c0, c1 + 1)
      BY <1>1, RunAppend DEF Ordered
    <3> QED  BY <1>2, <1>5, <3>1, <3>2
  <2>2. shm' = [wq |-> Run(f, g), cq |-> Run(c1 + 1, c2), num |-> g - (c1 + 1)]
    <3>1. (g - c1) - 1 = g - (c1 + 1)
      BY <1>1 DEF Ordered
    <3>2. pop_resp([wq |-> Run(f, g), cq |-> Run(c1, c2), num |-> g - c1])
            = [wq |-> Run(f, g), cq |-> Tail(Run(c1, c2)), num |-> (g - c1) - 1]
      BY PopResp
    <3> QED  BY <1>2, <1>4, <1>5, <3>1, <3>2
  <2>3. c0 <= c1 + 1 /\ c1 + 1 <= c2
    BY <1>1, <1>3 DEF Ordered
  <2> QED  BY <1>6, <2>1, <2>2, <2>3 DEF Layout, Queues, python
<1>13. Copies(c1 + 1, c2, g)'
  <2>1. ops' = ops /\ h2d' = <<>> /\ d2h' = d2h
    BY <1>6, <1>7 DEF python, cuda
  <2>2. copying' \subseteq Nat
    BY <1>5 DEF Layout, Copies
  <2>3. \/ d2h = <<>>
        \/ /\ d2h = <<[op |-> g + 1, waits |-> ops[g + 1].is_first]>>
           /\ g + 1 \in copying' /\ g < Len(ops)
    BY <1>11 DEF Layout, Copies
  <2> QED  BY <1>10, <2>1, <2>2, <2>3 DEF Copies, need_tx, need_rx
<1>14. Calling(c0, c1 + 1, g)'
  <2>1. Calling(c0, c1, g)'
    BY <1>6, CallingSame DEF Layout, python, cuda
  <2>2. ~ kernel'
    BY <1>6, <1>9 DEF cuda
  <2> QED  BY <2>1, <2>2 DEF Calling
<1>15. Contents(c1 + 1, c2, g, d)'
  <2>1. Contents(c1, c2, g, d) /\ UNCHANGED <<dev, host, kernel, ops, d2h>>
    BY <1>6 DEF Layout, python, cuda
  <2>2. CopiedToHost(g)' <=> CopiedToHost(g)
    BY <1>11, <2>1 DEF CopiedToHost
  <2>3. ~ CopiedToDev(c1 + 1, c2)'
    <3>1. ASSUME c1 + 1 < c2 PROVE (c1 + 1) + 1 # g + 1
      BY <1>1, <3>1 DEF Ordered
    <3> QED  BY <1>10, <3>1 DEF CopiedToDev
  <2>4. ASSUME NEW k \in 1 .. c1 + 1
        PROVE  dev[k] = IF need_rx(k) THEN "output" ELSE "input"
    <3>1. CASE k = c1 + 1
      <4>1. dev[c1 + 1] = IF CopiedToDev(c1, c2) THEN "output" ELSE "input"
        <5>1. c1 + 1 \in c1 + 1 .. Len(ops)
          BY <1>1, <1>3 DEF Ordered
        <5> QED  BY <1>9, <2>1, <5>1 DEF Contents
      <4> QED  BY <1>8, <3>1, <4>1
    <3>2. CASE k # c1 + 1
      <4>1. k \in 1 .. c1
        BY <3>2
      <4> QED  BY <2>1, <4>1 DEF Contents
    <3> QED  BY <3>1, <3>2
  <2>5. ASSUME NEW k \in (c1 + 1) + 1 .. Len(ops)
        PROVE  dev[k] = "input"
    <3>1. k \in c1 + 1 .. Len(ops) /\ k # c1 + 1
      BY <1>1 DEF Ordered
    <3> QED  BY <1>9, <2>1, <3>1 DEF Contents
  <2> QED  BY <1>9, <2>1, <2>2, <2>3, <2>4, <2>5 DEF Contents, need_tx, need_rx
<1>16. Ring'
  BY <1>6, RingSame DEF Layout, python
<1>17. Layout(c0, c1 + 1, c2, f, g, d, e)'
  BY <1>12, <1>13, <1>14, <1>15, <1>16 DEF Layout
<1> QED  BY <1>3, <1>17 DEF PipeInv

-----------------------------------------------------------------------------
(* The steps of the device. *)

LEMMA CopyD2HPipeInv ==
    ASSUME NEW c0 \in Nat, NEW c1 \in Nat, NEW c2 \in Nat, NEW f \in Nat, NEW g \in Nat,
           NEW d \in [Workers -> Nat], NEW e \in [Workers -> Nat],
           Layout(c0, c1, c2, f, g, d, e), CopyD2H
    PROVE  PipeInv'
<1>1. Ordered(c0, c1, c2, f, g)
  BY Bounds
<1>2. /\ d2h = <<[op |-> g + 1, waits |-> ops[g + 1].is_first]>>
      /\ g + 1 \in copying /\ g < Len(ops)
  BY DEF CopyD2H, Layout, Copies
<1>3. Head(d2h).op = g + 1 /\ Head(d2h).waits = ops[g + 1].is_first /\ Tail(d2h) = <<>>
  BY <1>2
<1>4. /\ ops[g + 1].is_first => ~ kernel
      /\ host' = [host EXCEPT ![g + 1] = [i \in Workers |-> dev[g + 1]]]
      /\ d2h' = <<>>
  BY <1>3 DEF CopyD2H
<1>5. UNCHANGED <<python, copying, py, shm, wk, sent, h2d, dev, kernel>>
  BY DEF CopyD2H
\* The copy of the first operation has waited for the kernel.
<1>6. ~ kernel
  BY <1>2, <1>4, CopyFacts, KernelRuns
<1>7. dev[g + 1] = "input"
  <2>1. g + 1 \in c1 + 1 .. Len(ops) /\ (c1 < c2 => g + 1 # c1 + 1)
    BY <1>1, <1>2 DEF Ordered
  <2> QED  BY <1>6, <2>1 DEF Layout, Contents, CopiedToDev
<1>8. /\ host' \in Seq([Workers -> Data]) /\ Len(host') = Len(ops)
      /\ \A k \in 1 .. Len(ops) : host'[k] = IF k = g + 1 THEN [i \in Workers |-> "input"] ELSE host[k]
  <2> DEFINE h == [i \in Workers |-> "input"]
  <2>1. host \in Seq([Workers -> Data]) /\ Len(host) = Len(ops)
    BY DEF Layout, Contents
  <2>2. g + 1 \in 1 .. Len(host) /\ h \in [Workers -> Data] /\ host' = [host EXCEPT ![g + 1] = h]
    BY <1>1, <1>2, <1>4, <1>7, <2>1 DEF Ordered, Data
  <2> HIDE DEF h
  <2>3. /\ host' \in Seq([Workers -> Data]) /\ Len(host') = Len(host)
        /\ \A k \in 1 .. Len(host) : host'[k] = IF k = g + 1 THEN h ELSE host[k]
    BY <2>1, <2>2, ExceptSeq
  <2> QED  BY <2>1, <2>3 DEF h
<1>9. Contents(c1, c2, g, d)'
  <2>1. Contents(c1, c2, g, d) /\ UNCHANGED <<dev, kernel, ops, copying, h2d>>
    BY <1>5 DEF Layout, python
  <2>2. CopiedToDev(c1, c2)' <=> CopiedToDev(c1, c2)
    BY <2>1 DEF CopiedToDev
  <2>3. ASSUME NEW i \in Workers
        PROVE  /\ \A k \in 1 .. d[i] : need_rx(k) => host'[k][i] = "output"
               /\ \A k \in d[i] + 1 .. g : need_tx(k) => host'[k][i] = "input"
               /\ host'[g + 1][i] = "input"
    <3>1. d[i] \in Nat /\ e[i] \in Nat /\ c2 <= d[i] /\ d[i] <= e[i] /\ e[i] <= f
      BY WorkerBounds, Zenon
    <3>2. \A k \in 1 .. g : k \in 1 .. Len(ops) /\ k # g + 1
      BY <1>1 DEF Ordered
    <3>3. d[i] <= g
      BY <1>1, <3>1 DEF Ordered
    <3>4. 1 .. d[i] \subseteq 1 .. g /\ d[i] + 1 .. g \subseteq 1 .. g
      BY <3>1, <3>3
    <3>5. g + 1 \in 1 .. Len(ops)
      BY <1>1, <1>2 DEF Ordered
    <3>6. \A k \in 1 .. g : host'[k] = host[k]
      BY <1>8, <3>2
    <3>7. host'[g + 1][i] = "input"
      BY <1>8, <3>5
    <3>8. /\ \A k \in 1 .. d[i] : need_rx(k) => host[k][i] = "output"
          /\ \A k \in d[i] + 1 .. g : need_tx(k) => host[k][i] = "input"
      BY <2>1 DEF Contents
    <3> QED  BY <3>4, <3>6, <3>7, <3>8
  <2> QED  BY <1>6, <1>8, <2>1, <2>2, <2>3 DEF Contents, need_tx, need_rx
<1>10. Copies(c1, c2, g)'
  <2>1. UNCHANGED <<copying, h2d, ops>>
    BY <1>5 DEF python
  <2> QED  BY <1>4, <2>1 DEF Layout, Copies, need_tx, need_rx
<1>11. Ring' /\ Calling(c0, c1, g)'
  BY <1>5, RingSame, CallingSame DEF Layout, python
<1>12. Queues(c0, c1, c2, f, g, d, e)'
  BY <1>5 DEF Layout, Queues, python
<1>13. Layout(c0, c1, c2, f, g, d, e)'
  BY <1>9, <1>10, <1>11, <1>12 DEF Layout
<1> QED  BY <1>13 DEF PipeInv

LEMMA CopyH2DPipeInv ==
    ASSUME NEW c0 \in Nat, NEW c1 \in Nat, NEW c2 \in Nat, NEW f \in Nat, NEW g \in Nat,
           NEW d \in [Workers -> Nat], NEW e \in [Workers -> Nat],
           Layout(c0, c1, c2, f, g, d, e), CopyH2D
    PROVE  PipeInv'
<1>1. Ordered(c0, c1, c2, f, g)
  BY Bounds
<1>2. /\ h2d = <<[op |-> c1 + 1, waits |-> ops[c1 + 1].is_first /\ ~ need_tx(c1 + 1)]>>
      /\ c1 + 1 \in copying /\ c1 < c2
  BY DEF CopyH2D, Layout, Copies
<1>3. /\ Head(h2d).op = c1 + 1 /\ Tail(h2d) = <<>>
      /\ Head(h2d).waits = (ops[c1 + 1].is_first /\ ~ need_tx(c1 + 1))
  BY <1>2
<1>4. UNCHANGED <<python, copying, py, shm, wk, sent, d2h, kernel, host>> /\ h2d' = <<>>
  BY <1>3 DEF CopyH2D
\* The copy of the first operation has waited for the kernel.
<1>5. ~ kernel
  <2>1. kernel => ops[c1 + 1].is_first /\ ~ need_tx(c1 + 1)
    BY <1>2, KernelRuns
  <2>2. ops[c1 + 1].is_first /\ ~ need_tx(c1 + 1) => ~ kernel
    BY <1>3 DEF CopyH2D
  <2> QED  BY <2>1, <2>2
\* Every worker has completed its part.
<1>6. ASSUME NEW i \in Workers
      PROVE  host[c1 + 1][i] = "output"
  <2>1. d[i] \in Nat /\ e[i] \in Nat /\ c2 <= d[i] /\ d[i] <= e[i] /\ e[i] <= f
    BY WorkerBounds, Zenon
  <2>2. c1 + 1 \in 1 .. d[i]
    BY <1>1, <1>2, <2>1 DEF Ordered
  <2>3. need_rx(c1 + 1)
    BY <1>2, CopyFacts
  <2> QED  BY <2>2, <2>3 DEF Layout, Contents
<1>7. dev' = [dev EXCEPT ![c1 + 1] = "output"]
  BY <1>3, <1>6 DEF CopyH2D
<1>8. /\ dev' \in Seq(Data) /\ Len(dev') = Len(ops)
      /\ \A k \in 1 .. Len(ops) : dev'[k] = IF k = c1 + 1 THEN "output" ELSE dev[k]
  <2>1. dev \in Seq(Data) /\ Len(dev) = Len(ops)
    BY DEF Layout, Contents
  <2>2. c1 + 1 \in 1 .. Len(dev) /\ "output" \in Data
    BY <1>1, <1>2, <2>1 DEF Ordered, Data
  <2>3. /\ dev' \in Seq(Data) /\ Len(dev') = Len(dev)
        /\ \A k \in 1 .. Len(dev) : dev'[k] = IF k = c1 + 1 THEN "output" ELSE dev[k]
    BY <1>7, <2>1, <2>2, ExceptSeq
  <2> QED  BY <2>1, <2>3
<1>9. Contents(c1, c2, g, d)'
  <2>1. Contents(c1, c2, g, d) /\ UNCHANGED <<host, kernel, ops, copying, d2h>>
    BY <1>4 DEF Layout, python
  <2>2. CopiedToHost(g)' <=> CopiedToHost(g)
    BY <2>1 DEF CopiedToHost
  <2>3. CopiedToDev(c1, c2)'
    BY <1>2, <1>4 DEF CopiedToDev
  <2>4. ASSUME NEW k \in 1 .. c1
        PROVE  dev'[k] = IF need_rx(k) THEN "output" ELSE "input"
    <3>1. k \in 1 .. Len(ops) /\ k # c1 + 1
      BY <1>1 DEF Ordered
    <3>2. dev[k] = IF need_rx(k) THEN "output" ELSE "input"
      BY <2>1 DEF Contents
    <3> QED  BY <1>8, <3>1, <3>2
  <2>5. ASSUME NEW k \in c1 + 1 .. Len(ops)
        PROVE  dev'[k] = IF k = c1 + 1 THEN "output" ELSE "input"
    <3>1. k \in 1 .. Len(ops)
      BY <1>1 DEF Ordered
    <3>2. k # c1 + 1 => dev[k] = "input"
      BY <1>5, <2>1 DEF Contents
    <3> QED  BY <1>8, <3>1, <3>2
  <2> QED  BY <1>5, <1>8, <2>1, <2>2, <2>3, <2>4, <2>5 DEF Contents, need_tx, need_rx
<1>10. Copies(c1, c2, g)'
  <2>1. UNCHANGED <<copying, d2h, ops>>
    BY <1>4 DEF python
  <2> QED  BY <1>4, <2>1 DEF Layout, Copies, need_tx, need_rx
<1>11. Ring' /\ Calling(c0, c1, g)'
  BY <1>4, RingSame, CallingSame DEF Layout, python
<1>12. Queues(c0, c1, c2, f, g, d, e)'
  BY <1>4 DEF Layout, Queues, python
<1>13. Layout(c0, c1, c2, f, g, d, e)'
  BY <1>9, <1>10, <1>11, <1>12 DEF Layout
<1> QED  BY <1>13 DEF PipeInv

LEMMA KernelEndsPipeInv ==
    ASSUME NEW c0 \in Nat, NEW c1 \in Nat, NEW c2 \in Nat, NEW f \in Nat, NEW g \in Nat,
           NEW d \in [Workers -> Nat], NEW e \in [Workers -> Nat],
           Layout(c0, c1, c2, f, g, d, e), KernelEnds
    PROVE  PipeInv'
<1>1. Ordered(c0, c1, c2, f, g)
  BY Bounds
<1>2. /\ kernel /\ kernel' = FALSE
      /\ dev' = [op \in DOMAIN dev |-> IF ops[op].call = calls THEN "input" ELSE dev[op]]
      /\ UNCHANGED <<python, copying, py, shm, wk, sent, d2h, h2d, host>>
  BY DEF KernelEnds
<1>3. dev \in Seq(Data) /\ Len(dev) = Len(ops) /\ DOMAIN dev = 1 .. Len(ops)
  <2>1. dev \in Seq(Data) /\ Len(dev) = Len(ops)
    BY DEF Layout, Contents
  <2> QED  BY <2>1, LenProperties
<1>4. ~ CopiedToHost(g) /\ ~ CopiedToDev(c1, c2)
  BY <1>2 DEF Layout, Contents
<1>5. \A k \in 1 .. Len(ops) : dev'[k] = IF ops[k].call = calls THEN "input" ELSE dev[k]
  BY <1>2, <1>3
<1>6. dev' \in Seq(Data) /\ Len(dev') = Len(ops)
  <2>1. dev \in [1 .. Len(ops) -> Data] /\ Len(ops) \in Nat
    BY <1>1, <1>3, LenProperties DEF Ordered
  <2>2. dev' \in [1 .. Len(ops) -> Data]
    BY <1>2, <1>3, <2>1 DEF Data
  <2>3. dev' \in Seq(Data)
    BY <2>1, <2>2
  <2>4. DOMAIN dev' = 1 .. Len(ops)
    BY <2>2
  <2> QED  BY <2>1, <2>3, <2>4, LenProperties
<1>7. Contents(c1, c2, g, d)'
  <2>1. Contents(c1, c2, g, d) /\ UNCHANGED <<host, ops, copying, d2h, h2d>>
    BY <1>2 DEF Layout, python
  <2>2. ~ CopiedToHost(g)' /\ ~ CopiedToDev(c1, c2)'
    BY <1>4, <2>1 DEF CopiedToHost, CopiedToDev
  <2>3. ASSUME NEW k \in 1 .. c1
        PROVE  dev'[k] = IF need_rx(k) THEN "output" ELSE "input"
    <3>1. k \in 1 .. Len(ops)
      BY <1>1 DEF Ordered
    <3>2. ops[k].call # calls
      <4>1. ops[k].call = calls => k > IF call.kind.tx THEN g ELSE c1
        BY <1>2, <3>1 DEF Layout, Calling
      <4> QED  BY <1>1, <4>1 DEF Ordered
    <3>3. dev[k] = IF need_rx(k) THEN "output" ELSE "input"
      BY <2>1 DEF Contents
    <3> QED  BY <1>5, <3>1, <3>2, <3>3
  <2>4. ASSUME NEW k \in c1 + 1 .. Len(ops)
        PROVE  dev'[k] = "input"
    <3>1. k \in 1 .. Len(ops) /\ k > c0
      BY <1>1 DEF Ordered
    <3>2. ops[k].call = calls
      BY <3>1, OfCall
    <3> QED  BY <1>5, <3>1, <3>2
  <2>5. \A i \in Workers :
           /\ \A k \in 1 .. d[i] : need_rx(k) => host[k][i] = "output"
           /\ \A k \in d[i] + 1 .. g : need_tx(k) => host[k][i] = "input"
    BY <2>1 DEF Contents
  <2>6. \A k : need_rx(k)' = need_rx(k) /\ need_tx(k)' = need_tx(k)
    BY <2>1 DEF need_tx, need_rx
  <2>7. host \in Seq([Workers -> Data]) /\ Len(host) = Len(ops)
    BY <2>1 DEF Contents
  <2>8. host' = host /\ ops' = ops /\ ~ kernel'
    BY <1>2, <2>1
  <2>9. \A k \in 1 .. c1 : dev'[k] = IF need_rx(k)' THEN "output" ELSE "input"
    BY <2>3, <2>6
  <2>10. \A k \in c1 + 1 .. Len(ops) :
            dev'[k] = IF k = c1 + 1 /\ CopiedToDev(c1, c2)' THEN "output"
                      ELSE IF kernel' THEN "raw" ELSE "input"
    BY <2>2, <2>4, <2>8
  <2>11. \A i \in Workers :
           /\ \A k \in 1 .. d[i] : need_rx(k)' => host'[k][i] = "output"
           /\ \A k \in d[i] + 1 .. g : need_tx(k)' => host'[k][i] = "input"
           /\ CopiedToHost(g)' => host'[g + 1][i] = "input"
    BY <2>2, <2>5, <2>6, <2>8
  <2>12. Len(dev') = Len(ops') /\ Len(host') = Len(ops') /\ host' \in Seq([Workers -> Data])
    BY <1>6, <2>7, <2>8
  <2> QED  BY <1>6, <2>2, <2>8, <2>9, <2>10, <2>11, <2>12, Zenon DEF Contents
<1>8. Calling(c0, c1, g)'
  <2>1. UNCHANGED <<call, calls, ops, cnt>>
    BY <1>2 DEF python
  <2> QED  BY <1>2, <2>1 DEF Layout, Calling
<1>9. Ring' /\ Copies(c1, c2, g)'
  BY <1>2, RingSame, CopiesSame DEF Layout, python
<1>10. Queues(c0, c1, c2, f, g, d, e)'
  BY <1>2 DEF Layout, Queues, python
<1>11. Layout(c0, c1, c2, f, g, d, e)'
  BY <1>7, <1>8, <1>9, <1>10 DEF Layout
<1> QED  BY <1>11 DEF PipeInv

-----------------------------------------------------------------------------
(* The steps of the Python thread. *)

\* The call, as a record.
LEMMA CallType ==
    ASSUME NEW c0, NEW c1, NEW g, Calling(c0, c1, g)
    PROVE  /\ call \in [kind : Kinds, left : Nat \cup {-1}]
           /\ call.kind \in Kinds /\ call.left \in Nat \cup {-1}
           /\ calls \in Nat /\ kernel \in BOOLEAN
BY DEF Calling

\* With an empty op buffer all boundaries coincide.
LEMMA AllDone ==
    ASSUME NEW c0 \in Nat, NEW c1 \in Nat, NEW c2 \in Nat, NEW f \in Nat, NEW g \in Nat,
           NEW d, NEW e, Layout(c0, c1, c2, f, g, d, e), cnt = 0
    PROVE  /\ c0 = Len(ops) /\ c1 = Len(ops) /\ c2 = Len(ops) /\ g = Len(ops) /\ Len(ops) \in Nat
           /\ d2h = <<>> /\ h2d = <<>>
           /\ ~ CopiedToHost(g) /\ ~ CopiedToDev(c1, c2)
<1>1. Ordered(c0, c1, c2, f, g)
  BY Bounds
<1>2. c0 = Len(ops) /\ c1 = Len(ops) /\ c2 = Len(ops) /\ g = Len(ops) /\ Len(ops) \in Nat
  BY <1>1 DEF Ordered
<1>3. ~ g < Len(ops) /\ ~ c1 < c2
  BY <1>2
<1> QED  BY <1>2, <1>3 DEF CopiedToHost, CopiedToDev, Layout, Copies

LEMMA CallPipeInv ==
    ASSUME NEW c0 \in Nat, NEW c1 \in Nat, NEW c2 \in Nat, NEW f \in Nat, NEW g \in Nat,
           NEW d \in [Workers -> Nat], NEW e \in [Workers -> Nat],
           Layout(c0, c1, c2, f, g, d, e),
           NEW kind \in Kinds, NEW n \in Segs, NEW busy \in BOOLEAN, Call(kind, n, busy)
    PROVE  PipeInv'
<1>1. Calling(c0, c1, g) /\ call.left = -1
  BY DEF Layout, Call
<1>2. cnt = 0 /\ ~ kernel
  BY <1>1 DEF Calling
<1>3. /\ c0 = Len(ops) /\ c1 = Len(ops) /\ c2 = Len(ops) /\ g = Len(ops) /\ Len(ops) \in Nat
      /\ ~ CopiedToHost(g) /\ ~ CopiedToDev(c1, c2)
  BY <1>2, AllDone
<1>4. /\ call' = [kind |-> kind, left |-> n] /\ calls' = calls + 1 /\ kernel' = busy
      /\ UNCHANGED <<ops, head, cnt, buffer, copying, py, shm, wk, sent, d2h, h2d, dev, host>>
  BY DEF Call
<1>5. n \in Nat /\ n > 0
  BY PipelineAssumption
<1>6. Calling(c0, c1, g)'
  <2>1. call' \in [kind : Kinds, left : Nat \cup {-1}] /\ call'.left = n /\ call'.kind = kind
    BY <1>4, <1>5
  <2>2. calls \in Nat /\ calls' \in Nat /\ kernel' \in BOOLEAN
    BY <1>1, <1>4, CallType
  <2>3. ops \in Seq(Op) /\ ops' = ops
    BY <1>1, <1>4 DEF Calling
  <2>4. ASSUME NEW k \in 1 .. Len(ops)
        PROVE  ops[k].call <= calls' /\ ops[k].call # calls' /\ ~ k > c0
    <3>1. ops[k].call <= calls /\ ops[k].call \in Nat
      BY <1>1, <2>3, OpFields DEF Calling
    <3> QED  BY <1>3, <1>4, <2>2, <3>1
  <2>5. \A k \in 1 .. Len(ops) : k = 1 \/ ops[k - 1].call # ops[k].call => ops[k].is_first
    BY <1>1 DEF Calling
  <2>6. Len(ops) > 0 => ops[Len(ops)].is_last
    <3>1. call.left <= 0
      BY <1>1
    <3> QED  BY <1>1, <3>1 DEF Calling
  <2>7. call'.left # -1 /\ call'.left # 0
    BY <1>5, <2>1
  <2> QED  BY <2>1, <2>2, <2>3, <2>4, <2>5, <2>6, <2>7 DEF Calling
<1>7. Contents(c1, c2, g, d)'
  <2>1. ~ CopiedToHost(g)' /\ ~ CopiedToDev(c1, c2)'
    BY <1>3, <1>4 DEF CopiedToHost, CopiedToDev
  <2>2. c1 + 1 .. Len(ops) = {}
    BY <1>3
  <2>3. Contents(c1, c2, g, d) /\ UNCHANGED <<dev, host, ops>>
    BY <1>4 DEF Layout
  <2> QED  BY <2>1, <2>2, <2>3 DEF Contents, need_tx, need_rx
<1>8. Ring' /\ Copies(c1, c2, g)'
  BY <1>4, RingSame, CopiesSame DEF Layout
<1>9. Queues(c0, c1, c2, f, g, d, e)'
  BY <1>4 DEF Layout, Queues
<1>10. Layout(c0, c1, c2, f, g, d, e)'
  BY <1>6, <1>7, <1>8, <1>9 DEF Layout
<1> QED  BY <1>10 DEF PipeInv

LEMMA RecvRespPipeInv ==
    ASSUME NEW c0 \in Nat, NEW c1 \in Nat, NEW c2 \in Nat, NEW f \in Nat, NEW g \in Nat,
           NEW d \in [Workers -> Nat], NEW e \in [Workers -> Nat],
           Layout(c0, c1, c2, f, g, d, e), RecvResp
    PROVE  PipeInv'
<1>1. Ordered(c0, c1, c2, f, g)
  BY Bounds
<1>2. py = [wq |-> Run(g, Len(ops)), cq |-> Run(c0, c1), num |-> cnt]
  BY DEF Layout, Queues
<1>3. /\ call.left >= 0 /\ cnt' = cnt - 1 /\ py' = pop_resp(py)
      /\ UNCHANGED <<call, calls, ops, head, buffer, copying, shm, wk, sent, cuda, host>>
  BY DEF RecvResp, fifo_free
<1>4. c0 < c1 /\ c0 + 1 \in Nat /\ c0 + 1 <= c1
  <2>1. Run(c0, c1) # <<>>
    BY <1>2 DEF RecvResp
  <2> QED  BY <1>1, <2>1, RunEmpty DEF Ordered
<1>5. py' = [wq |-> Run(g, Len(ops)), cq |-> Run(c0 + 1, c1), num |-> cnt - 1]
  <2>1. Tail(Run(c0, c1)) = Run(c0 + 1, c1)
    BY <1>4, RunTail
  <2>2. pop_resp([wq |-> Run(g, Len(ops)), cq |-> Run(c0, c1), num |-> cnt])
          = [wq |-> Run(g, Len(ops)), cq |-> Tail(Run(c0, c1)), num |-> cnt - 1]
    BY PopResp
  <2> QED  BY <1>2, <1>3, <2>1, <2>2
<1>6. Queues(c0 + 1, c1, c2, f, g, d, e)'
  <2>1. cnt' \in 0 .. QueueSize /\ c0 + 1 = Len(ops) - cnt'
    BY <1>1, <1>3, <1>4 DEF Ordered
  <2> QED  BY <1>3, <1>4, <1>5, <2>1 DEF Layout, Queues
<1>7. Calling(c0 + 1, c1, g)'
  <2>1. Calling(c0, c1, g) /\ UNCHANGED <<call, calls, kernel, ops>>
    BY <1>3 DEF Layout, cuda
  <2>2. call.left # -1
    BY <1>3
  <2>3. \A k \in 1 .. Len(ops) : k > c0 + 1 => k > c0
    BY <1>1 DEF Ordered
  <2> QED  BY <2>1, <2>2, <2>3 DEF Calling
<1>8. Ring' /\ Copies(c1, c2, g)' /\ Contents(c1, c2, g, d)'
  BY <1>3, RingSame, CopiesSame, ContentsSame DEF Layout, cuda
<1>9. Layout(c0 + 1, c1, c2, f, g, d, e)'
  BY <1>6, <1>7, <1>8 DEF Layout
<1> QED  BY <1>4, <1>9 DEF PipeInv

LEMMA ReturnPipeInv ==
    ASSUME NEW c0 \in Nat, NEW c1 \in Nat, NEW c2 \in Nat, NEW f \in Nat, NEW g \in Nat,
           NEW d \in [Workers -> Nat], NEW e \in [Workers -> Nat],
           Layout(c0, c1, c2, f, g, d, e), Return
    PROVE  PipeInv'
<1>1. /\ call.left = 0 /\ cnt = 0 /\ call' = NoCall
      /\ UNCHANGED <<calls, ops, head, cnt, buffer, copying, py, shm, wk, sent, cuda, host>>
  BY DEF Return
<1>2. /\ c0 = Len(ops) /\ c1 = Len(ops) /\ g = Len(ops) /\ Len(ops) \in Nat
  BY <1>1, AllDone
<1>3. Calling(c0, c1, g)
  BY DEF Layout
\* The last operation of the call has passed the copy that waits for the kernel.
<1>4. ~ kernel
  <2> SUFFICES ASSUME kernel PROVE FALSE
    OBVIOUS
  <2>1. Len(ops) > 0 /\ ops[Len(ops)].call = calls
    BY <1>1, <1>3 DEF Calling
  <2>2. Len(ops) \in 1 .. Len(ops)
    BY <1>2, <2>1
  <2>3. Len(ops) > IF call.kind.tx THEN g ELSE c1
    BY <1>3, <2>1, <2>2 DEF Calling
  <2> QED  BY <1>2, <2>3
<1>5. Calling(c0, c1, g)'
  <2>1. call' \in [kind : Kinds, left : Nat \cup {-1}] /\ call'.left = -1
    BY <1>1 DEF NoCall, Kinds
  <2>2. UNCHANGED <<calls, kernel, ops, cnt>>
    BY <1>1 DEF cuda
  <2>3. \A k \in 1 .. Len(ops) : ~ k > c0
    BY <1>2
  <2>4. Len(ops) > 0 => ops[Len(ops)].is_last
    <3>1. call.left <= 0
      BY <1>1
    <3> QED  BY <1>3, <3>1 DEF Calling
  <2>5. /\ calls \in Nat /\ kernel \in BOOLEAN /\ ops \in Seq(Op)
        /\ \A k \in 1 .. Len(ops) : ops[k].call <= calls
        /\ \A k \in 1 .. Len(ops) : k = 1 \/ ops[k - 1].call # ops[k].call => ops[k].is_first
    BY <1>3 DEF Calling
  <2> QED  BY <1>1, <1>4, <2>1, <2>2, <2>3, <2>4, <2>5 DEF Calling
<1>6. Ring' /\ Copies(c1, c2, g)' /\ Contents(c1, c2, g, d)'
  BY <1>1, RingSame, CopiesSame, ContentsSame DEF Layout, cuda
<1>7. Queues(c0, c1, c2, f, g, d, e)'
  BY <1>1 DEF Layout, Queues
<1>8. Layout(c0, c1, c2, f, g, d, e)'
  BY <1>5, <1>6, <1>7 DEF Layout
<1> QED  BY <1>8 DEF PipeInv

\* The op buffer takes up one more operation.
LEMMA PostRing ==
    ASSUME NEW c0 \in Nat, NEW c1 \in Nat, NEW c2 \in Nat, NEW f \in Nat, NEW g \in Nat,
           NEW d, NEW e, Layout(c0, c1, c2, f, g, d, e), PostSub
    PROVE  Ring' /\ head = Place(Len(ops) + 1)
<1> DEFINE n == Len(ops)
<1>1. n \in Nat /\ QueueSize \in Nat /\ QueueSize > 0 /\ ops \in Seq(Op)
  BY Bounds DEF Ordered
<1>2. /\ head = n % QueueSize /\ buffer \in [0 .. QueueSize - 1 -> Nat]
      /\ \A k \in 1 .. n : k > n - QueueSize => buffer[Place(k)] = k
  BY DEF Layout, Ring
<1>3. head' = (head + 1) % QueueSize /\ buffer' = [buffer EXCEPT ![head] = n + 1]
  BY DEF PostSub, NextPlace
<1>4. Len(ops') = n + 1
  BY <1>1, AppendProperties DEF PostSub
<1>5. head' = (n + 1) % QueueSize
  BY <1>1, <1>2, <1>3, NextRemainder
<1>6. head = Place(n + 1) /\ head \in 0 .. QueueSize - 1
  <2>1. (n + 1) - 1 = n /\ n + 1 \in Nat /\ n + 1 > 0
    BY <1>1
  <2>2. head = Place(n + 1)
    BY <1>2, <2>1 DEF Place
  <2> QED  BY <2>1, <2>2, PlaceType
<1> HIDE DEF n
<1>7. buffer' \in [0 .. QueueSize - 1 -> Nat]
  BY <1>1, <1>2, <1>3
<1>8. ASSUME NEW k \in 1 .. n + 1, k > (n + 1) - QueueSize
      PROVE  buffer'[Place(k)] = k
  <2>1. CASE k = n + 1
    BY <1>2, <1>3, <1>6, <2>1
  <2>2. CASE k # n + 1
    <3>1. k \in 1 .. n /\ k > n - QueueSize /\ k - 1 \in Nat /\ k - 1 < n /\ k \in Nat /\ k > 0
      BY <1>1, <1>8, <2>2
    <3>2. Place(k) # head
      <4> SUFFICES ASSUME Place(k) = head PROVE FALSE
        OBVIOUS
      <4>1. n % QueueSize = (k - 1) % QueueSize
        BY <1>2 DEF Place
      <4>2. (k - 1) + QueueSize <= n
        BY <1>1, <3>1, <4>1, SameRemainder
      <4> QED  BY <1>1, <1>8, <3>1, <4>2
    <3>3. Place(k) \in 0 .. QueueSize - 1
      BY <3>1, PlaceType
    <3>4. buffer[Place(k)] = k
      BY <1>2, <3>1
    <3> QED  BY <1>2, <1>3, <3>2, <3>3, <3>4
  <2> QED  BY <2>1, <2>2
<1>9. Ring'
  BY <1>4, <1>5, <1>7, <1>8 DEF Ring
<1> QED  BY <1>6, <1>9 DEF n

LEMMA PostSubPipeInv ==
    ASSUME NEW c0 \in Nat, NEW c1 \in Nat, NEW c2 \in Nat, NEW f \in Nat, NEW g \in Nat,
           NEW d \in [Workers -> Nat], NEW e \in [Workers -> Nat],
           Layout(c0, c1, c2, f, g, d, e), PostSub
    PROVE  PipeInv'
<1>1. Ordered(c0, c1, c2, f, g)
  BY Bounds
<1> DEFINE n == Len(ops)
           first == ops = <<>> \/ ops[Len(ops)].is_last
           o == [call |-> calls, kind |-> call.kind, is_first |-> first, is_last |-> call.left = 1]
<1>2. /\ call.left > 0 /\ cnt < QueueSize
      /\ ops' = Append(ops, o)
      /\ dev' = Append(dev, IF kernel THEN "raw" ELSE "input")
      /\ host' = Append(host, [i \in Workers |-> "raw"])
      /\ cnt' = cnt + 1
      /\ py' = push_req(py, [op |-> n + 1, place |-> head])
      /\ call' = [call EXCEPT !.left = @ - 1]
      /\ UNCHANGED <<calls, copying, shm, wk, sent, d2h, h2d, kernel>>
  BY DEF PostSub, available
<1>3. Calling(c0, c1, g)
  BY DEF Layout
<1>4. /\ call \in [kind : Kinds, left : Nat \cup {-1}]
      /\ call.kind \in Kinds /\ call.left \in Nat /\ calls \in Nat /\ kernel \in BOOLEAN
  <2>1. /\ call \in [kind : Kinds, left : Nat \cup {-1}]
        /\ call.kind \in Kinds /\ call.left \in Nat \cup {-1} /\ calls \in Nat /\ kernel \in BOOLEAN
    BY <1>3, CallType
  <2> QED  BY <1>2, <2>1
<1>5. n \in Nat /\ ops \in Seq(Op) /\ c0 = n - cnt /\ cnt \in Nat /\ QueueSize \in Nat
      /\ c0 <= c1 /\ c1 <= c2 /\ c2 <= f /\ f <= g /\ g <= n
  BY <1>1 DEF Ordered
<1>6. o \in Op
  <2>1. first \in BOOLEAN
    <3>1. CASE ops = <<>>
      BY <3>1
    <3>2. CASE ops # <<>>
      <4>1. Len(ops) \in 1 .. Len(ops)
        BY <1>5, <3>2, EmptySeq
      <4> QED  BY <1>5, <4>1, OpFields
    <3> QED  BY <3>1, <3>2
  <2> HIDE DEF first
  <2> QED  BY <1>4, <2>1 DEF Op
<1>7. /\ ops' \in Seq(Op) /\ Len(ops') = n + 1 /\ ops'[n + 1] = o
      /\ \A k \in 1 .. n : ops'[k] = ops[k]
  <2> HIDE DEF o
  <2> QED  BY <1>2, <1>5, <1>6, AppendProperties
<1>8. o.call = calls /\ o.kind = call.kind /\ o.is_first = first /\ o.is_last = (call.left = 1)
  OBVIOUS
<1>9. \A k \in 1 .. n : need_tx(k)' = need_tx(k) /\ need_rx(k)' = need_rx(k)
  <2> HIDE DEF o, n
  <2> QED  BY <1>7 DEF need_tx, need_rx
<1>10. Queues(c0, c1, c2, f, g, d, e)'
  <2>1. head = Place(n + 1)
    BY PostRing
  <2>2. [op |-> n + 1, place |-> head] = Entry(n + 1)
    BY <2>1 DEF Entry
  <2>3. py = [wq |-> Run(g, n), cq |-> Run(c0, c1), num |-> cnt]
    BY DEF Layout, Queues
  <2>4. Append(Run(g, n), Entry(n + 1)) = Run(g, n + 1)
    BY <1>5, RunAppend
  <2>5. push_req([wq |-> Run(g, n), cq |-> Run(c0, c1), num |-> cnt], Entry(n + 1))
          = [wq |-> Append(Run(g, n), Entry(n + 1)), cq |-> Run(c0, c1), num |-> cnt + 1]
    BY <1>2, PushReq
  <2>6. py' = [wq |-> Run(g, n + 1), cq |-> Run(c0, c1), num |-> cnt']
    BY <1>2, <2>2, <2>3, <2>4, <2>5
  <2> HIDE DEF n, o
  <2>7. g <= n + 1 /\ cnt' \in 0 .. QueueSize /\ c0 = (n + 1) - cnt'
    BY <1>2, <1>5, SMTT(30)
  <2>8. UNCHANGED <<shm, wk, sent>>
    BY <1>2
  <2> QED  BY <1>7, <2>6, <2>7, <2>8 DEF Layout, Queues
<1>11. g < n => g + 1 \in 1 .. n
  BY <1>5
<1>12. c1 < c2 => c1 + 1 \in 1 .. n
  BY <1>5
<1>13. (g + 1 \in copying => g < n) /\ (g < n => g < n + 1)
  <2>1. g + 1 \in copying => g < Len(ops)
    BY CopyFacts
  <2> QED  BY <1>5, <2>1
<1>14. Copies(c1, c2, g)'
  <2>1. UNCHANGED <<copying, d2h, h2d>>
    BY <1>2
  <2> HIDE DEF n, o
  <2>2. copying \subseteq Nat
    BY DEF Layout, Copies
  <2>3. ASSUME NEW k \in copying
        PROVE  \/ k = g + 1 /\ g < n + 1 /\ need_tx(k)'
               \/ k = c1 + 1 /\ c1 < c2 /\ need_rx(k)'
    <3>1. \/ k = g + 1 /\ g < n /\ need_tx(k)
          \/ k = c1 + 1 /\ c1 < c2 /\ need_rx(k)
      BY DEF Layout, Copies, n
    <3> QED  BY <1>9, <1>11, <1>12, <1>13, <3>1
  <2>4. \/ d2h = <<>>
        \/ /\ d2h = <<[op |-> g + 1, waits |-> ops'[g + 1].is_first]>>
           /\ g + 1 \in copying /\ g < n + 1
    <3>1. \/ d2h = <<>>
          \/ /\ d2h = <<[op |-> g + 1, waits |-> ops[g + 1].is_first]>>
             /\ g + 1 \in copying
      BY DEF Layout, Copies
    <3>2. g + 1 \in copying => ops'[g + 1] = ops[g + 1]
      BY <1>7, <1>11, <1>13
    <3> QED  BY <1>13, <3>1, <3>2
  <2>5. \/ h2d = <<>>
        \/ /\ h2d = <<[op |-> c1 + 1, waits |-> ops'[c1 + 1].is_first /\ ~ need_tx(c1 + 1)']>>
           /\ c1 + 1 \in copying /\ c1 < c2
    <3>1. \/ h2d = <<>>
          \/ /\ h2d = <<[op |-> c1 + 1, waits |-> ops[c1 + 1].is_first /\ ~ need_tx(c1 + 1)]>>
             /\ c1 + 1 \in copying /\ c1 < c2
      BY DEF Layout, Copies
    <3>2. c1 < c2 => ops'[c1 + 1] = ops[c1 + 1] /\ need_tx(c1 + 1)' = need_tx(c1 + 1)
      BY <1>7, <1>9, <1>12
    <3> QED  BY <3>1, <3>2
  <2> QED  BY <1>7, <2>1, <2>2, <2>3, <2>4, <2>5 DEF Copies
<1>15. Calling(c0, c1, g)'
  <2> HIDE DEF n, o
  <2>1. /\ call' \in [kind : Kinds, left : Nat \cup {-1}]
        /\ call'.kind = call.kind /\ call'.left = call.left - 1 /\ call'.left \in Nat
    <3>1. call' = [call EXCEPT !.left = call.left - 1] /\ call.left > 0
      BY <1>2
    <3>2. call.left - 1 \in Nat
      BY <1>4, <3>1
    <3> QED  BY <1>4, <3>1, <3>2
  <2>2. \A k \in 1 .. n + 1 : k \in 1 .. n \/ k = n + 1
    BY <1>5
  <2>3. \A k \in 1 .. n + 1 : ops'[k].call <= calls
    <3> SUFFICES ASSUME NEW k \in 1 .. n + 1 PROVE ops'[k].call <= calls
      OBVIOUS
    <3>1. CASE k \in 1 .. n
      BY <1>3, <1>7, <3>1 DEF Calling, n
    <3>2. CASE k = n + 1
      BY <1>4, <1>7, <1>8, <3>2
    <3> QED  BY <2>2, <3>1, <3>2
  <2>4. \A k \in 1 .. n + 1 : k > c0 => ops'[k].call = calls /\ ops'[k].kind = call.kind
    BY <1>3, <1>7, <1>8, <2>2 DEF Calling, n
  <2>5. ASSUME NEW k \in 1 .. n + 1, k = 1 \/ ops'[k - 1].call # ops'[k].call
        PROVE  ops'[k].is_first
    <3>1. CASE k \in 1 .. n
      <4>1. k = 1 \/ k - 1 \in 1 .. n
        BY <1>5, <3>1
      <4>2. k = 1 \/ ops[k - 1].call # ops[k].call
        BY <1>7, <2>5, <3>1, <4>1
      <4>3. ops[k].is_first
        BY <1>3, <3>1, <4>2 DEF Calling, n
      <4> QED  BY <1>7, <3>1, <4>3
    <3>2. CASE k = n + 1
      <4>1. CASE n = 0
        <5>1. ops = <<>>
          BY <1>5, <4>1, EmptySeq DEF n
        <5> QED  BY <1>7, <1>8, <3>2, <5>1
      <4>2. CASE n # 0
        <5>1. n \in 1 .. n /\ k - 1 = n /\ k # 1 /\ n > 0
          BY <1>5, <3>2, <4>2
        <5>2. ops[n].call # calls
          BY <1>7, <1>8, <2>5, <3>2, <5>1
        <5>3. ops[n].is_last
          BY <1>3, <5>1, <5>2 DEF Calling, n
        <5> QED  BY <1>7, <1>8, <3>2, <5>3 DEF n
      <4> QED  BY <4>1, <4>2
    <3> QED  BY <2>2, <3>1, <3>2
  <2>6. n + 1 > 0 /\ ops'[n + 1].call = calls
    BY <1>5, <1>7, <1>8
  <2>7. call'.left <= 0 => ops'[n + 1].is_last
    <3>1. call'.left <= 0 => call.left = 1
      BY <1>2, <1>4, <2>1
    <3> QED  BY <1>7, <1>8, <3>1
  <2>8. ASSUME kernel, NEW k \in 1 .. n + 1, ops'[k].call = calls
        PROVE  k > IF call.kind.tx THEN g ELSE c1
    <3>1. CASE k \in 1 .. n
      BY <1>3, <1>7, <2>8, <3>1 DEF Calling, n
    <3>2. CASE k = n + 1
      BY <1>5, <3>2
    <3> QED  BY <2>2, <3>1, <3>2
  <2>9. calls' = calls /\ kernel' = kernel /\ call'.left # -1
    BY <1>2, <2>1
  <2> QED  BY <1>4, <1>7, <2>1, <2>3, <2>4, <2>5, <2>6, <2>7, <2>8, <2>9 DEF Calling
<1>16. Contents(c1, c2, g, d)'
  <2> HIDE DEF o
  <2>1. /\ dev \in Seq(Data) /\ Len(dev) = n
        /\ host \in Seq([Workers -> Data]) /\ Len(host) = n
        /\ Contents(c1, c2, g, d)
    BY DEF Layout, Contents
  <2> HIDE DEF n
  <2>2. /\ dev' \in Seq(Data) /\ Len(dev') = n + 1
        /\ dev'[n + 1] = IF kernel THEN "raw" ELSE "input"
        /\ \A k \in 1 .. n : dev'[k] = dev[k]
    <3>1. (IF kernel THEN "raw" ELSE "input") \in Data
      BY DEF Data
    <3> QED  BY <1>2, <2>1, <3>1, AppendProperties
  <2>3. /\ host' \in Seq([Workers -> Data]) /\ Len(host') = n + 1
        /\ \A k \in 1 .. n : host'[k] = host[k]
    <3> DEFINE h == [i \in Workers |-> "raw"]
    <3>1. h \in [Workers -> Data]
      BY DEF Data
    <3>2. host' = Append(host, h)
      BY <1>2
    <3> HIDE DEF h
    <3> QED  BY <2>1, <3>1, <3>2, AppendProperties
  <2>4. UNCHANGED <<copying, d2h, h2d, kernel>>
    BY <1>2
  <2>5. CopiedToHost(g)' <=> CopiedToHost(g)
    BY <1>7, <1>13, <2>4 DEF CopiedToHost, n
  <2>6. CopiedToDev(c1, c2)' <=> CopiedToDev(c1, c2)
    BY <2>4 DEF CopiedToDev
  <2>7. (CopiedToHost(g) \/ CopiedToDev(c1, c2)) => ~ kernel
    BY <2>1 DEF Contents
  <2>8. ASSUME NEW k \in 1 .. c1
        PROVE  dev'[k] = IF need_rx(k)' THEN "output" ELSE "input"
    <3>1. k \in 1 .. n
      BY <1>5
    <3>2. dev[k] = IF need_rx(k) THEN "output" ELSE "input"
      BY <2>1 DEF Contents
    <3> QED  BY <1>9, <2>2, <3>1, <3>2
  <2>9. ASSUME NEW k \in c1 + 1 .. n + 1
        PROVE  dev'[k] = IF k = c1 + 1 /\ CopiedToDev(c1, c2) THEN "output"
                         ELSE IF kernel THEN "raw" ELSE "input"
    <3>1. CASE k \in c1 + 1 .. n
      <4>1. k \in 1 .. n
        BY <1>5, <3>1
      <4> QED  BY <2>1, <2>2, <3>1, <4>1 DEF Contents, n
    <3>2. CASE k = n + 1
      <4>1. ~ (k = c1 + 1 /\ CopiedToDev(c1, c2))
        BY <1>5, <3>2 DEF CopiedToDev
      <4> QED  BY <2>2, <3>2, <4>1
    <3>3. k \in c1 + 1 .. n \/ k = n + 1
      BY <1>5
    <3> QED  BY <3>1, <3>2, <3>3
  <2>10. ASSUME NEW i \in Workers
         PROVE  /\ \A k \in 1 .. d[i] : need_rx(k)' => host'[k][i] = "output"
                /\ \A k \in d[i] + 1 .. g : need_tx(k)' => host'[k][i] = "input"
                /\ CopiedToHost(g) => host'[g + 1][i] = "input"
    <3>1. d[i] \in Nat /\ e[i] \in Nat /\ c2 <= d[i] /\ d[i] <= e[i] /\ e[i] <= f
      BY WorkerBounds, Zenon
    <3>2. 1 .. d[i] \subseteq 1 .. n /\ d[i] + 1 .. g \subseteq 1 .. n
      BY <1>5, <3>1
    <3>3. /\ \A k \in 1 .. d[i] : need_rx(k) => host[k][i] = "output"
          /\ \A k \in d[i] + 1 .. g : need_tx(k) => host[k][i] = "input"
          /\ CopiedToHost(g) => host[g + 1][i] = "input"
      BY <2>1 DEF Contents
    <3>4. CopiedToHost(g) => g + 1 \in 1 .. n
      BY <1>11 DEF CopiedToHost, n
    <3> QED  BY <1>9, <2>3, <3>2, <3>3, <3>4
  <2>11. Len(dev') = Len(ops') /\ Len(host') = Len(ops')
    BY <1>7, <2>2, <2>3
  <2>12. (CopiedToHost(g)' \/ CopiedToDev(c1, c2)') => ~ kernel'
    BY <2>4, <2>5, <2>6, <2>7
  <2>13. \A k \in c1 + 1 .. Len(ops') :
             dev'[k] = IF k = c1 + 1 /\ CopiedToDev(c1, c2)' THEN "output"
                       ELSE IF kernel' THEN "raw" ELSE "input"
    BY <1>7, <2>4, <2>6, <2>9
  <2>14. \A i \in Workers :
             /\ \A k \in 1 .. d[i] : need_rx(k)' => host'[k][i] = "output"
             /\ \A k \in d[i] + 1 .. g : need_tx(k)' => host'[k][i] = "input"
             /\ CopiedToHost(g)' => host'[g + 1][i] = "input"
    BY <2>5, <2>10
  <2> QED  BY <2>2, <2>3, <2>8, <2>11, <2>12, <2>13, <2>14, Zenon DEF Contents
<1>17. Ring'
  BY PostRing
<1>18. Layout(c0, c1, c2, f, g, d, e)'
  BY <1>10, <1>14, <1>15, <1>16, <1>17 DEF Layout
<1> QED  BY <1>18 DEF PipeInv

-----------------------------------------------------------------------------
(* The invariant is inductive. *)

LEMMA NextPipeInv == PipeInv /\ [Next]_vars => PipeInv'
<1> SUFFICES ASSUME PipeInv, [Next]_vars PROVE PipeInv'
  OBVIOUS
<1>1. PICK c0 \in Nat, c1 \in Nat, c2 \in Nat, f \in Nat, g \in Nat,
           d \in [Workers -> Nat], e \in [Workers -> Nat] : Layout(c0, c1, c2, f, g, d, e)
  BY DEF PipeInv
<1>2. CASE \E kind \in Kinds, n \in Segs, busy \in BOOLEAN : Call(kind, n, busy)
  BY <1>1, <1>2, CallPipeInv
<1>3. CASE PostSub
  BY <1>1, <1>3, PostSubPipeInv
<1>4. CASE RecvResp
  BY <1>1, <1>4, RecvRespPipeInv
<1>5. CASE Return
  BY <1>1, <1>5, ReturnPipeInv
<1>6. CASE StartD2H
  BY <1>1, <1>6, StartD2HPipeInv
<1>7. CASE try_post_op
  BY <1>1, <1>7, PostOpPipeInv
<1>8. CASE StartH2D
  BY <1>1, <1>8, StartH2DPipeInv
<1>9. CASE try_complete_op
  BY <1>1, <1>9, CompleteOpPipeInv
<1>10. CASE CopyD2H
  BY <1>1, <1>10, CopyD2HPipeInv
<1>11. CASE CopyH2D
  BY <1>1, <1>11, CopyH2DPipeInv
<1>12. CASE KernelEnds
  BY <1>1, <1>12, KernelEndsPipeInv
<1>13. CASE LbPost
  BY <1>1, <1>13, LbPostPipeInv
<1>14. CASE LbComplete
  BY <1>1, <1>14, LbCompletePipeInv
<1>15. CASE \E i \in Workers : Worker(i)
  BY <1>1, <1>15, WorkerSendPipeInv, WorkerDonePipeInv DEF Worker
<1>16. CASE UNCHANGED vars
  <2>1. Layout(c0, c1, c2, f, g, d, e)'
    <3>1. UNCHANGED <<call, calls, ops, head, cnt, buffer, copying, py, shm, wk, sent,
                      d2h, h2d, dev, kernel, host>>
      BY <1>16 DEF vars, python, cuda
    <3>2. Queues(c0, c1, c2, f, g, d, e)'
      BY <1>1, <3>1 DEF Layout, Queues
    <3> QED  BY <1>1, <3>1, <3>2, RingSame, CopiesSame, CallingSame, ContentsSame DEF Layout
  <2> QED  BY <2>1 DEF PipeInv
<1> QED  BY <1>2, <1>3, <1>4, <1>5, <1>6, <1>7, <1>8, <1>9, <1>10, <1>11, <1>12, <1>13,
            <1>14, <1>15, <1>16 DEF Next, Daemon, Cuda, LoadBalancer

(***************************************************************************)
(* All queues hold adjacent runs of operations, and memory holds what each *)
(* stage of the pipeline has left there.                                   *)
(***************************************************************************)
THEOREM PipeInvariant == Spec => []PipeInv
<1> QED  BY InitPipeInv, NextPipeInv, PTL DEF Spec

-----------------------------------------------------------------------------
(***************************************************************************)
(* No request is refused by a full queue, although the load balancer does  *)
(* not look at the result of push_req: everything in the queues is also in *)
(* the op buffer, which is no larger.                                      *)
(***************************************************************************)
THEOREM NoQueueOverflows == Spec => []NothingDropped
<1>1. ASSUME PipeInv PROVE NothingDropped
  <2>1. PICK c0 \in Nat, c1 \in Nat, c2 \in Nat, f \in Nat, g \in Nat,
             d \in [Workers -> Nat], e \in [Workers -> Nat] : Layout(c0, c1, c2, f, g, d, e)
    BY <1>1 DEF PipeInv
  <2>2. Ordered(c0, c1, c2, f, g)
    BY <2>1, Bounds
  <2>3. /\ py = [wq |-> Run(g, Len(ops)), cq |-> Run(c0, c1), num |-> cnt]
        /\ shm = [wq |-> Run(f, g), cq |-> Run(c1, c2), num |-> g - c1]
        /\ wk = [i \in Workers |-> [wq |-> Run(e[i], f), cq |-> Run(c2, d[i]), num |-> f - c2]]
    BY <2>1 DEF Layout, Queues
  <2>4. available => CanPush(py)
    BY <2>3 DEF available, CanPush
  <2>5. ASSUME py.wq # <<>> PROVE CanPush(shm)
    <3>1. g # Len(ops)
      BY <2>2, <2>3, <2>5, RunEmpty DEF Ordered
    <3>2. g - c1 < QueueSize
      BY <2>2, <3>1 DEF Ordered
    <3> QED  BY <2>3, <3>2 DEF CanPush
  <2>6. ASSUME shm.wq # <<>>, NEW i \in Workers PROVE CanPush(wk[i])
    <3>1. f # g
      BY <2>2, <2>3, <2>6, RunEmpty DEF Ordered
    <3>2. f - c2 < QueueSize
      BY <2>2, <3>1 DEF Ordered
    <3>3. wk[i].num = f - c2
      BY <2>3
    <3> QED  BY <3>2, <3>3 DEF CanPush
  <2> QED  BY <2>4, <2>5, <2>6 DEF NothingDropped
<1> QED  BY <1>1, PipeInvariant, PTL

\* All entries of a run point to their operations.
Leads(a, b) == \A x \in Range(Run(a, b)) : buffer[x.place] = x.op

LEMMA RunPointers ==
    ASSUME NEW c0 \in Nat, NEW c1 \in Nat, NEW c2 \in Nat, NEW f \in Nat, NEW g \in Nat,
           NEW d \in [Workers -> Nat], NEW e \in [Workers -> Nat],
           Layout(c0, c1, c2, f, g, d, e),
           NEW a \in Nat, NEW b \in Nat, c0 <= a, a <= b, b <= Len(ops)
    PROVE  Leads(a, b)
<1> SUFFICES ASSUME NEW x \in Range(Run(a, b)) PROVE buffer[x.place] = x.op
  BY DEF Leads
<1>1. PICK y \in 1 .. b - a : x = Entry(a + y)
  BY DEF Range, Run
<1>2. a + y \in Nat /\ a + y > c0 /\ a + y <= Len(ops)
  <2>1. Len(ops) \in Nat
    BY Bounds DEF Ordered
  <2> QED  BY <2>1
<1> QED  BY <1>1, <1>2, BufferHolds

(***************************************************************************)
(* Every pointer in a queue leads to the operation it was made for, and    *)
(* the load balancer joins parts of one operation: the workers complete    *)
(* operations in the order in which they got them.                         *)
(***************************************************************************)
THEOREM PointersLeadToTheirOperations == Spec => []OperationsNotMixed
<1>1. ASSUME PipeInv PROVE OperationsNotMixed
  <2>1. PICK c0 \in Nat, c1 \in Nat, c2 \in Nat, f \in Nat, g \in Nat,
             d \in [Workers -> Nat], e \in [Workers -> Nat] : Layout(c0, c1, c2, f, g, d, e)
    BY <1>1 DEF PipeInv
  <2>2. Ordered(c0, c1, c2, f, g)
    BY <2>1, Bounds
  <2>3. /\ shm.wq = Run(f, g) /\ shm.cq = Run(c1, c2)
        /\ \A i \in Workers : wk[i].wq = Run(e[i], f) /\ wk[i].cq = Run(c2, d[i]) /\ sent[i] = Run(d[i], e[i])
    BY <2>1 DEF Layout, Queues
  <2>4. ASSUME NEW i \in Workers
        PROVE  d[i] \in Nat /\ e[i] \in Nat /\ c2 <= d[i] /\ d[i] <= e[i] /\ e[i] <= f
    BY <2>1, WorkerBounds, Zenon
  <2>5. SameOperation
    <3> SUFFICES ASSUME NEW i \in Workers, NEW j \in Workers, wk[i].cq # <<>>, wk[j].cq # <<>>
                 PROVE  Head(wk[i].cq) = Head(wk[j].cq)
      BY DEF SameOperation
    <3>1. ASSUME NEW k \in Workers, wk[k].cq # <<>>
          PROVE  Head(wk[k].cq) = Entry(c2 + 1)
      <4>1. c2 < d[k]
        BY <2>3, <2>4, <3>1, RunEmpty
      <4> QED  BY <2>3, <2>4, <4>1, RunTail
    <3> QED  BY <3>1
  <2>6. PlacesStable
    <3> SUFFICES ASSUME NEW x \in Referenced PROVE buffer[x.place] = x.op
      BY DEF PlacesStable
    <3>1. \/ x \in Range(shm.wq)
          \/ x \in Range(shm.cq)
          \/ \E i \in Workers : x \in Range(wk[i].wq) \/ x \in Range(wk[i].cq) \/ x \in Range(sent[i])
      BY DEF Referenced
    <3>2. CASE x \in Range(shm.wq)
      <4>1. c0 <= f /\ f <= g /\ g <= Len(ops)
        BY <2>2 DEF Ordered
      <4>2. Leads(f, g)
        BY <2>1, <4>1, RunPointers
      <4> QED  BY <2>3, <3>2, <4>2 DEF Leads
    <3>3. CASE x \in Range(shm.cq)
      <4>1. c0 <= c1 /\ c1 <= c2 /\ c2 <= Len(ops)
        BY <2>2 DEF Ordered
      <4>2. Leads(c1, c2)
        BY <2>1, <4>1, RunPointers
      <4> QED  BY <2>3, <3>3, <4>2 DEF Leads
    <3>4. ASSUME NEW i \in Workers,
                 x \in Range(wk[i].wq) \/ x \in Range(wk[i].cq) \/ x \in Range(sent[i])
          PROVE  buffer[x.place] = x.op
      <4>1. d[i] \in Nat /\ e[i] \in Nat /\ c2 <= d[i] /\ d[i] <= e[i] /\ e[i] <= f
        BY <2>4
      <4>2. /\ c0 <= e[i] /\ f <= Len(ops) /\ c0 <= c2 /\ d[i] <= Len(ops)
            /\ c0 <= d[i] /\ e[i] <= Len(ops)
        BY <2>2, <4>1 DEF Ordered
      <4>3. Leads(e[i], f) /\ Leads(c2, d[i]) /\ Leads(d[i], e[i])
        BY <2>1, <4>1, <4>2, RunPointers
      <4> QED  BY <2>3, <3>4, <4>3 DEF Leads
    <3> QED  BY <3>1, <3>2, <3>3, <3>4
  <2> QED  BY <2>5, <2>6 DEF OperationsNotMixed
<1> QED  BY <1>1, PipeInvariant, PTL

(***************************************************************************)
(* A worker never sends the copy buffer before the tensor, as the caller's *)
(* kernel left it, has been copied there: the first copy of a call waits   *)
(* for the kernel, and all others come after the first.                    *)
(***************************************************************************)
THEOREM WorkersSendTheTensor == Spec => []WorkerSendsInput
<1>1. ASSUME PipeInv PROVE WorkerSendsInput
  <2>1. PICK c0 \in Nat, c1 \in Nat, c2 \in Nat, f \in Nat, g \in Nat,
             d \in [Workers -> Nat], e \in [Workers -> Nat] : Layout(c0, c1, c2, f, g, d, e)
    BY <1>1 DEF PipeInv
  <2>2. Ordered(c0, c1, c2, f, g)
    BY <2>1, Bounds
  <2> SUFFICES ASSUME NEW i \in Workers, NEW k \in DOMAIN wk[i].wq, need_tx(wk[i].wq[k].op)
               PROVE  host[wk[i].wq[k].op][i] = "input"
    BY DEF WorkerSendsInput
  <2>3. d[i] \in Nat /\ e[i] \in Nat /\ c2 <= d[i] /\ d[i] <= e[i] /\ e[i] <= f
    BY <2>1, WorkerBounds, Zenon
  <2>4. wk[i].wq = Run(e[i], f)
    BY <2>1 DEF Layout, Queues
  <2>5. k \in 1 .. f - e[i] /\ wk[i].wq[k].op = e[i] + k
    BY <2>4 DEF Run, Entry
  <2>6. e[i] + k \in d[i] + 1 .. g
    BY <2>2, <2>3, <2>5 DEF Ordered
  <2> QED  BY <2>1, <2>5, <2>6 DEF Layout, Contents
<1> QED  BY <1>1, PipeInvariant, PTL

(***************************************************************************)
(* A call returns only when the output has been copied to the whole tensor *)
(* of a rank that receives, and when no copy is under way.                 *)
(***************************************************************************)
THEOREM CallsReturnTheirResult == Spec => []ResultDelivered
<1>1. ASSUME PipeInv PROVE ResultDelivered
  <2>1. PICK c0 \in Nat, c1 \in Nat, c2 \in Nat, f \in Nat, g \in Nat,
             d \in [Workers -> Nat], e \in [Workers -> Nat] : Layout(c0, c1, c2, f, g, d, e)
    BY <1>1 DEF PipeInv
  <2> SUFFICES ASSUME call.left = -1
               PROVE  /\ d2h = <<>> /\ h2d = <<>>
                      /\ \A op \in DOMAIN ops : dev[op] = IF need_rx(op) THEN "output" ELSE "input"
    BY DEF ResultDelivered
  <2>2. cnt = 0
    BY <2>1 DEF Layout, Calling
  <2>3. c1 = Len(ops) /\ d2h = <<>> /\ h2d = <<>>
    BY <2>1, <2>2, AllDone
  <2>4. DOMAIN ops = 1 .. c1
    BY <2>1, <2>3, Bounds, LenProperties DEF Ordered
  <2> QED  BY <2>1, <2>3, <2>4 DEF Layout, Contents
<1> QED  BY <1>1, PipeInvariant, PTL

-----------------------------------------------------------------------------
\* How often each of the bags S has e.
Multiplicities(e, S) == [B \in S |-> IF e \in DOMAIN B THEN B[e] ELSE 0]

\* A bag union adds these numbers.
LEMMA BagUnionSum ==
  ASSUME NEW S
  PROVE  BagUnion(S) = [e \in UNION {DOMAIN B : B \in S} |-> SumFunction(Multiplicities(e, S))]
BY DEF BagUnion, BagIn, BagToSet, SumFunction, SumFunctionOnSet, FoldFunctionOnSet,
       MapThenFoldSet, Multiplicities

\* The terms of the ranks in S to segment n that are not zero.
Terms(S, n) == {<<s, n>> : s \in {r \in S : max_class[r][n] # "zero"}}

LEMMA UnionOfTerms ==
  ASSUME NEW S, IsFiniteSet(S), NEW n
  PROVE  BagUnion({Term(s, n) : s \in S}) = SetToBag(Terms(S, n))
<1> DEFINE U == {Term(s, n) : s \in S}
<1>1. \A s \in S : Term(s, n) = [e \in Terms({s}, n) |-> 1]
  BY DEF Term, Terms, SetToBag, EmptyBag
<1>2. UNION {DOMAIN B : B \in U} = Terms(S, n)
  <2>1. \A B \in U : \E s \in S : B = [e \in Terms({s}, n) |-> 1]
    BY <1>1
  <2>2. \A s \in S : [e \in Terms({s}, n) |-> 1] \in U
    BY <1>1
  <2>3. \A e : (\E B \in U : e \in DOMAIN B) <=> \E s \in S : e \in Terms({s}, n)
    BY <2>1, <2>2
  <2> HIDE DEF U
  <2>4. \A e : (\E s \in S : e \in Terms({s}, n)) <=> e \in Terms(S, n)
    BY DEF Terms
  <2> QED  BY <2>3, <2>4
<1>3. IsFiniteSet(U)
  <2> DEFINE g == [s \in S |-> Term(s, n)]
  <2>1. g \in Surjection(S, U)
    BY DEF Surjection
  <2> HIDE DEF g, U
  <2> QED  BY <2>1, FS_Surjection
<1>4. ASSUME NEW e \in Terms(S, n)
      PROVE  SumFunction(Multiplicities(e, U)) = 1
  <2> DEFINE f == Multiplicities(e, U)
  <2>1. PICK s \in S : e = <<s, n>> /\ max_class[s][n] # "zero"
    BY <1>4 DEF Terms
  <2>2. Term(s, n) \in U /\ e \in Terms({s}, n)
    BY <2>1 DEF Terms
  <2>3. \A r \in S : r # s => e \notin Terms({r}, n)
    BY <2>1 DEF Terms
  <2>4. DOMAIN f = U
    BY DEF Multiplicities
  <2>5. \A r \in S : f[Term(r, n)] = IF r = s THEN 1 ELSE 0
    BY <1>1, <2>2, <2>3 DEF Multiplicities
  <2> HIDE DEF f
  <2>6. \A B \in U : f[B] \in Int /\ (B # Term(s, n) => f[B] = 0)
    BY <2>5
  <2>7. SumFunction(f) = f[Term(s, n)]
    BY <1>3, <2>2, <2>4, <2>6, SumSingle
  <2> QED  BY <2>5, <2>7 DEF f
<1> HIDE DEF U
<1>5. BagUnion(U) = [e \in Terms(S, n) |-> 1]
  BY <1>2, <1>4, BagUnionSum
<1> QED  BY <1>5 DEF U, SetToBag

\* Ranks of a group and ranks of the world.
LEMMA GroupRanks ==
  ASSUME MembersAssumption
  PROVE  /\ Len(Members) \in Nat /\ Len(Members) >= 2
         /\ IsFiniteSet(Group)
         /\ \A k \in 0 .. Len(Members) - 1 : get_global_rank(k) \in Group
         /\ \A g \in Group : /\ get_group_rank(g) \in 0 .. Len(Members) - 1
                             /\ get_global_rank(get_group_rank(g)) = g
<1>1. Members \in Seq(Nat) /\ Len(Members) >= 2
  BY DEF MembersAssumption
<1>2. Len(Members) \in Nat /\ DOMAIN Members = 1 .. Len(Members)
  BY <1>1
<1>3. Group = {Members[k] : k \in 1 .. Len(Members)}
  BY <1>2 DEF Group, Range
<1>4. \A k \in 0 .. Len(Members) - 1 : get_global_rank(k) \in Group
  BY <1>2, <1>3 DEF get_global_rank
<1>5. ASSUME NEW g \in Group
      PROVE  /\ get_group_rank(g) \in 0 .. Len(Members) - 1
             /\ get_global_rank(get_group_rank(g)) = g
  <2> DEFINE k == CHOOSE j \in DOMAIN Members : Members[j] = g
  <2>1. \E j \in DOMAIN Members : Members[j] = g
    BY <1>2, <1>3
  <2>2. k \in DOMAIN Members /\ Members[k] = g
    BY ONLY <2>1
  <2>3. get_group_rank(g) = k - 1
    BY ONLY DEF get_group_rank, k
  <2> HIDE DEF k
  <2>4. k \in 1 .. Len(Members) /\ (k - 1) + 1 = k
    BY <1>2, <2>2
  <2> QED  BY <1>2, <2>2, <2>3, <2>4 DEF get_global_rank
<1>6. IsFiniteSet(Group)
  <2>1. IsFiniteSet(1 .. Len(Members))
    BY <1>2, FS_Interval
  <2>2. Members \in Surjection(1 .. Len(Members), Group)
    BY <1>1, <1>2, <1>3 DEF Surjection
  <2> QED  BY <2>1, <2>2, FS_Surjection
<1> QED  BY <1>1, <1>2, <1>4, <1>5, <1>6

\* The calls in which call_collective compares a rank of the group with a root
\* of the world are right only where these are the same.
RootsMatch == WorldMembers \/ api \notin {"reduce", "reduce_scatter_tensor"}

\* The collectives of a call, and their roots.
LEMMA StepsAndRoots ==
  ASSUME MembersAssumption, api \in Apis, root \in Group
  PROVE  /\ 1 \in Steps
         /\ \A n \in Steps : n \in Nat /\ n >= 1
         /\ \A n \in Steps : n + 1 \notin Steps => \A m \in Steps : m <= n
         /\ \A n \in Steps : RootOf(n) \in Group
         /\ OpCode \in {"ALL_REDUCE", "REDUCE", "BROADCAST"}
<1>1. Steps = 1 .. Len(Members) \/ Steps = {1}
  BY DEF Steps
<1>2. 1 \in Steps /\ \A n \in Steps : n \in Nat /\ n >= 1 /\ (n + 1 \notin Steps => \A m \in Steps : m <= n)
  BY <1>1, GroupRanks
<1>3. ASSUME NEW n \in Steps
      PROVE  RootOf(n) \in Group
  <2>1. CASE api \in ScatterLike
    <3>1. n - 1 \in 0 .. Len(Members) - 1
      BY <2>1, GroupRanks DEF Steps
    <3> QED  BY <2>1, <3>1, GroupRanks DEF RootOf
  <2>2. CASE api \notin ScatterLike
    BY <2>2 DEF RootOf
  <2> QED  BY <2>1, <2>2
<1>4. OpCode \in {"ALL_REDUCE", "REDUCE", "BROADCAST"}
  BY DEF OpCode, Apis
<1> QED  BY <1>2, <1>3, <1>4

\* A rank recognises a root by its rank in the group, and in a reduction, where
\* roots match, by the root's rank in the world.
LEMMA RootRecognised ==
  ASSUME MembersAssumption, NEW r \in Group, NEW n, RootOf(n) \in Group
  PROVE  /\ get_group_rank(r) = get_group_rank(RootOf(n)) <=> r = RootOf(n)
         /\ RootsMatch /\ OpCode = "REDUCE" /\ api \in Apis =>
               (rank_need_rx(r, n) <=> r = RootOf(n))
<1>1. get_group_rank(r) = get_group_rank(RootOf(n)) <=> r = RootOf(n)
  BY GroupRanks
<1>2. ASSUME RootsMatch, OpCode = "REDUCE", api \in Apis
      PROVE  rank_need_rx(r, n) <=> r = RootOf(n)
  <2>1. api \in {"reduce", "reduce_scatter_tensor"}
    BY <1>2 DEF OpCode, Apis
  <2>2. WorldMembers
    BY <1>2, <2>1 DEF RootsMatch
  <2> DEFINE k == get_group_rank(r)
  <2>3. k \in 0 .. Len(Members) - 1 /\ Members[k + 1] = r
    BY GroupRanks DEF get_global_rank
  <2> HIDE DEF k
  <2>4. k + 1 \in DOMAIN Members /\ (k + 1) - 1 = k
    BY <2>3, GroupRanks DEF MembersAssumption
  <2>5. k = r
    BY <2>2, <2>3, <2>4 DEF WorldMembers
  <2> QED  BY <1>2, <2>5 DEF rank_need_rx, k
<1> QED  BY <1>1, <1>2

\* What the tensor of rank r holds in segment n, and what is said of collective n.
Kept(r, n) == IF n < step[r] \/ at[r] = "end" THEN Promised(r, n) ELSE Term(r, n)
Brought(n) == {[rank |-> s, way |-> w, data |-> Term(s, n)] : s \in Group, w \in {"inc", "nccl"}}

\* The inductive invariant: segments hold the result from the moment their
\* collective is over, and the rank's own data until then.
CallInvariant ==
  /\ api \in Apis /\ root \in Group /\ RootsMatch
  /\ step \in [Group -> Steps]
  /\ at \in [Group -> {"start", "max", "inc", "nccl", "end", "exit"}]
  /\ tensor = [r \in Group |-> [n \in Steps |-> Kept(r, n)]]
  /\ entered = [n \in Steps |-> entered[n]] /\ \A n \in Steps : entered[n] \subseteq Brought(n)

\* Every rank's term is in what the ranks of a collective brought into it.
LEMMA SumOfEntries ==
  ASSUME MembersAssumption, CallInvariant,
         NEW n \in Steps, NEW way, Met(n, way), NEW S \in SUBSET Group
  PROVE  Sum(n, S) = SetToBag(Terms(S, n))
<1> DEFINE T == {e.data : e \in {x \in entered[n] : x.rank \in S}}
<1>1. \A e \in entered[n] : e.rank \in Group /\ e.data = Term(e.rank, n)
  BY DEF CallInvariant, Brought
<1>2. \A s \in S : \E e \in entered[n] : e.rank = s
  BY DEF Met
<1>3. T = {Term(s, n) : s \in S}
  BY <1>1, <1>2
<1>4. IsFiniteSet(S)
  BY GroupRanks, FS_Subset
<1> QED  BY <1>3, <1>4, UnionOfTerms DEF Sum

\* Terms of one rank, and of one rank and the others.
LEMMA TermsOfOne ==
  ASSUME NEW s, NEW n
  PROVE  SetToBag(Terms({s}, n)) = Term(s, n)
BY DEF Terms, Term, SetToBag, EmptyBag

LEMMA TermsOfOthers ==
  ASSUME NEW S, NEW s \in S, NEW n
  PROVE  Term(s, n) (+) SetToBag(Terms(S \ {s}, n)) = SetToBag(Terms(S, n))
<1> DEFINE A == Terms({s}, n)
           B == Terms(S \ {s}, n)
<1>1. Term(s, n) = [e \in A |-> 1] /\ SetToBag(B) = [e \in B |-> 1]
  BY TermsOfOne DEF SetToBag
<1>2. A \cup B = Terms(S, n) /\ A \cap B = {}
  BY DEF Terms
<1> HIDE DEF A, B
<1>3. [e \in A |-> 1] (+) [e \in B |-> 1] = [e \in A \cup B |-> 1]
  BY <1>2 DEF (+)
<1> QED  BY <1>1, <1>2, <1>3 DEF SetToBag, B

\* What is promised, without the bag of bags.
LEMMA PromisedTerms ==
  ASSUME MembersAssumption, NEW r, NEW n
  PROVE  Promised(r, n) =
           IF OpCode = "ALL_REDUCE" \/ (OpCode = "REDUCE" /\ r = RootOf(n))
           THEN SetToBag(Terms(Group, n))
           ELSE IF OpCode = "BROADCAST" THEN Term(RootOf(n), n) ELSE Term(r, n)
<1>1. BagUnion({Term(s, n) : s \in Group}) = SetToBag(Terms(Group, n))
  BY GroupRanks, UnionOfTerms
<1>2. ~ (OpCode = "ALL_REDUCE" /\ OpCode = "REDUCE") /\ ~ (OpCode = "ALL_REDUCE" /\ OpCode = "BROADCAST")
      /\ ~ (OpCode = "REDUCE" /\ OpCode = "BROADCAST")
  OBVIOUS
<1> QED  BY ONLY <1>1, <1>2 DEF Promised


\* What call_collective leaves in the tensor is what is promised.
LEMMA SwitchGivesPromised ==
  ASSUME MembersAssumption, CallInvariant, NEW r \in Group,
         at[r] = "inc", Met(step[r], "inc")
  PROVE  (CASE ~ reduce_like -> Received(r, step[r])
            [] reduce_like /\ rank_need_rx(r, step[r]) ->
                  IF OpCode = "ALL_REDUCE" THEN Received(r, step[r])
                  ELSE tensor[r][step[r]] (+) Received(r, step[r])
            [] OTHER -> tensor[r][step[r]]) = Promised(r, step[r])
<1> DEFINE n == step[r]
<1>1. n \in Steps /\ tensor[r][n] = Term(r, n)
  BY StepsAndRoots DEF CallInvariant, Kept
<1>2. RootOf(n) \in Group /\ OpCode \in {"ALL_REDUCE", "REDUCE", "BROADCAST"}
  BY <1>1, StepsAndRoots DEF CallInvariant
<1>3. \A s \in Group : get_group_rank(s) = get_group_rank(RootOf(n)) <=> s = RootOf(n)
  BY <1>2, RootRecognised
<1>4. \A S \in SUBSET Group : Sum(n, S) = SetToBag(Terms(S, n))
  BY <1>1, SumOfEntries
<1> HIDE DEF n
<1>5. CASE OpCode = "ALL_REDUCE"
  <2>1. Received(r, n) = Sum(n, Group)
    BY <1>5 DEF Received
  <2>2. reduce_like /\ rank_need_rx(r, n)
    BY <1>5 DEF reduce_like, rank_need_rx
  <2>3. Received(r, n) = Promised(r, n)
    BY <1>4, <1>5, <2>1, PromisedTerms
  <2> QED  BY <1>5, <2>2, <2>3 DEF n
<1>6. CASE OpCode = "REDUCE"
  <2>1. reduce_like /\ OpCode # "ALL_REDUCE" /\ OpCode # "BROADCAST"
    BY <1>6 DEF reduce_like
  <2>2. rank_need_rx(r, n) <=> r = RootOf(n)
    BY <1>2, <1>6, RootRecognised DEF CallInvariant
  <2>3. CASE r = RootOf(n)
    <3>1. {s \in Group : ~ (get_group_rank(s) = get_group_rank(RootOf(n)))} = Group \ {r}
      BY <1>2, <1>3, <2>3
    <3>2. Received(r, n) = Sum(n, Group \ {r})
      BY <1>6, <2>1, <2>3, <3>1 DEF Received
    <3>3. Received(r, n) = SetToBag(Terms(Group \ {r}, n))
      BY <1>4, <3>2
    <3>4. tensor[r][n] (+) Received(r, n) = SetToBag(Terms(Group, n))
      BY <1>1, <3>3, TermsOfOthers
    <3>5. tensor[r][n] (+) Received(r, n) = Promised(r, n)
      BY <1>6, <2>3, <3>4, PromisedTerms
    <3> QED  BY <2>1, <2>2, <2>3, <3>5 DEF n
  <2>4. CASE r # RootOf(n)
    <3>1. tensor[r][n] = Promised(r, n)
      BY <1>1, <2>1, <2>4, PromisedTerms
    <3> QED  BY <2>1, <2>2, <2>4, <3>1 DEF n
  <2> QED  BY <2>3, <2>4
<1>7. CASE OpCode = "BROADCAST"
  <2>1. ~ reduce_like /\ OpCode # "ALL_REDUCE" /\ OpCode # "REDUCE"
    BY <1>7 DEF reduce_like
  <2>2. Promised(r, n) = Term(RootOf(n), n)
    BY <1>7, <2>1, PromisedTerms
  <2>3. CASE r = RootOf(n)
    <3>1. Received(r, n) = Sum(n, {r})
      BY <1>2, <1>3, <1>7, <2>1, <2>3 DEF Received
    <3>2. Received(r, n) = Term(r, n)
      BY <1>4, <3>1, TermsOfOne
    <3> QED  BY <2>1, <2>2, <2>3, <3>2 DEF n
  <2>4. CASE r # RootOf(n)
    <3>1. {s \in Group : get_group_rank(s) = get_group_rank(RootOf(n))} = {RootOf(n)}
      BY <1>2, <1>3
    <3>2. Received(r, n) = Sum(n, {RootOf(n)})
      BY <1>2, <1>3, <1>7, <2>1, <2>4, <3>1 DEF Received
    <3>3. Received(r, n) = Term(RootOf(n), n)
      BY <1>2, <1>4, <3>2, TermsOfOne
    <3> QED  BY <2>1, <2>2, <3>3 DEF n
  <2> QED  BY <2>3, <2>4
<1> QED  BY <1>2, <1>5, <1>6, <1>7

\* All values are zero: nothing to do is right.
LEMMA ZeroIsPromised ==
  ASSUME MembersAssumption, CallInvariant, NEW r \in Group,
         Decides(r, "zero")
  PROVE  tensor[r][step[r]] = Promised(r, step[r])
<1> DEFINE n == step[r]
<1>1. n \in Steps /\ tensor[r][n] = Term(r, n) /\ RootOf(n) \in Group
  BY StepsAndRoots DEF CallInvariant, Kept, Decides
<1>2. {s \in Group : max_class[s][n] = "zero"} = Group
  BY DEF Decides, max_abs
<1> HIDE DEF n
<1>3. \A s \in Group : Term(s, n) = EmptyBag
  BY <1>2 DEF Term
<1>4. SetToBag(Terms(Group, n)) = EmptyBag
  <2>1. Terms(Group, n) = {}
    BY <1>2 DEF Terms
  <2> QED  BY <2>1 DEF EmptyBag
<1>5. Promised(r, n) = EmptyBag
  BY <1>1, <1>3, <1>4, PromisedTerms
<1> QED  BY <1>1, <1>3, <1>5 DEF n

\* The call does not change what is promised.
LEMMA InputsKept ==
  ASSUME UNCHANGED inputs
  PROVE  /\ Steps' = Steps /\ RootsMatch' = RootsMatch
         /\ \A r, n : Term(r, n)' = Term(r, n) /\ Promised(r, n)' = Promised(r, n)
         /\ \A n : Brought(n)' = Brought(n)
<1>1. api' = api /\ root' = root /\ max_class' = max_class
  BY DEF inputs
<1> QED  BY <1>1 DEF Steps, RootsMatch, Term, Promised, OpCode, RootOf, Brought

\* A rank goes on to its next collective with the result of this one.
LEMMA AfterFinish ==
  ASSUME MembersAssumption, CallInvariant, NEW r \in Group, at[r] # "end",
         UNCHANGED inputs, Finish(r),
         tensor' = [tensor EXCEPT ![r][step[r]] = Promised(r, step[r])]
  PROVE  /\ step' \in [Group -> Steps]
         /\ at' \in [Group -> {"start", "max", "inc", "nccl", "end", "exit"}]
         /\ tensor' = [s \in Group |-> [n \in Steps |-> Kept(s, n)']]
<1> DEFINE q == step[r]
<1>0. q \in Steps /\ q \in Nat /\ \A n \in Steps : n \in Nat
  BY StepsAndRoots DEF CallInvariant
<1>1. step \in [Group -> Steps] /\ at \in [Group -> {"start", "max", "inc", "nccl", "end", "exit"}]
  BY DEF CallInvariant
<1>2. \A s \in Group : \A n \in Steps : tensor[s][n] = Kept(s, n)
  BY DEF CallInvariant
<1>3. tensor' = [s \in Group |-> [n \in Steps |->
                   IF s = r /\ n = q THEN Promised(r, q) ELSE Kept(s, n)]]
  <2>1. tensor = [s \in Group |-> [n \in Steps |-> Kept(s, n)]]
    BY DEF CallInvariant
  <2> HIDE DEF q
  <2>2. tensor' = [s \in Group |-> IF s = r THEN [tensor[r] EXCEPT ![q] = Promised(r, q)]
                                   ELSE tensor[s]]
    BY <2>1 DEF q
  <2>3. \A s \in Group : tensor[s] = [n \in Steps |-> Kept(s, n)]
    BY <2>1
  <2>4. [tensor[r] EXCEPT ![q] = Promised(r, q)]
          = [n \in Steps |-> IF n = q THEN Promised(r, q) ELSE Kept(r, n)]
    BY <2>3
  <2>5. \A s \in Group : (IF s = r THEN [tensor[r] EXCEPT ![q] = Promised(r, q)] ELSE tensor[s])
           = [n \in Steps |-> IF s = r /\ n = q THEN Promised(r, q) ELSE Kept(s, n)]
    <3> SUFFICES ASSUME NEW s \in Group
                 PROVE  (IF s = r THEN [tensor[r] EXCEPT ![q] = Promised(r, q)] ELSE tensor[s])
                          = [n \in Steps |-> IF s = r /\ n = q THEN Promised(r, q) ELSE Kept(s, n)]
      OBVIOUS
    <3>1. CASE s = r
      BY <2>4, <3>1
    <3>2. CASE s # r
      BY <2>3, <3>2
    <3> QED  BY <3>1, <3>2
  <2> QED  BY <2>2, <2>5
<1>4. CASE q + 1 \in Steps
  <2>1. step' = [step EXCEPT ![r] = q + 1] /\ at' = [at EXCEPT ![r] = "start"]
    BY <1>1, <1>4 DEF Finish
  <2>2. \A s \in Group, n \in Steps :
           Kept(s, n)' = IF s = r /\ n = q THEN Promised(r, q) ELSE Kept(s, n)
    <3> SUFFICES ASSUME NEW s \in Group, NEW n \in Steps
                 PROVE  Kept(s, n)' = IF s = r /\ n = q THEN Promised(r, q) ELSE Kept(s, n)
      OBVIOUS
    <3>1. Kept(s, n)' = IF n < step'[s] \/ at'[s] = "end" THEN Promised(s, n) ELSE Term(s, n)
      BY InputsKept DEF Kept
    <3>2. CASE s = r
      <4>1. step'[s] = q + 1 /\ at'[s] = "start"
        BY <1>1, <2>1, <3>2
      <4>2. n < q + 1 <=> n < q \/ n = q
        BY <1>0
      <4>3. Kept(s, n) = IF n < q THEN Promised(s, n) ELSE Term(s, n)
        BY <3>2 DEF Kept
      <4> HIDE DEF q
      <4> QED  BY <1>0, <3>1, <3>2, <4>1, <4>2, <4>3
    <3>3. CASE s # r
      BY <1>1, <2>1, <3>1, <3>3 DEF Kept
    <3> QED  BY <3>2, <3>3
  <2>3. tensor' = [s \in Group |-> [n \in Steps |-> Kept(s, n)']]
    <3> HIDE DEF q
    <3>1. \A s \in Group : [n \in Steps |-> IF s = r /\ n = q THEN Promised(r, q) ELSE Kept(s, n)]
                             = [n \in Steps |-> Kept(s, n)']
      BY <2>2
    <3> QED  BY <1>3, <3>1
  <2>4. step' \in [Group -> Steps]
    BY <1>1, <1>4, <2>1
  <2>5. at' \in [Group -> {"start", "max", "inc", "nccl", "end", "exit"}]
    BY <1>1, <2>1
  <2> QED  BY <2>3, <2>4, <2>5
<1>5. CASE q + 1 \notin Steps
  <2>1. step' = step /\ at' = [at EXCEPT ![r] = "end"] /\ \A n \in Steps : n <= q
    BY <1>0, <1>1, <1>5, StepsAndRoots DEF Finish, CallInvariant
  <2>2. \A s \in Group, n \in Steps :
           Kept(s, n)' = IF s = r /\ n = q THEN Promised(r, q) ELSE Kept(s, n)
    <3> SUFFICES ASSUME NEW s \in Group, NEW n \in Steps
                 PROVE  Kept(s, n)' = IF s = r /\ n = q THEN Promised(r, q) ELSE Kept(s, n)
      OBVIOUS
    <3>1. Kept(s, n)' = IF n < step[s] \/ at'[s] = "end" THEN Promised(s, n) ELSE Term(s, n)
      BY <2>1, InputsKept DEF Kept
    <3>2. CASE s = r
      <4>1. at'[s] = "end" /\ (n = q \/ n < q)
        BY <1>0, <1>1, <2>1, <3>2
      <4> QED  BY <3>1, <3>2, <4>1 DEF Kept
    <3>3. CASE s # r
      BY <1>1, <2>1, <3>1, <3>3 DEF Kept
    <3> QED  BY <3>2, <3>3
  <2>3. tensor' = [s \in Group |-> [n \in Steps |-> Kept(s, n)']]
    <3> HIDE DEF q
    <3>1. \A s \in Group : [n \in Steps |-> IF s = r /\ n = q THEN Promised(r, q) ELSE Kept(s, n)]
                             = [n \in Steps |-> Kept(s, n)']
      BY <2>2
    <3> QED  BY <1>3, <3>1
  <2>4. step' \in [Group -> Steps]
    BY <1>1, <2>1
  <2>5. at' \in [Group -> {"start", "max", "inc", "nccl", "end", "exit"}]
    BY <1>1, <2>1
  <2> QED  BY <2>3, <2>4, <2>5
<1> QED  BY <1>4, <1>5


LEMMA CallInvariantInit ==
  ASSUME MembersAssumption, CollectiveInit, RootsMatch
  PROVE  CallInvariant
<1>1. api \in Apis /\ root \in Group
  BY DEF CollectiveInit
<1>2. step = [r \in Group |-> 1] /\ at = [r \in Group |-> "start"]
      /\ 1 \in Steps /\ \A n \in Steps : n \in Nat /\ n >= 1
  BY <1>1, StepsAndRoots DEF CollectiveInit
<1>3. \A r \in Group, n \in Steps : Kept(r, n) = Term(r, n)
  BY <1>2 DEF Kept
<1>4. tensor = [r \in Group |-> [n \in Steps |-> Kept(r, n)]]
  <2>1. \A r \in Group : [n \in Steps |-> Term(r, n)] = [n \in Steps |-> Kept(r, n)]
    BY <1>3
  <2> QED  BY <2>1 DEF CollectiveInit
<1>5. entered = [n \in Steps |-> {}]
  BY DEF CollectiveInit
<1>6. entered = [n \in Steps |-> entered[n]] /\ \A n \in Steps : entered[n] \subseteq Brought(n)
  BY <1>5
<1> QED  BY <1>1, <1>2, <1>4, <1>6 DEF CallInvariant

\* A rank enters a collective with its own data.
LEMMA EnterKeeps ==
  ASSUME MembersAssumption, CallInvariant, NEW r \in Group, at[r] # "end",
         NEW way \in {"inc", "nccl"}, Enter(r, way)
  PROVE  CallInvariant'
<1> DEFINE q == step[r]
<1>1. UNCHANGED inputs /\ step' = step /\ tensor' = tensor /\ at' = [at EXCEPT ![r] = way]
  BY DEF Enter
<1>2. api' \in Apis /\ root' \in Group /\ RootsMatch' /\ step' \in [Group -> Steps']
      /\ at' \in [Group -> {"start", "max", "inc", "nccl", "end", "exit"}]
  BY <1>1, InputsKept DEF CallInvariant, inputs
<1>3. tensor' = [s \in Group |-> [n \in Steps' |-> Kept(s, n)']]
  <2>1. \A s \in Group, n \in Steps : Kept(s, n)' = Kept(s, n)
    <3>1. \A s \in Group : at'[s] = "end" <=> at[s] = "end"
      BY <1>1 DEF CallInvariant
    <3> QED  BY <1>1, <3>1, InputsKept DEF Kept
  <2>2. \A s \in Group : [n \in Steps |-> Kept(s, n)'] = [n \in Steps |-> Kept(s, n)]
    BY <2>1
  <2> QED  BY <1>1, <2>2, InputsKept DEF CallInvariant
<1>4. q \in Steps /\ tensor[r][q] = Term(r, q)
  BY StepsAndRoots DEF CallInvariant, Kept
<1>5. entered' = [entered EXCEPT ![q] = @ \cup {[rank |-> r, way |-> way, data |-> Term(r, q)]}]
  BY <1>4 DEF Enter
<1>6. [rank |-> r, way |-> way, data |-> Term(r, q)] \in Brought(q)
  BY DEF Brought
<1>7. entered' = [n \in Steps |-> entered'[n]] /\ \A n \in Steps : entered'[n] \subseteq Brought(n)
  <2> HIDE DEF q
  <2> QED  BY <1>4, <1>5, <1>6 DEF CallInvariant
<1> QED  BY <1>1, <1>2, <1>3, <1>7, InputsKept DEF CallInvariant

\* A rank leaves a collective with what is promised.
LEMMA FinishKeeps ==
  ASSUME MembersAssumption, CallInvariant, NEW r \in Group, at[r] # "end",
         UNCHANGED <<inputs, entered>>, Finish(r),
         tensor' = [tensor EXCEPT ![r][step[r]] = Promised(r, step[r])]
  PROVE  CallInvariant'
<1>1. api' \in Apis /\ root' \in Group /\ RootsMatch' /\ UNCHANGED inputs
  BY InputsKept DEF CallInvariant, inputs
<1>2. step' \in [Group -> Steps'] /\ at' \in [Group -> {"start", "max", "inc", "nccl", "end", "exit"}]
      /\ tensor' = [s \in Group |-> [n \in Steps' |-> Kept(s, n)']]
  BY <1>1, AfterFinish, InputsKept
<1>3. entered' = [n \in Steps' |-> entered'[n]] /\ \A n \in Steps' : entered'[n] \subseteq Brought(n)'
  BY <1>1, InputsKept DEF CallInvariant
<1> QED  BY <1>1, <1>2, <1>3 DEF CallInvariant

\* A rank is somewhere else in the same collective.
LEMMA MoveKeeps ==
  ASSUME MembersAssumption, CallInvariant, NEW r \in Group, at[r] # "end",
         NEW a \in {"max", "exit"}, at' = [at EXCEPT ![r] = a],
         UNCHANGED <<inputs, step, tensor, entered>>
  PROVE  CallInvariant'
<1>1. UNCHANGED inputs
  OBVIOUS
<1>2. api' \in Apis /\ root' \in Group /\ RootsMatch' /\ step' \in [Group -> Steps']
      /\ at' \in [Group -> {"start", "max", "inc", "nccl", "end", "exit"}]
  BY <1>1, InputsKept DEF CallInvariant, inputs
<1>3. tensor' = [s \in Group |-> [n \in Steps' |-> Kept(s, n)']]
  <2>1. \A s \in Group, n \in Steps : Kept(s, n)' = Kept(s, n)
    <3>1. \A s \in Group : at'[s] = "end" <=> at[s] = "end"
      BY DEF CallInvariant
    <3> QED  BY <1>1, <3>1, InputsKept DEF Kept
  <2>2. \A s \in Group : [n \in Steps |-> Kept(s, n)'] = [n \in Steps |-> Kept(s, n)]
    BY <2>1
  <2> QED  BY <1>1, <2>2, InputsKept DEF CallInvariant
<1>4. entered' = [n \in Steps' |-> entered'[n]] /\ \A n \in Steps' : entered'[n] \subseteq Brought(n)'
  BY <1>1, InputsKept DEF CallInvariant
<1> QED  BY <1>2, <1>3, <1>4 DEF CallInvariant

LEMMA CallInvariantNext ==
  ASSUME MembersAssumption, CallInvariant, [CollectiveNext]_collective_vars
  PROVE  CallInvariant'
<1>1. CASE UNCHANGED collective_vars
  <2>1. UNCHANGED inputs /\ UNCHANGED <<api, root, step, at, tensor, entered>>
    BY <1>1 DEF collective_vars, inputs
  <2>2. \A s, n : Kept(s, n)' = Kept(s, n)
    BY <2>1, InputsKept DEF Kept
  <2>3. tensor' = [s \in Group |-> [n \in Steps' |-> Kept(s, n)']]
    <3>1. \A s \in Group : [n \in Steps |-> Kept(s, n)'] = [n \in Steps |-> Kept(s, n)]
      BY <2>2
    <3> QED  BY <2>1, <3>1, InputsKept DEF CallInvariant
  <2> QED  BY <2>1, <2>3, InputsKept DEF CallInvariant
<1>2. ASSUME NEW r \in Group, Begin(r)
      PROVE  CallInvariant'
  <2>1. CASE Enter(r, "nccl")
    BY <1>2, <2>1, EnterKeeps DEF Begin
  <2>2. CASE Enter(r, "inc")
    BY <1>2, <2>2, EnterKeeps DEF Begin
  <2>3. CASE at' = [at EXCEPT ![r] = "max"] /\ UNCHANGED <<inputs, step, tensor, entered>>
    BY <1>2, <2>3, MoveKeeps DEF Begin
  <2> QED  BY <1>2, <2>1, <2>2, <2>3 DEF Begin
<1>3. ASSUME NEW r \in Group, DecideInc(r)
      PROVE  CallInvariant'
  BY <1>3, EnterKeeps DEF DecideInc, Decides
<1>4. ASSUME NEW r \in Group, DecideFallback(r)
      PROVE  CallInvariant'
  BY <1>4, EnterKeeps DEF DecideFallback, Decides
<1>5. ASSUME NEW r \in Group, DecideZero(r)
      PROVE  CallInvariant'
  <2>1. tensor[r][step[r]] = Promised(r, step[r])
    BY <1>5, ZeroIsPromised DEF DecideZero
  <2>2. tensor = [tensor EXCEPT ![r][step[r]] = tensor[r][step[r]]]
    <3>1. tensor = [s \in Group |-> tensor[s]]
      BY DEF CallInvariant
    <3>2. tensor[r] = [n \in Steps |-> tensor[r][n]]
      BY DEF CallInvariant
    <3> QED  BY <3>1, <3>2
  <2> QED  BY <1>5, <2>1, <2>2, FinishKeeps DEF DecideZero, Decides
<1>6. ASSUME NEW r \in Group, DecideExit(r)
      PROVE  CallInvariant'
  BY <1>6, MoveKeeps DEF DecideExit, Decides
<1>7. ASSUME NEW r \in Group, LeaveInc(r)
      PROVE  CallInvariant'
  <2>1. tensor' = [tensor EXCEPT ![r][step[r]] = Promised(r, step[r])]
    BY <1>7, SwitchGivesPromised DEF LeaveInc
  <2> QED  BY <1>7, <2>1, FinishKeeps DEF LeaveInc
<1>8. ASSUME NEW r \in Group, LeaveNccl(r)
      PROVE  CallInvariant'
  BY <1>8, FinishKeeps DEF LeaveNccl
<1> QED  BY <1>1, <1>2, <1>3, <1>4, <1>5, <1>6, <1>7, <1>8 DEF CollectiveNext, Rank

\* A call returns at every rank of any group with what torch.distributed promises,
\* unless it reduces to a root in a group whose ranks are not those of the world.
THEOREM CallsReturnPromised ==
  ASSUME MembersAssumption
  PROVE  CollectiveSpec /\ RootsMatch => []ResultAsPromised
<1>1. CollectiveInit /\ RootsMatch => CallInvariant
  BY CallInvariantInit
<1>2. CallInvariant /\ [CollectiveNext]_collective_vars => CallInvariant'
  BY CallInvariantNext
<1>3. CallInvariant => ResultAsPromised
  BY DEF CallInvariant, ResultAsPromised, Kept
<1> QED  BY <1>1, <1>2, <1>3, PTL DEF CollectiveSpec

\* In the group of all ranks every call returns with what torch.distributed promises.
THEOREM WorldCallsReturnPromised ==
  ASSUME MembersAssumption, WorldMembers
  PROVE  CollectiveSpec => []ResultAsPromised
<1>1. RootsMatch
  BY DEF RootsMatch
<1> QED  BY <1>1, CallsReturnPromised

-----------------------------------------------------------------------------
\* Whether the ranks go on this way in collective n: their values decide it.
Decided(n, way) ==
  \/ way = "nccl" /\ ~ inc
  \/ way = "inc" /\ inc /\ ~ reduce_like
  \/ way = "inc" /\ inc /\ \A s \in Group : max_abs(s, n) = "normal"
  \/ way = "nccl" /\ inc /\ reduce_like /\ \A s \in Group : max_abs(s, n) \in {"nan", "tiny"}
  \/ way = "exit" /\ inc /\ reduce_like /\ \A s \in Group : max_abs(s, n) = "inf"

\* The inductive invariant: ranks go only ways that are decided.
WaysInvariant ==
  /\ api \in Apis /\ root \in Group
  /\ step \in [Group -> Steps]
  /\ at \in [Group -> {"start", "max", "inc", "nccl", "end", "exit"}]
  /\ \A r \in Group : at[r] = "max" => inc /\ reduce_like
  /\ \A r \in Group : at[r] = "exit" => Decided(step[r], "exit")
  /\ entered = [n \in Steps |-> entered[n]]
  /\ \A n \in Steps : \A e \in entered[n] : e.way \in {"inc", "nccl"} /\ Decided(n, e.way)

(***************************************************************************)
(* Ranks that enter a collective enter it on the same way, and none of     *)
(* them enters a collective at which another one exits: whether a call     *)
(* returns never depends on which rank is faster.                          *)
(***************************************************************************)
RanksChooseAlike ==
  /\ \A n \in Steps : \A e, f \in entered[n] : e.way = f.way
  /\ \A r \in Group : at[r] = "exit" => entered[step[r]] = {}

\* There is one way.
LEMMA OneWay ==
  ASSUME MembersAssumption, NEW n, NEW v, NEW w, Decided(n, v), Decided(n, w)
  PROVE  v = w
<1>1. PICK s : s \in Group
  <2>1. 0 \in 0 .. Len(Members) - 1
    BY GroupRanks
  <2> QED  BY <2>1, GroupRanks
<1>2. \A r, m : max_abs(r, m) = max_abs(s, m)
  BY DEF max_abs
<1> QED  BY <1>1 DEF Decided

\* All ranks see the same largest value.
LEMMA SameMax ==
  ASSUME NEW r, NEW s, NEW n
  PROVE  max_abs(r, n) = max_abs(s, n)
BY DEF max_abs

LEMMA DecidedKept ==
  ASSUME UNCHANGED inputs
  PROVE  \A n, way : Decided(n, way)' = Decided(n, way)
<1>1. api' = api /\ root' = root /\ inc' = inc /\ max_class' = max_class
  BY DEF inputs
<1> QED  BY <1>1 DEF Decided, max_abs, reduce_like, OpCode

LEMMA WaysInit ==
  ASSUME MembersAssumption, CollectiveInit
  PROVE  WaysInvariant
<1>1. api \in Apis /\ root \in Group
  BY DEF CollectiveInit
<1>2. 1 \in Steps
  BY <1>1, StepsAndRoots
<1> QED  BY <1>1, <1>2 DEF CollectiveInit, WaysInvariant

\* A rank enters a collective on the way that is decided.
LEMMA EnterDecided ==
  ASSUME WaysInvariant, NEW r \in Group, NEW way \in {"inc", "nccl"},
         Decided(step[r], way), Enter(r, way)
  PROVE  WaysInvariant'
<1>1. UNCHANGED inputs /\ step' = step /\ at' = [at EXCEPT ![r] = way]
      /\ Steps' = Steps /\ api' = api /\ root' = root /\ inc' = inc /\ reduce_like' = reduce_like
  BY DEF Enter, inputs, Steps, reduce_like, OpCode
<1>2. \A n, w : Decided(n, w)' = Decided(n, w)
  BY <1>1, DecidedKept
<1> DEFINE q == step[r]
           e == [rank |-> r, way |-> way, data |-> tensor[r][q]]
<1>3. q \in Steps /\ entered' = [entered EXCEPT ![q] = @ \cup {e}]
  BY DEF WaysInvariant, Enter
<1>4. entered' = [n \in Steps |-> entered'[n]]
      /\ \A n \in Steps : \A x \in entered'[n] : x.way \in {"inc", "nccl"} /\ Decided(n, x.way)
  <2>1. e.way = way /\ Decided(q, way)
    OBVIOUS
  <2> HIDE DEF q, e
  <2> QED  BY <1>3, <2>1 DEF WaysInvariant
<1>5. \A s \in Group : at'[s] \in {"max", "exit"} => at'[s] = at[s]
  BY <1>1 DEF WaysInvariant
<1>6. at' \in [Group -> {"start", "max", "inc", "nccl", "end", "exit"}]
  BY <1>1 DEF WaysInvariant
<1> QED  BY <1>1, <1>2, <1>4, <1>5, <1>6 DEF WaysInvariant

\* A rank does something else than to enter a collective.
LEMMA MoveDecided ==
  ASSUME WaysInvariant, NEW r \in Group, UNCHANGED <<inputs, entered>>,
         step' \in [Group -> Steps], NEW a \in {"start", "max", "end", "exit"},
         at' = [at EXCEPT ![r] = a], \A s \in Group : s # r => step'[s] = step[s],
         a = "max" => inc /\ reduce_like,
         a = "exit" => Decided(step'[r], "exit")
  PROVE  WaysInvariant'
<1>1. Steps' = Steps /\ api' = api /\ root' = root /\ inc' = inc /\ reduce_like' = reduce_like
  BY DEF inputs, Steps, reduce_like, OpCode
<1>2. \A n, w : Decided(n, w)' = Decided(n, w)
  BY DecidedKept
<1>3. at' \in [Group -> {"start", "max", "inc", "nccl", "end", "exit"}]
      /\ \A s \in Group : at'[s] = IF s = r THEN a ELSE at[s]
  BY DEF WaysInvariant
<1> QED  BY <1>1, <1>2, <1>3 DEF WaysInvariant

\* A rank goes on to its next collective.
LEMMA FinishDecided ==
  ASSUME WaysInvariant, NEW r \in Group, UNCHANGED <<inputs, entered>>, Finish(r)
  PROVE  WaysInvariant'
<1>1. step \in [Group -> Steps]
  BY DEF WaysInvariant
<1>2. CASE step[r] + 1 \in Steps
  BY <1>1, <1>2, MoveDecided DEF Finish
<1>3. CASE step[r] + 1 \notin Steps
  BY <1>1, <1>3, MoveDecided DEF Finish
<1> QED  BY <1>2, <1>3

LEMMA WaysNext ==
  ASSUME WaysInvariant, [CollectiveNext]_collective_vars
  PROVE  WaysInvariant'
<1>1. CASE UNCHANGED collective_vars
  <2>1. UNCHANGED inputs /\ UNCHANGED <<api, root, inc, step, at, entered>>
        /\ Steps' = Steps /\ reduce_like' = reduce_like
    BY <1>1 DEF collective_vars, inputs, Steps, reduce_like, OpCode
  <2> QED  BY <2>1, DecidedKept DEF WaysInvariant
<1>2. step \in [Group -> Steps]
  BY DEF WaysInvariant
<1>3. ASSUME NEW r \in Group, Begin(r)
      PROVE  WaysInvariant'
  <2>1. CASE ~ inc
    <3>1. Decided(step[r], "nccl") /\ Enter(r, "nccl")
      BY <1>3, <2>1 DEF Begin, Decided
    <3> QED  BY <3>1, EnterDecided
  <2>2. CASE inc /\ ~ reduce_like
    <3>1. Decided(step[r], "inc") /\ Enter(r, "inc")
      BY <1>3, <2>2 DEF Begin, Decided
    <3> QED  BY <3>1, EnterDecided
  <2>3. CASE inc /\ reduce_like
    <3>1. at' = [at EXCEPT ![r] = "max"] /\ UNCHANGED <<inputs, step, tensor, entered>>
      BY <1>3, <2>3 DEF Begin
    <3> QED  BY <1>2, <2>3, <3>1, MoveDecided
  <2> QED  BY <2>1, <2>2, <2>3
<1>4. ASSUME NEW r \in Group, NEW class, Decides(r, class)
      PROVE  inc /\ reduce_like /\ \A s \in Group : max_abs(s, step[r]) = class
  BY <1>4, SameMax DEF Decides, WaysInvariant
<1>5. ASSUME NEW r \in Group, DecideInc(r)
      PROVE  WaysInvariant'
  <2>1. Decided(step[r], "inc")
    BY <1>4, <1>5 DEF DecideInc, Decided
  <2> QED  BY <1>5, <2>1, EnterDecided DEF DecideInc
<1>6. ASSUME NEW r \in Group, DecideFallback(r)
      PROVE  WaysInvariant'
  <2>1. Decided(step[r], "nccl")
    <3>1. CASE Decides(r, "nan")
      BY <1>4, <3>1 DEF Decided
    <3>2. CASE Decides(r, "tiny")
      BY <1>4, <3>2 DEF Decided
    <3> QED  BY <1>6, <3>1, <3>2 DEF DecideFallback
  <2> QED  BY <1>6, <2>1, EnterDecided DEF DecideFallback
<1>7. ASSUME NEW r \in Group, DecideZero(r)
      PROVE  WaysInvariant'
  BY <1>7, FinishDecided DEF DecideZero
<1>8. ASSUME NEW r \in Group, DecideExit(r)
      PROVE  WaysInvariant'
  <2>1. Decided(step[r], "exit")
    BY <1>4, <1>8 DEF DecideExit, Decided
  <2> QED  BY <1>2, <1>8, <2>1, MoveDecided DEF DecideExit
<1>9. ASSUME NEW r \in Group, LeaveInc(r)
      PROVE  WaysInvariant'
  BY <1>9, FinishDecided DEF LeaveInc
<1>10. ASSUME NEW r \in Group, LeaveNccl(r)
       PROVE  WaysInvariant'
  BY <1>10, FinishDecided DEF LeaveNccl
<1> QED  BY <1>1, <1>3, <1>5, <1>6, <1>7, <1>8, <1>9, <1>10 DEF CollectiveNext, Rank

\* Ranks never choose different ways, in any group and whatever the values are,
\* although each of them decides on its own.
THEOREM RanksAlwaysChooseAlike ==
  ASSUME MembersAssumption
  PROVE  CollectiveSpec => []RanksChooseAlike
<1>1. CollectiveInit => WaysInvariant
  BY WaysInit
<1>2. WaysInvariant /\ [CollectiveNext]_collective_vars => WaysInvariant'
  BY WaysNext
<1>3. WaysInvariant => RanksChooseAlike
  <2> SUFFICES ASSUME WaysInvariant PROVE RanksChooseAlike
    OBVIOUS
  <2>1. \A n \in Steps : \A e, f \in entered[n] : e.way = f.way
    BY OneWay DEF WaysInvariant
  <2>2. \A r \in Group : at[r] = "exit" => entered[step[r]] = {}
    <3> SUFFICES ASSUME NEW r \in Group, at[r] = "exit", NEW e \in entered[step[r]]
                 PROVE  FALSE
      OBVIOUS
    <3>1. step[r] \in Steps /\ Decided(step[r], "exit")
      BY DEF WaysInvariant
    <3>2. e.way \in {"inc", "nccl"} /\ Decided(step[r], e.way)
      BY <3>1 DEF WaysInvariant
    <3> QED  BY <3>1, <3>2, OneWay
  <2> QED  BY <2>1, <2>2 DEF RanksChooseAlike
<1> QED  BY <1>1, <1>2, <1>3, PTL DEF CollectiveSpec
=============================================================================
