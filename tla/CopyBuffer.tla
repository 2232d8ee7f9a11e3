----------------------------- MODULE CopyBuffer -----------------------------
(***************************************************************************)
(* The staging buffer in shared memory (server/frontend/src/c/common.hpp,  *)
(* copy_buffer_t) and the loop that fills it: post_collective_c cuts a     *)
(* tensor into segments, each of which gets a region of the buffer when    *)
(* one is copy_available; regions are freed in the order of allocation when     *)
(* their segment is complete, and the call returns when all are free.      *)
(*                                                                         *)
(* live is a history variable: the regions in use, which the code knows    *)
(* only as [tail, head).                                                   *)
(***************************************************************************)
EXTENDS Integers, Sequences

CONSTANTS
    Size,       \* SHM_COPY_BUFFER_SIZE
    Segment,    \* FRONTEND_SEGMENT_SIZE
    Calls,      \* the tensor sizes of the calls, in bytes
    OpBufferSize   \* QUEUE_SIZE

\* What is assumed of the constants.
SizeAssumption == Size \in Nat /\ Segment \in Nat \ {0} /\ 2 * Segment <= Size
CallsAssumption == Calls \subseteq Nat
OpBufferAssumption == OpBufferSize \in Nat \ {0}

\* Elements of tensors have 2, 4 or 8 bytes; broadcast and all_gather_into_tensor
\* accept other sizes, too.
EvenAssumption == Size % 2 = 0 /\ Segment % 2 = 0 /\ \A n \in Calls : n % 2 = 0

Idle == -1     \* no call
Posted == -2   \* the call has posted its last segment

VARIABLES
    fifo_head, fifo_tail,   \* head and tail: the allocated range is [tail, head), cyclically
    live,                   \* the regions in use, oldest first
    todo                    \* bytes the current call still has to post, Posted or Idle

buffer_vars == <<fifo_head, fifo_tail, live, todo>>

BufferInit ==
    /\ fifo_head = 0 /\ fifo_tail = 0
    /\ live = <<>>
    /\ todo = Idle

Larger(x, y) == IF x >= y THEN x ELSE y

\* Mutation of copy_available: one byte too many, which makes head meet tail.
copy_available_meet ==
    IF fifo_tail = 0 THEN Size - fifo_head
    ELSE IF fifo_head >= fifo_tail THEN Larger(Size + 1 - fifo_head, fifo_tail)
    ELSE fifo_tail - fifo_head

copy_available ==
    IF fifo_tail = 0 THEN Size - fifo_head
    ELSE IF fifo_head >= fifo_tail THEN Larger(Size + 1 - fifo_head, fifo_tail - 1)
    ELSE fifo_tail - 1 - fifo_head

\* A region that would cross the end of the buffer starts at its beginning.
Start(size) == IF fifo_head + size > Size + 1 THEN 0 ELSE fifo_head

copy_allocate(size) ==
    /\ fifo_head' = IF fifo_head + size = Size + 1 THEN 0 ELSE Start(size) + size
    /\ live' = Append(live, [addr |-> Start(size), size |-> size])
    /\ UNCHANGED fifo_tail

\* Where copy_free takes the region of the given size to start.
FreeStart(size) == IF fifo_tail + size > Size THEN 0 ELSE fifo_tail

copy_free(size) ==
    /\ fifo_tail' = FreeStart(size) + size
    /\ live' = Tail(live)
    /\ UNCHANGED fifo_head

-----------------------------------------------------------------------------
\* A collective is called; the one before has returned.
CallBegins(n) == todo = Idle /\ todo' = n /\ UNCHANGED <<fifo_head, fifo_tail, live>>

\* The last segment is what is left; a call with an empty tensor posts one, too.
SegmentSize == IF todo <= Segment THEN todo ELSE Segment

PostSegment ==
    /\ todo >= 0
    /\ Len(live) < OpBufferSize
    /\ copy_available >= SegmentSize
    /\ copy_allocate(SegmentSize)
    /\ todo' = IF todo <= Segment THEN Posted ELSE todo - Segment

\* destroy_op: the oldest segment is complete.
DestroyOp ==
    /\ live # <<>>
    /\ copy_free(Head(live).size)
    /\ UNCHANGED todo

\* The call returns when every segment has been destroyed.
CallEnds ==
    /\ todo = Posted /\ live = <<>>
    /\ todo' = Idle
    /\ UNCHANGED <<fifo_head, fifo_tail, live>>

BufferNext ==
    \/ \E n \in Calls : CallBegins(n)
    \/ PostSegment
    \/ DestroyOp
    \/ CallEnds

(***************************************************************************)
(* The loop of post_sub_collective polls until there is space, and every   *)
(* posted segment completes (OpPipeline).                                  *)
(***************************************************************************)
BufferFairness == WF_buffer_vars(PostSegment) /\ WF_buffer_vars(DestroyOp) /\ WF_buffer_vars(CallEnds)

BufferSpec == BufferInit /\ [][BufferNext]_buffer_vars /\ BufferFairness

-----------------------------------------------------------------------------
(***************************************************************************)
(* "head, tail is in range [0, SHM_COPY_BUFFER_SIZE]", and so are the      *)
(* regions.                                                                *)
(***************************************************************************)
TypeOK ==
    /\ fifo_head \in 0 .. Size
    /\ fifo_tail \in 0 .. Size
    /\ live \in Seq([addr : 0 .. Size, size : 0 .. Segment])
    /\ todo \in Nat \cup {Idle, Posted}

Bytes(x) == x.addr .. x.addr + x.size - 1

(***************************************************************************)
(* Regions in use lie in the buffer and do not overlap: no collective      *)
(* overwrites the data of another one.                                     *)
(***************************************************************************)
RegionsDisjoint ==
    \A i, j \in DOMAIN live :
        /\ Bytes(live[i]) \subseteq 0 .. Size
        /\ i # j => Bytes(live[i]) \cap Bytes(live[j]) = {}

(***************************************************************************)
(* The assertions of copy_free hold whenever the oldest region is freed.   *)
(***************************************************************************)
FifoFreeAsserts ==
    live # <<>> =>
        LET size == Head(live).size IN
        /\ fifo_tail + size > Size => fifo_head < fifo_tail
        /\ (fifo_head >= FreeStart(size)) = (fifo_head >= FreeStart(size) + size)

(***************************************************************************)
(* Every call returns: no segment waits forever for space, wherever head   *)
(* and tail were left by the calls before.                                 *)
(***************************************************************************)
PostingReturns == (todo # Idle) ~> (todo = Idle)

(***************************************************************************)
(* The copy buffer is consistent: head and tail stay in range, regions in  *)
(* use lie in the buffer and do not overlap, and the assertions of         *)
(* copy_free hold.                                                         *)
(***************************************************************************)
BufferConsistent == TypeOK /\ RegionsDisjoint /\ FifoFreeAsserts

-----------------------------------------------------------------------------
\* Where a region ends.
End(x) == x.addr + x.size

\* Region y comes next after address e: there, or at the beginning of the buffer
\* when it would have crossed the end.
Follows(e, y) == y.addr = e \/ (y.addr = 0 /\ e + y.size > Size)

\* Region x, older than y, lies below it, or y was allocated after the wrap and x
\* before it.
After(x, y, t) ==
    /\ x.addr < t => y.addr < t
    /\ End(x) <= y.addr \/ (y.addr < t /\ t <= x.addr)

\* Regions l follow each other from t to h: those from before the wrap lie above
\* t, those from after it below h.
Arranged(l, h, t) ==
    /\ \A i \in 1 .. Len(l) : End(l[i]) <= Size
    /\ \A i, j \in 1 .. Len(l) :
         i < j => After(l[i], l[j], t)
    /\ \A i \in 1 .. Len(l) : l[i].addr < t => h < t
    /\ \A i \in 1 .. Len(l) : h >= t \/ l[i].addr < t => End(l[i]) <= h
    /\ l = <<>> => h = t
    /\ l # <<>> => /\ Follows(t, l[1])
                   /\ h = End(l[Len(l)])
                   /\ h < t => l[Len(l)].addr < t
    /\ \A i \in 1 .. Len(l) - 1 : Follows(End(l[i]), l[i + 1])

(***************************************************************************)
(* The inductive invariant.  As all sizes are even, copy_allocate and      *)
(* copy_free, whose conditions differ by one byte, agree on where a region *)
(* wraps.                                                                  *)
(***************************************************************************)
BufInv ==
    /\ TypeOK
    /\ fifo_head % 2 = 0 /\ (todo >= 0 => todo % 2 = 0)
    /\ Arranged(live, fifo_head, fifo_tail)
=============================================================================
