# NetCCL: a TLA+ model of in-network collective communication

NetCCL replaces `torch.distributed` collectives by operations that a P4 switch
computes while packets pass through it.  This directory holds a TLA+ development
of it: modules that model the code, TLC configurations that check them on small
instances, and TLAPS proofs, for every instance, of the central protocol, of the
groups that share its aggregators, of the headers on the path of a packet, of the
worker thread and the bytes it sends and receives, of the buffers towards the NIC, of the congestion
window, of the copy buffer, of start-up and shut-down, of the pipeline of operations, of the
calls of the Python layer and of the switch controller.

## 1. The system

| Part | Code | State | Operations |
|---|---|---|---|
| Python frontend | `server/frontend/src/py/__init__.py` | group contexts, ids of created groups | `all_reduce`, `reduce`, `broadcast`, `reduce_scatter_tensor`, `all_gather_into_tensor`, each by `call_collective`; group creation; exit handler |
| C library, Python thread | `server/frontend/src/c/api.cpp`, `common.hpp` | copy buffer, op buffer, queue pair to the daemon | cut a call into segments, allocate, post, destroy, wait until all are done |
| Daemon thread | `server/frontend/src/c/daemon.cpp` | which copies have been started | copy to host memory and post; copy back and complete |
| Load balancer | `server/backend/load_balancer.cpp` | queue pairs to the workers | split an operation over the workers, join the parts |
| Worker thread | `server/backend/worker.cpp`, `common.hpp` | ring of packet slots, `left_psn`/`right_psn`, PSN per group, current group, timer | receive, acknowledge, fast and full retransmission, generate and send |
| Congestion control | `server/backend/worker.cpp` | `cwnd`, target, step counter, time stamps | decrease on marks, fast recovery, additive increase, timeout |
| NIC queue buffers | `server/backend/process_buffer.hpp` | packets not yet given to or taken from DPDK, flush timer | send, receive, flush |
| Start-up and shut-down | `api.cpp`, `daemon.cpp`, `__init__.py`, `server/backend/main.cpp` | shared memory by name, threads of a process, backend | init, finalize, exit handler, start of the backend |
| Switch data plane | `switch/*.p4` | per aggregator: version, bitmap, two words of the running sum per register pair; recirculation queue | parsers, pass 1 (aggregate), pass 2 (read the rest, multicast or unicast), egress (restore addresses, remove payload, ECN mark) |
| Switch controller | `switch/bfrt_grpc.py`, `grpc/netccl.proto` | free groups, nodes, memory segments, port counters, undo lists, tables | `CreateGroup`, `DestroyGroup`, `Init`, `Stop` |

Interaction.  A call goes Python thread -> (queue pair `py_qp`) -> daemon thread ->
(queue pair in shared memory) -> load balancer -> (one queue pair per worker) ->
workers -> NIC -> switch, and completions come back through the same queue pairs.
Every queue pair has one requester and one responder.  Worker *i* of all ranks of a
group and the aggregators assigned to *i* form an independent *stream*: the same
sequence of packets from every rank, numbered by PSN, each directed to aggregator
`psn % agg_len`.  A rank's window may cover half of the aggregators.  The switch
answers a packet when all ranks have sent it; there are no other acknowledgements.
The controller is called by the first rank of a group only.  The backend is
started together with a job, so that PSNs begin with 0 in every group.

What is hard:

* *loss and retransmission*: a packet, the recirculated packet or any single copy of
  the multicast response may be lost; a sender cannot tell which, and the switch
  must neither add a rank twice nor forget a sum that somebody still lacks;
* *reuse*: ranks are up to a window apart, an aggregator is overwritten by the first
  packet that has another version, without asking;
* *two passes*: a sum is read in two register accesses with other packets between;
* *wrap-around*: PSNs (32 bits), versions (24 bits), ring positions and buffer
  offsets all wrap, at different places;
* *threads*: five kinds of threads hand pointers into two ring buffers to each other,
  CUDA streams run besides them;
* *agreement without communication*: every rank decides by itself whether a
  collective uses the switch, NCCL or nothing.

`PROJECT.json` lists these hazards line by line, with the properties that cover them.

## 2. Modules

```
Collective --- what an operation is; data as bags of contributions
   |-- ReduceSpec            what a stream promises (abstract specification)
   `-- Links                 lossy FIFO links, PSN and aggregator of a packet
         |-- Switch          pass 1, pass 2, egress, losses
         `-- Window          windows of all ranks, one action per loop iteration
               NetReduce = Switch + Window   (properties, inductive invariant)
                 |-- EvenSplit               agg_len divides the PSN space
                 |     |-- NetReduceProofs           the invariant, and the refinement of ReduceSpec
                 |-- NetReduceLive           bounded losses, fairness
GroupLifecycle     groups come and go while packets flow: frontend + controller + switch -- GroupLifecycleProofs
PacketPath         headers of a packet: worker, parsers, tables, egress, NIC rules, receiver -- PathProofs
Worker             one worker thread as it is coded: ring, 32-bit PSNs, groups -- WorkerProofs
Payload            the bytes of an operation: split, packets, byte order, receiving in place -- WorkerProofs
Quantize           FP32 values to INT32 and back, saturating sums
NicBuffer          process_buffer.hpp and the NIC's rings        -- SharedMemoryProofs
CongestionControl  cwnd, driven by the worker's loop             -- PathProofs
CopyBuffer         the copy buffer and the segmentation loop     -- SharedMemoryProofs
OpPipeline         Python thread, daemon, CUDA, load balancer, workers of one server -- OpPipelineProofs
Startup            shared memory, threads and backend over several programs -- SharedMemoryProofs
Controller         CreateGroup, DestroyGroup, Init               -- ControllerProofs
Collectives        call_collective on all ranks of a group       -- OpPipelineProofs
Arithmetic         lemmas on division with remainder, least numbers, recursion and finite sums, used by most of the proofs
MCNetReduce, MCNetReduceLive, MCPacketPath      instances of one specification
MCWorker    = Worker | Payload | Quantize                    instances of several that do not interact:
MCServer    = OpPipeline | CopyBuffer | Startup | Collectives    a behaviour runs one of them
MCGroups    = GroupLifecycle | Controller
MCSending   = NicBuffer | CongestionControl
MCUnevenSplit, MCCopyBuffer, MCCollectives, MCGroupLifecycle, MCStartup    the findings of section 5
```

Each module follows one piece of state through all the code that touches it; what
another module covers is left open, so that every one of its choices is possible.

**Collective, Links, Switch, Window, NetReduce.**  A payload word is the bag of the
`<<rank, packet>>` summed in it, so that a rank counted twice, a rank missing and a
mixture of packets are all different from the right result.  `reg_bitmap`,
`aggregator_array` and `recirc` are the registers and the recirculation queue; the
operators of `Switch` are named after the actions and metadata of `ingress.p4`,
`aggregator.p4`, `forward.p4` and `egress.p4`.  `left`, `next` and `acked` are the window of
`worker.cpp` in terms of packet numbers; `mem` is the receive buffer.  `RxAccept`,
`RxRedundant`, `TxProcess` and `Timeout` are iterations of `worker_loop`; time and `cwnd`
are left open, so every congestion-control decision is covered.  A register pair
stands for the 32 pairs of the payload, which are accessed alike.  Packets are
numbered without a bound, and only `psn(p) = p % PsnSpace` is carried: aggregator and
version are computed from it as in the code.  Sums are exact here; `Quantize` has the
saturation.

**GroupLifecycle** puts the controller's requests, the frontend's group setup and exit,
and the data plane together.  `CreateGroup` and `DestroyGroup` are sequences of driver
calls (`CreateSteps`, `DestroySteps`) between which packets are processed; the data plane looks
up `entries` for every packet and, like `ingress.p4`, writes bitmap and aggregator whether it
finds them or not.  Two jobs share one segment, so that the second gets it when the
first is destroyed, or no group at all when it asks too early.  The jobs are numbered in the order in which they ask.
As in the code, nobody waits for anybody at the end: rank 0 destroys the group when its own process exits
(`exit_handler`), while other ranks may lack their last response, and the controller gives the memory away while packets
of the old group may still be on their way.  Two history variables, which nothing in the code corresponds to, record whether that
happened: `tenant` is the job the registers were reset for last, and `late[j]` the jobs that were unfinished
when they were reset for `j`.  `Undisturbed(j)` says that `j` has never shared its aggregators in this way.

**PacketPath** has the headers: what `fill_pkt` and the prefilled slots send, what the ingress
parser recognises and skips (short frames are padded by the hardware, and `alloc_payload`
advances over the padding), the internal header of recirculating packets, forwarding, the
restoring tables, removal of the payload, ECN marking, the flow rules of the NIC, and the
length check of `rx_process_one`.  Lengths are the real ones.  Frames of other protocols take the
same pipelines.  `EgressChecksum` (`egress.p4`) writes the IP checksum of every IP frame anew, from the 20 bytes of
the header without options; the checksum is modelled by what it has been computed over.

**Worker** takes up what `Window` abstracts: ring positions, PSN comparison modulo
2^32 (`get_position`), one window shared by several groups, `gen_pkt`'s static
variables, the local `to_send` of `shift_send`, completion of sub-operations.
Responses come in any order, repeatedly, late or never; that they are not later than
`AggLen` packets is a consequence of `NetReduce`.

**Payload** and **Quantize** are about the data that the other modules abstract.  `Payload` has bytes:
`try_post_op` of the load balancer gives every worker a part, `gen_pkt` cuts it into packets, `fill_pkt` swaps the bytes of words that are
to be added, `rx_process_one` writes results over the same buffer while later packets are still to be read
from it.  `Quantize` has numbers: floating-point values with `P` bits of significand
and integers with `W` bits in place of 24 and 32, with rounding to nearest at every operation
where the code rounds.

**NicBuffer** has `queue_process_buffer`, with the pointers to slot buffers that it holds, the ring of the
NIC behind it, and as much of the window as decides when a slot is filled again.  The
NIC may take any part of a burst.  **CongestionControl** has `cc_t`, `adjust_rate`, `congestion_control` and
`full_retrans` in the order `worker_loop` calls them; `cwnd` is in fractions of a packet, time
stamps are ages up to the limit they are compared with (so that the wrap of 32-bit time stamps is
left out), and the loss ratio, which only chooses how far `cwnd` falls, is left open.

**CopyBuffer** has the arithmetic of `copy_buffer_t` and the loop of
`post_collective_c`; the regions in use are a history variable.

**OpPipeline** has all handlers that move an operation.  An operation is known by
its place in the op buffer, and handlers that dereference the pointer read `buffer`,
so that an early reuse would be seen.  Memory contents are `raw`, `input`, `output`.
CUDA streams are FIFO queues; a kernel may be running in the caller's stream when
the collective is called.  For a zero-length operation (barrier) the model copies
where the code does not; the events it waits for are the same.

**Startup** has init, finalize and the exit handler step by step, the shared memory that has the
name `netccl` or has lost it, and the backend.  A program has any non-empty set of ranks on the server, all of which use
the same name.  Programs may be killed at any point.
The user follows `README.md`: the program first, then the backend, and a new one for every program.

**Controller** has the allocator `fit_seg`/`alloc_seg`/`free_seg`, id lists, port counters
and tables.  The gRPC server has one thread, hence a request is one action; a creation
may fail between two of its driver calls, which leaves what it has taken
without an undo list (`leaked`).  `Kill` is a job that
ends without its exit handler; `Reinit` is `grpc_ctl.py init`, which we assume an
operator to use only when no job runs.  `free_seg` is modelled with its index as it
is: when both neighbours of the freed segment are free, the upper one stays
unmerged.  Since all requests have the same size this costs nothing
(`NoFragmentation`); it would if groups could ask for different sizes, as the
commented-out `MemorySize` suggests.

**Collectives** runs `call_collective` on all ranks; the values of a tensor are
abstracted to the class of the largest one (zero, too small for the factor, ordinary,
two of them overflow, infinite, NAN).

## 3. What TLC checks

| Run | Instance | States | Properties |
|---|---|---|---|
| `net_reduce` | 2 ranks, 6 packets, 4 aggregators (window 2), PSN space 8 | 289 k | `IInv` (the invariant of the proofs, with its `TypeOK`), `ResultCorrect`, `NoTornRead`, `LostResponseRecoverable`, `AggregatorReuse`, `ImplementsPromise` (refinement of `ReduceSpec`) |
| `net_reduce_live` | 2 ranks, 6 packets, 2 aggregators (window 1), PSN space and versions 4, 3 losses | 40 k | `EveryPacketAnswered`, `ImplementsPromise`, no deadlock |
| `groups` | `GroupLifecycle`: 2 jobs of 2 ranks, 2 packets, one segment of 2 aggregators | 80 k | `ResultsOwn`, `SharedOnlyWithLate`, `JobsReturn` |
| | `Controller`: 3 group ids, 7 nodes, room for 3 segments, 4 creations, 1 failure | 495 k | `ResourcesConserved` (`MemoryPartition`, `IdsConserved` and `PortsCounted`), `SwitchMatches` (`TablesMatch` and `VersionsOwn`), `NoFragmentation` |
| `packet_path` | 3 servers; 3 operations with a drop, 2 groups sharing a server, 1 group among ARP and TCP, a frame with IP options | 70 k | `NoLengthError`, `RightAddressee`, `OthersUntouched`, `EveryRankAnswered` |
| `worker` | `Worker`: 2 groups, ring of 4, PSN space 5, 3 sub-operations of up to 3 packets | 493 k | `UnackedFound`, `NoStrayWrite`, `CompletionInOrder`, `WindowOfOneGroup` (`OneGroup` and `SwitchLimit`) |
| | `Payload`: 2 ranks, up to 13 bytes in words of 2 and packets of 4, up to 3 workers | 40 k | `BytesRight` (`EveryByteRight` and `NextOperationIntact`) |
| | `Quantize`: 3 ranks, P = 3, W = 7, magnitudes up to 12 | 1.28 M | `ResultClose` |
| `sending` | `NicBuffer`: ring of 5, window of 2, buffer of 2, NIC ring of 1, 6 packets | 99 k | `IntactUntilSent`, `FirstInFirstOut`, `EverySendLeaves` |
| | `CongestionControl`: ring of 12, limit 5, half packets, 2 fast recovery steps | 111 k | `CwndBounds`, `AdjustCntBounded`, `CwndRecovers` |
| `server` | `OpPipeline`: 2 calls of 1 or 4 segments, queues of 3, 2 workers | 37 k | `NothingDropped`, `OperationsNotMixed` (`PlacesStable` and `SameOperation`), `WorkerSendsInput`, `ResultDelivered`, `CallsReturn` |
| | `CopyBuffer`: buffer 24, segment 6, sizes in words | 735 | `BufferConsistent` (`TypeOK`, `RegionsDisjoint` and `FifoFreeAsserts`), `CallsReturn` |
| | `Startup`: up to 2 ranks, 2 programs | 21 k | `StartAndStopSafe` (`NameFree` and `DaemonMapped`), `EveryCallServed` |
| | `Collectives`: group `<<0, 1>>`, all APIs, all classes | 84 k | `ResultAsPromised`, `RanksAgree` |
| `uneven_split` | 3 aggregators, PSN space 4 | violation | `UnevenSplitAllowed` |
| `copy_buffer_bytes` | as above, any size | violation | `AnySizeFreed` |
| `collectives_subgroup` | group `<<1, 2>>` | violation | `SubgroupResult` |
| `group_sharing` | `GroupLifecycle` as above | violation | `NoImplicitSharing` |
| `local_ranks` | `Startup`: up to 2 ranks, 1 program | violation | `EveryLocalRankServed` |

`MCWorker`, `MCServer`, `MCGroups` and `MCSending` check several specifications in one run: a variable `part` chooses which of
them runs, and the others stay in one of their initial states.  The parts do not interact, so the
states add up and do not multiply, and a property of one part is checked in all of its behaviours.

Why these bounds are enough to be interesting.  In the reduction runs every
aggregator is used at least twice (6 packets over 4 aggregators, or 6 over 2); in `net_reduce_live` PSNs and
versions start again after 4 packets, so that a version is used a second time in the same aggregator.  Queues hold
more than a window so that retransmissions pile up, and with two packets per window fast retransmission
happens.  The caps `UpCap`, `DownCap` and `RecircCap` only make queues finite: a full queue makes its
sender wait; the proofs hold for every cap, every number of ranks and any length of the stream.  In
`GroupLifecycle` both packets of the second job meet aggregators that the first one has left
in use, with or without packets of the first on their way; the first one may also wait for ever for a response.  In `PacketPath` the last sender has a payload in some operations and none in others, and
the shared server has different ranks in its two groups.  In `Startup` two ranks are enough for one to take the name from the other,
and two programs for one to find what a killed one has left.  In `Worker` the ring and the PSN space wrap at different
places (4 and 5), and nine packets go around both.  In `Payload` every remainder of sizes by words, packets and workers
occurs, also parts without any byte.  In `Quantize` the magnitudes include ones whose sum, factor and
products all round up.  In `NicBuffer` the ring has exactly the
slots `RoomAssumption` asks for, and is gone round.  In `OpPipeline` a call has more
segments than the queues have places, so that places are reused within a call.
In `Controller` there are fewer ids, nodes and segments than
creations ask for, so that requests are refused and everything is reused.  In
`CopyBuffer` the buffer holds four segments, so that the end of the buffer
is met at every offset that words can reach.

Deadlock checking is off where a run, or a part of it, ends because its bound on calls, packets or
creations is reached; `net_reduce_live` has it on.

Fairness.  All threads poll in endless loops and the switch processes what it
receives, so every handler is weakly fair.

* `NetReduceLive`: losses are
  finite in number; `Timeout` is fair because `tx_process` runs in every iteration and
  an unacknowledged window lets the timer expire; an empty window sends because
  `cwnd >= CC_CWND_MIN` (`CwndBounds`).  Accepting a response and pass 1 are strongly fair, since
  filling a *capped* queue may disable them again and again, which unbounded queues
  of the hardware would not.
* `GroupLifecycle`: the requests and their steps go on (`WF_vars(Control)`, of which a behaviour has finitely many); the same as
  above for pass 1 and pass 2; receiving is strongly fair, that is, of the responses that are
  sent again and again one is not lost (`DataFairness`).
* `NicBuffer`: the worker calls `receive` in every iteration and the NIC sends; a flush that is possible again and again,
  because the NIC has sent something, takes packets at some time (strong fairness).
* `CongestionControl`: the loop goes on.  `CwndRecovers` is claimed from the moment the network is `calm`:
  it marks and loses nothing, and `cwnd` is what limits the stream.
* `PacketPath`: senders retransmit, the switch goes on with the frames of every sender, and drops are bounded.  A
  timeout is longer than the packet's own way through the switch.
* `Startup`: threads and the load balancer run, and the user starts a backend for the program.  Nobody has to
  call, exit or kill.
* `OpPipeline` assumes of workers what `NetReduceLive` shows, `CopyBuffer` of segments what `OpPipeline` shows.

## 4. What is proved

### The reduction protocol

`NetReduceProofs` proves, for every finite set of ranks, every stream of
operations, every number of aggregators of at least 2 and every bound on queues:

| Theorem | Statement |
|---|---|
| `Invariance` | `Spec => []IInv` |
| `TypeCorrect` | `Spec => []TypeOK`: no word ever counts a rank twice or mixes packets |
| `Correctness` | `Spec => []ResultCorrect`: what a rank stores is the sum over the group |
| `PassesConsistent` | `Spec => []NoTornRead` |
| `Recoverable` | `Spec => []LostResponseRecoverable` |
| `ReuseIsSafe` | `Spec => AggregatorReuse` |
| `Refinement` | `Spec => ImplementsPromise`, that is, `NetReduce` implements `ReduceSpec` |

Assumptions: the named `ASSUME`s of `Collective`, `Links`, `Switch` and `EvenSplit`.  The ones with
content are `VersionSpace > AggLen` (2^24 versions, at most 1024 aggregators), `PsnSpace % VersionSpace
= 0`, and `PsnSpace % AggLen = 0` (`EvenSplit`); the last is what `uneven_split` shows to be necessary.
FIFO links are part of the model.

The argument.  `ResultCorrect` alone is not inductive: it has to be known that an
aggregator is never taken over too early, and that no old packet is left to disturb a
new one.  Both follow from the window limit `L = AggLen \div 2` and from FIFO order, which
`IInv` expresses with `Passed(r, q)`: rank `r` has sent `q`, and everything of `r` still on its way up is
newer than `q - L`.

* `WindowOK`, `UpOK`: packets following a packet `p` on one link are newer than `p - L`, because
  a rank sends nothing older than its window.
* `CellOK`: an aggregator held by `q` has the sum of exactly the ranks of its bitmap, all of which have
  passed `q`.
* `RecircOK`, `DownOK`, `AckedOK`: a packet that recirculates, is answered or has been accepted was
  passed by all ranks; and its sum is in the aggregator unless all ranks have accepted it.
* When packet `p` arrives (lemma `Arrival`), either its aggregator is already its own (`Joins`), or the
  holder is `p - AggLen` (`Replaces`): then rank `r`'s window is beyond `p - AggLen + L`, and since
  nobody can be answered `p - L` before everyone has sent it, all ranks have accepted
  `p - AggLen`.  It cannot be a newer holder, since `r` would then have passed it.
* The version is different exactly in the second case (`VersionsDiffer`, from the arithmetic lemmas
  `SameRemainder` and `ModMod`), so that the switch, which sees only versions, decides correctly.

The refinement mapping: `sent` is what lies below `next`, `done` is what has been
acknowledged, `mem` is itself.  Iterations that accept a response are `Deliver`, possibly
together with `Send`; steps of the switch, and losses, are stuttering.

### Groups that share the aggregators

`GroupLifecycleProofs` proves, for any jobs and ranks, any number of packets and any bounds on the links:

| Theorem | Statement |
|---|---|
| `LifecycleInvariant` | `Spec => []IInv` |
| `ResultsOwnAlways` | `Spec => []ResultsOwn`: results of a job that is `Undisturbed` are sums over the ranks of that job |
| `SharedOnlyWithLateAlways` | `Spec => []SharedOnlyWithLate`: versions of other jobs in the aggregators of a group come only from jobs in its `late` |

The only assumption is `LifecycleAssumption` (finitely many jobs and ranks, rank 0 among them; the segment has two aggregators, that is, a window of
one packet).  Nothing is assumed of when ranks exit or packets arrive: what the code does not exclude is the case
`late # {}`, in which the first theorem of the two says nothing, the second says with whom, and finding `group_sharing` shows what happens.

Neither property says who may still send to the aggregators of a group, nor what is in flight.  `IInv` does:

* `ControlOK`: the controller has one thread and memory for one group, hence at most one job is *live*, that is, has its group while its
  rank 0 has not exited.  While it lives no request is in progress, and all its table entries exist.
* `HostsOK`, `LinksOK`: a job without a group has sent nothing, and packets carry the group of their job.  Rank 0 of a job whose group
  is destroyed has all its results.
* `TenantOK`: a live job is the `tenant`, and its registers were clean when they were handed out if nobody was late.
* `TrafficOK`: a job that is not finished is the tenant or in its `late`.  A job that was finished at the reset stays so: it sends nothing after its last
  response, and its packets have left the network.  Hence the versions in the registers are of these jobs too (`VersionsOK`).
* `ReductionOK`: if the tenant has met nobody, either nothing has reached the aggregators (`Fresh`), or there is a last packet `M` that has
  been begun (`Running`): its aggregator has the sum of the ranks that have sent it, and the other one still has the complete sum of `M - 1`, since
  no rank can be two packets ahead of another.

That rank 0 leaves early does no harm to the sums of its own job: it has its last response, so `M` is the last packet and complete, and a rank that is
left behind can only get the right sum or none.

### The path of a packet

`PathProofs` proves, for any groups, operations, roots, workers, losses and congestion, and any other traffic:

| Theorem | Statement |
|---|---|
| `PathInvariant` | `Spec => []IInv` |
| `NoLengthErrorAlways` | `Spec => []NoLengthError`: `rx_process_one` finds the length it expects |
| `RightAddresseeAlways` | `Spec => []RightAddressee`: a response reaches the server and the queue of the rank it names |
| `OthersUntouchedAlways` | `Spec => []OthersUntouched`: other frames leave as they came but for ECN mark and IP checksum; the checksum is left alone where there is none, and right in every IP frame without options |

Assumptions: `PathAssumption` (the ranks of a group are on different servers, groups with the same worker share none, a worker's number fits the six bits
of the DSCP), `ConfigAssumption` (members are servers, operations have one of the three codes), `OthersAssumption` (other frames come from
a server, and have every header that a frame can have here; headers that a frame does not have are not looked at).

`NoLengthError` depends on every stage before it: the parser tells by the IP length whether a payload was sent, a short frame has been padded to 60
bytes, `alloc_payload` advances over the padding, and egress removes what the last sender's role made necessary but the receiver's does not.
`IInv` follows a frame through these stages: wherever it is, it is the one that its stream, rank and packet determine, up to the congestion
mark.  As sent it has 60 or 300 bytes on the wire (`SentFrame`); inside the switch it has its payload, and is directed to the sender (`Inside`), in pass 1 with the
length it came with, in pass 2 with 302 bytes when it arrives and 300 after the internal header is gone; as delivered its addresses are those of the
restoring tables, and its length is 300 or 60, depending on the *receiver's* role (`ResultFrame`).
`Asked` says who has sent a packet, so that nobody gets an answer to a packet it has not sent.

### The worker thread

`WorkerProofs` proves, for every set of groups, every length of the ring, every PSN space and any sub-operations:

| Theorem | Statement |
|---|---|
| `WorkerInvariant` | `Spec => []WInv` |
| `PacketsAreFound` | `Spec => []UnackedFound` |
| `NoResponseStrays` | `Spec => []NoStrayWrite` |
| `CompletesInOrder` | `Spec => []CompletionInOrder` |
| `WindowIsOfOneGroup` | `Spec => []WindowOfOneGroup` |

Assumptions: `AggLen` and `MaxWinLen` are below `PsnSpace` (1024 and 2^32), and `CC_CWND_MIN` is at most half of `AggLen`.  Two more are part of
the model: a response is not later than `AggLen` packets (`Fresh`, from the FIFO links of `NetReduce`), and calls of different groups
do not overlap (`Drained`).

The code keeps positions and PSNs, both of which wrap; the properties are about packets and sub-operations, which it does not keep.  `WInv` says that
there are numbers that explain its state: the window is the `n` packets from `base` on, `m` sub-operations are complete,
`t` sent and `e` begun, and sub-operation `k` starts with packet `st[k]`.  Then

* `Window`: slot `k` of the window holds packet `base + k`, its last-flag is right, and `left_psn`, `right_psn` are the PSNs of the
  first and the last one.  Two packets that are less than `PsnSpace` apart are told apart by their PSNs (`PsnDistance`); together with `Wire`,
  that responses on their way are to the last `AggLen` packets, `get_position` finds a response's own slot or none (`AnswersItsSlot`).
* `Streams`, `Responses`: the packets of different sub-operations are disjoint intervals, and the stored responses of each are those
  below `base` or acknowledged.  When the window moves over `d` packets, the last-flags among them belong to exactly the sub-operations that
  end there (`LastSlotsCount`), and since `shift_ack` visits them in the order of the ring, they are completed in the order of posting (`DoneIs`,
  `StrictlyIncreasing`).
* `Queues`, `Generator`: sub-operations that are not complete are of one group, hence the next packet continues the window, or the window is
  empty and begins anew with the PSN of the new group (`ReadyToContinue`, `ReadyToStart`).

### The bytes of an operation

`WorkerProofs` also proves, for every operation and size, every number of workers and ranks, any size of words and packets, and any content of
the buffers (`PayloadAssumption`: a packet has whole words, and the sum of the ranks' words fits a word):

| Theorem | Statement |
|---|---|
| `BytesAlwaysRight` | `PayloadSpec => []BytesRight`: when all responses are there every byte is what the operation promises, and no byte behind the operation is ever written |

First the layout.  The part of worker `i` starts at `(i * q + min(i, m)) * WordSize`, where `q` and `m` are quotient and remainder of the number of words
(`OffsetIs`), hence the parts lie one after the other and end with the operation (`PartsLaid`); the packets of a part do the same, hence each byte
of the operation is in exactly one packet (`PacketsDisjoint`, `PacketsCover`), and a packet of numbers begins and ends with a word (`Aligned`).
`PayloadInv` then says what a byte of the buffer is at any time (`Now`): the rank's own, until the response with this byte has been
processed.  So a packet that is filled late still finds the rank's own bytes, although its neighbours have been overwritten (`FilledInTime`), and
the response has the sum of what the host means by them: `htobe32` turns the bytes of a word within the word (`WordTurned`), and ranks that have
nothing to send contribute zeros (`SumRight`, with `SumWithoutZeros` of `Arithmetic`); in a broadcast the sum is the root's packet byte by byte
(`CopyRight`, with `DigitOfNumber`).

### The NIC buffers

`SharedMemoryProofs` proves, for all sizes of ring, window, buffer and NIC ring with `InFlight + TxSize + NbTxd <= SlotCount`
(`RoomAssumption`; in the code 512 + 32 + 64 <= 1024, where 512 comes from the controller's `ALLOC_SIZE`):

| Theorem | Statement |
|---|---|
| `NicInvariant` | `NicSpec => []NicInv` |
| `BuffersIntact` | `NicSpec => []IntactUntilSent`: a slot is never filled again while a pointer to it is queued |
| `QueueIsFifo` | `NicSpec => FirstInFirstOut`: whatever part of a burst the NIC takes, nothing is lost, doubled or overtaken |

`IntactUntilSent` is not inductive: the worker does not know what is queued.  `NicInv` bounds the age of a
queued packet (how many packets were first sent since) by `InFlight` plus the number of packets queued
behind it: it was in the window when it was queued, and every newer packet has been put behind it.
Hence the oldest is at most `InFlight + TxSize + NbTxd` old, and slots are reused at age `SlotCount` (`SlotsApart`).

### The congestion window

`PathProofs` also proves, for all parameters with `GapAssumption`:

| Theorem | Statement |
|---|---|
| `CcInvariant` | `CcSpec => []CcInv` |
| `CwndStaysInBounds` | `CcSpec => []CwndBounds`: the window is never closed and never longer than the ring |
| `AdjustCntStaysBounded` | `CcSpec => []AdjustCntBounded`: the counter of increases cannot overflow |

The upper bound is not enforced anywhere in the code (the assertion in `shift_send` is commented out): it holds
because `cwnd` only grows while the window achieves it, that is, up to `WinLimit`, and because
an increase that starts below it goes half of the way to the target.  `CcInv` says how far the target can be: `Gap[k]` with `k` steps of fast recovery to
go, which halves with every step.  `GapAssumption` is satisfied by the constants of the code: 1023 / 32 + 513 + `CC_AI` < 1023.

### The copy buffer

`SharedMemoryProofs` also proves, for every buffer of at least two segments:

| Theorem | Statement |
|---|---|
| `BufferSafe` | `BufferSpec => []BufferConsistent`: regions in use do not overlap, and the assertions of `fifo_free` hold |
| `EmptyBufferFits` | when everything has been freed the next segment fits, wherever `head` and `tail` were left |

Both need `EvenAssumption`, that is, that buffer, segments and tensors have even sizes; finding `copy_buffer_bytes` is
the reason.  The code knows the regions only as `[tail, head)`.  `BufInv` says where each of them lies (`Arranged`): they
follow each other without gaps up to a single place where one of them did not fit before the end and starts at 0;
those after this place end below `tail`.  Evenness excludes the one value of `head`, `Size + 1`, at which
allocation and release decide differently.

### Start-up and shut-down

`SharedMemoryProofs` proves, for any number of programs and of ranks on the server, any of which may be killed at any point:

| Theorem | Statement |
|---|---|
| `StartupInvariant` | `StartupSpec => []StartupInv` |
| `DaemonAlwaysMapped` | `StartupSpec => []DaemonMapped`: the daemon thread is gone before its memory is unmapped |
| `StartsAndStopsSafely` | `StartupSpec => []StartAndStopSafe`: moreover, only another rank of the same program can make `init` fail, nothing an earlier program has left |

`StartupInv` says what the step that a process is in tells about its segment and its daemon thread (`MappedAt`, `DaemonAt`), and that between
`remove` and `create` nobody takes the name but another rank of the program (`NameFree`).  With several ranks one of them does (finding `local_ranks`).

### The pipeline of operations

`OpPipelineProofs` proves, for every number of workers, every `QUEUE_SIZE` and any calls (`PipelineAssumption` has only the types):

| Theorem | Statement |
|---|---|
| `PipeInvariant` | `Spec => []PipeInv` |
| `NoQueueOverflows` | `Spec => []NothingDropped`: the load balancer ignores the result of `push_req`, and may |
| `PointersLeadToTheirOperations` | `Spec => []OperationsNotMixed` |
| `WorkersSendTheTensor` | `Spec => []WorkerSendsInput` |
| `CallsReturnTheirResult` | `Spec => []ResultDelivered` |

None of the four properties mentions the order of the queues, and all depend on it.  `PipeInv` states it: every
queue holds a run of consecutive operations, and the runs are adjacent, from the completions that the Python thread has not
fetched to the operation it has posted last.  Five boundaries, and two for each worker, describe all queues (`Layout`).  The runs
together are not longer than the op buffer, hence no queue overflows and no record is reused while a pointer to it is
queued; and the boundaries tell for each operation what the tensor and the copy buffer hold.

### The Python layer

`OpPipelineProofs` also proves, for any group and any values, whatever the order in which the ranks come:

| Theorem | Statement |
|---|---|
| `CallsReturnPromised` | `RootsMatch` implies `CollectiveSpec => []ResultAsPromised`: every rank gets what `torch.distributed` promises, on each of the ways a call may take |
| `WorldCallsReturnPromised` | the same in the group of all ranks, where `RootsMatch` holds |
| `RanksAlwaysChooseAlike` | two ranks never enter a collective on different ways, and none enters one at which another exits |

Assumptions: `MembersAssumption` (a group has different ranks, at least two) and, for results, `RootsMatch`: the call is not `reduce` or
`reduce_scatter_tensor`, or ranks have the same number in the group as in the world.  Without it they are wrong, which is finding `collectives_subgroup`.

There is no communication by which ranks agree on a way: each decides from the sum of the largest values, its device and its arguments.
`WaysInvariant` says that what has been decided (`Decided`) is a function of what all ranks have in common.  `CallInvariant` adds what
the segments of each rank hold: its own data until its collective is over, and what has been promised afterwards.  Data are bags of contributions here,
and the sum of the ranks' bags is taken apart by induction over finite sets (`SetInduction`), which needs no induction theorem of the library.

### The switch controller

`ControllerProofs` proves, for all numbers of ids, nodes and ports, all sizes of memory and segments, and any sequence of creations,
failures, destructions, kills and reinitialisations (`ControllerAssumption`: the numbers are positive, groups have at least two
members):

| Theorem | Statement |
|---|---|
| `ControllerInvariant` | `CtlSpec => []CInv` |
| `FreesAreValid` | `CtlSpec => []FreeIsValid`: `free_seg` never exits with "Invalid free" |
| `ResourcesAreConserved` | `CtlSpec => []ResourcesConserved` |
| `SwitchAlwaysMatches` | `CtlSpec => []SwitchMatches` |
| `MemoryNotFragmented` | `CtlSpec => []NoFragmentation` |

`CInv` speaks of `Given`, what existing groups and failed creations hold.  For ids, nodes and ports it is the partition itself.  For the memory it adds
alignment: every free segment starts at a multiple of `SegSize` and ends at one or at the end of the memory.  This makes
`fit_seg` take the beginning of a free segment (`FitsAtStart`), a group's segment overlap with nothing but itself, and the index that `free_seg` fails
to correct harmless: when the lower neighbour is merged, the segment it then compares starts too high to be merged.
`NoFragmentation` follows by counting: if no free segment fits, every aligned block is handed out, and the blocks
inject into the groups (`AllBlocksUsed`).  For the versions in the registers it adds that a job's group has the creation number of the
job, so that two jobs never have the same group and `Traffic` of one does not reach the aggregators of another.

### Only model-checked

* Liveness, which is beyond the prover: `EveryPacketAnswered`, `JobsReturn`, `EveryRankAnswered`, `EverySendLeaves`,
  `CwndRecovers`, `CallsReturn`, `EveryCallServed`, `RanksAgree`.
* `ResultClose`: three kinds of rounding, powers of two and a tolerance; no prover installed knows exponentiation.  `Quantize` is checked with small numbers of bits only.

Induction over data is beyond the provers as long as it is stated with an operator parameter.  Where a proof needs it here, it is stated with a *set* of the numbers or subsets
for which a fact holds (`InductionUpTo`, `SetInduction` in `Arithmetic`), both from the existence of a least number.

## 5. Findings

1. `uneven_split`: `worker.cpp:434` says "allow agg_len % nworker != 0", but if `agg_len / nworker` does not
   divide 2^32 (three workers: 341 aggregators), `psn % agg_len` jumps where the PSN wraps, two
   packets of one window meet in one aggregator, and a wrong sum is delivered.
2. `copy_buffer_bytes`: a region that ends exactly at the end of the copy buffer is moved by
   `fifo_free` but not by `fifo_allocate`, and the assertion in `frontend/src/c/common.hpp:80` fails.
   Only sizes that are not multiples of 4 reach it: `broadcast` and `all_gather_into_tensor` accept them.
3. `collectives_subgroup`: `__init__.py:408` compares a group rank with a global rank; in a group
   other than the default one the root of `reduce` and `reduce_scatter_tensor` drops the sum.
4. `group_sharing`: `NetCCL_key.md:219` says of group creation and destruction that implicit sharing of aggregators is forbidden
   ("禁止隐式共享").  Rank 0 destroys the group in its exit handler (`__init__.py:122`) when its own calls have returned.  A rank that
   has lost its last response then retransmits for ever, since its group has no table entries any more, into aggregators that
   may belong to the next group.  `ResultsOwn` without its condition `Undisturbed` fails as well: a packet of the old group between the two
   passes of a packet of the new one mixes the sums of two jobs (TLC's trace has 61 steps), and the rank left behind never returns.  A
   program that ends with a step common to all ranks avoids it.
5. `local_ranks`: `README.md:71` prepares for several ranks on a server ("only use the GPU with `DEVICE_ID == LOCAL_RANK`"), but all of
   them use the name `netccl` (`__init__.py:213`; a name with the rank in it is commented out at line 208), and `shm_init` removes
   what has the name.  The second rank takes it from the first, whose calls never return, or finds it taken between its own `remove`
   and `create` and ends.

Conditions the passing runs rely on.  TLC finds a counterexample when one of them is dropped in the instance:

* The integers of a reduction may add up to more than INT32 holds: the sum of the maxima, the factor and the products are
  rounded to FP32.  (Two ranks whose largest value is 0.7637746334075928 each send 1073741824.)  The saturating addition in `aggregator.p4` is
  therefore needed; `ResultClose` fails with an addition that wraps around.
* `RoomAssumption`: with twice the `ALLOC_SIZE` and one worker the window alone could fill the ring.

An IP frame with options leaves the switch with a checksum that covers its first 20 bytes only (`egress.p4:166-181`), and its receiver
will drop it.  `OthersUntouched` promises nothing of the checksum of such a frame.  NetCCL itself sends none.

Also seen while modelling, and harmless as the code stands: `gen_pkt` decides whether
the window is empty without the packets of the current burst, which only the
frontend's draining at the end of each call hides (`OneGroup`); `shift_send` uses the limit of the
previous group for the first burst of a new one, which is safe because all groups
have equally many aggregators and `CC_CWND_MIN` is below half of them (`SwitchLimit`); `free_seg`
does not merge on both sides (see `Controller`).  The comment in `set_version` that the
single bit `psn[14]` would do as a version is right for 2^14 aggregators per worker, not for the 1024 a
group gets today.

## 6. Not modelled

* `Stop` of the controller, which ends the process, and the retries of its start.
* DPDK: configuration of device, memory pools, queues and RSS (calls with constants, no state of the program's own); its rings and
  the flow rules are in `NicBuffer` and `PacketPath`.
* The loopback test mode of the backend, statistics, logging, and the P4 code under `TEST` and
  `DEBUG_CNT_RETRANS`; the C++ test, switch test programs and the topology files.
* A backend that crashes in the middle of an operation: nothing in the code handles it, every call waits for ever.
* `Future` objects and views of tensors in the Python layer: calls are synchronous.
* How an IP checksum is added up (external P4 function; what it is computed over is modelled), wrap of 32-bit time stamps, the contents of vendored libraries under
  `server/libs`, which make up nine tenths of the lines of the repository; of the code of the program itself about half is mapped, the rest being declarations,
  configuration, logging and what is listed above.

## 7. Plan

Done: every stateful part of the system has a model, and every safety property but `ResultClose` is proved.  Left, in this order:

1. `Worker` as an implementation of the window of `Window`: the numbers of `WInv` are the refinement mapping.
2. `GroupLifecycle` with more than one segment and windows of any length, with the invariant of `NetReduce` per group.
