---------------------------- MODULE WorkerProofs ----------------------------
(***************************************************************************)
(* The worker thread, for every size of its ring, every PSN space and any  *)
(* sub-operations: a packet of the window is found by its PSN, no late     *)
(* response is stored in a wrong place, sub-operations complete in order   *)
(* and only with all responses, and the window is of one group and within  *)
(* the limit.                                                              *)
(*                                                                         *)
(* The argument.  The n slots of the window hold the packets base, base +  *)
(* 1, ... of the current group, of the sub-operations after the completed  *)
(* ones up to the last one started.  Responses that may still come are not *)
(* older than AggLen packets, while the PSNs repeat only after PsnSpace.   *)
(*                                                                         *)
(* The data of the packets, for every operation, number of workers and     *)
(* content of the buffers: the parts of the workers and the packets of a   *)
(* part lie one after the other in the operation, and a packet of numbers  *)
(* has whole words.  So each byte is in one packet, is in its buffer when  *)
(* the packet is filled, and the sums in the response are the host's.      *)
(***************************************************************************)
EXTENDS Worker, Payload, Arithmetic, FunctionTheorems, FiniteSetTheorems, SequenceTheorems, TLAPS

\* The slot k places after slot a.
Pos(a, k) == IF a + k < MaxWinLen THEN a + k ELSE a + k - MaxWinLen

\* The slot k places after the beginning of the window.
Slot(k) == state[Pos(to_ack, k)]

\* The end of the window, the slots of the running shift_send included.
End == IF pc = "send" THEN sending ELSE to_send

\* The numbers of the sub-operations after a up to b.
Run(a, b) == [x \in 1 .. b - a |-> a + x]

SlotState ==
    [acked : BOOLEAN, op : Nat, group : Groups \cup {NoGroup}, p : Nat, is_last : BOOLEAN]

\* The ring: the window has n slots.
Ring(n) ==
    /\ pc \in {"rx", "tx", "send"}
    /\ to_ack \in Positions /\ to_send \in Positions /\ sending \in Positions
    /\ state \in [Positions -> SlotState]
    /\ n < MaxWinLen /\ n <= AggLen \div 2
    /\ End = Pos(to_ack, n)
    /\ expect \in Nat
    /\ pc = "send" => expect < MaxWinLen /\ expect <= AggLen \div 2
    /\ current_switch_window_limit \in Nat /\ current_switch_window_limit <= AggLen \div 2

\* The queues: m sub-operations are complete, t have been sent, e begun.
Queues(m, t, e) ==
    /\ ops \in Seq([group : Groups, cnt : Nat \ {0}])
    /\ m <= t /\ t <= e /\ e <= Len(ops)
    /\ done = Run(0, m) /\ wq = Run(t, Len(ops))
    /\ \A k, l \in m + 1 .. Len(ops) : ops[k].group = ops[l].group

\* gen_pkt: the packets of sub-operation k start with st[k], and the next packet
\* follows the last one of the window.
Generator(st, base, n, m, t, e) ==
    /\ group_psn \in [Groups -> Nat]
    /\ current_group_id \in Groups \cup {NoGroup}
    /\ e > m => current_group_id = ops[e].group
    /\ \/ /\ sub_op = NoOp /\ e = t
          /\ e > m => group_psn[current_group_id] = base + n
       \/ /\ e = t + 1
          /\ sub_op = [op |-> e, start |-> st[e], sent |-> base + n - st[e]]
          /\ base + n > st[e] /\ base + n < st[e] + ops[e].cnt
          /\ group_psn[current_group_id] = st[e] + ops[e].cnt

\* The sub-operations begun and not complete: their packets are different ones, and
\* reach into the window or beyond it.
Streams(st, base, n, m, t, e) ==
    /\ \A k, l \in m + 1 .. e : k < l => st[k] + ops[k].cnt <= st[l]
    /\ \A k \in m + 1 .. e : base < st[k] + ops[k].cnt
    /\ \A k \in m + 1 .. t : st[k] + ops[k].cnt <= base + n

\* The window.
Content(s, q, st, m, e) ==
    /\ s.group = current_group_id /\ s.p = q
    /\ s.op \in m + 1 .. e
    /\ st[s.op] <= q /\ q < st[s.op] + ops[s.op].cnt
    /\ s.is_last <=> q + 1 = st[s.op] + ops[s.op].cnt

Window(st, base, n, m, e) ==
    /\ \A k \in 0 .. n - 1 : Content(Slot(k), base + k, st, m, e)
    /\ n > 0 => left_psn = base % PsnSpace
    /\ n > 0 /\ pc = "rx" => right_psn = (base + n - 1) % PsnSpace

\* The responses stored.
PacketSets == SUBSET Nat

Stored(q, base, n) == q < base \/ (q < base + n /\ Slot(q - base).acked)

Responses(st, base, n, m, e) ==
    /\ got \in Seq(PacketSets) /\ Len(got) = Len(ops)
    /\ \A k \in 1 .. m : Cardinality(got[k]) = ops[k].cnt
    /\ \A k \in m + 1 .. e :
         got[k] = {q \in st[k] .. st[k] + ops[k].cnt - 1 : Stored(q, base, n)}
    /\ \A k \in e + 1 .. Len(ops) : got[k] = {}

\* The next packet of a group.
NextPacket(g) ==
    IF sub_op # NoOp /\ ops[sub_op.op].group = g THEN sub_op.start + sub_op.sent ELSE group_psn[g]

\* The responses that may still come.
Wire ==
    \A x \in wire :
        /\ x \in [group : Groups, p : Nat]
        /\ x.p < NextPacket(x.group) /\ NextPacket(x.group) < x.p + AggLen

Layout(st, base, n, m, t, e) ==
    /\ Ring(n)
    /\ Queues(m, t, e)
    /\ Generator(st, base, n, m, t, e)
    /\ Streams(st, base, n, m, t, e)
    /\ Window(st, base, n, m, e)
    /\ Responses(st, base, n, m, e)
    /\ Wire

\* The inductive invariant.
WInv ==
    \E st \in [Nat -> Nat], base, n, m, t, e \in Nat : Layout(st, base, n, m, t, e)

-----------------------------------------------------------------------------
(* Positions of the ring, and PSNs. *)

\* What the proofs use of the constants.
LEMMA Constants ==
    /\ MaxWinLen \in Nat /\ MaxWinLen > 1 /\ PsnSpace \in Nat /\ AggLen \in Nat
    /\ AggLen < PsnSpace /\ MaxWinLen < PsnSpace
    /\ AggLen \div 2 \in Nat /\ AggLen \div 2 < AggLen /\ AggLen >= 2
    /\ CwndMin \in Nat /\ CwndMin <= AggLen \div 2
    /\ MaxBurst \in Nat /\ MaxPkts \in Nat
    /\ Positions = 0 .. MaxWinLen - 1
<1>1. /\ MaxWinLen \in Nat /\ MaxWinLen > 1 /\ PsnSpace \in Nat /\ AggLen \in Nat
      /\ AggLen < PsnSpace /\ MaxWinLen < PsnSpace
      /\ CwndMin \in Nat /\ CwndMin >= 1 /\ CwndMin <= AggLen \div 2
      /\ MaxBurst \in Nat /\ MaxPkts \in Nat
  BY WindowAssumption, PsnAssumption, SwitchAssumption, BoundsAssumption
<1>2. AggLen \div 2 \in Nat /\ AggLen \div 2 < AggLen /\ AggLen >= 2
  BY <1>1
<1> QED  BY <1>1, <1>2 DEF Positions

LEMMA PosFacts ==
    ASSUME NEW a \in Positions, NEW k \in 0 .. MaxWinLen - 1
    PROVE  /\ Pos(a, k) \in Positions
           /\ Distance(a, Pos(a, k)) = k
           /\ Pos(a, k) = a <=> k = 0
BY Constants DEF Pos, Distance

LEMMA DistanceFacts ==
    ASSUME NEW a \in Positions, NEW i \in Positions
    PROVE  Distance(a, i) \in 0 .. MaxWinLen - 1 /\ Pos(a, Distance(a, i)) = i
BY Constants DEF Pos, Distance

LEMMA PosSum ==
    ASSUME NEW a \in Positions, NEW k \in Nat, NEW l \in Nat, k + l < MaxWinLen
    PROVE  Pos(Pos(a, k), l) = Pos(a, k + l)
BY Constants DEF Pos

LEMMA PosEqual ==
    ASSUME NEW a \in Positions, NEW k \in 0 .. MaxWinLen - 1, NEW l \in 0 .. MaxWinLen - 1,
           Pos(a, k) = Pos(a, l)
    PROVE  k = l
BY Constants DEF Pos

\* The ring goes round.
LEMMA PosIsModulo ==
    ASSUME NEW a \in Positions, NEW k \in 0 .. MaxWinLen - 1
    PROVE  (k + a) % MaxWinLen = Pos(a, k)
<1>1. MaxWinLen \in Nat /\ MaxWinLen > 0 /\ a \in 0 .. MaxWinLen - 1
  BY Constants
<1>2. CASE a + k < MaxWinLen
  <2>1. k + a \in 0 .. MaxWinLen - 1 /\ 0 * MaxWinLen + (k + a) = k + a
    BY <1>1, <1>2
  <2>2. (0 * MaxWinLen + (k + a)) % MaxWinLen = k + a
    BY <1>1, <2>1, UniqueRemainder
  <2>3. Pos(a, k) = k + a
    BY <1>1, <1>2 DEF Pos
  <2> QED  BY <2>1, <2>2, <2>3
<1>3. CASE ~(a + k < MaxWinLen)
  <2>1. k + a - MaxWinLen \in 0 .. MaxWinLen - 1 /\ 1 * MaxWinLen + (k + a - MaxWinLen) = k + a
    BY <1>1, <1>3
  <2>2. (1 * MaxWinLen + (k + a - MaxWinLen)) % MaxWinLen = k + a - MaxWinLen
    BY <1>1, <2>1, UniqueRemainder
  <2>3. Pos(a, k) = k + a - MaxWinLen
    BY <1>1, <1>3 DEF Pos
  <2> QED  BY <2>1, <2>2, <2>3
<1> QED  BY <1>2, <1>3

LEMMA NextPos ==
    ASSUME NEW a \in Positions, NEW k \in 0 .. MaxWinLen - 2
    PROVE  get_next_position(Pos(a, k)) = Pos(a, k + 1)
<1> DEFINE i == Pos(a, k)
<1>1. i \in Positions /\ 1 \in 0 .. MaxWinLen - 1
  BY PosFacts, Constants
<1>2. (1 + i) % MaxWinLen = Pos(i, 1)
  <2> HIDE DEF i
  <2> QED  BY <1>1, PosIsModulo
<1>3. Pos(i, 1) = Pos(a, k + 1)
  BY Constants DEF Pos
<1>4. 1 + i = i + 1
  BY <1>1, Constants
<1> QED  BY <1>2, <1>3, <1>4 DEF get_next_position

LEMMA PrevPos ==
    ASSUME NEW a \in Positions, NEW k \in 1 .. MaxWinLen - 1
    PROVE  get_prev_position(Pos(a, k)) = Pos(a, k - 1)
<1> DEFINE i == Pos(a, k)
<1>1. i \in Positions /\ MaxWinLen \in Nat /\ MaxWinLen > 1 /\ Positions = 0 .. MaxWinLen - 1
  BY PosFacts, Constants
<1>2. CASE i = 0
  <2>1. (i - 1) % MaxWinLen = MaxWinLen - 1
    <3>1. i - 1 = -1
      BY <1>2
    <3>2. (-1) % MaxWinLen = MaxWinLen - 1
      BY <1>1
    <3> QED  BY <3>1, <3>2
  <2>2. Pos(a, k - 1) = MaxWinLen - 1
    BY <1>1, <1>2 DEF Pos
  <2> QED  BY <2>1, <2>2 DEF get_prev_position
<1>3. CASE i > 0
  <2>1. i - 1 \in 0 .. MaxWinLen - 1 /\ 0 * MaxWinLen + (i - 1) = i - 1
    <3> HIDE DEF i
    <3> QED  BY <1>1, <1>3
  <2>2. (0 * MaxWinLen + (i - 1)) % MaxWinLen = i - 1
    <3> HIDE DEF i
    <3> QED  BY <1>1, <2>1, UniqueRemainder
  <2>3. Pos(a, k - 1) = i - 1
    BY <1>1, <1>3 DEF Pos
  <2>4. (i - 1) % MaxWinLen = i - 1
    <3> HIDE DEF i
    <3> QED  BY <2>1, <2>2
  <2> QED  BY <2>3, <2>4 DEF get_prev_position
<1> QED  BY <1>1, <1>2, <1>3

\* The slots of a window of n.
LEMMA SlotsAre ==
    ASSUME NEW a \in Positions, NEW n \in 0 .. MaxWinLen - 1
    PROVE  Slots(a, Pos(a, n)) = {Pos(a, k) : k \in 0 .. n - 1}
<1>1. Distance(a, Pos(a, n)) = n
  BY PosFacts
<1>2. ASSUME NEW i \in Slots(a, Pos(a, n)) PROVE i \in {Pos(a, k) : k \in 0 .. n - 1}
  <2>1. i \in Positions /\ Distance(a, i) < n
    BY <1>1 DEF Slots
  <2>2. Distance(a, i) \in 0 .. MaxWinLen - 1 /\ Pos(a, Distance(a, i)) = i
    BY <2>1, DistanceFacts
  <2>3. Distance(a, i) \in 0 .. n - 1
    BY <2>1, <2>2
  <2> QED  BY <2>2, <2>3
<1>3. ASSUME NEW k \in 0 .. n - 1 PROVE Pos(a, k) \in Slots(a, Pos(a, n))
  <2>1. k \in 0 .. MaxWinLen - 1 /\ k < n
    BY Constants
  <2>2. Pos(a, k) \in Positions /\ Distance(a, Pos(a, k)) = k
    BY <2>1, PosFacts
  <2> QED  BY <1>1, <2>1, <2>2 DEF Slots
<1> QED  BY <1>2, <1>3

\* How far PSN x is ahead of PSN y.
PsnDifference(x, y, m) == ((x % m) - (y % m)) % m

LEMMA PsnDistance ==
    ASSUME NEW x \in Nat, NEW y \in Nat, NEW m \in Nat, m > 0, NEW d \in 0 .. m - 1,
           x = y + d \/ x + m = y + d
    PROVE  PsnDifference(x, y, m) = d
<1> DEFINE k == x \div m
           l == y \div m
           c == x % m
           f == y % m
<1>1. k \in Nat /\ l \in Nat /\ c \in 0 .. m - 1 /\ f \in 0 .. m - 1 /\ x = k * m + c /\ y = l * m + f
  BY DivMod
<1> HIDE DEF k, l, c, f
<1>2. PICK j \in Int : c - f = d + j * m /\ c - f - d = j * m /\ f + d - c = (-j) * m
  <2>1. CASE x = y + d
    <3>1. c - f = d + (l - k) * m /\ c - f - d = (l - k) * m /\ f + d - c = (-(l - k)) * m
      BY <1>1, <2>1
    <3> QED  BY <3>1, <1>1
  <2>2. CASE x + m = y + d
    <3>1. c - f = d + (l - k - 1) * m /\ c - f - d = (l - k - 1) * m /\ f + d - c = (-(l - k - 1)) * m
      BY <1>1, <2>2
    <3>2. l - k - 1 \in Int
      BY <1>1
    <3> QED  BY <3>1, <3>2
  <2> QED  BY <2>1, <2>2
<1>3. c - f = d \/ c - f = d - m
  <2>1. c - f - d < m /\ f + d - c < 2 * m
    BY <1>1
  <2>2. CASE j > 0
    <3>1. j * m >= m
      BY <2>2, MultipleAtLeast
    <3> QED  BY <2>1, <3>1, <1>1, <1>2
  <2>3. CASE j < -1
    <3>1. (-j) * m >= 2 * m
      BY <2>3
    <3> QED  BY <2>1, <3>1, <1>1, <1>2
  <2>4. CASE j = 0
    BY <1>2, <2>4
  <2>5. CASE j = -1
    BY <1>2, <2>5
  <2> QED  BY <2>2, <2>3, <2>4, <2>5
<1>4. CASE c - f = d
  <2>1. (0 * m + d) % m = d /\ 0 * m + d = d
    BY UniqueRemainder
  <2> QED  BY <1>4, <2>1 DEF c, f, PsnDifference
<1>5. CASE c - f = d - m
  <2>1. d - m \in Int /\ d - m = (-1) * m + d
    OBVIOUS
  <2>2. (d - m) % m = d
    BY <2>1
  <2> QED  BY <1>5, <2>2 DEF c, f, PsnDifference
<1> QED  BY <1>3, <1>4, <1>5

-----------------------------------------------------------------------------
(* Runs of sub-operations. *)

LEMMA RunIs ==
    ASSUME NEW a \in Nat, NEW b \in Nat, a <= b
    PROVE  /\ Run(a, b) \in Seq(Nat) /\ Len(Run(a, b)) = b - a
           /\ \A x \in 1 .. b - a : Run(a, b)[x] = a + x
           /\ DOMAIN Run(a, b) = 1 .. b - a
<1>1. b - a \in Nat /\ \A x \in 1 .. b - a : a + x \in Nat
  OBVIOUS
<1>2. Run(a, b) \in Seq(Nat)
  BY <1>1 DEF Run
<1>3. DOMAIN Run(a, b) = 1 .. b - a
  BY DEF Run
<1>4. Len(Run(a, b)) = b - a
  BY <1>1, <1>2, <1>3, LenProperties
<1> QED  BY <1>2, <1>3, <1>4 DEF Run

LEMMA RunEmpty ==
    ASSUME NEW a \in Nat, NEW b \in Nat, a <= b
    PROVE  Run(a, b) = <<>> <=> a = b
<1>1. Run(a, b) \in Seq(Nat) /\ Len(Run(a, b)) = b - a
  BY RunIs
<1> QED  BY <1>1, EmptySeq, LenProperties

\* A sequence of which every element is known is a run.
LEMMA IsRun ==
    ASSUME NEW a \in Nat, NEW b \in Nat, a <= b, NEW s \in Seq(Nat), Len(s) = b - a,
           \A x \in 1 .. b - a : s[x] = a + x
    PROVE  s = Run(a, b)
<1>1. Run(a, b) \in Seq(Nat) /\ Len(Run(a, b)) = b - a /\ \A x \in 1 .. b - a : Run(a, b)[x] = a + x
  BY RunIs
<1> QED  BY <1>1, SeqEqual

LEMMA RunAppend ==
    ASSUME NEW a \in Nat, NEW b \in Nat, a <= b
    PROVE  Append(Run(a, b), b + 1) = Run(a, b + 1)
<1> DEFINE r == Run(a, b)
           s == Append(r, b + 1)
<1>1. r \in Seq(Nat) /\ Len(r) = b - a /\ \A x \in 1 .. b - a : r[x] = a + x
  BY RunIs
<1> HIDE DEF r
<1>2. /\ s \in Seq(Nat) /\ Len(s) = b + 1 - a
      /\ \A x \in 1 .. b - a : s[x] = a + x
      /\ s[b + 1 - a] = b + 1
  <2>1. b + 1 \in Nat /\ Len(r) + 1 = b + 1 - a
    BY <1>1
  <2>2. s \in Seq(Nat) /\ Len(s) = Len(r) + 1 /\ s[Len(r) + 1] = b + 1 /\ \A x \in 1 .. Len(r) : s[x] = r[x]
    BY <1>1, <2>1, AppendProperties
  <2> HIDE DEF s
  <2> QED  BY <1>1, <2>1, <2>2
<1> HIDE DEF s
<1>3. ASSUME NEW x \in 1 .. b + 1 - a PROVE s[x] = a + x
  BY <1>2
<1>4. b + 1 \in Nat /\ a <= b + 1
  OBVIOUS
<1>5. s = Run(a, b + 1)
  BY <1>2, <1>3, <1>4, IsRun
<1> QED  BY <1>5 DEF s, r

LEMMA RunTail ==
    ASSUME NEW a \in Nat, NEW b \in Nat, a < b
    PROVE  Head(Run(a, b)) = a + 1 /\ Tail(Run(a, b)) = Run(a + 1, b)
<1> DEFINE r == Run(a, b)
<1>1. r \in Seq(Nat) /\ Len(r) = b - a /\ (\A x \in 1 .. b - a : r[x] = a + x) /\ r # <<>>
  BY RunIs, RunEmpty
<1> HIDE DEF r
<1>2. Head(r) = a + 1
  BY <1>1, HeadTailProperties
<1>3. /\ Tail(r) \in Seq(Nat) /\ Len(Tail(r)) = b - (a + 1)
      /\ \A x \in 1 .. b - (a + 1) : Tail(r)[x] = r[x + 1]
  BY <1>1, HeadTailProperties
<1>4. ASSUME NEW x \in 1 .. b - (a + 1) PROVE Tail(r)[x] = (a + 1) + x
  <2>1. x + 1 \in 1 .. b - a /\ a + (x + 1) = (a + 1) + x
    OBVIOUS
  <2> QED  BY <1>1, <1>3, <2>1
<1>5. a + 1 \in Nat /\ a + 1 <= b
  OBVIOUS
<1>6. Tail(r) = Run(a + 1, b)
  BY <1>3, <1>4, <1>5, IsRun
<1> QED  BY <1>2, <1>6 DEF r

\* The completed sub-operations.
LEMMA RangeOfRun ==
    ASSUME NEW m \in Nat
    PROVE  Range(Run(0, m)) = 1 .. m
<1>1. DOMAIN Run(0, m) = 1 .. m /\ \A x \in 1 .. m : Run(0, m)[x] = x
  <2>1. m - 0 = m /\ 0 <= m /\ 0 \in Nat /\ \A x \in 1 .. m : 0 + x = x
    OBVIOUS
  <2> QED  BY <2>1, RunIs
<1>2. ASSUME NEW x \in 1 .. m PROVE x \in Range(Run(0, m))
  BY <1>1 DEF Range
<1>3. ASSUME NEW y \in Range(Run(0, m)) PROVE y \in 1 .. m
  BY <1>1 DEF Range
<1> QED  BY <1>2, <1>3

\* r is s with one more element z.
Extended(s, z, r, T) ==
    /\ r \in Seq(T) /\ Len(r) = Len(s) + 1
    /\ r[Len(s) + 1] = z
    /\ \A k \in 1 .. Len(s) : r[k] = s[k]

LEMMA Appended ==
    ASSUME NEW T, NEW s \in Seq(T), NEW z \in T
    PROVE  Extended(s, z, Append(s, z), T)
BY AppendProperties DEF Extended

\* r is s followed by u.
Joined(s, u, r) ==
    /\ r \in Seq(Nat) /\ Len(r) = Len(s) + Len(u)
    /\ \A x \in 1 .. Len(s) + Len(u) : r[x] = IF x <= Len(s) THEN s[x] ELSE u[x - Len(s)]

LEMMA Concatenated ==
    ASSUME NEW s \in Seq(Nat), NEW u \in Seq(Nat)
    PROVE  Joined(s, u, s \o u)
BY ConcatProperties DEF Joined

\* The packets of a sub-operation.
LEMMA PacketOf ==
    ASSUME NEW a \in Nat, NEW c \in Nat, NEW q \in Nat
    PROVE  q \in a .. a + c - 1 <=> a <= q /\ q < a + c
OBVIOUS

LEMMA PacketCount ==
    ASSUME NEW a \in Nat, NEW c \in Nat
    PROVE  Cardinality(a .. a + c - 1) = c
<1>1. PICK z \in Int : z = a + c - 1
  OBVIOUS
<1>2. Cardinality(a .. z) = IF a > z THEN 0 ELSE z - a + 1
  BY FS_Interval
<1>3. (IF a > z THEN 0 ELSE z - a + 1) = c
  BY <1>1
<1> QED  BY <1>1, <1>2, <1>3

-----------------------------------------------------------------------------
(* What the invariant says of the window and of responses. *)

LEMMA OpFacts ==
    ASSUME NEW m, NEW t, NEW e, Queues(m, t, e)
    PROVE  /\ Len(ops) \in Nat
           /\ \A k \in 1 .. Len(ops) : /\ ops[k] \in [group : Groups, cnt : Nat \ {0}]
                                       /\ ops[k].group \in Groups
                                       /\ ops[k].cnt \in Nat /\ ops[k].cnt > 0
<1>1. ops \in Seq([group : Groups, cnt : Nat \ {0}])
  BY DEF Queues
<1>2. \A k \in 1 .. Len(ops) : ops[k] \in [group : Groups, cnt : Nat \ {0}]
  BY <1>1, ElementOfSeq
<1> QED  BY <1>1, <1>2, LenProperties

\* A window that is not empty holds packets of a sub-operation that has begun.
LEMMA NotEmpty ==
    ASSUME NEW st \in [Nat -> Nat], NEW base \in Nat, NEW n \in Nat, NEW m \in Nat, NEW e \in Nat,
           Window(st, base, n, m, e), n > 0
    PROVE  e > m
<1>1. 0 \in 0 .. n - 1
  OBVIOUS
<1>2. Slot(0).op \in m + 1 .. e
  BY <1>1 DEF Window, Content
<1> QED  BY <1>2

LEMMA NextIs ==
    ASSUME NEW st \in [Nat -> Nat], NEW base \in Nat, NEW n \in Nat,
           NEW m \in Nat, NEW t \in Nat, NEW e \in Nat,
           Generator(st, base, n, m, t, e), e > m
    PROVE  NextPacket(current_group_id) = base + n
<1>1. CASE sub_op = NoOp /\ e = t /\ (e > m => group_psn[current_group_id] = base + n)
  BY <1>1 DEF NextPacket
<1>2. CASE sub_op = [op |-> e, start |-> st[e], sent |-> base + n - st[e]]
  <2>1. sub_op.op = e /\ sub_op.start = st[e] /\ sub_op.sent = base + n - st[e]
    BY <1>2
  <2>2. sub_op # NoOp
    <3>1. NoOp.op = 0
      BY DEF NoOp
    <3> QED  BY <2>1, <3>1
  <2>3. ops[sub_op.op].group = current_group_id
    BY <2>1 DEF Generator
  <2>4. st[e] \in Nat
    OBVIOUS
  <2> QED  BY <2>1, <2>2, <2>3, <2>4 DEF NextPacket
<1> QED  BY <1>1, <1>2 DEF Generator

\* What get_position computes, of a window that is not empty and a packet d after
\* its first.
PsnsOf(base, n) == left_psn = base % PsnSpace /\ right_psn = (base + n - 1) % PsnSpace
Ahead(x, y, d) == d \in 0 .. PsnSpace - 1 /\ (x = y + d \/ x + PsnSpace = y + d)
PositionAt(d, n) == IF d < n THEN Pos(to_ack, d) ELSE Invalid

LEMMA PositionIs ==
    ASSUME NEW base \in Nat, NEW n \in Nat, n > 0, Ring(n), pc = "rx",
           PsnsOf(base, n),
           NEW x, x.p \in Nat, x.group = current_group_id, NEW d \in Nat, Ahead(x.p, base, d)
    PROVE  get_position(x) = PositionAt(d, n)
<1>1. /\ MaxWinLen \in Nat /\ PsnSpace \in Nat /\ PsnSpace > 0 /\ n < MaxWinLen /\ MaxWinLen < PsnSpace
      /\ to_ack \in Positions /\ to_send = Pos(to_ack, n)
  BY Constants DEF Ring, End
<1>2. to_send # to_ack
  BY <1>1, PosFacts
<1>3. (get_psn(x) - left_psn) % PsnSpace = d
  <2>1. PsnDifference(x.p, base, PsnSpace) = d
    BY <1>1, PsnDistance DEF Ahead
  <2> QED  BY <2>1 DEF get_psn, PsnDifference, PsnsOf
<1>4. (right_psn - left_psn) % PsnSpace = n - 1
  <2>1. PICK y \in Nat, z \in 0 .. PsnSpace - 1 : y = base + n - 1 /\ z = n - 1 /\ y = base + z
    BY <1>1
  <2>2. PsnDifference(y, base, PsnSpace) = z
    BY <1>1, <2>1, PsnDistance
  <2> QED  BY <2>1, <2>2 DEF PsnDifference, PsnsOf
<1>5. d < n => (d + to_ack) % MaxWinLen = Pos(to_ack, d)
  <2>1. d < n => d \in 0 .. MaxWinLen - 1
    BY <1>1
  <2> QED  BY <1>1, <2>1, PosIsModulo
<1>6. d <= n - 1 <=> d < n
  BY <1>1
<1> QED  BY <1>2, <1>3, <1>4, <1>5, <1>6 DEF get_position, window_tx_empty, PositionAt

\* A packet of the window is found.
LEMMA FoundInWindow ==
    ASSUME NEW st \in [Nat -> Nat], NEW base \in Nat, NEW n \in Nat, NEW m \in Nat, NEW e \in Nat,
           Ring(n), Window(st, base, n, m, e), pc = "rx", NEW k \in 0 .. n - 1
    PROVE  get_position(Packet(Pos(to_ack, k))) = Pos(to_ack, k)
<1> DEFINE x == Packet(Pos(to_ack, k))
<1>1. x.group = current_group_id /\ x.p = base + k
  BY DEF Packet, Window, Content, Slot
<1>2. n > 0 /\ k \in 0 .. PsnSpace - 1 /\ base + k \in Nat
  BY Constants DEF Ring
<1>3. PsnsOf(base, n) /\ Ahead(base + k, base, k)
  BY <1>2 DEF Window, PsnsOf, Ahead
<1> HIDE DEF x
<1>4. get_position(x) = PositionAt(k, n)
  BY <1>1, <1>2, <1>3, PositionIs
<1> QED  BY <1>4 DEF x, PositionAt

\* A response that is found answers the packet of the slot.
LEMMA AnswersItsSlot ==
    ASSUME NEW st \in [Nat -> Nat], NEW base \in Nat, NEW n \in Nat,
           NEW m \in Nat, NEW t \in Nat, NEW e \in Nat,
           Ring(n), Generator(st, base, n, m, t, e), Window(st, base, n, m, e), Wire,
           pc = "rx", NEW x \in wire, get_position(x) # Invalid
    PROVE  /\ n > 0 /\ x.p - base \in 0 .. n - 1
           /\ get_position(x) = Pos(to_ack, x.p - base)
           /\ Packet(Pos(to_ack, x.p - base)) = x
<1>1. /\ MaxWinLen \in Nat /\ PsnSpace \in Nat /\ PsnSpace > 0 /\ n < MaxWinLen /\ MaxWinLen < PsnSpace
      /\ AggLen \in Nat /\ AggLen < PsnSpace
      /\ to_ack \in Positions /\ to_send = Pos(to_ack, n)
  BY Constants DEF Ring, End
<1>2. to_ack # to_send /\ current_group_id = x.group
  BY DEF get_position, window_tx_empty
<1>3. n > 0
  BY <1>1, <1>2, PosFacts
<1>4. NextPacket(x.group) = base + n
  BY <1>2, <1>3, NotEmpty, NextIs
<1>5. x \in [group : Groups, p : Nat] /\ x.p \in Nat /\ x.p < base + n /\ base + n < x.p + AggLen
  BY <1>4 DEF Wire
<1>6. PsnsOf(base, n)
  BY <1>3 DEF Window, PsnsOf
<1>7. x.p >= base
  <2> SUFFICES ASSUME x.p < base PROVE FALSE
    BY <1>5
  <2> DEFINE d == x.p + PsnSpace - base
  <2>1. d \in Nat /\ Ahead(x.p, base, d) /\ ~(d < n)
    BY <1>1, <1>5 DEF Ahead
  <2> HIDE DEF d
  <2>2. get_position(x) = PositionAt(d, n)
    BY <1>2, <1>3, <1>5, <1>6, <2>1, PositionIs
  <2> QED  BY <2>1, <2>2 DEF PositionAt
<1>8. PICK d \in Nat : d = x.p - base /\ x.p = base + d /\ d \in 0 .. n - 1
  BY <1>5, <1>7
<1>9. get_position(x) = Pos(to_ack, d)
  <2>1. d < n /\ Ahead(x.p, base, d)
    BY <1>1, <1>8 DEF Ahead
  <2>2. get_position(x) = PositionAt(d, n)
    BY <1>2, <1>3, <1>5, <1>6, <2>1, PositionIs
  <2> QED  BY <2>1, <2>2 DEF PositionAt
<1>10. Packet(Pos(to_ack, d)) = x
  <2>1. Slot(d).group = current_group_id /\ Slot(d).p = base + d
    BY <1>8 DEF Window, Content
  <2>2. Packet(Pos(to_ack, d)) = [group |-> x.group, p |-> x.p]
    BY <1>2, <1>8, <2>1 DEF Packet, Slot
  <2>3. x = [group |-> x.group, p |-> x.p]
    BY <1>5
  <2> QED  BY <2>2, <2>3
<1> QED  BY <1>3, <1>8, <1>9, <1>10

-----------------------------------------------------------------------------
LEMMA InitWInv == Init => WInv
<1> SUFFICES ASSUME Init PROVE WInv
  OBVIOUS
<1> DEFINE st == [k \in Nat |-> 0]
<1>1. st \in [Nat -> Nat]
  OBVIOUS
<1> HIDE DEF st
<1>2. Ring(0)
  <2>1. state \in [Positions -> SlotState]
    BY DEF Init, SlotState
  <2>2. 0 \in Positions /\ Pos(0, 0) = 0
    BY Constants DEF Pos
  <2>3. /\ pc = "rx" /\ to_ack = 0 /\ to_send = 0 /\ sending = 0 /\ expect = 0
        /\ current_switch_window_limit = CwndMin
    BY DEF Init
  <2>4. 0 < MaxWinLen /\ 0 <= AggLen \div 2 /\ CwndMin \in Nat /\ CwndMin <= AggLen \div 2
    BY Constants
  <2> QED  BY <2>1, <2>2, <2>3, <2>4 DEF Ring, End
<1>3. Queues(0, 0, 0)
  <2>1. Run(0, 0) = <<>>
    BY RunEmpty
  <2>2. <<>> \in Seq([group : Groups, cnt : Nat \ {0}]) /\ Len(<<>>) = 0
    BY EmptySeq
  <2> QED  BY <2>1, <2>2 DEF Init, Queues
<1>4. Generator(st, 0, 0, 0, 0, 0)
  BY DEF Init, Generator
<1>5. Streams(st, 0, 0, 0, 0, 0)
  BY DEF Streams
<1>6. Window(st, 0, 0, 0, 0)
  BY DEF Window
<1>7. Responses(st, 0, 0, 0, 0)
  <2>1. <<>> \in Seq(PacketSets) /\ Len(<<>>) = 0
    BY EmptySeq
  <2>2. got = <<>> /\ ops = <<>>
    BY DEF Init
  <2>3. 0 + 1 .. 0 = {} /\ 1 .. 0 = {}
    OBVIOUS
  <2> QED  BY <2>1, <2>2, <2>3 DEF Responses
<1>8. Wire
  BY DEF Init, Wire
<1>9. Layout(st, 0, 0, 0, 0, 0)
  BY <1>2, <1>3, <1>4, <1>5, <1>6, <1>7, <1>8 DEF Layout
<1> QED  BY <1>1, <1>9 DEF WInv

-----------------------------------------------------------------------------
(* Steps that leave the window as it is. *)

\* Only the responses that may come have changed.
LEMMA WireChanges ==
    ASSUME NEW st \in [Nat -> Nat], NEW base \in Nat, NEW n \in Nat,
           NEW m \in Nat, NEW t \in Nat, NEW e \in Nat, Layout(st, base, n, m, t, e),
           UNCHANGED <<pc, queues, gen, window, loop, got>>, Wire'
    PROVE  WInv'
<1>1. Layout(st, base, n, m, t, e)'
  BY DEF queues, gen, window, loop, Layout, Ring, End, Queues, Generator, Streams, Window, Content,
         Slot, Responses, Stored
<1> QED  BY <1>1 DEF WInv

\* A packet of the window may be sent again.
LEMMA SentAgain ==
    ASSUME NEW st \in [Nat -> Nat], NEW base \in Nat, NEW n \in Nat,
           NEW m \in Nat, NEW t \in Nat, NEW e \in Nat, Layout(st, base, n, m, t, e),
           NEW i \in Slots(to_ack, Pos(to_ack, n))
    PROVE  LET x == Packet(i) IN
           /\ x \in [group : Groups, p : Nat]
           /\ x.p < NextPacket(x.group) /\ NextPacket(x.group) < x.p + AggLen
<1>1. Ring(n) /\ Window(st, base, n, m, e) /\ Generator(st, base, n, m, t, e) /\ Queues(m, t, e)
  BY DEF Layout
<1>2. to_ack \in Positions /\ n \in 0 .. MaxWinLen - 1 /\ n < AggLen /\ AggLen \in Nat
  BY <1>1, Constants DEF Ring
<1>3. PICK k \in 0 .. n - 1 : i = Pos(to_ack, k)
  BY <1>2, SlotsAre
<1>4. state[i].group = current_group_id /\ state[i].p = base + k
  BY <1>1, <1>3 DEF Window, Content, Slot
<1>5. n > 0 /\ e > m
  <2>1. n > 0
    OBVIOUS
  <2> QED  BY <1>1, <2>1, NotEmpty
<1>6. NextPacket(current_group_id) = base + n
  BY <1>1, <1>5, NextIs
<1>7. current_group_id \in Groups
  <2>1. e \in 1 .. Len(ops)
    BY <1>1, <1>5, OpFacts DEF Queues
  <2> QED  BY <1>1, <1>5, <2>1, OpFacts DEF Generator
<1>8. base + k \in Nat /\ base + k < base + n /\ base + n < base + k + AggLen
  BY <1>2
<1> QED  BY <1>4, <1>6, <1>7, <1>8 DEF Packet

LEMMA LoseWInv ==
    ASSUME WInv, NEW x \in wire, Lose(x)
    PROVE  WInv'
<1>1. PICK st \in [Nat -> Nat], base, n, m, t, e \in Nat : Layout(st, base, n, m, t, e)
  BY DEF WInv
<1>2. UNCHANGED <<pc, queues, gen, window, loop, got>> /\ wire' = wire \ {x}
  BY DEF Lose
<1>3. Wire'
  BY <1>1, <1>2 DEF Layout, Wire, NextPacket, queues, gen
<1> QED  BY <1>1, <1>2, <1>3, WireChanges

LEMMA FullRetransWInv ==
    ASSUME WInv, full_retrans
    PROVE  WInv'
<1>1. PICK st \in [Nat -> Nat], base, n, m, t, e \in Nat : Layout(st, base, n, m, t, e)
  BY DEF WInv
<1> DEFINE again == {Packet(k) : k \in {i \in Slots(to_ack, to_send) : ~ state[i].acked}}
<1>2. UNCHANGED <<pc, queues, gen, window, loop, got>> /\ wire' = wire \cup again
  BY DEF full_retrans
<1>3. to_send = Pos(to_ack, n)
  BY <1>1 DEF full_retrans, Layout, Ring, End
<1>4. ASSUME NEW x \in again
      PROVE  /\ x \in [group : Groups, p : Nat]
             /\ x.p < NextPacket(x.group) /\ NextPacket(x.group) < x.p + AggLen
  <2>1. PICK i \in Slots(to_ack, Pos(to_ack, n)) : x = Packet(i)
    BY <1>3, <1>4
  <2> QED  BY <1>1, <2>1, SentAgain
<1> HIDE DEF again
<1>5. \A g : NextPacket(g)' = NextPacket(g)
  BY <1>2 DEF NextPacket, queues, gen
<1>6. Wire
  BY <1>1 DEF Layout
<1>7. Wire'
  BY <1>2, <1>4, <1>5, <1>6 DEF Wire
<1> QED  BY <1>1, <1>2, <1>7, WireChanges

\* The least of some numbers.
LEMMA MinIsLeast ==
    ASSUME NEW S \in SUBSET Nat, S # {}
    PROVE  Min(S) \in S /\ \A y \in S : Min(S) <= y
<1>1. \E x \in S : \A y \in S : x <= y
  BY LeastExists
<1> QED  BY <1>1 DEF Min

LEMMA ShiftSendWInv ==
    ASSUME WInv, NEW cwnd \in CwndMin .. MaxWinLen - 1, shift_send(cwnd)
    PROVE  WInv'
<1>1. PICK st \in [Nat -> Nat], base, n, m, t, e \in Nat : Layout(st, base, n, m, t, e)
  BY DEF WInv
<1>2. /\ pc = "tx" /\ pc' = "send" /\ sending' = to_send
      /\ UNCHANGED <<queues, gen, window, wire, got>>
  BY DEF shift_send
<1>3. Ring(n)
  BY <1>1 DEF Layout
<1>4. expect' \in Nat /\ expect' < MaxWinLen /\ expect' <= AggLen \div 2
  <2> DEFINE S == {MaxWinLen - 1, current_switch_window_limit, cwnd, window_len + MaxBurst}
  <2>1. window_len \in Nat
    <3>1. window_len \in 0 .. MaxWinLen - 1
      BY <1>3, DistanceFacts DEF Ring, window_len
    <3> QED  BY <3>1
  <2>2. S \in SUBSET Nat /\ S # {}
    BY <1>3, <2>1, Constants DEF Ring
  <2>3. expect' = Min(S)
    BY DEF shift_send
  <2>4. MaxWinLen - 1 \in S /\ current_switch_window_limit \in S
    OBVIOUS
  <2> HIDE DEF S
  <2>5. expect' \in Nat /\ expect' <= MaxWinLen - 1 /\ expect' <= current_switch_window_limit
    BY <2>2, <2>3, <2>4, MinIsLeast
  <2> QED  BY <1>3, <2>5, Constants DEF Ring
<1>5. Ring(n)'
  BY <1>2, <1>3, <1>4 DEF Ring, End, window, gen
<1>6. /\ Queues(m, t, e)' /\ Generator(st, base, n, m, t, e)' /\ Streams(st, base, n, m, t, e)'
      /\ Responses(st, base, n, m, e)' /\ Wire'
  BY <1>1, <1>2 DEF Layout, queues, gen, window, Queues, Generator, Streams, Responses, Stored, Slot,
                    Wire, NextPacket
<1>7. Window(st, base, n, m, e)'
  <2>1. pc' # "rx"
    BY <1>2
  <2> QED  BY <1>1, <1>2, <2>1 DEF Layout, Window, Content, Slot, queues, gen, window
<1>8. Layout(st, base, n, m, t, e)'
  BY <1>5, <1>6, <1>7 DEF Layout
<1> QED  BY <1>1, <1>8 DEF WInv

LEMMA EndSendWInv ==
    ASSUME WInv, EndSend
    PROVE  WInv'
<1>1. PICK st \in [Nat -> Nat], base, n, m, t, e \in Nat : Layout(st, base, n, m, t, e)
  BY DEF WInv
<1>2. /\ pc = "send" /\ pc' = "rx" /\ to_send' = sending
      /\ UNCHANGED <<queues, gen, to_ack, left_psn, state, loop, wire, got>>
  BY DEF EndSend
<1>3. Ring(n) /\ Window(st, base, n, m, e)
  BY <1>1 DEF Layout
<1>4. Ring(n)'
  BY <1>2, <1>3 DEF Ring, End, loop, gen
<1>5. /\ Queues(m, t, e)' /\ Generator(st, base, n, m, t, e)' /\ Streams(st, base, n, m, t, e)'
      /\ Responses(st, base, n, m, e)' /\ Wire'
  BY <1>1, <1>2 DEF Layout, queues, gen, Queues, Generator, Streams, Responses, Stored, Slot,
                    Wire, NextPacket
<1>6. n > 0 => right_psn' = (base + n - 1) % PsnSpace
  <2> SUFFICES ASSUME n > 0 PROVE right_psn' = (base + n - 1) % PsnSpace
    OBVIOUS
  <2>1. /\ to_ack \in Positions /\ sending = Pos(to_ack, n)
        /\ n \in 0 .. MaxWinLen - 1 /\ n \in 1 .. MaxWinLen - 1 /\ n - 1 \in 0 .. n - 1
    BY <1>2, <1>3, Constants DEF Ring, End
  <2>2. sending # to_ack
    BY <2>1, PosFacts
  <2>3. right_psn' = get_psn(Slot(n - 1))
    <3>1. get_prev_position(sending) = Pos(to_ack, n - 1)
      BY <2>1, PrevPos
    <3> QED  BY <2>2, <3>1 DEF EndSend, Slot
  <2>4. Slot(n - 1).p = base + (n - 1)
    BY <1>3, <2>1 DEF Window, Content
  <2> QED  BY <2>3, <2>4 DEF get_psn
<1>7. Window(st, base, n, m, e)'
  BY <1>2, <1>3, <1>6 DEF Window, Content, Slot, queues, gen
<1>8. Layout(st, base, n, m, t, e)'
  BY <1>4, <1>5, <1>7 DEF Layout
<1> QED  BY <1>1, <1>8 DEF WInv

-----------------------------------------------------------------------------
(* A new sub-operation, and a response. *)

LEMMA PostWInv ==
    ASSUME WInv, NEW g \in Groups, NEW c \in 1 .. MaxPkts, Post(g, c)
    PROVE  WInv'
<1>1. PICK st \in [Nat -> Nat], base, n, m, t, e \in Nat : Layout(st, base, n, m, t, e)
  BY DEF WInv
<1> DEFINE S == [group : Groups, cnt : Nat \ {0}]
           o == [group |-> g, cnt |-> c]
           N == Len(ops)
<1>2. /\ Drained(g) /\ ops' = Append(ops, o) /\ wq' = Append(wq, N + 1) /\ got' = Append(got, {})
      /\ UNCHANGED <<pc, done, gen, window, loop, wire>>
  BY DEF Post
<1>3. /\ Ring(n) /\ Queues(m, t, e) /\ Generator(st, base, n, m, t, e) /\ Streams(st, base, n, m, t, e)
      /\ Window(st, base, n, m, e) /\ Responses(st, base, n, m, e) /\ Wire
  BY <1>1 DEF Layout
<1>4. ops \in Seq(S) /\ N \in Nat /\ m <= t /\ t <= e /\ e <= N /\ done = Run(0, m) /\ wq = Run(t, N)
  BY <1>3, LenProperties DEF Queues
<1>5. /\ ops' \in Seq(S) /\ Len(ops') = N + 1 /\ ops'[N + 1] = o
      /\ \A k \in 1 .. N : ops'[k] = ops[k]
  <2>1. o \in S
    BY Constants
  <2> QED  BY <1>2, <1>4, <2>1, AppendProperties
<1>6. /\ got' \in Seq(PacketSets) /\ Len(got') = N + 1 /\ got'[N + 1] = {}
      /\ \A k \in 1 .. N : got'[k] = got[k]
  <2>1. got \in Seq(PacketSets) /\ Len(got) = N
    BY <1>3 DEF Responses
  <2>2. /\ got' \in Seq(PacketSets) /\ Len(got') = Len(got) + 1 /\ got'[Len(got) + 1] = {}
        /\ \A k \in 1 .. Len(got) : got'[k] = got[k]
    <3>1. {} \in PacketSets
      BY DEF PacketSets
    <3>2. Extended(got, {}, Append(got, {}), PacketSets)
      BY <2>1, <3>1, Appended
    <3> QED  BY <1>2, <3>2 DEF Extended
  <2> HIDE DEF N
  <2> QED  BY <2>1, <2>2
<1> HIDE DEF S, o, N
<1>7. Ring(n)'
  BY <1>2, <1>3 DEF Ring, End, window, loop, gen
<1>8. Queues(m, t, e)'
  <2>1. wq' = Run(t, N + 1)
    <3>1. N \in Nat /\ t <= N
      BY <1>4
    <3>2. Append(Run(t, N), N + 1) = Run(t, N + 1)
      BY <3>1, RunAppend
    <3> QED  BY <1>2, <1>4, <3>2
  <2>2. ASSUME NEW k \in m + 1 .. N + 1 PROVE ops'[k].group = g
    <3>1. CASE k = N + 1
      BY <1>5, <3>1 DEF o
    <3>2. CASE k # N + 1
      <4>1. k \in 1 .. N /\ k > m
        BY <1>4, <3>2
      <4>2. k \notin Range(done)
        BY <1>4, <4>1, RangeOfRun
      <4>3. ops[k].group = g
        BY <1>2, <4>1, <4>2 DEF Drained, N
      <4> QED  BY <1>5, <4>1, <4>3
    <3> QED  BY <3>1, <3>2
  <2>3. \A k, l \in m + 1 .. N + 1 : ops'[k].group = ops'[l].group
    BY <2>2
  <2>4. e <= N + 1
    BY <1>4
  <2> QED  BY <1>2, <1>4, <1>5, <2>1, <2>3, <2>4 DEF Queues, S
<1>9. \A k \in m + 1 .. e : k \in 1 .. N /\ ops'[k] = ops[k]
  BY <1>4, <1>5
<1>10. Generator(st, base, n, m, t, e)'
  <2>1. e > m => ops'[e] = ops[e]
    <3>1. e > m => e \in m + 1 .. e
      OBVIOUS
    <3> QED  BY <1>9, <3>1
  <2>2. e = t + 1 => ops'[e] = ops[e]
    <3>1. e = t + 1 => e \in m + 1 .. e
      BY <1>4
    <3> QED  BY <1>9, <3>1
  <2> QED  BY <1>2, <1>3, <2>1, <2>2 DEF Generator, gen
<1>11. Streams(st, base, n, m, t, e)'
  <2>1. \A k \in m + 1 .. t : k \in m + 1 .. e
    BY <1>4
  <2> QED  BY <1>3, <1>9, <2>1 DEF Streams
<1>12. Window(st, base, n, m, e)'
  <2>1. \A k : Slot(k)' = Slot(k)
    BY <1>2 DEF Slot, window
  <2>2. ASSUME NEW k \in 0 .. n - 1 PROVE Content(Slot(k), base + k, st, m, e)'
    <3>1. Content(Slot(k), base + k, st, m, e)
      BY <1>3 DEF Window
    <3>2. Slot(k).op \in m + 1 .. e
      BY <3>1 DEF Content
    <3> QED  BY <1>2, <1>9, <2>1, <3>1, <3>2 DEF Content, gen
  <2> QED  BY <1>2, <1>3, <2>2 DEF Window, window
<1>13. Responses(st, base, n, m, e)'
  <2>1. \A q : Stored(q, base, n)' <=> Stored(q, base, n)
    BY <1>2 DEF Stored, Slot, window
  <2>2. \A k \in 1 .. m : k \in 1 .. N
    BY <1>4
  <2>3. ASSUME NEW k \in e + 1 .. N + 1 PROVE got'[k] = {}
    <3>1. CASE k = N + 1
      BY <1>6, <3>1
    <3>2. CASE k # N + 1
      <4>1. k \in e + 1 .. N /\ k \in 1 .. N
        BY <1>4, <3>2
      <4> QED  BY <1>3, <1>6, <4>1 DEF Responses, N
    <3> QED  BY <3>1, <3>2
  <2>4. ASSUME NEW k \in 1 .. m PROVE Cardinality(got'[k]) = ops'[k].cnt
    BY <1>3, <1>5, <1>6, <2>2 DEF Responses
  <2>5. ASSUME NEW k \in m + 1 .. e
        PROVE  got'[k] = {q \in st[k] .. st[k] + ops'[k].cnt - 1 : Stored(q, base, n)'}
    <3>1. got'[k] = got[k] /\ ops'[k] = ops[k]
      BY <1>6, <1>9
    <3>2. got[k] = {q \in st[k] .. st[k] + ops[k].cnt - 1 : Stored(q, base, n)}
      BY <1>3 DEF Responses
    <3> QED  BY <2>1, <3>1, <3>2
  <2> QED  BY <1>5, <1>6, <2>3, <2>4, <2>5 DEF Responses
<1>14. Wire'
  <2>1. \A h : NextPacket(h)' = NextPacket(h)
    <3>1. sub_op = NoOp \/ (sub_op.op = e /\ e \in m + 1 .. e)
      <4>1. e = t + 1 => e \in m + 1 .. e
        BY <1>4
      <4>2. sub_op = NoOp \/ (sub_op.op = e /\ e = t + 1)
        BY <1>3 DEF Generator
      <4> QED  BY <4>1, <4>2
    <3> QED  BY <1>2, <1>9, <3>1 DEF NextPacket, gen
  <2> QED  BY <1>2, <1>3, <2>1 DEF Wire
<1>15. Layout(st, base, n, m, t, e)'
  BY <1>7, <1>8, <1>10, <1>11, <1>12, <1>13, <1>14 DEF Layout
<1> QED  BY <1>1, <1>15 DEF WInv

\* The response to a packet is stored, and packets before it may be sent again.
LEMMA RxProcessOneWInv ==
    ASSUME WInv, NEW x \in wire, rx_process_one(x)
    PROVE  WInv'
<1>1. PICK st \in [Nat -> Nat], base, n, m, t, e \in Nat : Layout(st, base, n, m, t, e)
  BY DEF WInv
<1> DEFINE i == get_position(x)
           again == {Packet(k) : k \in collect_retrans(i)}
<1>2. /\ pc = "rx" /\ i # Invalid
      /\ state' = [state EXCEPT ![i].acked = TRUE]
      /\ got' = [got EXCEPT ![state[i].op] = @ \cup {state[i].p}]
      /\ wire' = wire \cup again
      /\ UNCHANGED <<pc, queues, gen, to_ack, to_send, left_psn, right_psn, loop>>
  BY DEF rx_process_one
<1> HIDE DEF i, again
<1>3. /\ Ring(n) /\ Queues(m, t, e) /\ Generator(st, base, n, m, t, e) /\ Streams(st, base, n, m, t, e)
      /\ Window(st, base, n, m, e) /\ Responses(st, base, n, m, e) /\ Wire
  BY <1>1 DEF Layout
<1>4. /\ to_ack \in Positions /\ state \in [Positions -> SlotState] /\ MaxWinLen \in Nat
      /\ n \in 0 .. MaxWinLen - 1 /\ to_send = Pos(to_ack, n)
  <2>1. pc = "rx" /\ Ring(n)
    BY <1>2, <1>3
  <2> QED  BY <2>1, Constants DEF Ring, End
<1>5. PICK d \in 0 .. n - 1 : i = Pos(to_ack, d) /\ d = x.p - base
  BY <1>2, <1>3, AnswersItsSlot DEF i
<1>6. i \in Positions /\ d \in 0 .. MaxWinLen - 1
  BY <1>4, <1>5, PosFacts
<1>7. Content(state[i], base + d, st, m, e)
  BY <1>3, <1>5 DEF Window, Slot
<1>8. PICK o \in Nat : /\ o = state[i].op /\ o \in m + 1 .. e
                       /\ state[i].p = base + d
                       /\ st[o] <= base + d /\ base + d < st[o] + ops[o].cnt
  BY <1>7 DEF Content
<1>9. ASSUME NEW x1 \in again
      PROVE  /\ x1 \in [group : Groups, p : Nat]
             /\ x1.p < NextPacket(x1.group) /\ NextPacket(x1.group) < x1.p + AggLen
  <2>1. PICK k \in Slots(to_ack, i) : x1 = Packet(k)
    BY <1>9 DEF collect_retrans, again
  <2>2. k \in Slots(to_ack, Pos(to_ack, n))
    <3>1. Distance(to_ack, i) = d /\ Distance(to_ack, Pos(to_ack, n)) = n
      BY <1>4, <1>5, <1>6, PosFacts
    <3>2. k \in Positions /\ Distance(to_ack, k) < d
      BY <2>1, <3>1 DEF Slots
    <3>3. Distance(to_ack, k) \in 0 .. MaxWinLen - 1
      BY <1>4, <3>2, DistanceFacts
    <3>4. Distance(to_ack, k) < n
      BY <3>2, <3>3
    <3> QED  BY <3>1, <3>2, <3>4 DEF Slots
  <2> QED  BY <1>1, <2>1, <2>2, SentAgain
<1>10. /\ state' \in [Positions -> SlotState]
       /\ \A j \in Positions : j # i => state'[j] = state[j]
       /\ state'[i] = [state[i] EXCEPT !.acked = TRUE]
  BY <1>2, <1>4, <1>6 DEF SlotState
<1>11. /\ state[i] \in SlotState
       /\ state'[i].acked = TRUE /\ state'[i].group = state[i].group /\ state'[i].p = state[i].p
       /\ state'[i].op = state[i].op /\ state'[i].is_last = state[i].is_last
  BY <1>4, <1>6, <1>10 DEF SlotState
<1>12. Ring(n)'
  BY <1>2, <1>3, <1>10 DEF Ring, End, loop, gen
<1>13. Queues(m, t, e)' /\ Generator(st, base, n, m, t, e)' /\ Streams(st, base, n, m, t, e)'
  BY <1>2, <1>3 DEF Queues, Generator, Streams, queues, gen
<1>14. ASSUME NEW k \in 0 .. n - 1
       PROVE  /\ k \in 0 .. MaxWinLen - 1 /\ Pos(to_ack, k) \in Positions
              /\ Pos(to_ack, k) = i <=> k = d
  <2>1. k \in 0 .. MaxWinLen - 1
    BY <1>4
  <2> QED  BY <1>4, <1>5, <1>6, <2>1, PosFacts, PosEqual
<1>15. Window(st, base, n, m, e)'
  <2>1. ASSUME NEW k \in 0 .. n - 1 PROVE Content(Slot(k), base + k, st, m, e)'
    <3>1. Content(Slot(k), base + k, st, m, e)
      BY <1>3 DEF Window
    <3>2. /\ Slot(k)'.group = Slot(k).group /\ Slot(k)'.p = Slot(k).p
          /\ Slot(k)'.op = Slot(k).op /\ Slot(k)'.is_last = Slot(k).is_last
      <4>1. Slot(k)' = state'[Pos(to_ack, k)] /\ Slot(k) = state[Pos(to_ack, k)]
        BY <1>2 DEF Slot
      <4> QED  BY <1>10, <1>11, <1>14, <4>1
    <3> QED  BY <1>2, <3>1, <3>2 DEF Content, queues, gen
  <2> QED  BY <1>2, <1>3, <2>1 DEF Window
<1>16. \A q \in Nat : q # base + d => (Stored(q, base, n)' <=> Stored(q, base, n))
  <2> SUFFICES ASSUME NEW q \in Nat, q # base + d, q >= base, q < base + n
               PROVE  Slot(q - base)' = Slot(q - base)
    BY DEF Stored
  <2>1. q - base \in 0 .. n - 1 /\ q - base # d
    OBVIOUS
  <2>2. Pos(to_ack, q - base) \in Positions /\ Pos(to_ack, q - base) # i
    BY <1>14, <2>1
  <2> QED  BY <1>2, <1>10, <2>2 DEF Slot
<1>17. Stored(base + d, base, n)'
  <2>1. (base + d) - base = d /\ base + d < base + n
    OBVIOUS
  <2>2. Slot(d)' = state'[i]
    BY <1>2, <1>5 DEF Slot
  <2> QED  BY <1>11, <2>1, <2>2 DEF Stored
<1>18. Responses(st, base, n, m, e)'
  <2>0. Queues(m, t, e) /\ ops' = ops
    BY <1>2, <1>3 DEF queues
  <2>1. /\ Len(ops) \in Nat /\ e <= Len(ops) /\ o \in 1 .. Len(ops)
        /\ \A k \in 1 .. Len(ops) : ops[k].cnt \in Nat
    <3>1. Len(ops) \in Nat /\ e <= Len(ops) /\ \A k \in 1 .. Len(ops) : ops[k].cnt \in Nat
      BY <2>0, OpFacts DEF Queues
    <3>2. o \in m + 1 .. e
      BY <1>8
    <3> QED  BY <3>1, <3>2
  <2>2. got \in Seq(PacketSets) /\ Len(got) = Len(ops)
    BY <1>3 DEF Responses
  <2>3. base + d \in Nat
    OBVIOUS
  <2>4. /\ got' \in Seq(PacketSets) /\ Len(got') = Len(got)
        /\ \A k \in 1 .. Len(got) : k # o => got'[k] = got[k]
        /\ got'[o] = got[o] \cup {base + d}
    <3>1. got' = [got EXCEPT ![o] = got[o] \cup {base + d}]
      BY <1>2, <1>8
    <3>2. o \in 1 .. Len(got)
      BY <2>1, <2>2
    <3>3. got[o] \cup {base + d} \in PacketSets
      <4>1. got[o] \in PacketSets
        BY <2>2, <3>2, ElementOfSeq
      <4> QED  BY <2>3, <4>1 DEF PacketSets
    <3>4. PICK z \in PacketSets : z = got[o] \cup {base + d}
      BY <3>3
    <3>5. /\ [got EXCEPT ![o] = z] \in Seq(PacketSets) /\ Len([got EXCEPT ![o] = z]) = Len(got)
          /\ \A k \in 1 .. Len(got) : [got EXCEPT ![o] = z][k] = IF k = o THEN z ELSE got[k]
      BY <2>2, <3>2, ExceptSeq
    <3>6. got' = [got EXCEPT ![o] = z]
      BY <3>1, <3>4
    <3> QED  BY <3>2, <3>4, <3>5, <3>6
  <2>5. ASSUME NEW k \in 1 .. m PROVE Cardinality(got'[k]) = ops'[k].cnt
    <3>1. k \in 1 .. Len(got) /\ k # o
      <4>1. o \in m + 1 .. e
        BY <1>8
      <4>2. m <= e /\ e <= Len(got) /\ Len(got) \in Nat
        BY <1>3, <2>1, <2>2 DEF Queues
      <4>3. m < o
        BY <4>1
      <4>4. k <= Len(got)
        BY <4>2
      <4> QED  BY <4>2, <4>3, <4>4
    <3> QED  BY <1>3, <2>0, <2>4, <3>1 DEF Responses
  <2>6. ASSUME NEW k \in e + 1 .. Len(ops) PROVE got'[k] = {}
    <3>1. k \in 1 .. Len(got) /\ k # o
      <4>1. o \in m + 1 .. e
        BY <1>8
      <4>2. e \in Nat /\ m \in Nat /\ o \in Nat /\ e <= Len(got) /\ Len(got) \in Nat /\ Len(got) = Len(ops)
        BY <2>1, <2>2
      <4> QED  BY <4>1, <4>2
    <3> QED  BY <1>3, <2>4, <3>1 DEF Responses
  <2>7. ASSUME NEW k \in m + 1 .. e
        PROVE  got'[k] = {q \in st[k] .. st[k] + ops'[k].cnt - 1 : Stored(q, base, n)'}
    <3>1. k \in 1 .. Len(ops) /\ st[k] \in Nat /\ ops[k].cnt \in Nat
      <4>1. k \in Nat /\ k \in 1 .. Len(ops)
        <5>1. Len(ops) \in Nat /\ e <= Len(ops)
          BY <2>1
        <5> QED  BY <5>1
      <4> QED  BY <2>1, <4>1
    <3> DEFINE P == st[k] .. st[k] + ops[k].cnt - 1
    <3>2. got[k] = {q \in P : Stored(q, base, n)}
      BY <1>3 DEF Responses
    <3>3. \A q \in P : q \in Nat
      BY <3>1
    <3>4. CASE k = o
      <4>1. base + d \in P
        <5>1. st[k] <= base + d /\ base + d < st[k] + ops[k].cnt
          BY <1>8, <3>4
        <5> QED  BY <2>3, <3>1, <5>1, PacketOf
      <4>2. got'[k] = got[k] \cup {base + d}
        BY <2>4, <3>4
      <4> HIDE DEF P
      <4>3. got'[k] = {q \in P : Stored(q, base, n)'}
        BY <1>16, <1>17, <3>2, <3>3, <4>1, <4>2
      <4> QED  BY <2>0, <4>3 DEF P
    <3>5. CASE k # o
      <4>1. base + d \notin P
        <5>1. o \in 1 .. Len(ops) /\ st[o] \in Nat /\ ops[o].cnt \in Nat
          BY <2>1
        <5>2. /\ k < o => st[k] + ops[k].cnt <= st[o]
              /\ o < k => st[o] + ops[o].cnt <= st[k]
          BY <1>3, <1>8 DEF Streams
        <5>3. k < o \/ o < k
          BY <3>1, <3>5, <5>1
        <5>4. st[o] <= base + d /\ base + d < st[o] + ops[o].cnt
          BY <1>8
        <5>5. ~(st[k] <= base + d /\ base + d < st[k] + ops[k].cnt)
          <6>1. PICK q \in Nat, u \in Nat, v \in Nat, f \in Nat, h \in Nat :
                   q = base + d /\ u = st[k] /\ v = ops[k].cnt /\ f = st[o] /\ h = ops[o].cnt
            BY <2>3, <3>1, <5>1
          <6>2. f <= q /\ q < f + h /\ (u + v <= f \/ f + h <= u)
            BY <5>2, <5>3, <5>4, <6>1
          <6>3. ~(u <= q /\ q < u + v)
            BY <6>2
          <6> QED  BY <6>1, <6>3
        <5> QED  BY <2>3, <3>1, <5>5, PacketOf
      <4>2. got'[k] = got[k]
        BY <2>2, <2>4, <3>1, <3>5
      <4> HIDE DEF P
      <4>3. got'[k] = {q \in P : Stored(q, base, n)'}
        BY <1>16, <3>2, <3>3, <4>1, <4>2
      <4> QED  BY <2>0, <4>3 DEF P
    <3> QED  BY <3>4, <3>5
  <2> QED  BY <2>0, <2>2, <2>4, <2>5, <2>6, <2>7 DEF Responses
<1>19. Wire'
  <2>1. \A g : NextPacket(g)' = NextPacket(g)
    BY <1>2 DEF NextPacket, queues, gen
  <2> QED  BY <1>2, <1>3, <1>9, <2>1 DEF Wire
<1>20. Layout(st, base, n, m, t, e)'
  BY <1>12, <1>13, <1>15, <1>18, <1>19 DEF Layout
<1> QED  BY <1>1, <1>20 DEF WInv

-----------------------------------------------------------------------------
(* The window moves on. *)

\* Strictly increasing numbers that fill 1 .. c.
LEMMA StrictlyIncreasing ==
    ASSUME NEW c \in Nat, NEW w \in [1 .. c -> 1 .. c],
           \A a, b \in 1 .. c : a < b => w[a] < w[b]
    PROVE  \A a \in 1 .. c : w[a] = a
<1>1. \A a \in 1 .. c : w[a] >= a
  <2> DEFINE S == {a \in 1 .. c : w[a] < a}
  <2> SUFFICES ASSUME S # {} PROVE FALSE
    OBVIOUS
  <2>1. PICK x \in S : \A y \in S : x <= y
    <3>1. S \in SUBSET Nat
      OBVIOUS
    <3> HIDE DEF S
    <3> QED  BY <3>1, LeastExists
  <2>2. x \in 1 .. c /\ w[x] < x /\ w[x] \in 1 .. c
    OBVIOUS
  <2>3. x # 1
    BY <2>2
  <2>4. x - 1 \in 1 .. c /\ x - 1 < x
    BY <2>2, <2>3
  <2>5. w[x - 1] < w[x] /\ w[x - 1] \in 1 .. c
    BY <2>2, <2>4
  <2>6. x - 1 \notin S
    BY <2>1, <2>4
  <2>7. w[x - 1] >= x - 1
    BY <2>4, <2>5, <2>6
  <2> QED  BY <2>2, <2>5, <2>7
<1>2. \A a \in 1 .. c : w[a] <= a
  <2> DEFINE S == {y \in 0 .. c - 1 : w[c - y] > c - y}
  <2>1. S = {}
    <3> SUFFICES ASSUME S # {} PROVE FALSE
      OBVIOUS
    <3>1. PICK x \in S : \A y \in S : x <= y
      <4>1. S \in SUBSET Nat
        OBVIOUS
      <4> HIDE DEF S
      <4> QED  BY <4>1, LeastExists
    <3>2. x \in 0 .. c - 1 /\ c - x \in 1 .. c /\ w[c - x] > c - x /\ w[c - x] \in 1 .. c
      OBVIOUS
    <3>3. x # 0
      BY <3>2
    <3>4. PICK z \in 0 .. c - 1 : z = x - 1 /\ z < x /\ c - z \in 1 .. c /\ c - x < c - z
      BY <3>2, <3>3
    <3>5. w[c - x] < w[c - z] /\ w[c - z] \in 1 .. c
      BY <3>2, <3>4
    <3>6. z \notin S
      <4>1. ~(x <= z)
        BY <3>2, <3>4
      <4> HIDE DEF S
      <4> QED  BY <3>1, <4>1
    <3>7. w[c - z] <= c - z
      BY <3>4, <3>5, <3>6
    <3> QED  BY <3>2, <3>4, <3>5, <3>7
  <2>2. ASSUME NEW a \in 1 .. c PROVE w[a] <= a
    <3>1. c - a \in 0 .. c - 1 /\ c - (c - a) = a /\ w[a] \in 1 .. c
      OBVIOUS
    <3>2. c - a \notin S
      BY <2>1
    <3> QED  BY <3>1, <3>2
  <2> QED  BY <2>2
<1>3. \A a \in 1 .. c : w[a] \in Nat /\ a \in Nat
  OBVIOUS
<1> QED  BY <1>1, <1>2, <1>3

\* One after the last packet of a sub-operation.
EndOf(st, k) == st[k] + ops[k].cnt

LEMMA Ends ==
    ASSUME NEW st \in [Nat -> Nat], NEW base \in Nat, NEW n \in Nat,
           NEW m \in Nat, NEW t \in Nat, NEW e \in Nat,
           Queues(m, t, e), Streams(st, base, n, m, t, e), NEW k \in m + 1 .. e
    PROVE  /\ k \in 1 .. Len(ops) /\ st[k] \in Nat /\ EndOf(st, k) \in Nat
           /\ st[k] < EndOf(st, k) /\ base < EndOf(st, k)
<1>1. k \in Nat /\ k \in 1 .. Len(ops)
  <2>1. Len(ops) \in Nat /\ e <= Len(ops)
    BY OpFacts DEF Queues
  <2> QED  BY <2>1
<1>2. ops[k].cnt \in Nat /\ ops[k].cnt > 0 /\ st[k] \in Nat
  BY <1>1, OpFacts
<1>3. base < st[k] + ops[k].cnt
  BY DEF Streams
<1>4. PICK u \in Nat, c \in Nat : u = st[k] /\ c = ops[k].cnt
  BY <1>2
<1>5. u + c \in Nat /\ u < u + c /\ base < u + c
  BY <1>2, <1>3, <1>4
<1> QED  BY <1>1, <1>2, <1>4, <1>5 DEF EndOf

LEMMA EndsInOrder ==
    ASSUME NEW st \in [Nat -> Nat], NEW base \in Nat, NEW n \in Nat,
           NEW m \in Nat, NEW t \in Nat, NEW e \in Nat,
           Queues(m, t, e), Streams(st, base, n, m, t, e),
           NEW k \in m + 1 .. e, NEW l \in m + 1 .. e, k < l
    PROVE  EndOf(st, k) <= st[l] /\ EndOf(st, k) < EndOf(st, l)
<1>1. EndOf(st, k) <= st[l]
  BY DEF Streams, EndOf
<1>2. EndOf(st, k) \in Nat /\ st[l] \in Nat /\ EndOf(st, l) \in Nat /\ st[l] < EndOf(st, l)
  BY Ends
<1> QED  BY <1>1, <1>2

\* A packet belongs to one sub-operation.
Begun(k, m, e) == k \in m + 1 .. e
Owns(st, k, q) == st[k] <= q /\ q < EndOf(st, k)
Same(k, l) == k = l

LEMMA OneOwner ==
    ASSUME NEW st \in [Nat -> Nat], NEW base \in Nat, NEW n \in Nat,
           NEW m \in Nat, NEW t \in Nat, NEW e \in Nat,
           Queues(m, t, e), Streams(st, base, n, m, t, e),
           NEW k, NEW l, Begun(k, m, e), Begun(l, m, e),
           NEW q \in Nat, Owns(st, k, q), Owns(st, l, q)
    PROVE  Same(k, l)
<1>0. /\ k \in m + 1 .. e /\ l \in m + 1 .. e
      /\ st[k] <= q /\ q < EndOf(st, k) /\ st[l] <= q /\ q < EndOf(st, l)
  BY DEF Begun, Owns
<1>1. /\ st[k] \in Nat /\ EndOf(st, k) \in Nat /\ st[l] \in Nat /\ EndOf(st, l) \in Nat
  BY <1>0, Ends
<1>2. ASSUME k < l PROVE FALSE
  <2>1. EndOf(st, k) <= st[l]
    BY <1>0, <1>2, EndsInOrder
  <2> QED  BY <1>0, <1>1, <2>1
<1>3. ASSUME l < k PROVE FALSE
  <2>1. EndOf(st, l) <= st[k]
    BY <1>0, <1>3, EndsInOrder
  <2> QED  BY <1>0, <1>1, <2>1
<1>4. k \in Nat /\ l \in Nat
  BY <1>0
<1> QED  BY <1>2, <1>3, <1>4 DEF Same

\* The sub-operations after m up to r end before packet x, and those after r do not.
Completed(st, x, m, r, e) ==
    /\ \A k \in m + 1 .. r : EndOf(st, k) <= x
    /\ \A k \in r + 1 .. e : x < EndOf(st, k)

SomeCompleted(st, x, m, t, e) == \E r \in Nat : m <= r /\ r <= t /\ Completed(st, x, m, r, e)

LEMMA CompletedUpTo ==
    ASSUME NEW st \in [Nat -> Nat], NEW base \in Nat, NEW n \in Nat,
           NEW m \in Nat, NEW t \in Nat, NEW e \in Nat,
           Queues(m, t, e), Generator(st, base, n, m, t, e), Streams(st, base, n, m, t, e),
           NEW x \in Nat, x <= base + n
    PROVE  SomeCompleted(st, x, m, t, e)
<1>1. m <= t /\ t <= e
  BY DEF Queues
<1> DEFINE U == {o \in m + 1 .. e + 1 : o = e + 1 \/ x < EndOf(st, o)}
<1>2. PICK u \in U : \A y \in U : u <= y
  <2>1. U \in SUBSET Nat
    OBVIOUS
  <2>2. e + 1 \in U
    BY <1>1
  <2> HIDE DEF U
  <2> QED  BY <2>1, <2>2, LeastExists
<1>3. u \in m + 1 .. e + 1 /\ (u = e + 1 \/ x < EndOf(st, u))
  OBVIOUS
<1>4. PICK r \in Nat : r = u - 1 /\ u = r + 1 /\ m <= r /\ r <= e
  BY <1>1, <1>3
<1>5. ASSUME NEW k \in m + 1 .. r PROVE EndOf(st, k) <= x
  <2>1. k \in m + 1 .. e /\ k \in m + 1 .. e + 1 /\ ~(u <= k)
    BY <1>4
  <2>2. k \notin U
    BY <1>2, <2>1
  <2>3. ~(x < EndOf(st, k))
    BY <2>1, <2>2
  <2>4. EndOf(st, k) \in Nat
    BY <2>1, Ends
  <2> QED  BY <2>3, <2>4
<1>6. ASSUME NEW k \in r + 1 .. e PROVE x < EndOf(st, k)
  <2>1. u \in m + 1 .. e /\ k \in m + 1 .. e /\ (k = u \/ u < k)
    BY <1>4
  <2>2. x < EndOf(st, u) /\ EndOf(st, u) \in Nat /\ EndOf(st, k) \in Nat
    <3>1. u # e + 1
      BY <2>1
    <3>2. x < EndOf(st, u)
      BY <1>3, <3>1
    <3>3. EndOf(st, u) \in Nat /\ EndOf(st, k) \in Nat
      BY <2>1, Ends
    <3> QED  BY <3>2, <3>3
  <2>3. u < k => EndOf(st, u) < EndOf(st, k)
    BY <2>1, EndsInOrder
  <2> QED  BY <2>1, <2>2, <2>3
<1>7. r <= t
  <2> SUFFICES ASSUME r > t PROVE FALSE
    BY <1>1, <1>4
  <2>0. e <= t + 1
    BY DEF Generator
  <2>1. e > t /\ e \in m + 1 .. r /\ e \in m + 1 .. e
    BY <1>1, <1>4, <2>0
  <2>2. base + n < EndOf(st, e)
    BY <2>1 DEF Generator, EndOf
  <2>3. EndOf(st, e) <= x /\ EndOf(st, e) \in Nat
    BY <1>5, <2>1, Ends
  <2> QED  BY <2>2, <2>3
<1> QED  BY <1>4, <1>5, <1>6, <1>7 DEF Completed, SomeCompleted

\* The window moves on by d packets, with which the sub-operations up to r are complete.
Moves(st, base, n, m, t, e, d, r) ==
    d \in 0 .. n /\ m <= r /\ r <= t /\ Completed(st, base + d, m, r, e)

\* The slots of last packets among the first d.
LastSlots(d) == {k \in Slots(to_ack, Pos(to_ack, d)) : state[k].is_last}

\* The last packet of a sub-operation, in slot i.
LastAt(i, st, base, m, d, r) ==
    /\ state[i].op \in m + 1 .. r /\ Distance(to_ack, i) \in 0 .. d - 1
    /\ EndOf(st, state[i].op) = base + Distance(to_ack, i) + 1

LEMMA LastSlotIs ==
    ASSUME NEW st \in [Nat -> Nat], NEW base \in Nat, NEW n \in Nat,
           NEW m \in Nat, NEW t \in Nat, NEW e \in Nat, Layout(st, base, n, m, t, e),
           NEW d \in Nat, NEW r \in Nat, Moves(st, base, n, m, t, e, d, r), NEW i \in LastSlots(d)
    PROVE  LastAt(i, st, base, m, d, r)
<1>1. /\ Ring(n) /\ Queues(m, t, e) /\ Streams(st, base, n, m, t, e) /\ Window(st, base, n, m, e)
      /\ t <= e
  BY DEF Layout, Queues
<1>2. to_ack \in Positions /\ d \in 0 .. MaxWinLen - 1 /\ d \in 0 .. n
  BY <1>1, Constants DEF Ring, Moves
<1>3. PICK k \in 0 .. d - 1 : i = Pos(to_ack, k)
  BY <1>2, SlotsAre DEF LastSlots
<1>4. k \in 0 .. n - 1 /\ k \in 0 .. MaxWinLen - 1
  BY <1>2, Constants
<1>5. Distance(to_ack, i) = k
  BY <1>2, <1>3, <1>4, PosFacts
<1>6. PICK o \in Nat : o = state[i].op /\ o \in m + 1 .. e /\ base + k + 1 = EndOf(st, o)
  <2>1. Content(state[i], base + k, st, m, e) /\ state[i].is_last
    BY <1>1, <1>3, <1>4 DEF Window, Slot, LastSlots
  <2> QED  BY <2>1 DEF Content, EndOf
<1>7. o <= r
  <2> SUFFICES ASSUME o > r PROVE FALSE
    BY <1>6
  <2>1. o \in r + 1 .. e
    BY <1>6
  <2>2. base + d < EndOf(st, o)
    BY <2>1 DEF Moves, Completed
  <2> QED  BY <1>6, <2>2
<1>8. o \in m + 1 .. r
  BY <1>6, <1>7
<1> QED  BY <1>5, <1>6, <1>8 DEF LastAt

HasLast(o, d) == \E i \in LastSlots(d) : state[i].op = o

LEMMA LastSlotOf ==
    ASSUME NEW st \in [Nat -> Nat], NEW base \in Nat, NEW n \in Nat,
           NEW m \in Nat, NEW t \in Nat, NEW e \in Nat, Layout(st, base, n, m, t, e),
           NEW d \in Nat, NEW r \in Nat, Moves(st, base, n, m, t, e, d, r), NEW o \in m + 1 .. r
    PROVE  HasLast(o, d)
<1>1. /\ Ring(n) /\ Queues(m, t, e) /\ Streams(st, base, n, m, t, e) /\ Window(st, base, n, m, e)
      /\ t <= e
  BY DEF Layout, Queues
<1>2. to_ack \in Positions /\ d \in 0 .. MaxWinLen - 1 /\ d \in 0 .. n /\ r <= t
  BY <1>1, Constants DEF Ring, Moves
<1>3. o \in m + 1 .. e
  BY <1>1, <1>2
<1>4. EndOf(st, o) \in Nat /\ base < EndOf(st, o) /\ st[o] < EndOf(st, o) /\ st[o] \in Nat
  BY <1>1, <1>3, Ends
<1>5. EndOf(st, o) <= base + d
  BY DEF Moves, Completed
<1>6. PICK k \in 0 .. d - 1 : base + k + 1 = EndOf(st, o)
  <2>1. EndOf(st, o) - base - 1 \in 0 .. d - 1 /\ base + (EndOf(st, o) - base - 1) + 1 = EndOf(st, o)
    BY <1>4, <1>5
  <2> QED  BY <2>1
<1>7. k \in 0 .. n - 1 /\ k \in 0 .. MaxWinLen - 1
  BY <1>2, Constants
<1> DEFINE i == Pos(to_ack, k)
<1>8. i \in Slots(to_ack, Pos(to_ack, d))
  BY <1>2, SlotsAre
<1>9. Content(state[i], base + k, st, m, e)
  BY <1>1, <1>7 DEF Window, Slot
<1> HIDE DEF i
<1>10. PICK l \in Nat : /\ l = state[i].op /\ l \in m + 1 .. e
                        /\ st[l] <= base + k /\ base + k < EndOf(st, l)
  BY <1>9 DEF Content, EndOf
<1>11. st[o] <= base + k /\ base + k < EndOf(st, o)
  BY <1>4, <1>6
<1>12. l = o
  <2>1. PICK q \in Nat : q = base + k
    OBVIOUS
  <2>2. Owns(st, o, q) /\ Owns(st, l, q) /\ Begun(o, m, e) /\ Begun(l, m, e)
    BY <1>3, <1>10, <1>11, <2>1 DEF Owns, Begun
  <2>3. Same(l, o)
    BY <1>1, <2>2, OneOwner
  <2> QED  BY <2>3 DEF Same
<1>13. state[i].is_last
  BY <1>6, <1>9, <1>10, <1>12 DEF Content, EndOf
<1> QED  BY <1>8, <1>10, <1>12, <1>13 DEF LastSlots, HasLast

LastCount(d, m, r) == Cardinality(LastSlots(d)) = r - m

LEMMA LastSlotsCount ==
    ASSUME NEW st \in [Nat -> Nat], NEW base \in Nat, NEW n \in Nat,
           NEW m \in Nat, NEW t \in Nat, NEW e \in Nat, Layout(st, base, n, m, t, e),
           NEW d \in Nat, NEW r \in Nat, Moves(st, base, n, m, t, e, d, r)
    PROVE  LastCount(d, m, r)
<1> DEFINE L == LastSlots(d)
           R == m + 1 .. r
           F == [i \in L |-> state[i].op]
<1>0. \A i \in L : LastAt(i, st, base, m, d, r)
  BY LastSlotIs
<1>1. F \in [L -> R]
  BY <1>0 DEF LastAt
<1>2. ASSUME NEW i \in L, NEW j \in L, F[i] = F[j] PROVE i = j
  <2>1. state[i].op = state[j].op
    BY <1>2
  <2>2. /\ Distance(to_ack, i) \in 0 .. d - 1 /\ EndOf(st, state[i].op) = base + Distance(to_ack, i) + 1
        /\ Distance(to_ack, j) \in 0 .. d - 1 /\ EndOf(st, state[j].op) = base + Distance(to_ack, j) + 1
    BY <1>0 DEF LastAt
  <2>3. Distance(to_ack, i) = Distance(to_ack, j)
    <3>1. PICK a \in 0 .. d - 1, b \in 0 .. d - 1 : a = Distance(to_ack, i) /\ b = Distance(to_ack, j)
      BY <2>2
    <3>2. base + a + 1 = base + b + 1
      BY <2>1, <2>2, <3>1
    <3>3. a = b
      BY <3>2
    <3> QED  BY <3>1, <3>3
  <2>4. i \in Positions /\ j \in Positions /\ to_ack \in Positions
    BY DEF LastSlots, Slots, Layout, Ring
  <2>5. Pos(to_ack, Distance(to_ack, i)) = i /\ Pos(to_ack, Distance(to_ack, j)) = j
    BY <2>4, DistanceFacts
  <2> QED  BY <2>3, <2>5
<1>3. ASSUME NEW o \in R PROVE \E i \in L : F[i] = o
  <2>0. HasLast(o, d)
    <3> HIDE DEF L, F
    <3> QED  BY LastSlotOf
  <2>1. PICK i \in LastSlots(d) : state[i].op = o
    BY <2>0 DEF HasLast
  <2> QED  BY <2>1
<1>4. F \in Bijection(L, R)
  <2> HIDE DEF L, R, F
  <2>1. DOMAIN F = L
    BY <1>1
  <2>2. F \in Injection(L, R)
    BY <1>1, <1>2, <2>1 DEF Injection, IsInjective
  <2>3. F \in Surjection(L, R)
    BY <1>1, <1>3 DEF Surjection
  <2> QED  BY <2>2, <2>3 DEF Bijection
<1> HIDE DEF L, F
<1>5. ExistsBijection(R, L)
  <2> HIDE DEF R
  <2>1. ExistsBijection(L, R)
    BY <1>4 DEF ExistsBijection
  <2> QED  BY <2>1, Fun_ExistsBijSymmetric
<1>6. IsFiniteSet(R) /\ Cardinality(R) = r - m
  <2>1. m + 1 \in Int /\ r \in Int /\ m <= r
    BY DEF Moves
  <2>2. IsFiniteSet(R) /\ Cardinality(R) = IF m + 1 > r THEN 0 ELSE r - (m + 1) + 1
    BY <2>1, FS_Interval
  <2> HIDE DEF R
  <2> QED  BY <2>1, <2>2
<1> HIDE DEF R
<1>7. Cardinality(L) = r - m
  BY <1>5, <1>6, FS_Bijection
<1> QED  BY <1>7 DEF L, LastCount

\* They complete in order.
Completes(s, r) == done \o [x \in DOMAIN s |-> state[s[x]].op] = Run(0, r)

LEMMA DoneIs ==
    ASSUME NEW st \in [Nat -> Nat], NEW base \in Nat, NEW n \in Nat,
           NEW m \in Nat, NEW t \in Nat, NEW e \in Nat, Layout(st, base, n, m, t, e),
           NEW d \in Nat, NEW r \in Nat, Moves(st, base, n, m, t, e, d, r),
           NEW s \in InOrder(LastSlots(d))
    PROVE  Completes(s, r)
<1>1. PICK c \in Nat : c = r - m /\ r = m + c
  BY DEF Moves
<1>2. /\ s \in [1 .. c -> LastSlots(d)] /\ DOMAIN s = 1 .. c
      /\ \A a, b \in 1 .. c : a < b => Distance(to_ack, s[a]) < Distance(to_ack, s[b])
  <2>0. LastCount(d, m, r)
    BY LastSlotsCount
  <2>1. Cardinality(LastSlots(d)) = c
    BY <1>1, <2>0 DEF LastCount
  <2>2. s \in [1 .. c -> LastSlots(d)]
    BY <2>1 DEF InOrder
  <2> QED  BY <2>2 DEF InOrder
<1> DEFINE w == [a \in 1 .. c |-> state[s[a]].op - m]
<1>3. ASSUME NEW a \in 1 .. c
      PROVE  /\ state[s[a]].op \in m + 1 .. r
             /\ Distance(to_ack, s[a]) \in 0 .. d - 1
             /\ EndOf(st, state[s[a]].op) = base + Distance(to_ack, s[a]) + 1
  <2>1. s[a] \in LastSlots(d)
    BY <1>2
  <2>2. LastAt(s[a], st, base, m, d, r)
    BY <2>1, LastSlotIs
  <2> QED  BY <2>2 DEF LastAt
<1>4. w \in [1 .. c -> 1 .. c]
  <2>1. ASSUME NEW a \in 1 .. c PROVE state[s[a]].op - m \in 1 .. c
    <3>1. state[s[a]].op \in m + 1 .. r
      BY <1>3
    <3> QED  BY <1>1, <3>1
  <2> QED  BY <2>1
<1>5. ASSUME NEW a \in 1 .. c, NEW b \in 1 .. c, a < b PROVE w[a] < w[b]
  <2>1. PICK k \in m + 1 .. r, l \in m + 1 .. r, x \in 0 .. d - 1, y \in 0 .. d - 1 :
           /\ k = state[s[a]].op /\ l = state[s[b]].op
           /\ x < y /\ EndOf(st, k) = base + x + 1 /\ EndOf(st, l) = base + y + 1
    BY <1>2, <1>3, <1>5
  <2>2. /\ Queues(m, t, e) /\ Streams(st, base, n, m, t, e)
        /\ k \in m + 1 .. e /\ l \in m + 1 .. e
    <3>1. r <= t /\ t <= e
      BY DEF Moves, Layout, Queues
    <3> QED  BY <3>1 DEF Layout
  <2>3. EndOf(st, k) < EndOf(st, l)
    BY <2>1
  <2>4. k # l
    BY <2>1
  <2>5. ~(l < k)
    <3> SUFFICES ASSUME l < k PROVE FALSE
      OBVIOUS
    <3>1. EndOf(st, l) < EndOf(st, k)
      BY <2>2, EndsInOrder
    <3>2. EndOf(st, l) \in Nat /\ EndOf(st, k) \in Nat
      BY <2>1
    <3> QED  BY <2>3, <3>1, <3>2
  <2>6. k < l
    BY <2>4, <2>5
  <2>7. w[a] = k - m /\ w[b] = l - m
    BY <2>1
  <2> QED  BY <2>6, <2>7
<1> HIDE DEF w
<1>6. \A a \in 1 .. c : w[a] = a
  BY <1>4, <1>5, StrictlyIncreasing
<1>7. ASSUME NEW a \in 1 .. c PROVE state[s[a]].op = m + a
  <2>1. w[a] = a /\ w[a] = state[s[a]].op - m /\ state[s[a]].op \in m + 1 .. r
    BY <1>3, <1>6 DEF w
  <2> QED  BY <2>1
<1> DEFINE v == [x \in DOMAIN s |-> state[s[x]].op]
<1>8. v = [x \in 1 .. c |-> m + x]
  BY <1>2, <1>7
<1>9. v = Run(m, r)
  <2>1. 1 .. r - m = 1 .. c
    BY <1>1
  <2> QED  BY <1>8, <2>1 DEF Run
<1> HIDE DEF v
<1>10. /\ v \in Seq(Nat) /\ Len(v) = c /\ \A x \in 1 .. c : v[x] = m + x
  <2>1. m <= r
    BY DEF Moves
  <2>2. /\ Run(m, r) \in Seq(Nat) /\ Len(Run(m, r)) = r - m
        /\ \A x \in 1 .. r - m : Run(m, r)[x] = m + x
    BY <2>1, RunIs
  <2> QED  BY <1>1, <1>9, <2>2
<1>11. done = Run(0, m) /\ done \in Seq(Nat) /\ Len(done) = m /\ \A x \in 1 .. m : done[x] = x
  <2>1. done = Run(0, m)
    BY DEF Layout, Queues
  <2>2. 0 \in Nat /\ 0 <= m /\ m - 0 = m /\ \A x \in 1 .. m : 0 + x = x
    OBVIOUS
  <2> QED  BY <2>1, <2>2, RunIs
<1>12. /\ done \o v \in Seq(Nat) /\ Len(done \o v) = m + c
       /\ \A x \in 1 .. m + c : (done \o v)[x] = IF x <= m THEN done[x] ELSE v[x - m]
  <2>1. Joined(done, v, done \o v)
    BY <1>10, <1>11, Concatenated
  <2> QED  BY <1>10, <1>11, <2>1 DEF Joined
<1> DEFINE f == done \o v
<1> HIDE DEF f
<1>13. ASSUME NEW x \in 1 .. r PROVE f[x] = 0 + x
  <2>1. f[x] = IF x <= m THEN done[x] ELSE v[x - m]
    BY <1>1, <1>12 DEF f
  <2>2. CASE x <= m
    <3>1. x \in 1 .. m
      BY <2>2
    <3>2. f[x] = x
      BY <1>11, <2>1, <2>2, <3>1
    <3> QED  BY <3>2
  <2>3. CASE x > m
    <3>1. x - m \in 1 .. c /\ m + (x - m) = x /\ ~(x <= m)
      BY <1>1, <2>3
    <3> QED  BY <1>10, <2>1, <3>1
  <2> QED  BY <2>2, <2>3
<1>14. f \in Seq(Nat) /\ Len(f) = r - 0
  BY <1>1, <1>12 DEF f
<1>15. f = Run(0, r)
  <2>1. 0 \in Nat /\ 0 <= r /\ \A x \in 1 .. r - 0 : f[x] = 0 + x
    BY <1>13
  <2> QED  BY <1>14, <2>1, IsRun
<1> QED  BY <1>15 DEF f, v, Completes

LEMMA ShiftAckWInv ==
    ASSUME WInv, shift_ack
    PROVE  WInv'
<1>1. PICK st \in [Nat -> Nat], base, n, m, t, e \in Nat : Layout(st, base, n, m, t, e)
  BY DEF WInv
<1>2. /\ pc = "rx" /\ pc' = "tx"
      /\ UNCHANGED <<ops, wq, gen, to_send, right_psn, state, loop, wire, got>>
  BY DEF shift_ack
<1>3. PICK j \in Slots(to_ack, to_send) \cup {to_send} :
         /\ AckedTo(j)
         /\ \E s \in InOrder({k \in Slots(to_ack, j) : state[k].is_last}) :
              done' = done \o [x \in DOMAIN s |-> state[s[x]].op]
         /\ to_ack' = j
         /\ left_psn' = IF j = to_send THEN 0 ELSE get_psn(state[j])
  BY DEF shift_ack
<1>4. /\ Ring(n) /\ Queues(m, t, e) /\ Generator(st, base, n, m, t, e) /\ Streams(st, base, n, m, t, e)
      /\ Window(st, base, n, m, e) /\ Responses(st, base, n, m, e) /\ Wire
  BY <1>1 DEF Layout
<1>5. to_ack \in Positions /\ n \in 0 .. MaxWinLen - 1 /\ to_send = Pos(to_ack, n) /\ MaxWinLen \in Nat
  BY <1>2, <1>4, Constants DEF Ring, End
<1>6. PICK d \in Nat : j = Pos(to_ack, d) /\ d \in 0 .. n
  <2>1. CASE j = to_send
    <3>1. n \in 0 .. n
      OBVIOUS
    <3> QED  BY <1>5, <2>1, <3>1
  <2>2. CASE j # to_send
    <3>1. j \in Slots(to_ack, Pos(to_ack, n))
      BY <1>5, <2>2
    <3>2. PICK k \in 0 .. n - 1 : j = Pos(to_ack, k)
      BY <1>5, <3>1, SlotsAre
    <3>3. k \in Nat /\ k \in 0 .. n
      OBVIOUS
    <3> QED  BY <3>2, <3>3
  <2> QED  BY <2>1, <2>2
<1>7. d \in 0 .. MaxWinLen - 1 /\ j \in Positions /\ (j = to_send => d = n)
  <2>1. d \in 0 .. MaxWinLen - 1
    BY <1>5, <1>6
  <2> QED  BY <1>5, <1>6, <2>1, PosFacts, PosEqual
<1>8. PICK b \in Nat, l \in Nat : b = base + d /\ l = n - d /\ b + l = base + n /\ n = d + l
  BY <1>6
<1>9. PICK r \in Nat : m <= r /\ r <= t /\ Completed(st, b, m, r, e)
  <2>1. b <= base + n
    BY <1>8
  <2>2. SomeCompleted(st, b, m, t, e)
    BY <1>4, <2>1, CompletedUpTo
  <2> QED  BY <2>2 DEF SomeCompleted
<1>10. Moves(st, base, n, m, t, e, d, r)
  BY <1>6, <1>8, <1>9 DEF Moves
<1>11. t <= e /\ e <= Len(ops) /\ Len(ops) \in Nat
  BY <1>4, OpFacts DEF Queues
<1>12. \A k \in r + 1 .. e : k \in m + 1 .. e
  BY <1>9
<1>13. ASSUME NEW k \in Nat, k <= l PROVE Slot(k)' = Slot(d + k) /\ Pos(j, k) = Pos(to_ack, d + k)
  <2>1. d + k < MaxWinLen
    BY <1>5, <1>8, <1>13
  <2>2. Pos(j, k) = Pos(to_ack, d + k)
    BY <1>5, <1>6, <2>1, PosSum
  <2> QED  BY <1>2, <1>3, <2>2 DEF Slot
<1>14. ASSUME NEW k \in 0 .. d - 1 PROVE Slot(k).acked
  <2>1. Pos(to_ack, k) \in Slots(to_ack, j)
    BY <1>5, <1>6, <1>7, SlotsAre
  <2> QED  BY <1>3, <2>1 DEF AckedTo, Slot
<1>15. Ring(l)'
  <2>1. l < MaxWinLen /\ l <= AggLen \div 2
    <3>1. n <= AggLen \div 2 /\ AggLen \div 2 \in Nat
      BY <1>4, Constants DEF Ring
    <3> QED  BY <1>5, <1>8, <3>1
  <2>2. to_send = Pos(j, l)
    <3>1. l <= l
      OBVIOUS
    <3> QED  BY <1>5, <1>8, <1>13, <3>1
  <2> QED  BY <1>2, <1>3, <1>4, <1>7, <2>1, <2>2 DEF Ring, End, loop, gen
<1>16. Queues(r, t, e)'
  <2>1. done' = Run(0, r)
    <3>1. PICK s \in InOrder({k \in Slots(to_ack, j) : state[k].is_last}) :
             done' = done \o [x \in DOMAIN s |-> state[s[x]].op]
      BY <1>3
    <3>2. s \in InOrder(LastSlots(d))
      BY <1>6 DEF LastSlots
    <3>3. Completes(s, r)
      BY <1>1, <1>10, <3>2, DoneIs
    <3> QED  BY <3>1, <3>3 DEF Completes
  <2>2. \A k \in r + 1 .. Len(ops) : k \in m + 1 .. Len(ops)
    BY <1>9, <1>11
  <2> QED  BY <1>2, <1>4, <1>9, <2>1, <2>2 DEF Queues
<1>17. Generator(st, b, l, r, t, e)'
  <2>1. e > r => e > m
    BY <1>9
  <2> QED  BY <1>2, <1>4, <1>8, <2>1 DEF Generator, gen
<1>18. Streams(st, b, l, r, t, e)'
  <2>1. \A k \in r + 1 .. t : k \in m + 1 .. t
    BY <1>9
  <2>2. \A k \in r + 1 .. e : b < st[k] + ops[k].cnt
    BY <1>9 DEF Completed, EndOf
  <2> QED  BY <1>2, <1>4, <1>8, <1>12, <2>1, <2>2 DEF Streams
<1>19. Window(st, b, l, r, e)'
  <2>1. ASSUME NEW k \in 0 .. l - 1 PROVE Content(Slot(k), b + k, st, r, e)'
    <3>1. k \in Nat /\ k <= l /\ d + k \in 0 .. n - 1 /\ base + (d + k) = b + k /\ b + k >= b /\ b + k \in Nat
      BY <1>8
    <3>2. Slot(k)' = Slot(d + k) /\ Content(Slot(d + k), b + k, st, m, e)
      BY <1>4, <1>13, <3>1 DEF Window
    <3> DEFINE s == Slot(d + k)
    <3>3. s.op \in m + 1 .. e /\ b + k < EndOf(st, s.op)
      BY <3>2 DEF Content, EndOf
    <3> HIDE DEF s
    <3>4. s.op > r
      <4> SUFFICES ASSUME ~(s.op > r) PROVE FALSE
        OBVIOUS
      <4>1. s.op \in m + 1 .. r
        BY <3>3
      <4>2. EndOf(st, s.op) <= b
        BY <1>9, <4>1 DEF Completed
      <4>3. EndOf(st, s.op) \in Nat
        BY <1>4, <3>3, Ends
      <4> QED  BY <3>1, <3>3, <4>2, <4>3
    <3>5. s.op \in r + 1 .. e
      BY <3>3, <3>4
    <3> QED  BY <1>2, <3>2, <3>5 DEF Content, gen, s
  <2>2. l > 0 => left_psn' = b % PsnSpace
    <3> SUFFICES ASSUME l > 0 PROVE left_psn' = b % PsnSpace
      OBVIOUS
    <3>1. j # to_send /\ d \in 0 .. n - 1
      BY <1>7, <1>8
    <3>2. Slot(d).p = base + d
      BY <1>4, <3>1 DEF Window, Content
    <3> QED  BY <1>3, <1>6, <1>8, <3>1, <3>2 DEF Slot, get_psn
  <2>3. pc' # "rx"
    BY <1>2
  <2> QED  BY <2>1, <2>2, <2>3 DEF Window
<1>20. ASSUME NEW q \in Nat, q < b PROVE Stored(q, base, n) /\ Stored(q, b, l)'
  <2>1. q < base \/ (q < base + n /\ q - base \in 0 .. d - 1)
    BY <1>8, <1>20
  <2> QED  BY <1>14, <1>20, <2>1 DEF Stored
<1>21. ASSUME NEW q \in Nat PROVE Stored(q, b, l)' <=> Stored(q, base, n)
  <2>1. CASE q < b
    BY <1>20, <2>1
  <2>2. CASE ~(q < b) /\ q < b + l
    <3>1. q - b \in Nat /\ q - b <= l /\ d + (q - b) = q - base /\ ~(q < base) /\ q < base + n
      BY <1>8, <2>2
    <3>2. Slot(q - b)' = Slot(q - base)
      BY <1>13, <3>1
    <3> QED  BY <2>2, <3>1, <3>2 DEF Stored
  <2>3. CASE ~(q < b) /\ ~(q < b + l)
    <3>1. ~(q < base) /\ ~(q < base + n)
      BY <1>8, <2>3
    <3> QED  BY <2>3, <3>1 DEF Stored
  <2> QED  BY <2>1, <2>2, <2>3
<1>22. Responses(st, b, l, r, e)'
  <2>1. \A k \in r + 1 .. e : got[k] = {q \in st[k] .. st[k] + ops[k].cnt - 1 : Stored(q, b, l)'}
    <3> SUFFICES ASSUME NEW k \in r + 1 .. e
                 PROVE  got[k] = {q \in st[k] .. st[k] + ops[k].cnt - 1 : Stored(q, b, l)'}
      OBVIOUS
    <3>1. got[k] = {q \in st[k] .. st[k] + ops[k].cnt - 1 : Stored(q, base, n)}
      BY <1>4, <1>12 DEF Responses
    <3>2. st[k] \in Nat
      BY <1>4, <1>12, Ends
    <3>3. \A q \in st[k] .. st[k] + ops[k].cnt - 1 : q \in Nat
      BY <3>2
    <3> QED  BY <1>21, <3>1, <3>3
  <2>2. ASSUME NEW k \in 1 .. r PROVE Cardinality(got[k]) = ops[k].cnt
    <3>1. CASE k <= m
      <4>1. k \in 1 .. m
        BY <3>1
      <4> QED  BY <1>4, <4>1 DEF Responses
    <3>2. CASE k > m
      <4>1. k \in m + 1 .. r /\ k \in m + 1 .. e
        BY <1>9, <1>11, <3>2
      <4>2. st[k] \in Nat /\ ops[k].cnt \in Nat
        BY <1>4, <4>1, Ends, OpFacts
      <4>3. st[k] + ops[k].cnt <= b
        BY <1>9, <4>1 DEF Completed, EndOf
      <4>4. got[k] = {q \in st[k] .. st[k] + ops[k].cnt - 1 : Stored(q, base, n)}
        BY <1>4, <4>1 DEF Responses
      <4>5. \A q \in st[k] .. st[k] + ops[k].cnt - 1 : q \in Nat /\ q < b
        BY <4>2, <4>3
      <4>6. got[k] = st[k] .. st[k] + ops[k].cnt - 1
        BY <1>20, <4>4, <4>5
      <4>7. Cardinality(st[k] .. st[k] + ops[k].cnt - 1) = ops[k].cnt
        BY <4>2, PacketCount
      <4> QED  BY <4>6, <4>7
    <3> QED  BY <3>1, <3>2
  <2> QED  BY <1>2, <1>4, <2>1, <2>2 DEF Responses
<1>23. Wire'
  <2>1. \A g : NextPacket(g)' = NextPacket(g)
    BY <1>2 DEF NextPacket, gen
  <2> QED  BY <1>2, <1>4, <2>1 DEF Wire
<1>24. Layout(st, b, l, r, t, e)'
  BY <1>15, <1>16, <1>17, <1>18, <1>19, <1>22, <1>23 DEF Layout
<1> QED  BY <1>24 DEF WInv

-----------------------------------------------------------------------------
(* A packet is sent. *)

\* group_ctx[g].psn once gen_pkt has a sub-operation, o, of group g.
PsnsWith(o) ==
    IF CanContinue THEN group_psn
    ELSE [group_psn EXCEPT ![ops[o].group] = @ + ops[o].cnt]

\* gen_pkt has the sub-operation o, whose next packet follows the window.
Ready(st, base, n, m, t, o) ==
    /\ o = t + 1 /\ m <= t /\ o <= Len(ops)
    /\ Taken = [op |-> o, start |-> st[o], sent |-> base + n - st[o]]
    /\ Owns(st, o, base + n)
    /\ n > 0 => current_group_id = ops[o].group
    /\ Streams(st, base, n, m, t, o)
    /\ Window(st, base, n, m, o)
    /\ Responses(st, base, n, m, o)
    /\ NextPacket(ops[o].group) = base + n
    /\ \A h \in Groups : h # ops[o].group => NextPacket(h) = group_psn[h] /\ PsnsWith(o)[h] = group_psn[h]
    /\ PsnsWith(o) \in [Groups -> Nat]
    /\ PsnsWith(o)[ops[o].group] = EndOf(st, o)

LEMMA ReadyToContinue ==
    ASSUME NEW st \in [Nat -> Nat], NEW base \in Nat, NEW n \in Nat,
           NEW m \in Nat, NEW t \in Nat, NEW e \in Nat, Layout(st, base, n, m, t, e), CanContinue
    PROVE  Ready(st, base, n, m, t, e)
<1>1. /\ Queues(m, t, e) /\ Generator(st, base, n, m, t, e) /\ Streams(st, base, n, m, t, e)
      /\ Window(st, base, n, m, e) /\ Responses(st, base, n, m, e)
  BY DEF Layout
<1>2. /\ e = t + 1 /\ m <= t /\ e <= Len(ops) /\ e > m /\ current_group_id = ops[e].group
      /\ sub_op = [op |-> e, start |-> st[e], sent |-> base + n - st[e]]
      /\ base + n > st[e] /\ base + n < EndOf(st, e)
      /\ group_psn[current_group_id] = EndOf(st, e)
      /\ group_psn \in [Groups -> Nat]
  <2>1. sub_op # NoOp
    BY DEF CanContinue
  <2>2. e = t + 1 /\ m <= t
    BY <1>1, <2>1 DEF Generator, Queues
  <2>3. e > m
    BY <2>2
  <2> QED  BY <1>1, <2>1, <2>2, <2>3 DEF Generator, Queues, EndOf
<1>3. Taken = sub_op /\ PsnsWith(e) = group_psn
  BY DEF Taken, PsnsWith
<1>4. Owns(st, e, base + n)
  <2>1. st[e] \in Nat
    OBVIOUS
  <2> QED  BY <1>2, <2>1 DEF Owns
<1>5. NextPacket(ops[e].group) = base + n
  BY <1>1, <1>2, NextIs
<1>6. ASSUME NEW h \in Groups, h # ops[e].group PROVE NextPacket(h) = group_psn[h]
  <2>1. sub_op.op = e
    BY <1>2
  <2> QED  BY <1>6, <2>1 DEF NextPacket
<1> QED  BY <1>1, <1>2, <1>3, <1>4, <1>5, <1>6 DEF Ready

LEMMA ReadyToStart ==
    ASSUME NEW st \in [Nat -> Nat], NEW base \in Nat, NEW n \in Nat,
           NEW m \in Nat, NEW t \in Nat, NEW e \in Nat, Layout(st, base, n, m, t, e), CanStart
    PROVE  \E u \in [Nat -> Nat], b \in Nat : Ready(u, b, n, m, t, t + 1)
<1>1. /\ Queues(m, t, e) /\ Generator(st, base, n, m, t, e) /\ Streams(st, base, n, m, t, e)
      /\ Window(st, base, n, m, e) /\ Responses(st, base, n, m, e)
  BY DEF Layout
<1>2. sub_op = NoOp /\ ~CanContinue /\ e = t
  <2>1. sub_op = NoOp
    BY DEF CanStart
  <2>2. sub_op.op = 0
    BY <2>1 DEF NoOp
  <2>3. e = t
    <3> SUFFICES ASSUME e = t + 1, sub_op = [op |-> e, start |-> st[e], sent |-> base + n - st[e]]
                 PROVE  FALSE
      BY <1>1 DEF Generator
    <3>1. sub_op.op = e
      OBVIOUS
    <3> QED  BY <2>2, <3>1
  <2> QED  BY <2>1, <2>3 DEF CanContinue
<1>3. PICK o \in Nat : o = t + 1 /\ o <= Len(ops) /\ m <= t /\ t < o /\ m < o /\ Head(wq) = o
  <2>1. wq # <<>> /\ wq = Run(t, Len(ops)) /\ t <= Len(ops) /\ m <= t /\ Len(ops) \in Nat
    BY <1>1, <1>2, OpFacts DEF CanStart, Queues
  <2>2. t < Len(ops)
    BY <2>1, RunEmpty
  <2>3. Head(wq) = t + 1
    BY <2>1, <2>2, RunTail
  <2>4. PICK o \in Nat : o = t + 1
    OBVIOUS
  <2>5. o <= Len(ops) /\ t < o /\ m < o
    BY <2>1, <2>2, <2>4
  <2> QED  BY <2>1, <2>3, <2>4, <2>5
<1>4. /\ o \in 1 .. Len(ops) /\ o \in m + 1 .. Len(ops)
      /\ ops[o].group \in Groups /\ ops[o].cnt \in Nat /\ ops[o].cnt > 0
  <2>1. o \in 1 .. Len(ops) /\ o \in m + 1 .. Len(ops)
    BY <1>1, <1>3, OpFacts
  <2> QED  BY <1>1, <2>1, OpFacts
<1>5. PICK g \in Groups, c \in Nat : g = ops[o].group /\ c = ops[o].cnt /\ c > 0
  BY <1>4
<1>6. group_psn \in [Groups -> Nat] /\ group_psn[g] \in Nat
  BY <1>1 DEF Generator
<1>7. PICK p \in Nat : p = group_psn[g]
  BY <1>6
<1>8. e > m => current_group_id = g /\ p = base + n
  <2> SUFFICES ASSUME e > m PROVE current_group_id = g /\ p = base + n
    OBVIOUS
  <2>1. current_group_id = ops[e].group /\ group_psn[current_group_id] = base + n
    BY <1>1, <1>2 DEF Generator
  <2>2. e \in m + 1 .. Len(ops)
    BY <1>1, OpFacts DEF Queues
  <2>3. ops[e].group = g
    BY <1>1, <1>4, <1>5, <2>2 DEF Queues
  <2> QED  BY <1>7, <2>1, <2>3
<1>9. ~(e > m) => n = 0
  <2> SUFFICES ASSUME n > 0 PROVE e > m
    OBVIOUS
  <2> QED  BY <1>1, NotEmpty
<1>10. PICK b \in Nat : p = b + n /\ (e > m => b = base)
  BY <1>8, <1>9
<1> DEFINE u == [st EXCEPT ![o] = p]
<1>11. u \in [Nat -> Nat] /\ u[o] = p /\ \A k \in m + 1 .. e : u[k] = st[k] /\ EndOf(u, k) = EndOf(st, k)
  <2>1. u \in [Nat -> Nat] /\ u[o] = p
    BY <1>3
  <2>2. ASSUME NEW k \in m + 1 .. e PROVE u[k] = st[k]
    <3>1. k \in Nat /\ k # o
      BY <1>2, <1>3
    <3> QED  BY <3>1
  <2> QED  BY <2>1, <2>2 DEF EndOf
<1> HIDE DEF u
<1>12. EndOf(u, o) = p + c /\ Owns(u, o, b + n)
  BY <1>5, <1>10, <1>11 DEF EndOf, Owns
<1>13. Taken = [op |-> o, start |-> u[o], sent |-> b + n - u[o]]
  <2>1. b + n - u[o] = 0
    BY <1>10, <1>11
  <2> QED  BY <1>2, <1>3, <1>5, <1>7, <1>11, <2>1 DEF Taken
<1>14. \A k \in m + 1 .. o : k = o \/ k \in m + 1 .. e
  BY <1>2, <1>3
<1>15. m + 1 .. e # {} => e > m
  OBVIOUS
<1>16. Streams(u, b, n, m, t, o)
  <2>1. ASSUME NEW k \in m + 1 .. o, NEW l \in m + 1 .. o, k < l PROVE EndOf(u, k) <= u[l]
    <3>1. k \in m + 1 .. e /\ e > m
      BY <1>2, <1>3, <2>1
    <3>2. CASE l = o
      <4>1. st[k] + ops[k].cnt <= base + n
        BY <1>1, <1>2, <3>1 DEF Streams
      <4> QED  BY <1>10, <1>11, <3>1, <3>2, <4>1 DEF EndOf
    <3>3. CASE l # o
      <4>1. l \in m + 1 .. e
        BY <1>14, <3>3
      <4>2. EndOf(st, k) <= st[l]
        BY <1>1, <2>1, <3>1, <4>1 DEF Streams, EndOf
      <4> QED  BY <1>11, <3>1, <4>1, <4>2
    <3> QED  BY <3>2, <3>3
  <2>2. ASSUME NEW k \in m + 1 .. o PROVE b < EndOf(u, k)
    <3>1. CASE k = o
      BY <1>5, <1>10, <1>12, <3>1
    <3>2. CASE k # o
      <4>1. k \in m + 1 .. e /\ e > m
        BY <1>14, <3>2
      <4>2. base < EndOf(st, k)
        BY <1>1, <4>1 DEF Streams, EndOf
      <4> QED  BY <1>10, <1>11, <4>1, <4>2
    <3> QED  BY <3>1, <3>2
  <2>3. ASSUME NEW k \in m + 1 .. t PROVE EndOf(u, k) <= b + n
    <3>1. k \in m + 1 .. e /\ e > m
      BY <1>2
    <3>2. EndOf(st, k) <= base + n
      BY <1>1 DEF Streams, EndOf
    <3> QED  BY <1>10, <1>11, <3>1, <3>2
  <2> QED  BY <2>1, <2>2, <2>3 DEF Streams, EndOf
<1>17. Window(u, b, n, m, o)
  <2>1. CASE n = 0
    BY <2>1 DEF Window
  <2>2. CASE n # 0
    <3>1. e > m /\ b = base
      BY <1>9, <1>10, <2>2
    <3>2. ASSUME NEW k \in 0 .. n - 1 PROVE Content(Slot(k), base + k, u, m, o)
      <4>1. Content(Slot(k), base + k, st, m, e)
        BY <1>1 DEF Window
      <4>2. Slot(k).op \in m + 1 .. e
        BY <4>1 DEF Content
      <4>3. Slot(k).op \in m + 1 .. o
        <5>1. e <= o
          BY <1>2, <1>3
        <5> QED  BY <4>2, <5>1
      <4> QED  BY <1>11, <4>1, <4>2, <4>3 DEF Content
    <3> QED  BY <1>1, <3>1, <3>2 DEF Window
  <2> QED  BY <2>1, <2>2
<1>18. Responses(u, b, n, m, o)
  <2>1. \A k \in o + 1 .. Len(ops) : got[k] = {}
    <3>1. \A k \in o + 1 .. Len(ops) : k \in e + 1 .. Len(ops)
      BY <1>2, <1>3
    <3> QED  BY <1>1, <3>1 DEF Responses
  <2>2. ASSUME NEW k \in m + 1 .. o
        PROVE  got[k] = {q \in u[k] .. u[k] + ops[k].cnt - 1 : Stored(q, b, n)}
    <3>1. CASE k = o
      <4>1. o \in e + 1 .. Len(ops)
        BY <1>2, <1>3, <1>4
      <4>2. got[o] = {}
        BY <1>1, <4>1 DEF Responses
      <4>3. ASSUME NEW q \in u[o] .. u[o] + ops[o].cnt - 1 PROVE ~Stored(q, b, n)
        <5>1. u[o] = b + n
          BY <1>10, <1>11
        <5>2. q >= b + n /\ q \in Int
          BY <5>1
        <5>3. ~(q < b) /\ ~(q < b + n)
          BY <5>2
        <5> QED  BY <5>3 DEF Stored
      <4> QED  BY <3>1, <4>2, <4>3
    <3>2. CASE k # o
      <4>1. k \in m + 1 .. e /\ e > m /\ b = base
        BY <1>10, <1>14, <3>2
      <4>2. got[k] = {q \in st[k] .. st[k] + ops[k].cnt - 1 : Stored(q, base, n)}
        BY <1>1, <4>1 DEF Responses
      <4> QED  BY <1>11, <4>1, <4>2
    <3> QED  BY <3>1, <3>2
  <2> QED  BY <1>1, <2>1, <2>2 DEF Responses
<1>19. \A h : NextPacket(h) = group_psn[h]
  BY <1>2 DEF NextPacket
<1>20. /\ PsnsWith(o) \in [Groups -> Nat] /\ PsnsWith(o)[g] = p + c
       /\ \A h \in Groups : h # g => PsnsWith(o)[h] = group_psn[h]
  <2>1. PsnsWith(o) = [group_psn EXCEPT ![g] = p + c]
    BY <1>2, <1>5, <1>7 DEF PsnsWith
  <2> QED  BY <1>6, <2>1
<1>21. n > 0 => current_group_id = g
  BY <1>8, <1>9
<1>22. Ready(u, b, n, m, t, o)
  BY <1>3, <1>5, <1>7, <1>10, <1>12, <1>13, <1>16, <1>17, <1>18, <1>19, <1>20, <1>21 DEF Ready
<1> QED  BY <1>3, <1>11, <1>22

LEMMA SendOneWInv ==
    ASSUME WInv, SendOne
    PROVE  WInv'
<1>1. PICK st \in [Nat -> Nat], base, n, m, t, o \in Nat :
         Ring(n) /\ Queues(m, t, o) /\ Wire /\ Ready(st, base, n, m, t, o)
  <2>1. PICK st1 \in [Nat -> Nat], base1, n, m, t, e \in Nat : Layout(st1, base1, n, m, t, e)
    BY DEF WInv
  <2>2. Ring(n) /\ Queues(m, t, e) /\ Wire
    BY <2>1 DEF Layout
  <2>3. CASE CanContinue
    <3>1. Ready(st1, base1, n, m, t, e)
      BY <2>1, <2>3, ReadyToContinue
    <3> QED  BY <2>2, <3>1
  <2>4. CASE CanStart
    <3>1. PICK u \in [Nat -> Nat], b \in Nat : Ready(u, b, n, m, t, t + 1)
      BY <2>1, <2>4, ReadyToStart
    <3>2. t + 1 \in Nat /\ t <= t + 1
      OBVIOUS
    <3>3. t + 1 <= Len(ops)
      BY <3>1 DEF Ready
    <3>4. Queues(m, t, t + 1)
      BY <2>2, <3>2, <3>3 DEF Queues
    <3> QED  BY <2>2, <3>1, <3>2, <3>4
  <2> QED  BY <2>3, <2>4 DEF SendOne
<1>2. PICK p \in Nat : p = base + n
  OBVIOUS
<1>3. /\ Len(ops) \in Nat /\ o \in 1 .. Len(ops) /\ o = t + 1 /\ m <= t /\ o <= Len(ops) /\ m < o
      /\ ops[o].group \in Groups /\ ops[o].cnt \in Nat
  <2>1. Len(ops) \in Nat /\ o = t + 1 /\ m <= t /\ o <= Len(ops)
    BY <1>1, OpFacts DEF Ready
  <2>2. o \in 1 .. Len(ops) /\ m < o
    BY <2>1
  <2> QED  BY <1>1, <2>1, <2>2, OpFacts
<1>4. PICK g \in Groups : g = ops[o].group
  BY <1>3
<1>5. st[o] \in Nat /\ EndOf(st, o) \in Nat /\ st[o] <= p /\ p < EndOf(st, o)
  BY <1>1, <1>2, <1>3 DEF Ready, Owns, EndOf
<1> DEFINE last == p + 1 = EndOf(st, o)
<1>6. /\ Taken.op = o /\ Taken.start = st[o] /\ Taken.sent = p - st[o]
      /\ Taken = [op |-> o, start |-> st[o], sent |-> p - st[o]]
  <2>0. Taken = [op |-> o, start |-> st[o], sent |-> base + n - st[o]]
    BY <1>1 DEF Ready
  <2>1. Taken = [op |-> o, start |-> st[o], sent |-> p - st[o]]
    BY <1>2, <2>0
  <2> QED  BY <2>1
<1>7. Taken.start + Taken.sent = p /\ (Taken.sent + 1 = ops[Taken.op].cnt <=> last)
  <2>1. PICK a \in Nat, c \in Nat : a = st[o] /\ c = ops[o].cnt /\ EndOf(st, o) = a + c
    BY <1>3, <1>5 DEF EndOf
  <2>2. a + (p - a) = p /\ ((p - a) + 1 = c <=> p + 1 = a + c)
    OBVIOUS
  <2> QED  BY <1>6, <2>1, <2>2
<1> HIDE DEF last
<1>8. /\ pc = "send" /\ Distance(to_ack, sending) < expect
      /\ UNCHANGED <<pc, ops, done, to_ack, to_send, right_psn, expect, got>>
      /\ current_group_id' = g
      /\ current_switch_window_limit' = AggLen \div 2
      /\ group_psn' = PsnsWith(o)
      /\ state' = [state EXCEPT ![sending] =
                    [acked |-> FALSE, op |-> o, group |-> g, p |-> p, is_last |-> last]]
      /\ sub_op' = IF last THEN NoOp ELSE [Taken EXCEPT !.sent = @ + 1]
      /\ wq' = IF last THEN Tail(wq) ELSE wq
      /\ left_psn' = LeftPsn(p)
      /\ wire' = Fresh(wire, [group_psn EXCEPT ![g] = p + 1]) \cup {[group |-> g, p |-> p]}
      /\ sending' = get_next_position(sending)
  BY <1>4, <1>6, <1>7 DEF SendOne, PsnsWith, WindowLimit
<1>9. /\ to_ack \in Positions /\ sending \in Positions /\ sending = Pos(to_ack, n)
      /\ state \in [Positions -> SlotState]
      /\ MaxWinLen \in Nat /\ AggLen \div 2 \in Nat
      /\ expect \in Nat /\ expect < MaxWinLen /\ expect <= AggLen \div 2 /\ n < MaxWinLen
  BY <1>1, <1>8, Constants DEF Ring, End
<1>10. /\ Distance(to_ack, sending) = n /\ n \in 0 .. MaxWinLen - 1 /\ n \in 0 .. MaxWinLen - 2
       /\ n + 1 < MaxWinLen /\ n + 1 <= AggLen \div 2 /\ n + 1 \in Nat
  <2>1. n \in 0 .. MaxWinLen - 1
    BY <1>9
  <2>2. Distance(to_ack, sending) = n
    BY <1>9, <2>1, PosFacts
  <2>3. n < expect
    BY <1>8, <2>2
  <2> QED  BY <1>9, <2>1, <2>2, <2>3
<1>11. PICK nn \in Nat : nn = n + 1 /\ base + nn = p + 1
  BY <1>2, <1>10
<1>12. PICK new \in SlotState :
          /\ new = [acked |-> FALSE, op |-> o, group |-> g, p |-> p, is_last |-> last]
          /\ ~new.acked /\ new.op = o /\ new.group = g /\ new.p = p /\ (new.is_last <=> last)
  <2>1. last \in BOOLEAN
    BY DEF last
  <2> DEFINE r == [acked |-> FALSE, op |-> o, group |-> g, p |-> p, is_last |-> last]
  <2>2. r \in SlotState
    BY <2>1, Zenon DEF SlotState
  <2>3. ~r.acked /\ r.op = o /\ r.group = g /\ r.p = p /\ (r.is_last <=> last)
    BY <2>1
  <2> QED  BY <2>2, <2>3
<1>13. /\ state' \in [Positions -> SlotState] /\ state'[sending] = new
       /\ \A i \in Positions : i # sending => state'[i] = state[i]
  <2>1. state' = [state EXCEPT ![sending] = new]
    BY <1>8, <1>12
  <2> QED  BY <1>9, <2>1
<1>14. Slot(n)' = new /\ \A k \in 0 .. n - 1 : Slot(k)' = Slot(k)
  <2>1. Slot(n)' = new
    BY <1>8, <1>9, <1>13 DEF Slot
  <2>2. ASSUME NEW k \in 0 .. n - 1 PROVE Slot(k)' = Slot(k)
    <3>1. k \in 0 .. MaxWinLen - 1 /\ k # n
      BY <1>9
    <3>2. Pos(to_ack, k) \in Positions /\ Pos(to_ack, k) # sending
      BY <1>9, <1>10, <3>1, PosFacts, PosEqual
    <3> QED  BY <1>8, <1>13, <3>2 DEF Slot
  <2> QED  BY <2>1, <2>2
<1>15. Ring(nn)'
  <2>1. sending' = Pos(to_ack, nn) /\ sending' \in Positions
    <3>1. nn \in 0 .. MaxWinLen - 1
      BY <1>9, <1>10, <1>11
    <3> QED  BY <1>8, <1>9, <1>10, <1>11, <3>1, NextPos, PosFacts
  <2>2. AggLen \div 2 <= AggLen \div 2
    BY <1>9
  <2> QED  BY <1>1, <1>8, <1>9, <1>10, <1>11, <1>13, <2>1, <2>2 DEF Ring, End
<1>16. PICK tt \in Nat : tt = IF last THEN o ELSE t
  OBVIOUS
<1>17. m <= tt /\ tt <= o
  BY <1>3, <1>16, SMTT(30)
<1>18. Queues(m, tt, o)'
  <2>1. wq' = Run(tt, Len(ops))
    <3>1. wq = Run(t, Len(ops)) /\ t < Len(ops)
      BY <1>1, <1>3 DEF Queues
    <3>2. Tail(wq) = Run(t + 1, Len(ops))
      BY <1>3, <3>1, RunTail
    <3> QED  BY <1>3, <1>8, <1>16, <3>1, <3>2
  <2> QED  BY <1>1, <1>3, <1>8, <1>17, <2>1 DEF Queues
<1>19. \/ last /\ tt = o /\ sub_op' = NoOp
       \/ /\ ~last /\ o = tt + 1
          /\ sub_op' = [op |-> o, start |-> st[o], sent |-> base + nn - st[o]]
  <2>1. CASE last
    BY <1>8, <1>16, <2>1
  <2>2. CASE ~last
    <3>1. sub_op' = [op |-> o, start |-> st[o], sent |-> (p - st[o]) + 1]
      BY <1>6, <1>8, <2>2
    <3>2. (p - st[o]) + 1 = base + nn - st[o]
      BY <1>5, <1>11
    <3> QED  BY <1>3, <1>16, <2>2, <3>1, <3>2
  <2> QED  BY <2>1, <2>2
<1>20. /\ group_psn' \in [Groups -> Nat] /\ group_psn'[g] = EndOf(st, o)
       /\ \A h \in Groups : h # g => group_psn'[h] = group_psn[h] /\ NextPacket(h) = group_psn[h]
       /\ NextPacket(g) = p
  BY <1>1, <1>2, <1>4, <1>8 DEF Ready
<1>21. last <=> base + nn = EndOf(st, o)
  BY <1>11 DEF last
<1>22. Generator(st, base, nn, m, tt, o)'
  <2>1. CASE last
    BY <1>3, <1>4, <1>8, <1>19, <1>20, <1>21, <2>1 DEF Generator
  <2>2. CASE ~last
    <3>1. base + nn > st[o] /\ base + nn < EndOf(st, o)
      BY <1>5, <1>11, <1>21, <2>2
    <3> QED  BY <1>4, <1>8, <1>19, <1>20, <2>2, <3>1 DEF Generator, EndOf
  <2> QED  BY <2>1, <2>2
<1>23. Streams(st, base, nn, m, tt, o)'
  <2>1. Streams(st, base, n, m, t, o)
    BY <1>1 DEF Ready
  <2>2. ASSUME NEW k \in m + 1 .. tt PROVE EndOf(st, k) <= base + nn
    <3>1. CASE k = o
      <4>1. last
        BY <1>3, <1>16, <3>1
      <4> QED  BY <1>5, <1>21, <3>1, <4>1
    <3>2. CASE k # o
      <4>1. k \in m + 1 .. t /\ k \in m + 1 .. o
        BY <1>3, <1>17, <3>2, SMTT(30)
      <4>2. EndOf(st, k) <= base + n
        BY <2>1, <4>1 DEF Streams, EndOf
      <4>3. EndOf(st, k) \in Nat
        BY <1>1, <2>1, <4>1, Ends
      <4> QED  BY <1>11, <4>2, <4>3
    <3> QED  BY <3>1, <3>2
  <2> QED  BY <1>8, <2>1, <2>2 DEF Streams, EndOf
<1>24. Window(st, base, nn, m, o)'
  <2>1. Window(st, base, n, m, o)
    BY <1>1 DEF Ready
  <2>2. ASSUME NEW k \in 0 .. nn - 1 PROVE Content(Slot(k), base + k, st, m, o)'
    <3>1. CASE k = n
      <4>1. o \in m + 1 .. o
        <5>1. m \in Nat /\ o \in Nat /\ m < o
          BY <1>1, <1>3
        <5> QED  BY ONLY <5>1
      <4> QED  BY <1>2, <1>5, <1>8, <1>12, <1>14, <3>1, <4>1 DEF Content, EndOf, last
    <3>2. CASE k # n
      <4>1. k \in 0 .. n - 1 /\ n > 0
        BY <1>11, <3>2
      <4>2. Slot(k)' = Slot(k) /\ Content(Slot(k), base + k, st, m, o) /\ current_group_id' = current_group_id
        BY <1>1, <1>4, <1>8, <1>14, <2>1, <4>1 DEF Window, Ready
      <4> QED  BY <1>8, <4>2 DEF Content
    <3> QED  BY <3>1, <3>2
  <2>3. left_psn' = base % PsnSpace
    <3>1. CASE n = 0
      BY <1>2, <1>8, <1>10, <3>1 DEF LeftPsn
    <3>2. CASE n # 0
      BY <1>8, <1>10, <2>1, <3>2 DEF LeftPsn, Window
    <3> QED  BY <3>1, <3>2
  <2>4. pc' # "rx"
    BY <1>8
  <2> QED  BY <2>2, <2>3, <2>4 DEF Window
<1>25. ASSUME NEW q \in Nat PROVE Stored(q, base, nn)' <=> Stored(q, base, n)
  <2>1. CASE q < base
    BY <2>1 DEF Stored
  <2>2. CASE ~(q < base) /\ q < base + n
    <3>1. q - base \in 0 .. n - 1 /\ q < base + nn
      BY <1>11, <2>2
    <3> QED  BY <1>14, <2>2, <3>1 DEF Stored
  <2>3. CASE q = base + n
    <3>1. q - base = n /\ ~(q < base) /\ ~(q < base + n)
      BY <2>3
    <3> QED  BY <1>12, <1>14, <3>1 DEF Stored
  <2>4. CASE q > base + n
    <3>1. ~(q < base) /\ ~(q < base + n) /\ ~(q < base + nn)
      BY <1>11, <2>4
    <3> QED  BY <3>1 DEF Stored
  <2> QED  BY <2>1, <2>2, <2>3, <2>4
<1>26. Responses(st, base, nn, m, o)'
  <2>1. Responses(st, base, n, m, o) /\ Streams(st, base, n, m, t, o)
    BY <1>1 DEF Ready
  <2>2. ASSUME NEW k \in m + 1 .. o
        PROVE  got[k] = {q \in st[k] .. st[k] + ops[k].cnt - 1 : Stored(q, base, nn)'}
    <3>1. got[k] = {q \in st[k] .. st[k] + ops[k].cnt - 1 : Stored(q, base, n)}
      BY <2>1 DEF Responses
    <3>2. st[k] \in Nat
      BY <1>1, <2>1, Ends
    <3>3. \A q \in st[k] .. st[k] + ops[k].cnt - 1 : q \in Nat
      BY <3>2
    <3> QED  BY <1>25, <3>1, <3>3
  <2> QED  BY <1>8, <2>1, <2>2 DEF Responses
<1>27. NextPacket(g)' = p + 1 /\ \A h \in Groups : h # g => NextPacket(h)' = NextPacket(h)
  <2>1. CASE last
    BY <1>8, <1>11, <1>19, <1>20, <1>21, <2>1 DEF NextPacket
  <2>2. CASE ~last
    <3>1. sub_op'.op = o /\ sub_op'.start = st[o] /\ sub_op'.sent = base + nn - st[o]
      BY <1>19, <2>2
    <3>2. sub_op' # NoOp
      <4>1. NoOp.op = 0 /\ o # 0
        BY <1>3 DEF NoOp
      <4> QED  BY <3>1, <4>1
    <3>3. ops'[sub_op'.op].group = g
      BY <1>4, <1>8, <3>1
    <3>4. sub_op'.start + sub_op'.sent = p + 1
      BY <1>5, <1>11, <3>1
    <3> QED  BY <1>20, <3>2, <3>3, <3>4 DEF NextPacket
  <2> QED  BY <2>1, <2>2
<1>28. Wire'
  <2> SUFFICES ASSUME NEW x \in wire'
               PROVE  /\ x \in [group : Groups, p : Nat]
                      /\ x.p < NextPacket(x.group)' /\ NextPacket(x.group)' < x.p + AggLen
    BY DEF Wire
  <2>1. AggLen \in Nat /\ AggLen >= 2
    BY Constants
  <2>2. CASE x = [group |-> g, p |-> p]
    <3>1. x.group = g /\ x.p = p
      BY <2>2
    <3>2. p < p + 1 /\ p + 1 < p + AggLen
      BY <2>1
    <3> QED  BY <1>27, <2>2, <3>1, <3>2
  <2>3. CASE x \in Fresh(wire, [group_psn EXCEPT ![g] = p + 1])
    <3>1. x \in wire /\ [group_psn EXCEPT ![g] = p + 1][x.group] < x.p + AggLen
      BY <2>3 DEF Fresh
    <3>2. x \in [group : Groups, p : Nat] /\ x.p < NextPacket(x.group) /\ x.group \in Groups /\ x.p \in Nat
      BY <1>1, <3>1 DEF Wire
    <3>3. DOMAIN group_psn = Groups
      <4>1. CASE CanContinue
        <5>1. PsnsWith(o) = group_psn
          BY <4>1 DEF PsnsWith
        <5> QED  BY <1>8, <1>20, <5>1
      <4>2. CASE ~CanContinue
        <5>1. group_psn' = [group_psn EXCEPT ![ops[o].group] = group_psn[ops[o].group] + ops[o].cnt]
          BY <1>8, <4>2 DEF PsnsWith
        <5>2. DOMAIN group_psn' = DOMAIN group_psn /\ DOMAIN group_psn' = Groups
          BY <1>20, <5>1
        <5> QED  BY <5>2
      <4> QED  BY <4>1, <4>2
    <3>4. CASE x.group = g
      <4>1. p + 1 < x.p + AggLen
        BY <3>1, <3>2, <3>3, <3>4
      <4>2. x.p < p
        BY <1>20, <3>2, <3>4
      <4>3. x.p < p + 1
        BY <3>2, <4>2
      <4> QED  BY <1>27, <3>2, <3>4, <4>1, <4>3
    <3>5. CASE x.group # g
      <4>1. NextPacket(x.group)' = group_psn[x.group] /\ NextPacket(x.group) = group_psn[x.group]
        BY <1>20, <1>27, <3>2, <3>5
      <4>2. [group_psn EXCEPT ![g] = p + 1][x.group] = group_psn[x.group]
        BY <3>2, <3>3, <3>5
      <4> QED  BY <3>1, <3>2, <4>1, <4>2
    <3> QED  BY <3>4, <3>5
  <2> QED  BY <1>8, <2>2, <2>3
<1>29. Layout(st, base, nn, m, tt, o)'
  BY <1>15, <1>18, <1>22, <1>23, <1>24, <1>26, <1>28 DEF Layout
<1> QED  BY <1>29 DEF WInv

-----------------------------------------------------------------------------
LEMMA NextWInv ==
    ASSUME WInv, [Next]_vars
    PROVE  WInv'
<1>1. CASE Next
  <2>1. ASSUME NEW g \in Groups, NEW c \in 1 .. MaxPkts, Post(g, c) PROVE WInv'
    BY <2>1, PostWInv
  <2>2. ASSUME NEW x \in wire, Lose(x) PROVE WInv'
    BY <2>2, LoseWInv
  <2>3. ASSUME NEW x \in wire, rx_process_one(x) PROVE WInv'
    BY <2>3, RxProcessOneWInv
  <2>4. CASE shift_ack
    BY <2>4, ShiftAckWInv
  <2>5. CASE full_retrans
    BY <2>5, FullRetransWInv
  <2>6. ASSUME NEW cwnd \in CwndMin .. MaxWinLen - 1, shift_send(cwnd) PROVE WInv'
    BY <2>6, ShiftSendWInv
  <2>7. CASE SendOne
    BY <2>7, SendOneWInv
  <2>8. CASE EndSend
    BY <2>8, EndSendWInv
  <2> QED  BY <1>1, <2>1, <2>2, <2>3, <2>4, <2>5, <2>6, <2>7, <2>8 DEF Next
<1>2. CASE UNCHANGED vars
  <2>1. PICK st \in [Nat -> Nat], base, n, m, t, e \in Nat : Layout(st, base, n, m, t, e)
    BY DEF WInv
  <2>2. UNCHANGED <<pc, queues, gen, window, loop, got>> /\ wire' = wire
    BY <1>2 DEF vars
  <2>3. Wire'
    BY <2>1, <2>2 DEF Layout, Wire, NextPacket, queues, gen
  <2> QED  BY <2>1, <2>2, <2>3, WireChanges
<1> QED  BY <1>1, <1>2

(***************************************************************************)
(* In every behaviour of the worker thread there are packet numbers that   *)
(* explain its state: the slots of worker.cpp's window hold consecutive    *)
(* packets of the current group, of the sub-operations between the last    *)
(* completed one and the one gen_pkt is at, the stored responses are those *)
(* to the acknowledged packets, and whatever response may still come is to *)
(* one of the last AggLen packets of its group.                            *)
(***************************************************************************)
THEOREM WorkerInvariant == Spec => []WInv
<1>1. WInv /\ [Next]_vars => WInv'
  BY NextWInv
<1> QED  BY InitWInv, <1>1, PTL DEF Spec

-----------------------------------------------------------------------------
LEMMA WInvFound == WInv => UnackedFound
<1> SUFFICES ASSUME WInv, pc = "rx", NEW i \in Slots(to_ack, to_send) PROVE get_position(Packet(i)) = i
  BY DEF UnackedFound
<1>1. PICK st \in [Nat -> Nat], base, n, m, t, e \in Nat : Layout(st, base, n, m, t, e)
  BY DEF WInv
<1>2. Ring(n) /\ Window(st, base, n, m, e)
  BY <1>1 DEF Layout
<1>3. to_ack \in Positions /\ n \in 0 .. MaxWinLen - 1 /\ to_send = Pos(to_ack, n)
  BY <1>2, Constants DEF Ring, End
<1>4. PICK k \in 0 .. n - 1 : i = Pos(to_ack, k)
  BY <1>3, SlotsAre
<1> QED  BY <1>2, <1>4, FoundInWindow

LEMMA WInvNoStray == WInv => NoStrayWrite
<1> SUFFICES ASSUME WInv, pc = "rx", NEW x \in wire, get_position(x) # Invalid
             PROVE  Packet(get_position(x)) = x /\ state[get_position(x)].op \notin Range(done)
  BY DEF NoStrayWrite
<1>1. PICK st \in [Nat -> Nat], base, n, m, t, e \in Nat : Layout(st, base, n, m, t, e)
  BY DEF WInv
<1>2. Ring(n) /\ Queues(m, t, e) /\ Generator(st, base, n, m, t, e) /\ Window(st, base, n, m, e) /\ Wire
  BY <1>1 DEF Layout
<1>3. PICK k \in 0 .. n - 1 : get_position(x) = Pos(to_ack, k) /\ Packet(Pos(to_ack, k)) = x
  BY <1>2, AnswersItsSlot
<1>4. state[get_position(x)].op \in m + 1 .. e
  BY <1>2, <1>3 DEF Window, Content, Slot
<1>5. Range(done) = 1 .. m
  BY <1>2, RangeOfRun DEF Queues
<1>6. state[get_position(x)].op \notin 1 .. m
  BY <1>4
<1> QED  BY <1>3, <1>5, <1>6

LEMMA WInvInOrder == WInv => CompletionInOrder
<1> SUFFICES ASSUME WInv, NEW k \in 1 .. Len(done) PROVE done[k] = k /\ Cardinality(got[k]) = ops[k].cnt
  BY DEF CompletionInOrder
<1>1. PICK st \in [Nat -> Nat], base, n, m, t, e \in Nat : Layout(st, base, n, m, t, e)
  BY DEF WInv
<1>2. done = Run(0, m) /\ Responses(st, base, n, m, e)
  BY <1>1 DEF Layout, Queues
<1>3. Len(done) = m /\ \A x \in 1 .. m : done[x] = x
  <2>1. 0 \in Nat /\ 0 <= m /\ m - 0 = m /\ \A x \in 1 .. m : 0 + x = x
    OBVIOUS
  <2> QED  BY <1>2, <2>1, RunIs
<1> QED  BY <1>2, <1>3 DEF Responses

LEMMA WInvOneGroup == WInv => WindowOfOneGroup
<1> SUFFICES ASSUME WInv PROVE OneGroup /\ SwitchLimit
  BY DEF WindowOfOneGroup
<1>1. PICK st \in [Nat -> Nat], base, n, m, t, e \in Nat : Layout(st, base, n, m, t, e)
  BY DEF WInv
<1>2. Ring(n) /\ Window(st, base, n, m, e)
  BY <1>1 DEF Layout
<1>3. /\ to_ack \in Positions /\ n \in 0 .. MaxWinLen - 1 /\ n <= AggLen \div 2 /\ AggLen \div 2 \in Nat
      /\ MaxWinLen \in Nat /\ Used = Slots(to_ack, Pos(to_ack, n))
  <2>1. Used = Slots(to_ack, End)
    BY DEF End, Used
  <2>2. to_ack \in Positions /\ n < MaxWinLen /\ n <= AggLen \div 2 /\ End = Pos(to_ack, n)
    BY <1>2 DEF Ring
  <2>3. AggLen \div 2 \in Nat /\ MaxWinLen \in Nat
    BY Constants
  <2>4. n \in 0 .. MaxWinLen - 1
    BY <2>2, <2>3
  <2> QED  BY <2>1, <2>2, <2>3, <2>4
<1>4. Used = {Pos(to_ack, k) : k \in 0 .. n - 1}
  BY <1>3, SlotsAre
<1>5. OneGroup
  <2> SUFFICES ASSUME NEW i \in Used PROVE state[i].group = current_group_id
    BY DEF OneGroup
  <2>1. PICK k \in 0 .. n - 1 : i = Pos(to_ack, k)
    BY <1>4
  <2> QED  BY <1>2, <2>1 DEF Window, Content, Slot
<1>6. SwitchLimit
  <2> DEFINE R == 0 .. n - 1
             F == [i \in Used |-> Distance(to_ack, i)]
  <2>1. ASSUME NEW i \in Used PROVE F[i] \in R /\ Pos(to_ack, F[i]) = i
    <3>1. PICK k \in 0 .. n - 1 : i = Pos(to_ack, k)
      BY <1>4
    <3>2. k \in 0 .. MaxWinLen - 1
      BY <1>3
    <3>3. F[i] = k
      BY <1>3, <3>1, <3>2, PosFacts
    <3> QED  BY <3>1, <3>3
  <2>2. F \in [Used -> R]
    BY <2>1
  <2>3. F \in Injection(Used, R)
    <3> HIDE DEF F, R
    <3>1. DOMAIN F = Used
      BY <2>2
    <3>2. \A i, j \in Used : F[i] = F[j] => i = j
      BY <2>1
    <3> QED  BY <2>2, <3>1, <3>2 DEF Injection, IsInjective
  <2>4. IsFiniteSet(R) /\ Cardinality(R) = n
    <3>1. 0 \in Int /\ n - 1 \in Int /\ (IF 0 > n - 1 THEN 0 ELSE n - 1 - 0 + 1) = n
      BY <1>3
    <3> QED  BY <3>1, FS_Interval
  <2> HIDE DEF F, R
  <2>5. IsFiniteSet(Used) /\ Cardinality(Used) <= Cardinality(R)
    BY <2>3, <2>4, FS_Injection
  <2>6. Cardinality(Used) \in Nat
    BY <2>5, FS_CardinalityType
  <2> QED  BY <1>3, <2>4, <2>5, <2>6 DEF SwitchLimit
<1> QED  BY <1>5, <1>6

(***************************************************************************)
(* get_position finds every packet of the window by its PSN: at every      *)
(* place of the ring, across the end of the ring and the wrap of the PSN,  *)
(* and for the groups that use the window in turn.                         *)
(***************************************************************************)
THEOREM PacketsAreFound == Spec => []UnackedFound
BY WorkerInvariant, WInvFound, PTL

(***************************************************************************)
(* rx_process_one never stores a response, however late, in the place of   *)
(* another packet or for a sub-operation that is complete.                 *)
(***************************************************************************)
THEOREM NoResponseStrays == Spec => []NoStrayWrite
BY WorkerInvariant, WInvNoStray, PTL

(***************************************************************************)
(* shift_ack completes the sub-operations in the order in which they were  *)
(* posted, each once, and when the responses to all its packets are there. *)
(***************************************************************************)
THEOREM CompletesInOrder == Spec => []CompletionInOrder
BY WorkerInvariant, WInvInOrder, PTL

(***************************************************************************)
(* gen_pkt and shift_send fill the window with packets of one group only,  *)
(* and with no more than half of its aggregators, although they decide     *)
(* with values from before the switch to that group.                       *)
(***************************************************************************)
THEOREM WindowIsOfOneGroup == Spec => []WindowOfOneGroup
BY WorkerInvariant, WInvOneGroup, PTL

-----------------------------------------------------------------------------
(***************************************************************************)
(* The data of the packets: numbers and their bytes.                       *)
(***************************************************************************)

\* Words, most significant byte first.
Word == [0 .. WordSize - 1 -> Nat]

\* Constants of the data path.
LEMMA Sizes ==
  ASSUME PayloadAssumption
  PROVE  /\ Base \in Nat /\ Base > 0 /\ WordSize \in Nat /\ WordSize > 0
         /\ PayloadSize \in Nat /\ PayloadSize > 0 /\ MaxWorkers \in Nat /\ MaxSize \in Nat
         /\ PayloadSize % WordSize = 0
         /\ IsFiniteSet(Ranks)
         /\ Data \in [Ranks -> [Bytes -> 0 .. Base - 1]]
BY DEF PayloadAssumption

\* A number is made byte by byte.
LEMMA NumberMade ==
  ASSUME PayloadAssumption, NEW f \in Word
  PROVE  \E D \in [0 .. WordSize -> Nat] :
            /\ Number(f) = D[WordSize]
            /\ D[0] = 0
            /\ \A k \in 1 .. WordSize : D[k] = D[k - 1] * Base + f[k - 1]
<1> DEFINE s == [x \in Nat \X (1 .. WordSize) |-> x[1] * Base + f[x[2] - 1]]
           Made(D) == D = [n \in 0 .. WordSize |-> IF n = 0 THEN 0 ELSE D[n - 1] * Base + f[n - 1]]
           F == CHOOSE D : Made(D)
<1>0. Base \in Nat /\ WordSize \in Nat
  BY Sizes
<1>1. s \in [Nat \X (1 .. WordSize) -> Nat]
  <2>1. ASSUME NEW x \in Nat \X (1 .. WordSize) PROVE x[1] * Base + f[x[2] - 1] \in Nat
    <3>1. x[1] \in Nat /\ x[2] - 1 \in 0 .. WordSize - 1
      BY <1>0
    <3>2. f[x[2] - 1] \in Nat /\ x[1] * Base \in Nat
      BY <1>0, <3>1 DEF Word
    <3> QED  BY <3>2
  <2> QED  BY <2>1
<1>2. PICK D : IsRecursion(D, WordSize, 0, s)
  <2>1. WordSize \in Nat /\ 0 \in Nat
    BY <1>0
  <2> HIDE DEF s
  <2> QED  BY ONLY <1>1, <2>1, RecursionExists
<1>3. Made(D)
  <2>1. D \in [0 .. WordSize -> Nat] /\ D[0] = 0
    BY <1>2 DEF IsRecursion
  <2>2. \A k \in 1 .. WordSize : D[k] = s[<<D[k - 1], k>>]
    <3> HIDE DEF s
    <3> QED  BY <1>2 DEF IsRecursion
  <2>3. \A k \in 1 .. WordSize : k - 1 \in 0 .. WordSize /\ s[<<D[k - 1], k>>] = D[k - 1] * Base + f[k - 1]
    BY <1>0, <2>1
  <2>4. \A k \in 0 .. WordSize : k # 0 => k \in 1 .. WordSize
    BY <1>0
  <2> HIDE DEF s
  <2> QED  BY <2>1, <2>3, <2>4, <2>2
<1>4. Made(F)
  <2> HIDE DEF Made
  <2> QED  BY <1>3
<1>5. Number(f) = F[WordSize]
  BY DEF Number
<1> HIDE DEF F
<1>6. F[0] = 0 /\ \A k \in 1 .. WordSize : F[k] = F[k - 1] * Base + f[k - 1]
  BY <1>0, <1>4
<1>7. \A k \in 0 .. WordSize : F[k] \in Nat
  <2> DEFINE C == {k \in 0 .. WordSize : F[k] \in Nat}
  <2>1. 0 \in C
    BY <1>0, <1>6
  <2>2. ASSUME NEW k \in 1 .. WordSize, k - 1 \in C PROVE k \in C
    <3>1. F[k - 1] \in Nat /\ f[k - 1] \in Nat /\ k \in 0 .. WordSize
      BY <1>0, <2>2 DEF Word
    <3>2. F[k - 1] * Base \in Nat
      BY <1>0, <3>1
    <3>3. F[k - 1] * Base + f[k - 1] \in Nat
      BY <3>1, <3>2
    <3> QED  BY <1>6, <3>1, <3>3
  <2> HIDE DEF C
  <2>3. 0 .. WordSize \subseteq C
    BY <1>0, <2>1, <2>2, InductionUpTo
  <2> QED  BY <2>3 DEF C
<1>8. F \in [0 .. WordSize -> Nat]
  BY <1>4, <1>7
<1> QED  BY <1>5, <1>6, <1>8

\* A byte is found by dividing, once for each byte behind it.
LEMMA DigitMade ==
  ASSUME PayloadAssumption, NEW n \in Nat
  PROVE  \E D \in [0 .. WordSize -> Nat] :
            /\ \A j : Digit(n, j) = D[WordSize - 1 - j] % Base
            /\ D[0] = n
            /\ \A k \in 1 .. WordSize : D[k] = D[k - 1] \div Base
<1> DEFINE s == [x \in Nat \X (1 .. WordSize) |-> x[1] \div Base]
           Made(D) == D = [k \in 0 .. WordSize |-> IF k = 0 THEN n ELSE D[k - 1] \div Base]
           F == CHOOSE D : Made(D)
<1>0. Base \in Nat /\ Base > 0 /\ WordSize \in Nat
  BY Sizes
<1>1. s \in [Nat \X (1 .. WordSize) -> Nat]
  <2>1. ASSUME NEW x \in Nat \X (1 .. WordSize) PROVE x[1] \div Base \in Nat
    <3>1. x[1] \in Nat
      OBVIOUS
    <3> QED  BY <1>0, <3>1, DivMod
  <2> QED  BY <2>1
<1>2. PICK D : IsRecursion(D, WordSize, n, s)
  <2>1. WordSize \in Nat /\ n \in Nat
    BY <1>0
  <2> HIDE DEF s
  <2> QED  BY ONLY <1>1, <2>1, RecursionExists
<1>3. Made(D)
  <2>1. D \in [0 .. WordSize -> Nat] /\ D[0] = n
    BY <1>2 DEF IsRecursion
  <2>2. \A k \in 1 .. WordSize : D[k] = s[<<D[k - 1], k>>]
    <3> HIDE DEF s
    <3> QED  BY <1>2 DEF IsRecursion
  <2>3. \A k \in 1 .. WordSize : k - 1 \in 0 .. WordSize /\ s[<<D[k - 1], k>>] = D[k - 1] \div Base
    BY <1>0, <2>1
  <2>4. \A k \in 0 .. WordSize : k # 0 => k \in 1 .. WordSize
    BY <1>0
  <2> HIDE DEF s
  <2> QED  BY <2>1, <2>3, <2>4, <2>2
<1>4. Made(F)
  <2> HIDE DEF Made
  <2> QED  BY <1>3
<1>5. \A j : Digit(n, j) = F[WordSize - 1 - j] % Base
  BY DEF Digit
<1> HIDE DEF F
<1>6. F[0] = n /\ \A k \in 1 .. WordSize : F[k] = F[k - 1] \div Base
  BY <1>0, <1>4
<1>7. \A k \in 0 .. WordSize : F[k] \in Nat
  <2> DEFINE C == {k \in 0 .. WordSize : F[k] \in Nat}
  <2>1. 0 \in C
    BY <1>0, <1>6
  <2>2. ASSUME NEW k \in 1 .. WordSize, k - 1 \in C PROVE k \in C
    <3>1. F[k - 1] \in Nat /\ k \in 0 .. WordSize
      BY <1>0, <2>2
    <3>2. F[k - 1] \div Base \in Nat
      BY <1>0, <3>1, DivMod
    <3> QED  BY <1>6, <3>1, <3>2
  <2> HIDE DEF C
  <2>3. 0 .. WordSize \subseteq C
    BY <1>0, <2>1, <2>2, InductionUpTo
  <2> QED  BY <2>3 DEF C
<1>8. F \in [0 .. WordSize -> Nat]
  BY <1>4, <1>7
<1> QED  BY <1>5, <1>6, <1>8

LEMMA NumberNat ==
  ASSUME PayloadAssumption, NEW f \in Word
  PROVE  Number(f) \in Nat
<1>1. WordSize \in 0 .. WordSize
  BY Sizes
<1> QED  BY <1>1, NumberMade

\* Zeros are the number 0.
LEMMA NumberZero ==
  ASSUME PayloadAssumption
  PROVE  Number([j \in 0 .. WordSize - 1 |-> 0]) = 0
<1> DEFINE f == [j \in 0 .. WordSize - 1 |-> 0]
<1>0. Base \in Nat /\ WordSize \in Nat /\ f \in Word
  BY Sizes DEF Word
<1>1. PICK D \in [0 .. WordSize -> Nat] :
            /\ Number(f) = D[WordSize]
            /\ D[0] = 0
            /\ \A k \in 1 .. WordSize : D[k] = D[k - 1] * Base + f[k - 1]
  <2> HIDE DEF f
  <2> QED  BY <1>0, NumberMade
<1> DEFINE C == {k \in 0 .. WordSize : D[k] = 0}
<1>2. 0 \in C
  BY <1>0, <1>1
<1>3. ASSUME NEW k \in 1 .. WordSize, k - 1 \in C PROVE k \in C
  <2>1. k \in 0 .. WordSize /\ k - 1 \in 0 .. WordSize - 1 /\ f[k - 1] = 0 /\ D[k - 1] = 0
    BY <1>0, <1>3
  <2>2. D[k] = D[k - 1] * Base + f[k - 1]
    BY <1>1
  <2> HIDE DEF f
  <2>3. D[k] = 0 * Base + 0
    BY <2>1, <2>2
  <2> QED  BY <1>0, <2>1, <2>3
<1> HIDE DEF C
<1>4. 0 .. WordSize \subseteq C
  BY <1>0, <1>2, <1>3, InductionUpTo
<1>5. WordSize \in C
  BY <1>0, <1>4
<1> QED  BY <1>1, <1>5 DEF C

\* The bytes of a number are those it was made of.
LEMMA DigitOfNumber ==
  ASSUME PayloadAssumption, NEW f \in [0 .. WordSize - 1 -> 0 .. Base - 1],
         NEW j \in 0 .. WordSize - 1
  PROVE  Digit(Number(f), j) = f[j]
<1>0. Base \in Nat /\ Base > 0 /\ WordSize \in Nat /\ f \in Word
  BY Sizes DEF Word
<1>1. PICK D \in [0 .. WordSize -> Nat] :
            /\ Number(f) = D[WordSize]
            /\ D[0] = 0
            /\ \A k \in 1 .. WordSize : D[k] = D[k - 1] * Base + f[k - 1]
  BY <1>0, NumberMade
<1>2. PICK S \in [0 .. WordSize -> Nat] :
            /\ \A i : Digit(Number(f), i) = S[WordSize - 1 - i] % Base
            /\ S[0] = Number(f)
            /\ \A k \in 1 .. WordSize : S[k] = S[k - 1] \div Base
  BY <1>0, NumberNat, DigitMade
<1>3. ASSUME NEW k \in 1 .. WordSize
      PROVE  D[k] \div Base = D[k - 1] /\ D[k] % Base = f[k - 1]
  <2>1. D[k - 1] \in Nat /\ f[k - 1] \in 0 .. Base - 1 /\ D[k] = D[k - 1] * Base + f[k - 1]
    BY <1>0, <1>1
  <2>2. (D[k - 1] * Base + f[k - 1]) % Base = f[k - 1]
    BY ONLY <1>0, <2>1, UniqueRemainder
  <2>3. (D[k - 1] * Base + f[k - 1]) \div Base = D[k - 1]
    BY ONLY <1>0, <2>1, UniqueQuotient
  <2> QED  BY <2>1, <2>2, <2>3
<1> DEFINE C == {k \in 0 .. WordSize : S[k] = D[WordSize - k]}
<1>4. 0 \in C
  BY <1>0, <1>1, <1>2
<1>5. ASSUME NEW k \in 1 .. WordSize, k - 1 \in C PROVE k \in C
  <2>1. S[k - 1] = D[WordSize - (k - 1)] /\ WordSize - (k - 1) \in 1 .. WordSize
        /\ (WordSize - (k - 1)) - 1 = WordSize - k /\ k \in 0 .. WordSize
    BY <1>0, <1>5
  <2>2. S[k] = S[k - 1] \div Base
    BY <1>2
  <2> QED  BY <1>3, <2>1, <2>2
<1> HIDE DEF C
<1>6. 0 .. WordSize \subseteq C
  BY <1>0, <1>4, <1>5, InductionUpTo
<1>7. WordSize - 1 - j \in 0 .. WordSize /\ WordSize - (WordSize - 1 - j) = j + 1 /\ j + 1 \in 1 .. WordSize
      /\ (j + 1) - 1 = j
  BY <1>0
<1>8. S[WordSize - 1 - j] = D[j + 1]
  BY <1>6, <1>7 DEF C
<1> QED  BY <1>2, <1>3, <1>7, <1>8

\* An operation as it is posted, and the workers it is posted to.
OpType ==
    /\ op \in [op_code : {"ALL_REDUCE", "REDUCE", "BROADCAST"}, root : Ranks, size : 0 .. MaxSize]
    /\ Sums => op.size % WordSize = 0
    /\ nworker \in 1 .. MaxWorkers

\* What the parts of the workers are.
PartsAre(q, m, rest) ==
    /\ op.size = (nworker * q + m) * WordSize + rest
    /\ Sums => rest = 0
    /\ \A i \in Workers : sub_size(i) = (q + (IF i < m THEN 1 ELSE 0)) * WordSize
                                        + (IF i = nworker - 1 THEN rest ELSE 0)

LEMMA PartsExist ==
  ASSUME PayloadAssumption, OpType
  PROVE  \E q \in Nat, m \in 0 .. nworker - 1, rest \in 0 .. WordSize - 1 : PartsAre(q, m, rest)
<1> DEFINE words == op.size \div WordSize
           q == words \div nworker
           m == words % nworker
           rest == op.size % WordSize
<1>0. op.size \in Nat /\ nworker \in Nat /\ nworker > 0 /\ WordSize \in Nat /\ WordSize > 0
  BY Sizes DEF OpType
<1>1. words \in Nat /\ rest \in 0 .. WordSize - 1 /\ op.size = words * WordSize + rest
  BY <1>0, DivMod
<1>2. q \in Nat /\ m \in 0 .. nworker - 1 /\ words = q * nworker + m
  BY <1>0, <1>1, DivMod
<1>3. \A i \in Workers : sub_size(i) = (q + (IF i < m THEN 1 ELSE 0)) * WordSize
                                       + (IF i = nworker - 1 THEN rest ELSE 0)
  BY DEF sub_size
<1>4. Sums => rest = 0
  BY DEF OpType
<1> HIDE DEF q, m, rest, words
<1>5. op.size = (nworker * q + m) * WordSize + rest
  <2>1. words = nworker * q + m
    BY <1>0, <1>2
  <2> QED  BY <1>1, <2>1
<1> QED  BY <1>2, <1>1, <1>3, <1>4, <1>5 DEF PartsAre

LEMMA PartsNat ==
  ASSUME PayloadAssumption, OpType
  PROVE  \A i \in Workers : sub_size(i) \in Nat
<1>0. nworker \in Nat /\ nworker > 0 /\ WordSize \in Nat
  BY Sizes DEF OpType
<1>1. PICK q \in Nat, m \in 0 .. nworker - 1, rest \in 0 .. WordSize - 1 : PartsAre(q, m, rest)
  BY PartsExist
<1> SUFFICES ASSUME NEW i \in Workers PROVE sub_size(i) \in Nat
  OBVIOUS
<1> DEFINE a == q + (IF i < m THEN 1 ELSE 0)
           e == IF i = nworker - 1 THEN rest ELSE 0
<1>2. sub_size(i) = a * WordSize + e
  BY <1>1 DEF PartsAre
<1>3. a \in Nat /\ e \in Nat
  BY <1>0 DEF Workers
<1> HIDE DEF a, e
<1>4. a * WordSize \in Nat
  BY <1>0, <1>3
<1> QED  BY <1>2, <1>3, <1>4

\* Each part starts where the one before ends.
LEMMA Offsets ==
  ASSUME PayloadAssumption, OpType
  PROVE  /\ offset(0) = 0
         /\ \A i \in Workers : offset(i) \in Int /\ offset(i + 1) = offset(i) + sub_size(i)
<1>0. nworker \in Nat /\ nworker > 0
  BY DEF OpType
<1>1. offset(0) = 0
  <2> DEFINE f == [j \in 0 .. 0 - 1 |-> sub_size(j)]
  <2>1. DOMAIN f = {}
    OBVIOUS
  <2>2. offset(0) = SumFunction(f)
    BY DEF offset
  <2> HIDE DEF f
  <2> QED  BY <2>1, <2>2, SumOfNothing
<1>2. ASSUME NEW i \in Workers
      PROVE  offset(i) \in Int /\ offset(i + 1) = offset(i) + sub_size(i)
  <2> DEFINE f == [j \in 0 .. (i + 1) - 1 |-> sub_size(j)]
             g == [j \in 0 .. i - 1 |-> sub_size(j)]
  <2>1. i \in Nat /\ 0 .. (i + 1) - 1 = 0 .. i /\ 0 .. i \subseteq Workers
        /\ i \in 0 .. i /\ 0 .. i - 1 = (0 .. i) \ {i}
    BY <1>0 DEF Workers
  <2>2. DOMAIN f = 0 .. i /\ \A j \in 0 .. i : f[j] = sub_size(j) /\ f[j] \in Int
    BY <2>1, PartsNat
  <2>3. IsFiniteSet(0 .. i) /\ IsFiniteSet(0 .. i - 1)
    BY <2>1, FS_Interval
  <2>4. g = [j \in DOMAIN f \ {i} |-> f[j]]
    BY <2>1, <2>2
  <2>5. DOMAIN g = 0 .. i - 1 /\ \A j \in DOMAIN g : g[j] \in Int
    BY <2>1, <2>2
  <2>6. offset(i) = SumFunction(g) /\ offset(i + 1) = SumFunction(f)
    BY DEF offset
  <2> HIDE DEF f, g
  <2>7. SumFunction(f) = f[i] + SumFunction(g)
    <3>1. IsFiniteSet(DOMAIN f) /\ (\A j \in DOMAIN f : f[j] \in Int) /\ i \in DOMAIN f
      BY <2>1, <2>2, <2>3
    <3> QED  BY <2>4, <3>1, SumRemove
  <2>8. SumFunction(g) \in Int
    <3>1. IsFiniteSet(DOMAIN g)
      BY <2>3, <2>5
    <3> QED  BY <2>5, <3>1, SumInt
  <2> QED  BY <2>1, <2>2, <2>6, <2>7, <2>8
<1> QED  BY <1>1, <1>2

\* Where the part of worker i starts.
LEMMA OffsetIs ==
  ASSUME PayloadAssumption, OpType,
         NEW q \in Nat, NEW m \in 0 .. nworker - 1, NEW rest \in 0 .. WordSize - 1,
         PartsAre(q, m, rest)
  PROVE  \A i \in 0 .. nworker :
            offset(i) = (i * q + (IF i < m THEN i ELSE m)) * WordSize
                        + (IF i = nworker THEN rest ELSE 0)
<1> DEFINE At(i) == (i * q + (IF i < m THEN i ELSE m)) * WordSize + (IF i = nworker THEN rest ELSE 0)
           C == {i \in 0 .. nworker : offset(i) = At(i)}
<1>0. nworker \in Nat /\ nworker > 0 /\ WordSize \in Nat /\ WordSize > 0 /\ rest \in Nat /\ m \in Nat
  BY Sizes DEF OpType
<1>1. 0 \in C
  <2>1. (IF 0 < m THEN 0 ELSE m) = 0 /\ (IF 0 = nworker THEN rest ELSE 0) = 0
    BY <1>0
  <2>2. 0 * q = 0
    OBVIOUS
  <2>3. At(0) = (0 + 0) * WordSize + 0
    BY <2>1, <2>2
  <2>4. At(0) = 0
    BY <1>0, <2>3
  <2> QED  BY <1>0, <2>4, Offsets
<1>2. ASSUME NEW i \in 1 .. nworker, i - 1 \in C PROVE i \in C
  <2> DEFINE j == i - 1
             c == IF j < m THEN 1 ELSE 0
             l == IF j < m THEN j ELSE m
             e == IF i = nworker THEN rest ELSE 0
  <2>1. j \in Workers /\ j + 1 = i /\ i \in 0 .. nworker /\ j \in Nat
    BY <1>0 DEF Workers
  <2>2. offset(i) = offset(j) + sub_size(j)
    BY <2>1, Offsets
  <2>3. offset(j) = (j * q + l) * WordSize
    <3>1. offset(j) = At(j) /\ j # nworker
      BY <1>0, <1>2
    <3>2. At(j) = (j * q + l) * WordSize + 0
      BY <3>1
    <3>3. l \in Int /\ j * q \in Int
      BY <1>0, <2>1
    <3> HIDE DEF l, At, j
    <3> QED  BY <1>0, <3>1, <3>2, <3>3
  <2>4. sub_size(j) = (q + c) * WordSize + e
    BY <1>0, <2>1 DEF PartsAre
  <2>5. (IF i < m THEN i ELSE m) = l + c
    BY <1>0, <2>1
  <2>6. At(i) = (i * q + (l + c)) * WordSize + e
    BY <2>5
  <2>7. l \in Nat /\ c \in Nat /\ e \in Nat
    BY <1>0, <2>1
  <2>8. i * q = j * q + q /\ j * q \in Nat
    BY <2>1
  <2> HIDE DEF l, c, e, At, j
  <2>9. offset(i) = At(i)
    <3> DEFINE x == j * q
    <3>1. At(i) = ((x + q) + (l + c)) * WordSize + e
      BY <2>6, <2>8
    <3>2. offset(i) = (x + l) * WordSize + ((q + c) * WordSize + e) /\ x \in Nat
      BY <2>2, <2>3, <2>4, <2>8
    <3> HIDE DEF x
    <3> QED  BY <1>0, <2>7, <3>1, <3>2
  <2> QED  BY <2>1, <2>9 DEF C
<1> HIDE DEF C
<1>3. 0 .. nworker \subseteq C
  BY <1>0, <1>1, <1>2, InductionUpTo
<1> QED  BY <1>3 DEF C

\* The parts are the whole operation, one after the other.
LEMMA PartsLaid ==
  ASSUME PayloadAssumption, OpType
  PROVE  /\ offset(nworker) = op.size
         /\ \A i \in 0 .. nworker : offset(i) \in Nat
         /\ \A i, j \in 0 .. nworker : i < j => offset(i) + sub_size(i) <= offset(j)
<1>0. nworker \in Nat /\ nworker > 0 /\ WordSize \in Nat /\ op.size \in Nat
  BY Sizes DEF OpType
<1>1. PICK q \in Nat, m \in 0 .. nworker - 1, rest \in 0 .. WordSize - 1 : PartsAre(q, m, rest)
  BY PartsExist
<1>2. offset(nworker) = op.size
  <2>1. ~ nworker < m /\ nworker \in 0 .. nworker
    BY <1>0
  <2>2. offset(nworker) = (nworker * q + m) * WordSize + rest
    BY <1>1, <2>1, OffsetIs
  <2> QED  BY <1>1, <2>2 DEF PartsAre
<1> DEFINE C == {j \in 0 .. nworker :
                    /\ offset(j) \in Nat
                    /\ \A i \in Workers : i < j => offset(i) + sub_size(i) <= offset(j)}
<1>3. 0 \in C
  BY <1>0, Offsets DEF Workers
<1>4. ASSUME NEW j \in 1 .. nworker, j - 1 \in C PROVE j \in C
  <2>1. j - 1 \in Workers /\ (j - 1) + 1 = j /\ j \in 0 .. nworker
    BY <1>0 DEF Workers
  <2>2. offset(j) = offset(j - 1) + sub_size(j - 1) /\ sub_size(j - 1) \in Nat
    BY <2>1, Offsets, PartsNat
  <2>3. offset(j - 1) \in Nat /\ offset(j) \in Nat
    BY <1>4, <2>2
  <2>4. ASSUME NEW i \in Workers, i < j PROVE offset(i) + sub_size(i) <= offset(j)
    <3>1. i = j - 1 \/ i < j - 1
      BY <1>0, <2>4 DEF Workers
    <3>2. i < j - 1 => offset(i) + sub_size(i) <= offset(j - 1)
      BY <1>4
    <3>3. offset(i) \in Int /\ sub_size(i) \in Nat
      BY Offsets, PartsNat
    <3> QED  BY <2>2, <2>3, <3>1, <3>2, <3>3
  <2> QED  BY <2>1, <2>3, <2>4
<1> HIDE DEF C
<1>5. 0 .. nworker \subseteq C
  BY <1>0, <1>3, <1>4, InductionUpTo
<1>6. \A i, j \in 0 .. nworker : i < j => i \in Workers
  BY <1>0 DEF Workers
<1> QED  BY <1>2, <1>5, <1>6 DEF C

\* The packets, and the bytes of the operation that a packet has.
Packets == {p \in Workers \X Nat : p[2] < pkt_cnt(p[1])}
BytesOf(p) == data(p[1], p[2]) .. data(p[1], p[2]) + size(p[1], p[2]) - 1

\* A packet has its bytes in the part of its worker.
LEMMA PacketIn ==
  ASSUME PayloadAssumption, OpType, NEW i \in Workers, NEW k \in Nat, k < pkt_cnt(i)
  PROVE  /\ data(i, k) = offset(i) + k * PayloadSize /\ data(i, k) \in Nat /\ k * PayloadSize \in Nat
         /\ size(i, k) \in 0 .. PayloadSize
         /\ data(i, k) + size(i, k) <= offset(i) + sub_size(i)
         /\ size(i, k) = PayloadSize \/ size(i, k) = sub_size(i) - k * PayloadSize
<1>0. PayloadSize \in Nat /\ PayloadSize > 0 /\ nworker \in Nat /\ i \in 0 .. nworker
  BY Sizes DEF OpType, Workers
<1> DEFINE s == sub_size(i)
           n == (s + PayloadSize - 1) \div PayloadSize
           e == (s + PayloadSize - 1) % PayloadSize
           kp == k * PayloadSize
<1>1. s \in Nat /\ offset(i) \in Nat
  BY <1>0, PartsNat, PartsLaid
<1>2. n \in Nat /\ e \in 0 .. PayloadSize - 1 /\ s + PayloadSize - 1 = n * PayloadSize + e
  <2>1. s + PayloadSize - 1 \in Nat
    BY <1>0, <1>1
  <2> HIDE DEF s
  <2> QED  BY <1>0, <2>1, DivMod
<1>3. k < (IF n = 0 THEN 1 ELSE n)
  BY DEF pkt_cnt
<1>4. kp \in Nat
  BY <1>0
<1>5. size(i, k) = IF s - kp < PayloadSize THEN s - kp ELSE PayloadSize
  BY DEF size
<1>6. data(i, k) = offset(i) + kp
  BY DEF data
<1> HIDE DEF s, n, e
<1>7. kp <= s
  <2>1. CASE n = 0
    <3>1. k = 0
      BY <1>3, <2>1
    <3> QED  BY <1>1, <3>1, <1>0
  <2>2. CASE n # 0
    <3>1. k \in 0 .. n - 1 /\ (n - k) \in Int /\ n - k >= 1
      BY <1>2, <1>3, <2>2
    <3>2. (n - k) * PayloadSize > 0
      BY <1>0, <3>1
    <3>3. (n - k) * PayloadSize >= PayloadSize
      BY <1>0, <3>1, <3>2, MultipleAtLeast
    <3>4. (n - k) * PayloadSize = n * PayloadSize - kp /\ n * PayloadSize \in Nat
      BY <1>0, <1>2
    <3> HIDE DEF kp
    <3> QED  BY <1>0, <1>1, <1>2, <1>4, <3>3, <3>4
  <2> QED  BY <2>1, <2>2
<1> HIDE DEF kp
<1>8. size(i, k) \in 0 .. PayloadSize /\ data(i, k) \in Nat /\ data(i, k) + size(i, k) <= offset(i) + s
      /\ (size(i, k) = PayloadSize \/ size(i, k) = s - kp)
  BY <1>0, <1>1, <1>4, <1>5, <1>6, <1>7
<1> QED  BY <1>4, <1>6, <1>8 DEF s, kp

\* The bytes of a packet are bytes of the operation.
LEMMA PacketBytes ==
  ASSUME PayloadAssumption, OpType, NEW p \in Packets
  PROVE  /\ BytesOf(p) \subseteq 0 .. op.size - 1
         /\ 0 .. op.size - 1 \subseteq Bytes
<1>0. p[1] \in Workers /\ p[2] \in Nat /\ p[2] < pkt_cnt(p[1]) /\ op.size \in 0 .. MaxSize
      /\ nworker \in Nat /\ p[1] \in 0 .. nworker /\ nworker \in 0 .. nworker /\ p[1] < nworker
  BY DEF Packets, OpType, Workers
<1>1. offset(p[1]) + sub_size(p[1]) <= op.size
  BY <1>0, PartsLaid
<1> DEFINE d == data(p[1], p[2])
           s == size(p[1], p[2])
           o == offset(p[1]) + sub_size(p[1])
<1>2. d \in Nat /\ s \in 0 .. PayloadSize /\ d + s <= o
  BY <1>0, PacketIn
<1>3. o \in Nat /\ PayloadSize \in Nat /\ MaxSize \in Nat
  BY <1>0, PartsLaid, PartsNat, Sizes
<1>4. BytesOf(p) = d .. d + s - 1
  BY DEF BytesOf
<1> HIDE DEF d, s, o
<1>5. BytesOf(p) \subseteq 0 .. op.size - 1
  BY <1>0, <1>1, <1>2, <1>3, <1>4 DEF o
<1>6. 0 .. op.size - 1 \subseteq Bytes
  BY <1>0, <1>3 DEF Bytes, BufferSize
<1> QED  BY <1>5, <1>6

\* No byte is in two packets.
LEMMA PacketsDisjoint ==
  ASSUME PayloadAssumption, OpType, NEW p \in Packets, NEW q \in Packets, p # q
  PROVE  BytesOf(p) \cap BytesOf(q) = {}
<1> DEFINE Before(x, y) == data(x[1], x[2]) + size(x[1], x[2]) <= data(y[1], y[2])
<1>1. ASSUME NEW x \in Packets, NEW y \in Packets, x[1] < y[1]
      PROVE  Before(x, y)
  <2>1. x[1] \in Workers /\ x[2] \in Nat /\ y[1] \in Workers /\ y[2] \in Nat
        /\ x[2] < pkt_cnt(x[1]) /\ y[2] < pkt_cnt(y[1])
    BY DEF Packets
  <2>2. x[1] \in 0 .. nworker /\ y[1] \in 0 .. nworker
    BY <2>1 DEF Workers, OpType
  <2>3. offset(x[1]) + sub_size(x[1]) <= offset(y[1])
    BY <1>1, <2>2, PartsLaid
  <2>4. data(x[1], x[2]) + size(x[1], x[2]) <= offset(x[1]) + sub_size(x[1])
        /\ data(x[1], x[2]) \in Nat /\ size(x[1], x[2]) \in 0 .. PayloadSize
    BY <2>1, PacketIn
  <2>5. data(y[1], y[2]) = offset(y[1]) + y[2] * PayloadSize /\ y[2] * PayloadSize \in Nat
    BY <2>1, PacketIn
  <2>6. offset(x[1]) \in Nat /\ offset(y[1]) \in Nat /\ sub_size(x[1]) \in Nat
    BY <2>1, <2>2, PartsLaid, PartsNat
  <2> QED  BY <2>3, <2>4, <2>5, <2>6, Sizes
<1>2. ASSUME NEW x \in Packets, NEW y \in Packets, x[1] = y[1], x[2] < y[2]
      PROVE  Before(x, y)
  <2>1. x[1] \in Workers /\ x[2] \in Nat /\ y[1] \in Workers /\ y[2] \in Nat
        /\ x[2] < pkt_cnt(x[1]) /\ y[2] < pkt_cnt(y[1])
    BY DEF Packets
  <2> DEFINE xp == x[2] * PayloadSize
             yp == y[2] * PayloadSize
  <2>2. data(x[1], x[2]) = offset(x[1]) + xp /\ size(x[1], x[2]) \in 0 .. PayloadSize /\ xp \in Nat
    BY <2>1, PacketIn
  <2>3. data(y[1], y[2]) = offset(y[1]) + yp /\ yp \in Nat
    BY <2>1, PacketIn
  <2>4. offset(x[1]) \in Nat /\ offset(y[1]) = offset(x[1])
    BY <1>2, <2>1, PartsLaid DEF Workers, OpType
  <2>5. xp + PayloadSize <= yp
    <3>1. (y[2] - x[2]) \in Nat /\ y[2] - x[2] >= 1 /\ PayloadSize \in Nat /\ PayloadSize > 0
      BY <1>2, <2>1, Sizes
    <3>2. (y[2] - x[2]) * PayloadSize > 0
      BY <3>1
    <3>3. (y[2] - x[2]) * PayloadSize >= PayloadSize
      BY <3>1, <3>2, MultipleAtLeast
    <3>4. (y[2] - x[2]) * PayloadSize = yp - xp
      BY <2>1, <3>1
    <3> HIDE DEF xp, yp
    <3> QED  BY <2>2, <2>3, <3>1, <3>3, <3>4
  <2> HIDE DEF xp, yp
  <2> QED  BY <2>2, <2>3, <2>4, <2>5, Sizes
<1>3. Before(p, q) \/ Before(q, p)
  <2>1. p[1] \in Workers /\ p[2] \in Nat /\ q[1] \in Workers /\ q[2] \in Nat
        /\ p = <<p[1], p[2]>> /\ q = <<q[1], q[2]>>
    BY DEF Packets
  <2>2. p[1] # q[1] \/ p[2] # q[2]
    BY <2>1
  <2>3. p[1] \in Int /\ q[1] \in Int
    BY <2>1 DEF Workers, OpType
  <2> HIDE DEF Before
  <2> QED  BY <1>1, <1>2, <2>1, <2>2, <2>3
<1>4. \A x \in {p, q} : data(x[1], x[2]) \in Nat /\ size(x[1], x[2]) \in Nat
  BY PacketIn, Sizes DEF Packets
<1> QED  BY <1>3, <1>4 DEF BytesOf

\* Every byte of the operation is in a packet.
LEMMA PacketsCover ==
  ASSUME PayloadAssumption, OpType, NEW b \in 0 .. op.size - 1
  PROVE  \E p \in Packets : b \in BytesOf(p)
<1>0. op.size \in Nat /\ nworker \in Nat /\ nworker > 0 /\ b \in Nat /\ PayloadSize \in Nat /\ PayloadSize > 0
  BY Sizes DEF OpType
<1> DEFINE Past == {i \in 0 .. nworker : b < offset(i)}
<1>1. PICK n \in Past : \A i \in Past : n <= i
  <2>1. Past \in SUBSET Nat
    BY <1>0
  <2>2. nworker \in Past
    BY <1>0, PartsLaid
  <2> HIDE DEF Past
  <2> QED  BY <2>1, <2>2, LeastExists
<1> DEFINE i == n - 1
<1>2. i \in Workers /\ i + 1 = n /\ i \in 0 .. nworker /\ i \notin Past
  <2>1. n # 0 /\ n \in 0 .. nworker
    BY <1>0, <1>1, Offsets
  <2>2. i < n /\ i \in Workers /\ i + 1 = n /\ i \in 0 .. nworker
    BY <1>0, <2>1 DEF Workers
  <2> HIDE DEF i, Past
  <2>3. i \notin Past
    BY <1>1, <2>1, <2>2
  <2> QED  BY <2>2, <2>3
<1>3. offset(i) <= b /\ b < offset(i) + sub_size(i) /\ offset(i) \in Nat /\ sub_size(i) \in Nat
  <2>1. offset(i + 1) = offset(i) + sub_size(i) /\ offset(i) \in Nat /\ sub_size(i) \in Nat
    BY <1>2, Offsets, PartsLaid, PartsNat
  <2>2. b < offset(n) /\ ~ (b < offset(i))
    BY <1>1, <1>2
  <2> HIDE DEF i
  <2> QED  BY <1>0, <1>2, <2>1, <2>2
<1> HIDE DEF i, Past
<1> DEFINE s == sub_size(i)
           x == b - offset(i)
           k == x \div PayloadSize
           e == x % PayloadSize
           kp == k * PayloadSize
<1>4. s \in Nat /\ x \in Nat /\ x < s /\ k \in Nat /\ e \in 0 .. PayloadSize - 1 /\ x = kp + e /\ kp \in Nat
  <2>1. s \in Nat /\ x \in Nat /\ x < s
    BY <1>0, <1>3
  <2> HIDE DEF x, s
  <2>2. k \in Nat /\ e \in 0 .. PayloadSize - 1 /\ x = kp + e
    BY <1>0, <2>1, DivMod
  <2>3. kp \in Nat
    BY <1>0, <2>2
  <2> QED  BY <2>1, <2>2, <2>3
<1>5. k < pkt_cnt(i)
  <2> DEFINE y == s + PayloadSize - 1
             l == y \div PayloadSize
             f == y % PayloadSize
  <2>1. y \in Nat
    BY <1>0, <1>3
  <2>2. l \in Nat /\ f \in 0 .. PayloadSize - 1 /\ y = l * PayloadSize + f
    <3> HIDE DEF y
    <3> QED  BY <1>0, <2>1, DivMod
  <2>3. pkt_cnt(i) = IF l = 0 THEN 1 ELSE l
    BY DEF pkt_cnt
  <2>4. y >= kp + PayloadSize
    <3> HIDE DEF kp, x, s, e, k
    <3> QED  BY <1>0, <1>4
  <2> HIDE DEF y, l, f, s, x, k, e
  <2>5. (l - k) * PayloadSize = l * PayloadSize - kp /\ l * PayloadSize \in Nat
    BY <1>0, <1>4, <2>2
  <2>6. (l - k) * PayloadSize > 0
    <3> HIDE DEF kp
    <3> QED  BY <1>0, <1>4, <2>1, <2>2, <2>4, <2>5
  <2>7. l - k > 0
    <3> SUFFICES ASSUME k - l \in Nat PROVE FALSE
      BY <1>4, <2>2
    <3>1. (k - l) * PayloadSize >= 0
      BY <1>0
    <3>2. (k - l) * PayloadSize = - ((l - k) * PayloadSize)
      BY <1>0, <1>4, <2>2
    <3>3. (l - k) * PayloadSize \in Int
      BY <1>0, <1>4, <2>2
    <3> QED  BY <2>6, <3>1, <3>2, <3>3
  <2> QED  BY <1>4, <2>2, <2>3, <2>7
<1>6. <<i, k>> \in Packets
  BY <1>2, <1>4, <1>5 DEF Packets
<1>7. b \in BytesOf(<<i, k>>)
  <2>1. BytesOf(<<i, k>>) = data(i, k) .. data(i, k) + size(i, k) - 1
    BY DEF BytesOf
  <2>2. data(i, k) = offset(i) + kp /\ size(i, k) \in Nat /\ (size(i, k) = PayloadSize \/ size(i, k) = s - kp)
    BY <1>2, <1>4, <1>5, <1>0, PacketIn
  <2>3. b = offset(i) + x
    BY <1>0, <1>3
  <2>4. x < s /\ s \in Nat /\ x = kp + e /\ e \in 0 .. PayloadSize - 1 /\ kp \in Nat /\ offset(i) \in Nat
    BY <1>3, <1>4
  <2> HIDE DEF kp, x, s, e, k
  <2>5. data(i, k) \in Int /\ data(i, k) <= b /\ b <= data(i, k) + size(i, k) - 1 /\ b \in Int
    BY <1>0, <2>2, <2>3, <2>4
  <2> QED  BY <2>1, <2>2, <2>5
<1> QED  BY <1>6, <1>7

\* The payload of packet p of rank r, made of the rank's own data.
Filled(r, p) ==
    [b \in 0 .. PayloadSize - 1 |->
        IF need_tx(r) /\ b < size(p[1], p[2]) THEN Data[r][data(p[1], p[2]) + place(b)] ELSE 0]

\* What is added has whole words in each packet.
LEMMA Aligned ==
  ASSUME PayloadAssumption, OpType, Sums, NEW p \in Packets
  PROVE  \E a \in Nat, c \in Nat : data(p[1], p[2]) = a * WordSize /\ size(p[1], p[2]) = c * WordSize
<1> DEFINE i == p[1]
           k == p[2]
<1>0. i \in Workers /\ k \in Nat /\ k < pkt_cnt(i)
  BY DEF Packets
<1>1. nworker \in Nat /\ nworker > 0 /\ WordSize \in Nat /\ WordSize > 0 /\ PayloadSize \in Nat
      /\ i \in 0 .. nworker /\ i # nworker
  BY <1>0, Sizes DEF OpType, Workers
<1> HIDE DEF i, k
<1>2. PICK z \in Nat : PayloadSize = z * WordSize
  <2>1. PayloadSize \div WordSize \in Nat
        /\ PayloadSize = (PayloadSize \div WordSize) * WordSize + (PayloadSize % WordSize)
    BY <1>1, DivMod
  <2>2. PayloadSize % WordSize = 0
    BY Sizes
  <2> DEFINE z == PayloadSize \div WordSize
  <2>3. z \in Nat /\ PayloadSize = z * WordSize + 0
    BY <2>1, <2>2
  <2> HIDE DEF z
  <2>4. PayloadSize = z * WordSize
    BY <1>1, <2>3
  <2> QED  BY <2>3, <2>4
<1>3. PICK q \in Nat, m \in 0 .. nworker - 1, rest \in 0 .. WordSize - 1 : PartsAre(q, m, rest)
  BY PartsExist
<1>4. PICK x \in Nat : sub_size(i) = x * WordSize
  <2> DEFINE x == q + (IF i < m THEN 1 ELSE 0)
             e == IF i = nworker - 1 THEN rest ELSE 0
  <2>1. sub_size(i) = x * WordSize + e /\ e = 0
    BY <1>0, <1>3 DEF PartsAre
  <2>2. x \in Nat
    OBVIOUS
  <2> HIDE DEF x, e
  <2>3. sub_size(i) = x * WordSize
    BY <1>1, <2>1, <2>2
  <2> QED  BY <2>2, <2>3
<1>5. PICK y \in Nat : offset(i) = y * WordSize
  <2> DEFINE y == i * q + (IF i < m THEN i ELSE m)
  <2>1. offset(i) = y * WordSize + 0
    BY <1>1, <1>3, OffsetIs
  <2>2. y \in Nat
    <3>1. i * q \in Nat /\ (IF i < m THEN i ELSE m) \in Nat
      BY <1>1
    <3> QED  BY <3>1
  <2> HIDE DEF y
  <2>3. offset(i) = y * WordSize
    BY <1>1, <2>1, <2>2
  <2> QED  BY <2>2, <2>3
<1>6. /\ data(i, k) = offset(i) + k * PayloadSize
      /\ size(i, k) \in 0 .. PayloadSize
      /\ size(i, k) = PayloadSize \/ size(i, k) = sub_size(i) - k * PayloadSize
  BY <1>0, PacketIn
<1>7. k * PayloadSize = (k * z) * WordSize /\ k * z \in Nat
  BY <1>0, <1>1, <1>2
<1> DEFINE kz == k * z
<1>8. data(i, k) = (y + kz) * WordSize /\ y + kz \in Nat
  <2>1. data(i, k) = y * WordSize + kz * WordSize /\ kz \in Nat
    BY <1>5, <1>6, <1>7
  <2> HIDE DEF kz
  <2> QED  BY <1>1, <2>1
<1>9. \E c \in Nat : size(i, k) = c * WordSize
  <2>1. CASE size(i, k) = PayloadSize
    BY <1>2, <2>1
  <2>2. CASE size(i, k) = sub_size(i) - k * PayloadSize
    <3>1. size(i, k) = x * WordSize - kz * WordSize /\ kz \in Nat
      BY <1>4, <1>7, <2>2
    <3> HIDE DEF kz
    <3> DEFINE c == x - kz
    <3>2. c \in Int /\ size(i, k) = c * WordSize
      BY <1>1, <3>1
    <3>3. ~ c < 0
      <4> HIDE DEF c
      <4> SUFFICES ASSUME c < 0 PROVE FALSE
        OBVIOUS
      <4>1. (0 - c) * WordSize > 0
        BY <1>1, <3>2
      <4>2. (0 - c) * WordSize = 0 - c * WordSize
        BY <1>1, <3>2
      <4>3. size(i, k) >= 0 /\ size(i, k) \in Int
        BY <1>6
      <4> QED  BY <3>2, <4>1, <4>2, <4>3
    <3>4. c \in Nat
      <4> HIDE DEF c
      <4> QED  BY <3>2, <3>3
    <3> HIDE DEF c
    <3> QED  BY <3>2, <3>4
  <2> QED  BY <1>6, <2>1, <2>2
<1> HIDE DEF kz
<1> QED  BY <1>8, <1>9 DEF i, k

\* The bytes of a word change places within it.
LEMMA WordTurned ==
  ASSUME PayloadAssumption, NEW c \in Nat, NEW e \in 0 .. c * WordSize - 1
  PROVE  \E l \in Nat, d \in 0 .. WordSize - 1 :
            /\ e = l * WordSize + d
            /\ htobe32(e) \div WordSize = l
            /\ htobe32(e) % WordSize = WordSize - 1 - d
            /\ htobe32(e) \in 0 .. c * WordSize - 1
            /\ \A j \in 0 .. WordSize - 1 :
                  /\ l * WordSize + j \in 0 .. c * WordSize - 1
                  /\ htobe32(l * WordSize + j) = l * WordSize + (WordSize - 1 - j)
<1> DEFINE l == e \div WordSize
           d == e % WordSize
           cw == c * WordSize
           lw == l * WordSize
<1>0. WordSize \in Nat /\ WordSize > 0 /\ e \in Nat /\ cw \in Nat /\ e < cw
  <2>1. WordSize \in Nat /\ WordSize > 0
    BY Sizes
  <2>2. cw \in Nat
    BY <2>1
  <2>3. e \in 0 .. cw - 1
    OBVIOUS
  <2> HIDE DEF cw
  <2> QED  BY <2>1, <2>2, <2>3
<1>1. l \in Nat /\ d \in 0 .. WordSize - 1 /\ e = lw + d /\ lw \in Nat
  <2>1. l \in Nat /\ d \in 0 .. WordSize - 1 /\ e = lw + d
    BY <1>0, DivMod
  <2> HIDE DEF l, d
  <2>2. lw \in Nat
    BY <1>0, <2>1
  <2> QED  BY <2>1, <2>2
<1> HIDE DEF l, d
<1>2. lw + WordSize <= cw
  <2>1. (c - l) * WordSize = cw - lw /\ c - l \in Int
    BY <1>0, <1>1
  <2>2. cw - lw > 0 /\ cw - lw \in Int
    <3> HIDE DEF cw, lw
    <3> QED  BY <1>0, <1>1
  <2>3. (c - l) * WordSize >= WordSize
    BY <1>0, <2>1, <2>2, MultipleAtLeast
  <2> HIDE DEF cw, lw
  <2> QED  BY <1>0, <1>1, <2>1, <2>3
<1>3. ASSUME NEW j \in 0 .. WordSize - 1
      PROVE  /\ lw + j \in 0 .. cw - 1
             /\ (lw + j) \div WordSize = l
             /\ (lw + j) % WordSize = j
             /\ htobe32(lw + j) = lw + (WordSize - 1 - j)
  <2>1. (lw + j) \div WordSize = l /\ (lw + j) % WordSize = j
    BY <1>0, <1>1, UniqueQuotient, UniqueRemainder
  <2>2. htobe32(lw + j) = lw + (WordSize - 1 - j)
    BY <2>1 DEF htobe32
  <2>3. lw + j \in 0 .. cw - 1
    <3> HIDE DEF cw, lw
    <3> QED  BY <1>0, <1>1, <1>2
  <2> QED  BY <2>1, <2>2, <2>3
<1>4. WordSize - 1 - d \in 0 .. WordSize - 1
  BY <1>0, <1>1
<1>5. htobe32(e) = lw + (WordSize - 1 - d)
  BY <1>1, <1>3
<1> DEFINE u == WordSize - 1 - d
<1>6. (lw + u) \div WordSize = l /\ (lw + u) % WordSize = u /\ lw + u \in 0 .. cw - 1
  <2> HIDE DEF lw, cw
  <2> QED  BY <1>3, <1>4
<1>7. /\ e = lw + d
      /\ htobe32(e) \div WordSize = l
      /\ htobe32(e) % WordSize = WordSize - 1 - d
      /\ htobe32(e) \in 0 .. cw - 1
      /\ \A j \in 0 .. WordSize - 1 :
            lw + j \in 0 .. cw - 1 /\ htobe32(lw + j) = lw + (WordSize - 1 - j)
  BY <1>1, <1>3, <1>5, <1>6
<1> QED  BY <1>1, <1>7

\* The response to a packet of numbers has their sums, as the host means them.
LEMMA SumRight ==
  ASSUME PayloadAssumption, OpType, Sums, NEW p \in Packets, NEW r \in Ranks, need_rx(r),
         \A s \in Ranks : payload[s][p] = Filled(s, p),
         NEW b \in BytesOf(p)
  PROVE  Sum(p)[place(b - data(p[1], p[2]))] = Promised(r, b)
<1> DEFINE first == data(p[1], p[2])
           cnt == size(p[1], p[2])
           e == b - first
<1>0. /\ WordSize \in Nat /\ WordSize > 0 /\ PayloadSize \in Nat /\ IsFiniteSet(Ranks)
      /\ Data \in [Ranks -> [Bytes -> 0 .. Base - 1]]
  BY Sizes
<1>1. PICK a \in Nat, c \in Nat : first = a * WordSize /\ cnt = c * WordSize
  BY Aligned
<1>2. cnt \in 0 .. PayloadSize /\ first \in Nat
  BY PacketIn DEF Packets
<1>3. e \in 0 .. c * WordSize - 1 /\ b = first + e /\ b \in 0 .. op.size - 1 /\ op.size \in Nat
  <2>1. b \in first .. first + cnt - 1 /\ b \in 0 .. op.size - 1
    BY PacketBytes DEF BytesOf
  <2> HIDE DEF first, cnt
  <2> QED  BY <1>1, <1>2, <2>1 DEF OpType
<1> HIDE DEF e
<1>4. PICK l \in Nat, d \in 0 .. WordSize - 1 :
            /\ e = l * WordSize + d
            /\ htobe32(e) \div WordSize = l
            /\ htobe32(e) % WordSize = WordSize - 1 - d
            /\ htobe32(e) \in 0 .. c * WordSize - 1
            /\ \A j \in 0 .. WordSize - 1 :
                  /\ l * WordSize + j \in 0 .. c * WordSize - 1
                  /\ htobe32(l * WordSize + j) = l * WordSize + (WordSize - 1 - j)
  BY <1>3, WordTurned
<1> DEFINE w == l * WordSize
           aw == a * WordSize
           x == htobe32(e)
<1>5. x \in 0 .. PayloadSize - 1 /\ place(e) = x
  <2>1. place(e) = x
    BY DEF place
  <2> HIDE DEF x, cnt
  <2> QED  BY <1>0, <1>1, <1>2, <1>4, <2>1 DEF x
<1>6. /\ w \in Nat /\ aw \in Nat /\ w + aw \in Nat
      /\ b \div WordSize = a + l /\ b % WordSize = d /\ (a + l) * WordSize = aw + w
  <2>1. w \in Nat /\ aw \in Nat /\ (a + l) * WordSize = aw + w /\ a + l \in Nat
    BY <1>0
  <2>2. b = aw + (w + d)
    BY <1>1, <1>3, <1>4
  <2> DEFINE al == a + l
  <2>3. b = al * WordSize + d /\ al \in Nat
    <3> HIDE DEF aw, w
    <3> QED  BY <2>1, <2>2
  <2> HIDE DEF al
  <2>4. b \div WordSize = al /\ b % WordSize = d
    BY <1>0, <2>3, UniqueQuotient, UniqueRemainder
  <2> QED  BY <2>1, <2>4 DEF al
<1> DEFINE word(s) == [j \in 0 .. WordSize - 1 |-> payload[s][p][w + j]]
           host(s) == [j \in 0 .. WordSize - 1 |-> Data[s][(b \div WordSize) * WordSize + (WordSize - 1 - j)]]
           f == [s \in Ranks |-> Number(word(s))]
           E == {q \in Ranks : need_tx(q)}
<1>7. ASSUME NEW s \in Ranks, NEW j \in 0 .. WordSize - 1
      PROVE  /\ host(s)[j] \in Nat
             /\ payload[s][p][w + j] = IF need_tx(s) THEN host(s)[j] ELSE 0
  <2>1. w + j \in 0 .. c * WordSize - 1 /\ htobe32(w + j) = w + (WordSize - 1 - j)
    BY <1>4
  <2>2. w + j \in 0 .. PayloadSize - 1 /\ w + j < cnt
    <3> HIDE DEF w, cnt
    <3> QED  BY <1>0, <1>1, <1>2, <2>1
  <2>3. payload[s][p][w + j] = IF need_tx(s) THEN Data[s][first + htobe32(w + j)] ELSE 0
    BY <2>2 DEF Filled, place
  <2>4. first + htobe32(w + j) = (b \div WordSize) * WordSize + (WordSize - 1 - j)
    <3>1. (b \div WordSize) * WordSize = aw + w /\ first = aw
      BY <1>1, <1>6
    <3> HIDE DEF aw, w, first
    <3> QED  BY <1>0, <1>6, <2>1, <3>1
  <2>5. host(s)[j] = Data[s][first + htobe32(w + j)]
    BY <2>4
  <2>6. first + htobe32(w + j) \in Bytes
    <3> DEFINE u == WordSize - 1 - j
    <3>1. u \in 0 .. WordSize - 1
      BY <1>0
    <3>2. w + u \in 0 .. c * WordSize - 1
      BY <1>4, <3>1
    <3>3. first + (w + u) \in first .. first + cnt - 1
      <4> HIDE DEF u, w, first, cnt
      <4> QED  BY <1>1, <1>2, <3>2
    <3>4. first + htobe32(w + j) \in BytesOf(p)
      BY <2>1, <3>3 DEF BytesOf
    <3> QED  BY <3>4, PacketBytes
  <2>7. Data[s][first + htobe32(w + j)] \in Nat
    BY <1>0, <2>6, Sizes
  <2> HIDE DEF host, w, first
  <2> QED  BY <2>3, <2>5, <2>7
<1>8. ASSUME NEW s \in Ranks
      PROVE  /\ Number(host(s)) \in Nat
             /\ s \in E => word(s) = host(s)
             /\ s \notin E => Number(word(s)) = 0
  <2>1. host(s) \in Word
    BY <1>7 DEF Word
  <2>2. Number(host(s)) \in Nat
    <3> HIDE DEF host
    <3> QED  BY <2>1, NumberNat
  <2>3. s \in E => word(s) = host(s)
    BY <1>7
  <2>4. s \notin E => word(s) = [j \in 0 .. WordSize - 1 |-> 0]
    BY <1>7
  <2> QED  BY <2>2, <2>3, <2>4, NumberZero
<1>9. \A s \in Ranks : f[s] \in Int /\ (s \in E => f[s] = HostWord(Data[s], b)) /\ (s \notin E => f[s] = 0)
  <2> SUFFICES ASSUME NEW s \in Ranks
               PROVE  f[s] \in Int /\ (s \in E => f[s] = HostWord(Data[s], b)) /\ (s \notin E => f[s] = 0)
    OBVIOUS
  <2>1. f[s] = Number(word(s))
    OBVIOUS
  <2>2. HostWord(Data[s], b) = Number(host(s))
    BY DEF HostWord
  <2> HIDE DEF f, word, host
  <2> QED  BY <1>8, <2>1, <2>2
<1>10. SumFunction(f) = SumFunction([s \in E |-> HostWord(Data[s], b)])
  <2>1. DOMAIN f = Ranks /\ E \in SUBSET Ranks
    OBVIOUS
  <2> HIDE DEF f
  <2>2. [s \in E |-> f[s]] = [s \in E |-> HostWord(Data[s], b)]
    BY <1>9
  <2> HIDE DEF E
  <2>3. SumFunction(f) = SumFunction([s \in E |-> f[s]])
    BY <1>0, <1>9, <2>1, SumWithoutZeros
  <2> QED  BY <2>2, <2>3
<1>11. Sum(p)[x] = Digit(SumFunction(f), WordSize - 1 - d)
  <2>1. Sum(p)[x] = Digit(SumFunction([s \in Ranks |->
                                  Number([j \in 0 .. WordSize - 1 |-> payload[s][p][(x \div WordSize) * WordSize + j]])]),
                          x % WordSize)
    <3> HIDE DEF x
    <3> QED  BY <1>5 DEF Sum
  <2>2. x \div WordSize = l /\ x % WordSize = WordSize - 1 - d
    BY <1>4
  <2> HIDE DEF x
  <2> QED  BY <2>1, <2>2
<1>12. Promised(r, b) = Digit(SumFunction([s \in E |-> HostWord(Data[s], b)]), WordSize - 1 - d)
  <2>1. ~ b >= op.size
    BY <1>3
  <2> QED  BY <1>6, <2>1 DEF Promised
<1> QED  BY <1>5, <1>10, <1>11, <1>12 DEF e

\* The response to a packet of a broadcast has the bytes of the root.
LEMMA CopyRight ==
  ASSUME PayloadAssumption, OpType, ~ Sums, NEW p \in Packets, NEW r \in Ranks, need_rx(r),
         \A s \in Ranks : payload[s][p] = Filled(s, p),
         NEW b \in BytesOf(p)
  PROVE  Sum(p)[place(b - data(p[1], p[2]))] = Promised(r, b)
<1> DEFINE first == data(p[1], p[2])
           cnt == size(p[1], p[2])
           e == b - first
           root == op.root
           l == e \div WordSize
           d == e % WordSize
           w == l * WordSize
<1>0. /\ WordSize \in Nat /\ WordSize > 0 /\ PayloadSize \in Nat /\ IsFiniteSet(Ranks)
      /\ Data \in [Ranks -> [Bytes -> 0 .. Base - 1]] /\ Base \in Nat /\ Base > 0
  BY Sizes
<1>1. root \in Ranks /\ \A s \in Ranks : need_tx(s) <=> s = root
  BY DEF OpType, Sums, need_tx
<1>2. cnt \in 0 .. PayloadSize /\ first \in Nat
  BY PacketIn DEF Packets
<1>3. e \in Nat /\ e < cnt /\ b = first + e /\ b \in 0 .. op.size - 1 /\ op.size \in Nat /\ b \in Bytes
  <2>1. b \in first .. first + cnt - 1 /\ b \in 0 .. op.size - 1 /\ b \in Bytes
    BY PacketBytes DEF BytesOf
  <2> HIDE DEF first, cnt
  <2> QED  BY <1>2, <2>1 DEF OpType
<1> HIDE DEF e, first, cnt
<1>4. l \in Nat /\ d \in 0 .. WordSize - 1 /\ e = w + d /\ w \in Nat
  <2>1. l \in Nat /\ d \in 0 .. WordSize - 1 /\ e = w + d
    BY <1>0, <1>3, DivMod
  <2> HIDE DEF l, d
  <2> QED  BY <1>0, <2>1
<1>5. \A j \in 0 .. WordSize - 1 : w + j \in 0 .. PayloadSize - 1
  <2> DEFINE z == PayloadSize \div WordSize
             zw == z * WordSize
  <2>1. z \in Nat /\ PayloadSize = zw
    <3>1. z \in Nat /\ PayloadSize = zw + (PayloadSize % WordSize)
      BY <1>0, DivMod
    <3>2. PayloadSize % WordSize = 0
      BY Sizes
    <3> HIDE DEF z
    <3>3. zw \in Nat
      BY <1>0, <3>1
    <3> HIDE DEF zw
    <3> QED  BY <3>1, <3>2, <3>3
  <2> HIDE DEF z, l, d
  <2>2. (z - l) * WordSize = zw - w /\ z - l \in Int
    BY <1>0, <1>4, <2>1
  <2>3. zw - w > 0
    <3> HIDE DEF zw, w
    <3> QED  BY <1>0, <1>2, <1>3, <1>4, <2>1
  <2>4. (z - l) * WordSize >= WordSize
    BY <1>0, <2>2, <2>3, MultipleAtLeast
  <2> HIDE DEF zw, w
  <2> QED  BY <1>0, <1>4, <2>1, <2>2, <2>4
<1> DEFINE x == e
           word(s) == [j \in 0 .. WordSize - 1 |-> payload[s][p][w + j]]
           f == [s \in Ranks |-> Number(word(s))]
<1>6. e \in 0 .. PayloadSize - 1 /\ place(e) = e
  <2>1. place(e) = e
    BY DEF place
  <2> QED  BY <1>0, <1>2, <1>3, <2>1
<1> HIDE DEF l, d
<1>7. ASSUME NEW s \in Ranks, NEW j \in 0 .. WordSize - 1
      PROVE  /\ payload[s][p][w + j] \in 0 .. Base - 1
             /\ s # root => payload[s][p][w + j] = 0
             /\ w + j < cnt => payload[root][p][w + j] = Data[root][first + (w + j)]
  <2>1. w + j \in 0 .. PayloadSize - 1
    BY <1>5
  <2> DEFINE y == w + j
  <2> HIDE DEF y
  <2>2. payload[s][p][y] = IF s = root /\ y < cnt THEN Data[s][first + y] ELSE 0
    <3>1. payload[s][p] = Filled(s, p) /\ y \in 0 .. PayloadSize - 1 /\ (need_tx(s) <=> s = root)
      BY <1>1, <2>1 DEF y
    <3>2. place(y) = y
      BY DEF place
    <3>3. Filled(s, p)[y] = IF need_tx(s) /\ y < cnt THEN Data[s][first + place(y)] ELSE 0
      BY <3>1 DEF Filled, first, cnt
    <3> QED  BY <3>1, <3>2, <3>3
  <2>3. payload[root][p][y] = IF y < cnt THEN Data[root][first + y] ELSE 0
    <3>1. payload[root][p] = Filled(root, p) /\ y \in 0 .. PayloadSize - 1 /\ need_tx(root)
      BY <1>1, <2>1 DEF y
    <3>2. place(y) = y
      BY DEF place
    <3>3. Filled(root, p)[y] = IF need_tx(root) /\ y < cnt THEN Data[root][first + place(y)] ELSE 0
      BY <3>1 DEF Filled, first, cnt
    <3> QED  BY <3>1, <3>2, <3>3
  <2>4. w + j < cnt => first + (w + j) \in Bytes
    <3> SUFFICES ASSUME w + j < cnt PROVE first + (w + j) \in Bytes
      OBVIOUS
    <3>1. first + (w + j) \in first .. first + cnt - 1
      <4> HIDE DEF w
      <4> QED  BY <1>2, <1>4, <2>1
    <3>2. first + (w + j) \in BytesOf(p)
      BY <3>1 DEF BytesOf, first, cnt
    <3> QED  BY <3>2, PacketBytes
  <2>5. w + j < cnt => Data[s][first + (w + j)] \in 0 .. Base - 1
    BY <1>0, <2>4
  <2>6. 0 \in 0 .. Base - 1
    BY <1>0
  <2> HIDE DEF w, root
  <2> QED  BY <2>2, <2>3, <2>5, <2>6 DEF y
<1>8. ASSUME NEW s \in Ranks
      PROVE  f[s] \in Int /\ (s # root => f[s] = 0)
  <2>1. word(s) \in Word
    BY <1>0, <1>7 DEF Word
  <2>2. s # root => word(s) = [j \in 0 .. WordSize - 1 |-> 0]
    BY <1>7
  <2>3. f[s] = Number(word(s))
    OBVIOUS
  <2> HIDE DEF f, word, root
  <2>4. Number(word(s)) \in Nat
    BY <2>1, NumberNat
  <2>5. s # root => Number(word(s)) = 0
    BY <2>2, NumberZero
  <2> QED  BY <2>3, <2>4, <2>5
<1>9. SumFunction(f) = f[root]
  <2>1. DOMAIN f = Ranks
    OBVIOUS
  <2> HIDE DEF f, root
  <2> QED  BY <1>0, <1>1, <1>8, <2>1, SumSingle
<1>10. Sum(p)[e] = Digit(SumFunction(f), d)
  BY <1>6 DEF Sum, l, d
<1>11. Digit(f[root], d) = Data[root][b]
  <2>1. word(root) \in [0 .. WordSize - 1 -> 0 .. Base - 1]
    BY <1>1, <1>7
  <2>2. f[root] = Number(word(root))
    BY <1>1
  <2>3. word(root)[d] = Data[root][first + (w + d)]
    <3>1. word(root)[d] = payload[root][p][w + d] /\ w + d < cnt
      BY <1>3, <1>4
    <3> HIDE DEF w, root, word
    <3> QED  BY <1>1, <1>4, <1>7, <3>1
  <2>4. b = first + (w + d)
    BY <1>3, <1>4
  <2> HIDE DEF f, word, root, w
  <2>5. Digit(Number(word(root)), d) = word(root)[d]
    BY <1>4, <2>1, DigitOfNumber
  <2> QED  BY <2>2, <2>3, <2>4, <2>5
<1>12. Promised(r, b) = Data[root][b]
  BY <1>3 DEF Promised
<1> QED  BY <1>6, <1>9, <1>10, <1>11, <1>12 DEF e, first

LEMMA ResponseRight ==
  ASSUME PayloadAssumption, OpType, NEW p \in Packets, NEW r \in Ranks, need_rx(r),
         \A s \in Ranks : payload[s][p] = Filled(s, p)
  PROVE  \A b \in BytesOf(p) : Sum(p)[place(b - data(p[1], p[2]))] = Promised(r, b)
BY SumRight, CopyRight

-----------------------------------------------------------------------------
PayloadType ==
    /\ DOMAIN buffer = Ranks /\ \A r \in Ranks : DOMAIN buffer[r] = Bytes
    /\ pkt_sent \in [Ranks -> [Workers -> Nat]]
    /\ DOMAIN payload = Ranks
    /\ received \in [Ranks -> SUBSET Packets]

\* A packet is made once, of what the rank had in it at first, and comes back
\* only afterwards.
PacketsInv ==
    \A r \in Ranks :
       /\ \A p \in DOMAIN payload[r] :
             p \in Packets /\ p[2] < pkt_sent[r][p[1]] /\ payload[r][p] = Filled(r, p)
       /\ received[r] \subseteq DOMAIN payload[r]

\* Byte b of rank r: its own until the packet with the byte is back.
Now(r, b) ==
    IF need_rx(r) /\ \E p \in received[r] : b \in BytesOf(p) THEN Promised(r, b) ELSE Data[r][b]

BufferInv == \A r \in Ranks : \A b \in Bytes : buffer[r][b] = Now(r, b)

PayloadInv == OpType /\ PayloadType /\ PacketsInv /\ BufferInv

LEMMA InitPayloadInv ==
  ASSUME PayloadAssumption, PayloadInit
  PROVE  PayloadInv
<1>1. OpType
  BY DEF PayloadInit, OpType
<1>2. PayloadType
  <2>1. \A r \in Ranks : DOMAIN buffer[r] = Bytes
    BY Sizes DEF PayloadInit
  <2>2. DOMAIN buffer = Ranks
    BY Sizes DEF PayloadInit
  <2> QED  BY <2>1, <2>2 DEF PayloadInit, PayloadType
<1>3. PacketsInv
  BY DEF PayloadInit, PacketsInv
<1>4. BufferInv
  BY DEF PayloadInit, BufferInv, Now
<1> QED  BY <1>1, <1>2, <1>3, <1>4 DEF PayloadInv

\* The layout does not change while the operation is under way.
LEMMA SameOperation ==
  ASSUME op' = op, nworker' = nworker
  PROVE  /\ OpType' = OpType /\ Workers' = Workers /\ Packets' = Packets
         /\ \A p : BytesOf(p)' = BytesOf(p)
         /\ \A r, p : Filled(r, p)' = Filled(r, p)
         /\ \A r, b : Promised(r, b)' = Promised(r, b)
         /\ \A r : need_rx(r)' = need_rx(r)
<1>1. Workers' = Workers /\ Sums' = Sums /\ \A i : sub_size(i)' = sub_size(i)
  BY DEF Workers, Sums, sub_size
<1>2. \A i : offset(i)' = offset(i)
  BY <1>1 DEF offset
<1>3. \A i, k : data(i, k)' = data(i, k) /\ size(i, k)' = size(i, k) /\ pkt_cnt(i)' = pkt_cnt(i)
  BY <1>1, <1>2 DEF data, size, pkt_cnt
<1>4. \A b : place(b)' = place(b)
  BY <1>1 DEF place
<1>5. \A r : need_tx(r)' = need_tx(r) /\ need_rx(r)' = need_rx(r)
  BY DEF need_tx, need_rx
<1>6. OpType' = OpType
  BY <1>1 DEF OpType
<1>7. Packets' = Packets
  BY <1>1, <1>3 DEF Packets
<1>8. \A p : BytesOf(p)' = BytesOf(p)
  BY <1>3 DEF BytesOf
<1>9. \A r, p : Filled(r, p)' = Filled(r, p)
  BY <1>3, <1>4, <1>5 DEF Filled
<1>10. \A r, b : Promised(r, b)' = Promised(r, b)
  BY <1>1, <1>5 DEF Promised
<1> QED  BY <1>1, <1>5, <1>6, <1>7, <1>8, <1>9, <1>10

\* A byte that goes into a packet is one of the packet's.
LEMMA PlaceIn ==
  ASSUME PayloadAssumption, OpType, NEW p \in Packets,
         NEW b \in Nat, b < size(p[1], p[2])
  PROVE  data(p[1], p[2]) + place(b) \in BytesOf(p)
<1> DEFINE first == data(p[1], p[2])
           cnt == size(p[1], p[2])
<1>1. cnt \in Nat /\ first \in Nat /\ b < cnt
  BY PacketIn, Sizes DEF Packets
<1>2. place(b) \in 0 .. cnt - 1
  <2>1. CASE Sums
    <3>1. PICK c \in Nat : cnt = c * WordSize
      BY <2>1, Aligned
    <3>2. b \in 0 .. c * WordSize - 1
      <4>1. b \in 0 .. cnt - 1
        <5> HIDE DEF cnt
        <5> QED  BY <1>1
      <4> QED  BY <3>1, <4>1
    <3>3. htobe32(b) \in 0 .. c * WordSize - 1
      BY <3>2, WordTurned
    <3> QED  BY <2>1, <3>1, <3>3 DEF place
  <2>2. CASE ~ Sums
    <3>1. place(b) = b
      BY <2>2 DEF place
    <3> HIDE DEF cnt
    <3> QED  BY <1>1, <3>1
  <2> QED  BY <2>1, <2>2
<1>3. first + place(b) \in first .. first + cnt - 1
  <2> HIDE DEF first, cnt
  <2> QED  BY <1>1, <1>2
<1> QED  BY <1>3 DEF BytesOf

\* A packet is filled before any of its bytes is written.
LEMMA FilledInTime ==
  ASSUME PayloadAssumption, PayloadInv, NEW r \in Ranks, NEW i \in Workers,
         pkt_sent[r][i] < pkt_cnt(i)
  PROVE  /\ <<i, pkt_sent[r][i]>> \in Packets
         /\ <<i, pkt_sent[r][i]>> \notin DOMAIN payload[r]
         /\ fill_pkt(r, i, pkt_sent[r][i]) = Filled(r, <<i, pkt_sent[r][i]>>)
<1> DEFINE k == pkt_sent[r][i]
           p == <<i, k>>
<1>0. OpType /\ PacketsInv /\ BufferInv
  BY DEF PayloadInv
<1>1. p \in Packets /\ k \in Nat
  BY DEF Packets, PayloadInv, PayloadType
<1>2. p \notin DOMAIN payload[r]
  BY <1>0, <1>1 DEF PacketsInv
<1>3. ASSUME NEW b \in 0 .. PayloadSize - 1, b < size(i, k)
      PROVE  buffer[r][data(i, k) + place(b)] = Data[r][data(i, k) + place(b)]
  <2> DEFINE y == data(i, k) + place(b)
  <2>1. y \in BytesOf(p)
    BY <1>0, <1>1, <1>3, PlaceIn
  <2>2. ASSUME NEW q \in received[r] PROVE y \notin BytesOf(q)
    <3>1. q \in DOMAIN payload[r] /\ q \in Packets /\ q # p
      BY <1>0, <1>2 DEF PacketsInv
    <3> HIDE DEF y, p
    <3> QED  BY <1>0, <1>1, <2>1, <3>1, PacketsDisjoint
  <2>3. y \in Bytes
    BY <1>0, <1>1, <2>1, PacketBytes
  <2> HIDE DEF y
  <2>4. buffer[r][y] = Data[r][y]
    BY <1>0, <2>2, <2>3 DEF BufferInv, Now
  <2> QED  BY <2>4 DEF y
<1>4. fill_pkt(r, i, k) = Filled(r, p)
  <2>1. p[1] = i /\ p[2] = k
    OBVIOUS
  <2> HIDE DEF p, k
  <2>2. Filled(r, p) = [b \in 0 .. PayloadSize - 1 |->
                          IF need_tx(r) /\ b < size(i, k) THEN Data[r][data(i, k) + place(b)] ELSE 0]
    BY <2>1 DEF Filled
  <2>3. \A b \in 0 .. PayloadSize - 1 :
           (IF need_tx(r) /\ b < size(i, k) THEN buffer[r][data(i, k) + place(b)] ELSE 0)
           = (IF need_tx(r) /\ b < size(i, k) THEN Data[r][data(i, k) + place(b)] ELSE 0)
    BY <1>3
  <2> QED  BY <2>2, <2>3 DEF fill_pkt
<1> QED  BY <1>1, <1>2, <1>4

LEMMA GenPayloadInv ==
  ASSUME PayloadAssumption, PayloadInv, NEW r \in Ranks, NEW i \in Workers, gen_pkt(r, i)
  PROVE  PayloadInv'
<1> DEFINE k == pkt_sent[r][i]
           p == <<i, k>>
<1>0. OpType /\ PayloadType /\ PacketsInv /\ BufferInv
  BY DEF PayloadInv
<1>1. /\ k < pkt_cnt(i)
      /\ pkt_sent' = [pkt_sent EXCEPT ![r][i] = k + 1]
      /\ payload' = [payload EXCEPT ![r] =
                        [q \in DOMAIN payload[r] \cup {p} |->
                            IF q = p THEN fill_pkt(r, i, k) ELSE payload[r][q]]]
      /\ op' = op /\ nworker' = nworker /\ buffer' = buffer /\ received' = received
  BY DEF gen_pkt
<1>2. p \in Packets /\ p \notin DOMAIN payload[r] /\ fill_pkt(r, i, k) = Filled(r, p) /\ k \in Nat
      /\ p[1] = i /\ p[2] = k
  BY <1>1, FilledInTime DEF PayloadInv, PayloadType
<1>3. /\ OpType' = OpType /\ Workers' = Workers /\ Packets' = Packets
      /\ \A q : BytesOf(q)' = BytesOf(q)
      /\ \A s, q : Filled(s, q)' = Filled(s, q)
      /\ \A s, b : Promised(s, b)' = Promised(s, b)
      /\ \A s : need_rx(s)' = need_rx(s)
  BY <1>1, SameOperation
<1> HIDE DEF p
<1>4. PayloadType'
  <2>1. pkt_sent' \in [Ranks -> [Workers -> Nat]]
    BY <1>0, <1>1, <1>2 DEF PayloadType
  <2>2. DOMAIN payload' = Ranks
    BY <1>0, <1>1 DEF PayloadType
  <2> QED  BY <1>0, <1>1, <1>3, <2>1, <2>2 DEF PayloadType, Bytes, BufferSize
<1>5. PacketsInv'
  <2> SUFFICES ASSUME NEW s \in Ranks
               PROVE  /\ \A q \in DOMAIN payload'[s] :
                            q \in Packets /\ q[2] < pkt_sent'[s][q[1]] /\ payload'[s][q] = Filled(s, q)
                      /\ received[s] \subseteq DOMAIN payload'[s]
    BY <1>1, <1>3 DEF PacketsInv
  <2>1. \A q \in Packets : q[1] \in Workers /\ q[2] \in Nat
    BY DEF Packets
  <2>2. CASE s # r
    <3>1. payload'[s] = payload[s] /\ pkt_sent'[s] = pkt_sent[s]
      BY <1>0, <1>1, <2>2 DEF PayloadType
    <3> QED  BY <1>0, <3>1 DEF PacketsInv
  <2>3. CASE s = r
    <3>1. payload'[r] = [q \in DOMAIN payload[r] \cup {p} |->
                            IF q = p THEN fill_pkt(r, i, k) ELSE payload[r][q]]
      BY <1>0, <1>1 DEF PayloadType
    <3>2. pkt_sent'[r] = [pkt_sent[r] EXCEPT ![i] = k + 1] /\ pkt_sent[r] \in [Workers -> Nat]
      BY <1>0, <1>1 DEF PayloadType
    <3>3. ASSUME NEW q \in DOMAIN payload'[r]
          PROVE  q \in Packets /\ q[2] < pkt_sent'[r][q[1]] /\ payload'[r][q] = Filled(r, q)
      <4>1. CASE q = p
        <5>1. pkt_sent'[r][i] = k + 1
          BY <3>2
        <5> QED  BY <1>2, <3>1, <4>1, <5>1
      <4>2. CASE q # p
        <5>1. q \in DOMAIN payload[r] /\ payload'[r][q] = payload[r][q]
          BY <3>1, <3>3, <4>2
        <5>2. q \in Packets /\ q[2] < pkt_sent[r][q[1]] /\ payload[r][q] = Filled(r, q)
          BY <1>0, <5>1 DEF PacketsInv
        <5>3. q[1] \in Workers /\ q[2] \in Nat
          BY <2>1, <5>2
        <5>4. pkt_sent'[r][q[1]] = IF q[1] = i THEN k + 1 ELSE pkt_sent[r][q[1]]
          BY <3>2, <5>3
        <5> HIDE DEF k
        <5>5. q[2] < pkt_sent'[r][q[1]]
          <6>1. CASE q[1] = i
            BY <1>2, <5>2, <5>3, <5>4, <6>1 DEF k
          <6>2. CASE q[1] # i
            BY <5>2, <5>4, <6>2
          <6> QED  BY <6>1, <6>2
        <5> QED  BY <5>1, <5>2, <5>5
      <4> QED  BY <4>1, <4>2
    <3>4. received[r] \subseteq DOMAIN payload'[r]
      BY <1>0, <3>1 DEF PacketsInv
    <3> QED  BY <2>3, <3>3, <3>4
  <2> QED  BY <2>2, <2>3
<1>6. BufferInv'
  BY <1>0, <1>1, <1>3 DEF BufferInv, Now, Bytes, BufferSize
<1> QED  BY <1>0, <1>3, <1>4, <1>5, <1>6 DEF PayloadInv

LEMMA CopyPayloadInv ==
  ASSUME PayloadAssumption, PayloadInv, NEW r \in Ranks, NEW i \in Workers,
         NEW k \in 0 .. pkt_cnt(i) - 1, rx_copy(r, i, k)
  PROVE  PayloadInv'
<1> DEFINE p == <<i, k>>
           first == data(i, k)
<1>0. OpType /\ PayloadType /\ PacketsInv /\ BufferInv
  BY DEF PayloadInv
<1>1. /\ \A s \in Ranks : p \in DOMAIN payload[s]
      /\ received' = [received EXCEPT ![r] = @ \cup {p}]
      /\ buffer' = IF ~need_rx(r) THEN buffer
                   ELSE [buffer EXCEPT ![r] =
                            [b \in Bytes |-> IF b \in BytesOf(p) THEN Sum(p)[place(b - first)] ELSE @[b]]]
      /\ op' = op /\ nworker' = nworker /\ pkt_sent' = pkt_sent /\ payload' = payload
  BY DEF rx_copy, BytesOf
<1>2. p \in Packets /\ p[1] = i /\ p[2] = k
  <2>1. p \in DOMAIN payload[r]
    BY <1>1
  <2> QED  BY <1>0, <2>1 DEF PacketsInv
<1>3. /\ OpType' = OpType /\ Workers' = Workers /\ Packets' = Packets
      /\ \A q : BytesOf(q)' = BytesOf(q)
      /\ \A s, q : Filled(s, q)' = Filled(s, q)
      /\ \A s, b : Promised(s, b)' = Promised(s, b)
      /\ \A s : need_rx(s)' = need_rx(s)
  BY <1>1, SameOperation
<1> HIDE DEF p
<1>4. received'[r] = received[r] \cup {p} /\ \A s \in Ranks : s # r => received'[s] = received[s]
  BY <1>0, <1>1 DEF PayloadType
<1>5. PayloadType'
  <2>1. received' \in [Ranks -> SUBSET Packets]
    BY <1>0, <1>1, <1>2 DEF PayloadType
  <2>2. DOMAIN buffer' = Ranks /\ \A s \in Ranks : DOMAIN buffer'[s] = Bytes
    <3>1. CASE ~ need_rx(r)
      BY <1>0, <1>1, <3>1 DEF PayloadType
    <3>2. CASE need_rx(r)
      BY <1>0, <1>1, <3>2 DEF PayloadType
    <3> QED  BY <3>1, <3>2
  <2> QED  BY <1>0, <1>1, <1>3, <2>1, <2>2 DEF PayloadType, Bytes, BufferSize
<1>6. PacketsInv'
  <2>1. \A s \in Ranks : received'[s] \subseteq DOMAIN payload[s]
    BY <1>0, <1>1, <1>4 DEF PacketsInv
  <2> QED  BY <1>0, <1>1, <1>3, <2>1 DEF PacketsInv
<1>7. BufferInv'
  <2> SUFFICES ASSUME NEW s \in Ranks, NEW b \in Bytes
               PROVE  buffer'[s][b] = IF need_rx(s) /\ \E q \in received'[s] : b \in BytesOf(q)
                                      THEN Promised(s, b) ELSE Data[s][b]
    BY <1>3 DEF BufferInv, Now, Bytes, BufferSize
  <2>1. buffer[s][b] = IF need_rx(s) /\ \E q \in received[s] : b \in BytesOf(q)
                       THEN Promised(s, b) ELSE Data[s][b]
    BY <1>0 DEF BufferInv, Now
  <2>2. CASE s # r
    <3>1. buffer'[s] = buffer[s] /\ received'[s] = received[s]
      BY <1>0, <1>1, <1>4, <2>2 DEF PayloadType
    <3> QED  BY <2>1, <3>1
  <2>3. CASE s = r /\ ~ need_rx(r)
    BY <1>1, <2>1, <2>3
  <2>4. CASE s = r /\ need_rx(r)
    <3>1. buffer'[r][b] = IF b \in BytesOf(p) THEN Sum(p)[place(b - first)] ELSE buffer[r][b]
      BY <1>0, <1>1, <2>4 DEF PayloadType
    <3>2. b \in BytesOf(p) => Sum(p)[place(b - first)] = Promised(r, b)
      <4>1. \A t \in Ranks : payload[t][p] = Filled(t, p)
        BY <1>0, <1>1 DEF PacketsInv
      <4> QED  BY <1>0, <1>2, <2>4, <4>1, ResponseRight
    <3>3. (\E q \in received'[r] : b \in BytesOf(q))
          <=> (b \in BytesOf(p) \/ \E q \in received[r] : b \in BytesOf(q))
      BY <1>4
    <3> QED  BY <2>1, <2>4, <3>1, <3>2, <3>3
  <2> QED  BY <2>2, <2>3, <2>4
<1> QED  BY <1>0, <1>3, <1>5, <1>6, <1>7 DEF PayloadInv

LEMMA PayloadInductive ==
  ASSUME PayloadAssumption, PayloadInv, [PayloadNext]_payload_vars
  PROVE  PayloadInv'
<1>1. CASE PayloadNext
  <2>1. PICK r \in Ranks, i \in Workers :
           gen_pkt(r, i) \/ \E k \in 0 .. pkt_cnt(i) - 1 : rx_copy(r, i, k)
    BY <1>1 DEF PayloadNext
  <2> QED  BY <2>1, GenPayloadInv, CopyPayloadInv
<1>2. CASE UNCHANGED payload_vars
  <2>1. op' = op /\ nworker' = nworker /\ buffer' = buffer /\ pkt_sent' = pkt_sent
        /\ payload' = payload /\ received' = received
    BY <1>2 DEF payload_vars
  <2>2. /\ OpType' = OpType /\ Workers' = Workers /\ Packets' = Packets
        /\ \A q : BytesOf(q)' = BytesOf(q)
        /\ \A s, q : Filled(s, q)' = Filled(s, q)
        /\ \A s, b : Promised(s, b)' = Promised(s, b)
        /\ \A s : need_rx(s)' = need_rx(s)
    BY <2>1, SameOperation
  <2>3. PayloadType' = PayloadType /\ PacketsInv' = PacketsInv
    BY <2>1, <2>2 DEF PayloadType, PacketsInv, Bytes, BufferSize
  <2>4. BufferInv' = BufferInv
    BY <2>1, <2>2 DEF BufferInv, Now, Bytes, BufferSize
  <2> QED  BY <2>2, <2>3, <2>4 DEF PayloadInv
<1> QED  BY <1>1, <1>2

LEMMA PayloadInvBytesRight ==
  ASSUME PayloadAssumption, PayloadInv
  PROVE  BytesRight
<1>0. OpType /\ PayloadType /\ PacketsInv /\ BufferInv /\ op.size \in Nat
  BY DEF PayloadInv, OpType
<1>1. EveryByteRight
  <2> SUFFICES ASSUME NEW r \in Ranks,
                      \A i \in Workers : \A k \in 0 .. pkt_cnt(i) - 1 : <<i, k>> \in received[r],
                      NEW b \in 0 .. op.size - 1
               PROVE  buffer[r][b] = Promised(r, b)
    BY DEF EveryByteRight
  <2>1. PICK p \in Packets : b \in BytesOf(p)
    BY <1>0, PacketsCover
  <2>2. p \in received[r] /\ b \in Bytes
    <3>1. p = <<p[1], p[2]>> /\ p[1] \in Workers /\ p[2] \in Nat /\ p[2] < pkt_cnt(p[1])
      BY DEF Packets
    <3>2. pkt_cnt(p[1]) \in Int
      <4>1. sub_size(p[1]) + PayloadSize - 1 \in Nat /\ PayloadSize \in Nat /\ PayloadSize > 0
        BY <1>0, <3>1, PartsNat, Sizes
      <4>2. (sub_size(p[1]) + PayloadSize - 1) \div PayloadSize \in Nat
        BY <4>1, DivMod
      <4> QED  BY <4>2 DEF pkt_cnt
    <3>3. p[2] \in 0 .. pkt_cnt(p[1]) - 1
      BY <3>1, <3>2
    <3> QED  BY <1>0, <2>1, <3>1, <3>3, PacketBytes
  <2>3. buffer[r][b] = Now(r, b)
    BY <1>0, <2>2 DEF BufferInv
  <2>4. ~ need_rx(r) => Promised(r, b) = Data[r][b]
    BY DEF Promised
  <2> QED  BY <2>1, <2>2, <2>3, <2>4 DEF Now
<1>2. NextOperationIntact
  <2> SUFFICES ASSUME NEW r \in Ranks, NEW b \in op.size .. BufferSize - 1
               PROVE  buffer[r][b] = Data[r][b]
    BY DEF NextOperationIntact
  <2>1. b \in Bytes /\ b \notin 0 .. op.size - 1
    BY <1>0 DEF Bytes
  <2>2. \A p \in received[r] : b \notin BytesOf(p)
    BY <1>0, <2>1, PacketBytes DEF PayloadType
  <2>3. buffer[r][b] = Now(r, b)
    BY <1>0, <2>1 DEF BufferInv
  <2> QED  BY <2>2, <2>3 DEF Now
<1> QED  BY <1>1, <1>2 DEF BytesRight

(***************************************************************************)
(* When all responses are there, every byte of the buffer is what the      *)
(* operation promises, and no byte behind the operation is ever written,   *)
(* for every size, number of workers and content of the buffers.           *)
(***************************************************************************)
THEOREM BytesAlwaysRight ==
  ASSUME PayloadAssumption
  PROVE  PayloadSpec => []BytesRight
<1>1. PayloadInit => PayloadInv
  BY InitPayloadInv
<1>2. PayloadInv /\ [PayloadNext]_payload_vars => PayloadInv'
  BY PayloadInductive
<1>3. PayloadInv => BytesRight
  BY PayloadInvBytesRight
<1> QED  BY <1>1, <1>2, <1>3, PTL DEF PayloadSpec
=============================================================================
