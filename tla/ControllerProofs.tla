-------------------------- MODULE ControllerProofs --------------------------
(***************************************************************************)
(* The controller of the switch loses no resource and hands none out       *)
(* twice, and the switch holds what belongs to the groups that exist, for  *)
(* every number of ids, ports, sizes of memory and of segments, and any    *)
(* sequence of creations, failures, destructions and reinitialisations.    *)
(***************************************************************************)
EXTENDS Controller, Arithmetic, FiniteSetTheorems, WellFoundedInduction

LEMMA MinIsLeast ==
    ASSUME NEW S \in SUBSET Nat, S # {}
    PROVE  Min(S) \in S /\ \A y \in S : Min(S) <= y
<1>1. \E x \in S : \A y \in S : x <= y
  BY LeastExists
<1> QED  BY <1>1 DEF Min
-----------------------------------------------------------------------------
\* Part of a list.
LEMMA PartOf ==
    ASSUME NEW S, NEW s \in Seq(S), NEW i \in 1 .. Len(s) + 1, NEW j \in i - 1 .. Len(s)
    PROVE  /\ SubSeq(s, i, j) \in Seq(S)
           /\ Len(SubSeq(s, i, j)) = j - i + 1
           /\ \A k \in 1 .. j - i + 1 : SubSeq(s, i, j)[k] = s[i + k - 1]
OBVIOUS

\* A list put together of two.
Concatenation(t, u, v, S) ==
    /\ t \in Seq(S) /\ Len(t) = Len(u) + Len(v)
    /\ \A k \in 1 .. Len(u) : t[k] = u[k]
    /\ \A k \in 1 .. Len(v) : t[Len(u) + k] = v[k]

LEMMA Joined ==
    ASSUME NEW S, NEW u \in Seq(S), NEW v \in Seq(S)
    PROVE  Concatenation(u \o v, u, v, S)
BY DEF Concatenation

\* An element of a list removed, inserted, replaced.
IsRemoved(t, s, i, S) ==
    /\ t \in Seq(S) /\ Len(t) = Len(s) - 1
    /\ \A k \in 1 .. i - 1 : t[k] = s[k]
    /\ \A k \in i .. Len(s) - 1 : t[k] = s[k + 1]
IsInserted(t, s, i, x, S) ==
    /\ t \in Seq(S) /\ Len(t) = Len(s) + 1
    /\ \A k \in 1 .. i - 1 : t[k] = s[k]
    /\ t[i] = x
    /\ \A k \in i + 1 .. Len(s) + 1 : t[k] = s[k - 1]
IsReplaced(t, s, i, x, S) ==
    /\ t \in Seq(S) /\ Len(t) = Len(s)
    /\ t[i] = x
    /\ \A k \in 1 .. Len(s) : k # i => t[k] = s[k]

LEMMA Removed ==
    ASSUME NEW S, NEW s \in Seq(S), NEW i \in 1 .. Len(s)
    PROVE  IsRemoved(SubSeq(s, 1, i - 1) \o SubSeq(s, i + 1, Len(s)), s, i, S)
<1> DEFINE u == SubSeq(s, 1, i - 1)
           v == SubSeq(s, i + 1, Len(s))
           t == u \o v
<1>1. u \in Seq(S) /\ Len(u) = i - 1 /\ \A k \in 1 .. i - 1 : u[k] = s[k]
  BY PartOf
<1>2. v \in Seq(S) /\ Len(v) = Len(s) - i /\ \A k \in 1 .. Len(s) - i : v[k] = s[i + k]
  BY PartOf
<1> HIDE DEF u, v
<1>3. Concatenation(t, u, v, S)
  BY <1>1, <1>2, Joined
<1> HIDE DEF t
<1>4. ASSUME NEW k \in i .. Len(s) - 1 PROVE t[k] = s[k + 1]
  <2>1. k - (i - 1) \in 1 .. Len(v) /\ k = Len(u) + (k - (i - 1)) /\ k + 1 = i + (k - (i - 1))
    BY <1>1, <1>2
  <2>2. t[k] = v[k - (i - 1)]
    BY <1>3, <2>1 DEF Concatenation
  <2> QED  BY <1>2, <2>1, <2>2
<1>5. IsRemoved(t, s, i, S)
  BY <1>1, <1>2, <1>3, <1>4 DEF Concatenation, IsRemoved
<1> QED  BY <1>5 DEF t, u, v

LEMMA Inserted ==
    ASSUME NEW S, NEW s \in Seq(S), NEW i \in 1 .. Len(s) + 1, NEW x \in S
    PROVE  IsInserted(SubSeq(s, 1, i - 1) \o <<x>> \o SubSeq(s, i, Len(s)), s, i, x, S)
<1> DEFINE u == SubSeq(s, 1, i - 1)
           w == u \o <<x>>
           v == SubSeq(s, i, Len(s))
           t == w \o v
<1>1. u \in Seq(S) /\ Len(u) = i - 1 /\ \A k \in 1 .. i - 1 : u[k] = s[k]
  BY PartOf
<1>2. v \in Seq(S) /\ Len(v) = Len(s) - i + 1 /\ \A k \in 1 .. Len(s) - i + 1 : v[k] = s[i + k - 1]
  BY PartOf
<1> HIDE DEF u, v
<1>3. w \in Seq(S) /\ Len(w) = i /\ w[i] = x /\ \A k \in 1 .. i - 1 : w[k] = s[k]
  BY <1>1
<1> HIDE DEF w
<1>4. Concatenation(t, w, v, S)
  BY <1>2, <1>3, Joined
<1> HIDE DEF t
<1>5. ASSUME NEW k \in i + 1 .. Len(s) + 1 PROVE t[k] = s[k - 1]
  <2>1. k - i \in 1 .. Len(v) /\ k = Len(w) + (k - i) /\ k - 1 = i + (k - i) - 1
    BY <1>2, <1>3
  <2>2. t[k] = v[k - i]
    BY <1>4, <2>1 DEF Concatenation
  <2> QED  BY <1>2, <2>1, <2>2
<1>6. IsInserted(t, s, i, x, S)
  BY <1>2, <1>3, <1>4, <1>5 DEF Concatenation, IsInserted
<1> QED  BY <1>6 DEF t, w, u, v

LEMMA Replaced ==
    ASSUME NEW S, NEW s \in Seq(S), NEW i \in 1 .. Len(s), NEW x \in S
    PROVE  IsReplaced(SubSeq(s, 1, i - 1) \o <<x>> \o SubSeq(s, i + 1, Len(s)), s, i, x, S)
<1> DEFINE u == SubSeq(s, 1, i - 1)
           w == u \o <<x>>
           v == SubSeq(s, i + 1, Len(s))
           t == w \o v
<1>1. u \in Seq(S) /\ Len(u) = i - 1 /\ \A k \in 1 .. i - 1 : u[k] = s[k]
  BY PartOf
<1>2. v \in Seq(S) /\ Len(v) = Len(s) - i /\ \A k \in 1 .. Len(s) - i : v[k] = s[i + k]
  BY PartOf
<1> HIDE DEF u, v
<1>3. w \in Seq(S) /\ Len(w) = i /\ w[i] = x /\ \A k \in 1 .. i - 1 : w[k] = s[k]
  BY <1>1
<1> HIDE DEF w
<1>4. Concatenation(t, w, v, S)
  BY <1>2, <1>3, Joined
<1> HIDE DEF t
<1>5. ASSUME NEW k \in i + 1 .. Len(s) PROVE t[k] = s[k]
  <2>1. k - i \in 1 .. Len(v) /\ k = Len(w) + (k - i)
    BY <1>2, <1>3
  <2>2. t[k] = v[k - i]
    BY <1>4, <2>1 DEF Concatenation
  <2> QED  BY <1>2, <2>1, <2>2, SMTT(30)
<1>6. t \in Seq(S) /\ Len(t) = Len(s) /\ t[i] = x /\ \A k \in 1 .. i - 1 : t[k] = s[k]
  BY <1>2, <1>3, <1>4 DEF Concatenation
<1>7. ASSUME NEW k \in 1 .. Len(s), k # i PROVE t[k] = s[k]
  <2>1. k \in 1 .. i - 1 \/ k \in i + 1 .. Len(s)
    BY <1>7
  <2> QED  BY <2>1, <1>5, <1>6
<1>8. IsReplaced(t, s, i, x, S)
  BY <1>6, <1>7 DEF IsReplaced
<1> QED  BY <1>8 DEF t, w, u, v

-----------------------------------------------------------------------------
(***************************************************************************)
(* The memory: A is the set of the addresses of the segments handed out.   *)
(***************************************************************************)
\* Free segments start where a segment may be handed out, and end there or
\* at the end of the memory.
FreeSegment(s) ==
    /\ s \in Nat \X Nat
    /\ s[1] < s[2] /\ s[2] <= MemSize
    /\ s[1] % SegSize = 0
    /\ s[2] % SegSize = 0 \/ s[2] = MemSize

\* The free segments are sorted by address and do not overlap.
FreeList(ms) ==
    /\ ms \in Seq(Nat \X Nat)
    /\ \A i \in 1 .. Len(ms) : FreeSegment(ms[i])
    /\ \A i, j \in 1 .. Len(ms) : i < j => ms[i][2] <= ms[j][1]

\* A segment that can be handed out.
SegmentAt(a) == a \in Nat /\ a % SegSize = 0 /\ a + SegSize <= MemSize

\* What is handed out is not free, and what is not handed out is.
Apart(A, ms) ==
    \A a \in A, i \in 1 .. Len(ms) : a + SegSize <= ms[i][1] \/ ms[i][2] <= a
FreeAt(ms, x) == \E i \in 1 .. Len(ms) : ms[i][1] <= x /\ x < ms[i][2]
UsedAt(A, x) == \E a \in A : a <= x /\ x < a + SegSize
Complete(A, ms) == \A x \in Aggregators : FreeAt(ms, x) \/ UsedAt(A, x)

MemoryInv(A, ms) ==
    /\ FreeList(ms)
    /\ \A a \in A : SegmentAt(a)
    /\ Apart(A, ms)
    /\ Complete(A, ms)

\* A multiple of SegSize is aligned.
LEMMA Aligned ==
    ASSUME NEW x \in Nat, NEW y \in Nat, y > 0, x % y = 0
    PROVE  upperalign(x, y) = x
<1> DEFINE q == x \div y
           z == x + y - 1
           d == z \div y
<1>1. q \in Nat /\ x = q * y /\ y - 1 \in 0 .. y - 1 /\ z = q * y + (y - 1)
  BY DivMod
<1>2. (q * y + (y - 1)) % y = y - 1
  <2> HIDE DEF q, z, d
  <2> QED  BY <1>1, UniqueRemainder
<1>3. z \in Nat /\ z % y = y - 1
  <2> HIDE DEF d, q
  <2> QED  BY <1>1, <1>2
<1>4. z = d * y + (y - 1)
  <2> HIDE DEF q, z
  <2> QED  BY <1>3, DivMod
<1>5. d * y = x
  <2>1. z = x + y - 1
    OBVIOUS
  <2>2. z \div y \in Nat
    BY <1>3, DivMod
  <2> HIDE DEF d, q, z
  <2> QED  BY <2>1, <2>2, <1>4 DEF d
<1> QED  BY <1>5 DEF upperalign

\* The address a free segment can be given is its first.
LEMMA FitsAtStart ==
    ASSUME NEW s, FreeSegment(s)
    PROVE  addr_in_seg(s) = IF s[1] + SegSize <= s[2] THEN {s[1]} ELSE {}
<1>1. upperalign(s[1], SegSize) = s[1]
  BY Aligned, ControllerAssumption DEF FreeSegment
<1> QED  BY <1>1 DEF addr_in_seg

\* The end of a segment is aligned.
LEMMA NextAligned ==
    ASSUME NEW x \in Nat, x % SegSize = 0
    PROVE  (x + SegSize) % SegSize = 0
<1> DEFINE q == x \div SegSize
<1>1. SegSize \in Nat /\ SegSize > 0
  BY ControllerAssumption
<1>2. q \in Nat /\ x = q * SegSize
  BY <1>1, DivMod
<1> HIDE DEF q
<1>3. x + SegSize = (q + 1) * SegSize + 0
  BY <1>1, <1>2
<1>4. ((q + 1) * SegSize + 0) % SegSize = 0
  BY <1>1, <1>2, UniqueRemainder
<1> QED  BY <1>3, <1>4
\* Two segments that may be handed out are the same or do not overlap.
LEMMA SegmentsApart ==
    ASSUME NEW a, NEW b, SegmentAt(a), SegmentAt(b), a # b
    PROVE  a + SegSize <= b \/ b + SegSize <= a
<1>1. SegSize \in Nat /\ SegSize > 0 /\ a \in Nat /\ b \in Nat /\ a % SegSize = b % SegSize
  BY ControllerAssumption DEF SegmentAt
<1>2. a < b \/ b < a
  BY <1>1
<1> QED  BY <1>1, <1>2, SameRemainder

\* What the invariant says of one free segment and of two.
LEMMA FreeFacts ==
    ASSUME NEW A, NEW ms, MemoryInv(A, ms), NEW i \in 1 .. Len(ms)
    PROVE  /\ ms[i][1] \in Nat /\ ms[i][2] \in Nat
           /\ ms[i][1] < ms[i][2] /\ ms[i][2] <= MemSize
           /\ ms[i] \in Nat \X Nat /\ ms[i] = <<ms[i][1], ms[i][2]>>
BY DEF MemoryInv, FreeList, FreeSegment

\* The first address of a free segment is not handed out.
LEMMA StartNotUsed ==
    ASSUME NEW A, NEW ms, MemoryInv(A, ms), NEW i \in 1 .. Len(ms)
    PROVE  ms[i][1] \notin A
<1>1. SegSize \in Nat /\ SegSize > 0 /\ ms[i][1] \in Nat /\ ms[i][2] \in Nat /\ ms[i][1] < ms[i][2]
  BY FreeFacts, ControllerAssumption
<1>2. ASSUME ms[i][1] \in A PROVE ms[i][1] + SegSize <= ms[i][1] \/ ms[i][2] <= ms[i][1]
  BY <1>2 DEF MemoryInv, Apart
<1> QED  BY <1>1, <1>2

\* The rest of a free segment whose first addresses are handed out stays free.
LEMMA TakeFirst ==
    ASSUME NEW A, NEW ms, MemoryInv(A, ms), NEW i \in 1 .. Len(ms),
           ms[i][1] + SegSize < ms[i][2],
           NEW t, IsReplaced(t, ms, i, <<ms[i][1] + SegSize, ms[i][2]>>, Nat \X Nat)
    PROVE  MemoryInv(A \cup {ms[i][1]}, t)
<1> DEFINE l == ms[i][1]
           r == ms[i][2]
<1>1. /\ SegSize \in Nat /\ SegSize > 0 /\ MemSize \in Nat
      /\ l \in Nat /\ r \in Nat /\ l + SegSize < r /\ r <= MemSize
      /\ l % SegSize = 0 /\ (r % SegSize = 0 \/ r = MemSize)
      /\ (l + SegSize) % SegSize = 0
  BY NextAligned, ControllerAssumption, SMTT(30) DEF MemoryInv, FreeList, FreeSegment
<1>0. SegSize \in Nat /\ l \in Nat /\ r \in Nat /\ l + SegSize < r
  BY <1>1
<1>2. /\ t \in Seq(Nat \X Nat) /\ Len(t) = Len(ms)
      /\ t[i] = <<l + SegSize, r>> /\ t[i][1] = l + SegSize /\ t[i][2] = r
      /\ \A k \in 1 .. Len(ms) : k # i => t[k] = ms[k]
  BY DEF IsReplaced
<1>3. ASSUME NEW k \in 1 .. Len(t)
      PROVE  /\ FreeSegment(t[k]) /\ ms[k][1] \in Nat /\ ms[k][2] \in Nat
             /\ ms[k][1] <= t[k][1] /\ t[k][2] = ms[k][2] /\ t[k][1] \in Nat
  <2>0. k \in 1 .. Len(ms) /\ FreeSegment(ms[k]) /\ ms[k][1] \in Nat /\ ms[k][2] \in Nat
    BY <1>2 DEF MemoryInv, FreeList, FreeSegment
  <2>1. CASE k = i
    <3>1. ms[k][1] = l /\ ms[k][2] = r
      BY <2>1
    <3> HIDE DEF l, r
    <3>2. t[k] \in Nat \X Nat /\ t[k][1] = l + SegSize /\ t[k][2] = r
      BY <1>1, <1>2, <2>1, SMTT(30)
    <3> QED  BY <3>1, <3>2, <1>1 DEF FreeSegment
  <2>2. CASE k # i
    <3>1. t[k] = ms[k]
      BY <1>2, <2>0, <2>2
    <3> QED  BY <2>0, <3>1
  <2> QED  BY <2>1, <2>2
<1> HIDE DEF l, r
<1>4. ASSUME NEW j \in 1 .. Len(t), NEW k \in 1 .. Len(t), j < k
      PROVE  t[j][2] <= t[k][1]
  <2>1. ms[j][2] <= ms[k][1]
    BY <1>2, <1>4 DEF MemoryInv, FreeList
  <2> QED  BY <2>1, <1>3, SMTT(30)
<1>5. FreeList(t)
  BY <1>2, <1>3, <1>4 DEF FreeList
<1>6. ASSUME NEW a \in A \cup {l} PROVE SegmentAt(a)
  BY <1>1 DEF MemoryInv, SegmentAt
<1>7. ASSUME NEW a \in A \cup {l}, NEW k \in 1 .. Len(t)
      PROVE  a + SegSize <= t[k][1] \/ t[k][2] <= a
  <2>0. /\ ms[k][1] \in Nat /\ ms[k][2] \in Nat /\ t[k][1] \in Nat
        /\ ms[k][1] <= t[k][1] /\ t[k][2] = ms[k][2]
    BY <1>3
  <2>1. CASE a \in A
    <3>1. a \in Nat /\ (a + SegSize <= ms[k][1] \/ ms[k][2] <= a)
      BY <1>2, <2>1 DEF MemoryInv, Apart, SegmentAt
    <3> QED  BY <3>1, <1>1, <2>0
  <2>2. CASE a = l /\ k = i
    BY <2>2, <1>1, <1>2
  <2>3. CASE a = l /\ k < i
    <3>1. ms[k][2] <= l
      BY <1>2, <2>3 DEF MemoryInv, FreeList, l
    <3> QED  BY <3>1, <2>3, <1>3
  <2>4. CASE a = l /\ k > i
    <3>1. r <= ms[k][1]
      BY <1>2, <2>4 DEF MemoryInv, FreeList, r
    <3>2. l + SegSize <= t[k][1]
      BY <3>1, <1>0, <2>0, SMTT(30)
    <3> QED  BY <3>2, <2>4
  <2> QED  BY <2>1, <2>2, <2>3, <2>4, <1>2
<1>8. ASSUME NEW x \in Aggregators PROVE FreeAt(t, x) \/ UsedAt(A \cup {l}, x)
  <2>0. x \in Nat
    BY <1>1 DEF Aggregators
  <2>1. CASE UsedAt(A, x)
    BY <2>1 DEF UsedAt
  <2>2. CASE FreeAt(ms, x)
    <3>1. PICK k \in 1 .. Len(ms) : ms[k][1] <= x /\ x < ms[k][2]
      BY <2>2 DEF FreeAt
    <3>2. CASE k # i
      BY <3>1, <3>2, <1>2 DEF FreeAt
    <3>3. CASE k = i /\ x < l + SegSize
      <4>1. l <= x
        BY <3>1, <3>3 DEF l
      <4> QED  BY <4>1, <3>3 DEF UsedAt
    <3>4. CASE k = i /\ l + SegSize <= x
      <4>1. t[i][1] <= x /\ x < t[i][2]
        BY <3>1, <3>4, <1>2 DEF r
      <4> QED  BY <4>1, <1>2 DEF FreeAt
    <3> QED  BY <3>2, <3>3, <3>4, <2>0, <1>1
  <2> QED  BY <2>1, <2>2 DEF MemoryInv, Complete
<1>9. MemoryInv(A \cup {l}, t)
  BY <1>5, <1>6, <1>7, <1>8 DEF MemoryInv, Apart, Complete
<1> QED  BY <1>9 DEF l

\* A free segment handed out as a whole leaves the list.
LEMMA TakeAll ==
    ASSUME NEW A, NEW ms, MemoryInv(A, ms), NEW i \in 1 .. Len(ms),
           ms[i][1] + SegSize = ms[i][2],
           NEW t, IsRemoved(t, ms, i, Nat \X Nat)
    PROVE  MemoryInv(A \cup {ms[i][1]}, t)
<1> DEFINE l == ms[i][1]
           Old(k) == IF k < i THEN k ELSE k + 1
<1>1. /\ SegSize \in Nat /\ SegSize > 0 /\ MemSize \in Nat
      /\ l \in Nat /\ ms[i][2] = l + SegSize /\ l + SegSize <= MemSize
      /\ l % SegSize = 0 /\ Len(ms) \in Nat
  BY ControllerAssumption DEF MemoryInv, FreeList, FreeSegment
<1>2. /\ t \in Seq(Nat \X Nat) /\ Len(t) = Len(ms) - 1
      /\ \A k \in 1 .. i - 1 : t[k] = ms[k]
      /\ \A k \in i .. Len(ms) - 1 : t[k] = ms[k + 1]
  BY DEF IsRemoved
<1>3. ASSUME NEW k \in 1 .. Len(t)
      PROVE  /\ Old(k) \in 1 .. Len(ms) /\ Old(k) # i /\ t[k] = ms[Old(k)]
             /\ t[k][1] \in Nat /\ t[k][2] \in Nat /\ FreeSegment(t[k])
  <2>1. Old(k) \in 1 .. Len(ms) /\ Old(k) # i
    <3>1. Len(ms) \in Nat /\ Len(t) = Len(ms) - 1
      BY <1>1, <1>2
    <3> QED  BY <3>1
  <2>2. t[k] = ms[Old(k)]
    <3>1. CASE k < i
      BY <3>1, <1>2
    <3>2. CASE k >= i
      <4>1. k \in i .. Len(ms) - 1
        BY <3>2, <1>1, <1>2
      <4> QED  BY <3>2, <4>1, <1>2
    <3> QED  BY <3>1, <3>2
  <2> HIDE DEF Old
  <2>3. FreeSegment(ms[Old(k)])
    BY <2>1 DEF MemoryInv, FreeList
  <2> QED  BY <2>1, <2>2, <2>3 DEF FreeSegment
<1>4. ASSUME NEW j \in 1 .. Len(t), NEW k \in 1 .. Len(t), j < k
      PROVE  t[j][2] <= t[k][1]
  <2>1. Old(j) < Old(k)
    <3>1. j \in Nat /\ k \in Nat /\ i \in Nat
      BY <1>2
    <3> QED  BY <3>1, <1>4
  <2> HIDE DEF Old
  <2>2. /\ Old(j) \in 1 .. Len(ms) /\ t[j] = ms[Old(j)]
        /\ Old(k) \in 1 .. Len(ms) /\ t[k] = ms[Old(k)]
    BY <1>3
  <2> QED  BY <2>1, <2>2 DEF MemoryInv, FreeList
<1>5. FreeList(t)
  BY <1>2, <1>3, <1>4 DEF FreeList
<1>6. ASSUME NEW a \in A \cup {l} PROVE SegmentAt(a)
  BY <1>1 DEF MemoryInv, SegmentAt
<1>7. ASSUME NEW a \in A \cup {l}, NEW k \in 1 .. Len(t)
      PROVE  a + SegSize <= t[k][1] \/ t[k][2] <= a
  <2>0. Old(k) \in 1 .. Len(ms) /\ Old(k) # i /\ t[k] = ms[Old(k)]
    BY <1>3
  <2> HIDE DEF Old
  <2>1. CASE a \in A
    BY <2>0, <2>1 DEF MemoryInv, Apart
  <2>2. CASE a = l /\ Old(k) < i
    BY <2>0, <2>2 DEF MemoryInv, FreeList
  <2>3. CASE a = l /\ Old(k) > i
    <3>1. ms[i][2] <= ms[Old(k)][1]
      BY <2>0, <2>3 DEF MemoryInv, FreeList
    <3> QED  BY <3>1, <2>0, <2>3, <1>1
  <2> QED  BY <2>0, <2>1, <2>2, <2>3
<1>8. ASSUME NEW x \in Aggregators PROVE FreeAt(t, x) \/ UsedAt(A \cup {l}, x)
  <2>1. CASE UsedAt(A, x)
    BY <2>1 DEF UsedAt
  <2>2. CASE FreeAt(ms, x)
    <3>1. PICK k \in 1 .. Len(ms) : ms[k][1] <= x /\ x < ms[k][2]
      BY <2>2 DEF FreeAt
    <3>2. CASE k < i
      <4>1. k \in 1 .. Len(t) /\ t[k] = ms[k]
        BY <3>2, <1>1, <1>2
      <4> QED  BY <3>1, <4>1 DEF FreeAt
    <3>3. CASE k = i
      BY <3>1, <3>3, <1>1 DEF UsedAt
    <3>4. CASE k > i
      <4>1. k - 1 \in i .. Len(ms) - 1 /\ k - 1 \in 1 .. Len(t) /\ k = (k - 1) + 1
        BY <3>4, <1>1, <1>2
      <4>2. t[k - 1] = ms[k]
        BY <4>1, <1>2
      <4> QED  BY <3>1, <4>1, <4>2 DEF FreeAt
    <3> QED  BY <3>2, <3>3, <3>4
  <2> QED  BY <2>1, <2>2 DEF MemoryInv, Complete
<1>9. MemoryInv(A \cup {l}, t)
  BY <1>5, <1>6, <1>7, <1>8 DEF MemoryInv, Apart, Complete
<1> QED  BY <1>9

\* A segment is given back when the new list t has it, or a segment it is part
\* of, in place j, and is made of the segments of the old list otherwise.
FromOld(t, ms, j) ==
    \A k \in 1 .. Len(t) : k # j => \E i \in 1 .. Len(ms) : t[k] = ms[i]
Covers(t, ms) ==
    \A i \in 1 .. Len(ms) : \E k \in 1 .. Len(t) : t[k][1] <= ms[i][1] /\ ms[i][2] <= t[k][2]

LEMMA GiveBack ==
    ASSUME NEW A, NEW ms, MemoryInv(A, ms), NEW a \in A, NEW t,
           FreeList(t), NEW j \in 1 .. Len(t), t[j][1] <= a, a + SegSize <= t[j][2],
           FromOld(t, ms, j), Covers(t, ms),
           \A b \in A : b # a => b + SegSize <= t[j][1] \/ t[j][2] <= b
    PROVE  MemoryInv(A \ {a}, t)
<1>1. ASSUME NEW b \in A \ {a} PROVE SegmentAt(b)
  BY DEF MemoryInv
<1>2. ASSUME NEW b \in A \ {a}, NEW k \in 1 .. Len(t)
      PROVE  b + SegSize <= t[k][1] \/ t[k][2] <= b
  <2>1. CASE k = j
    BY <2>1
  <2>2. CASE k # j
    <3>1. PICK i \in 1 .. Len(ms) : t[k] = ms[i]
      BY <2>2 DEF FromOld
    <3> QED  BY <3>1 DEF MemoryInv, Apart
  <2> QED  BY <2>1, <2>2
<1>3. ASSUME NEW x \in Aggregators PROVE FreeAt(t, x) \/ UsedAt(A \ {a}, x)
  <2>0. x \in Int /\ a \in Int /\ SegSize \in Int
    BY ControllerAssumption DEF Aggregators, MemoryInv, SegmentAt
  <2>00. \A k \in 1 .. Len(t) : t[k][1] \in Int /\ t[k][2] \in Int
    BY DEF FreeList, FreeSegment
  <2>1. CASE FreeAt(ms, x)
    <3>1. PICK i \in 1 .. Len(ms) : ms[i][1] <= x /\ x < ms[i][2]
      BY <2>1 DEF FreeAt
    <3>2. PICK k \in 1 .. Len(t) : t[k][1] <= ms[i][1] /\ ms[i][2] <= t[k][2]
      BY DEF Covers
    <3>3. ms[i][1] \in Int /\ ms[i][2] \in Int /\ t[k][1] \in Int /\ t[k][2] \in Int
      BY <2>00, FreeFacts
    <3>4. t[k][1] <= x /\ x < t[k][2]
      BY <3>1, <3>2, <3>3, <2>0, SMTT(30)
    <3> QED  BY <3>4 DEF FreeAt
  <2>2. CASE UsedAt(A, x)
    <3>1. PICK b \in A : b <= x /\ x < b + SegSize
      BY <2>2 DEF UsedAt
    <3>2. CASE b # a
      BY <3>1, <3>2 DEF UsedAt
    <3>3. CASE b = a
      <4>1. t[j][1] \in Int /\ t[j][2] \in Int
        BY <2>00
      <4>2. t[j][1] <= x /\ x < t[j][2]
        BY <3>1, <3>3, <4>1, <2>0
      <4> QED  BY <4>2 DEF FreeAt
    <3> QED  BY <3>2, <3>3
  <2> QED  BY <2>1, <2>2 DEF MemoryInv, Complete
<1> QED  BY <1>1, <1>2, <1>3 DEF MemoryInv, Apart, Complete

\* Where the free segments are that a segment handed out is apart from.
LEMMA Neighbours ==
    ASSUME NEW A, NEW ms, MemoryInv(A, ms), NEW a \in A, NEW i \in 1 .. Len(ms)
    PROVE  /\ a \in Nat /\ SegSize \in Nat /\ SegSize > 0 /\ MemSize \in Nat
           /\ a + SegSize <= MemSize
           /\ ms[i][1] \in Nat /\ ms[i][2] \in Nat /\ ms[i][1] < ms[i][2] /\ ms[i][2] <= MemSize
           /\ a + SegSize <= ms[i][1] \/ ms[i][2] <= a
<1>1. SegmentAt(a) /\ (a + SegSize <= ms[i][1] \/ ms[i][2] <= a)
  BY DEF MemoryInv, Apart
<1> QED  BY <1>1, FreeFacts, ControllerAssumption DEF SegmentAt

\* Given back above a free segment: that one grows.
LEMMA JoinBelow ==
    ASSUME NEW A, NEW ms, MemoryInv(A, ms), NEW a \in A, NEW j \in 1 .. Len(ms), ms[j][2] = a,
           NEW t, IsReplaced(t, ms, j, <<ms[j][1], a + SegSize>>, Nat \X Nat)
    PROVE  MemoryInv(A \ {a}, t)
<1>1. /\ t \in Seq(Nat \X Nat) /\ Len(t) = Len(ms)
      /\ t[j] = <<ms[j][1], a + SegSize>> /\ t[j][1] = ms[j][1] /\ t[j][2] = a + SegSize
      /\ \A k \in 1 .. Len(ms) : k # j => t[k] = ms[k]
  BY DEF IsReplaced
<1>2. /\ a \in Nat /\ SegSize \in Nat /\ SegSize > 0 /\ a + SegSize <= MemSize
      /\ ms[j][1] \in Nat /\ ms[j][1] < a
  BY Neighbours
<1>3. FreeSegment(t[j])
  <2>1. a % SegSize = 0 /\ ms[j][1] % SegSize = 0
    BY DEF MemoryInv, SegmentAt, FreeList, FreeSegment
  <2>2. (a + SegSize) % SegSize = 0
    BY <2>1, <1>2, NextAligned
  <2>3. ms[j][1] < a + SegSize /\ t[j] \in Nat \X Nat
    BY <1>1, <1>2
  <2> QED  BY <2>1, <2>2, <2>3, <1>1, <1>2 DEF FreeSegment
<1>4. ASSUME NEW k \in 1 .. Len(t) PROVE FreeSegment(t[k])
  BY <1>1, <1>3 DEF MemoryInv, FreeList
<1>5. ASSUME NEW k \in 1 .. Len(ms), k > j PROVE a + SegSize <= ms[k][1]
  <2>1. a <= ms[k][1]
    BY <1>5 DEF MemoryInv, FreeList
  <2>2. /\ ms[k][1] \in Nat /\ ms[k][2] \in Nat /\ ms[k][1] < ms[k][2]
        /\ a + SegSize <= ms[k][1] \/ ms[k][2] <= a
    BY Neighbours
  <2> QED  BY <2>1, <2>2, <1>2
<1>6. ASSUME NEW k \in 1 .. Len(t), NEW l \in 1 .. Len(t), k < l
      PROVE  t[k][2] <= t[l][1]
  <2>1. ms[k][2] <= ms[l][1]
    BY <1>1, <1>6 DEF MemoryInv, FreeList
  <2>2. CASE k = j
    <3>1. a + SegSize <= ms[l][1] /\ t[l] = ms[l]
      BY <2>2, <1>1, <1>5, <1>6
    <3> QED  BY <2>2, <3>1, <1>1
  <2>3. CASE l = j
    <3>1. t[k] = ms[k]
      BY <2>3, <1>1, <1>6
    <3> QED  BY <2>1, <2>3, <3>1, <1>1
  <2>4. CASE k # j /\ l # j
    BY <2>1, <2>4, <1>1
  <2> QED  BY <2>2, <2>3, <2>4
<1>7. FreeList(t)
  BY <1>1, <1>4, <1>6 DEF FreeList
<1>8. FromOld(t, ms, j)
  BY <1>1 DEF FromOld
<1>9. Covers(t, ms)
  <2>1. ASSUME NEW k \in 1 .. Len(ms)
        PROVE  \E l \in 1 .. Len(t) : t[l][1] <= ms[k][1] /\ ms[k][2] <= t[l][2]
    <3>0. ms[k][1] \in Nat /\ ms[k][2] \in Nat
      BY FreeFacts
    <3>1. CASE k = j
      <4>1. t[k][1] <= ms[k][1] /\ ms[k][2] <= t[k][2]
        BY <3>1, <1>1, <1>2
      <4> QED  BY <4>1, <1>1
    <3>2. CASE k # j
      <4>1. t[k][1] <= ms[k][1] /\ ms[k][2] <= t[k][2]
        BY <3>0, <3>2, <1>1, SMTT(30)
      <4> QED  BY <4>1, <1>1
    <3> QED  BY <3>1, <3>2
  <2> QED  BY <2>1 DEF Covers
<1>10. ASSUME NEW b \in A, b # a PROVE b + SegSize <= t[j][1] \/ t[j][2] <= b
  <2>1. SegmentAt(a) /\ SegmentAt(b)
    BY DEF MemoryInv
  <2>2. a + SegSize <= b \/ b + SegSize <= a
    BY <2>1, <1>10, SegmentsApart
  <2>3. b \in Nat /\ (b + SegSize <= ms[j][1] \/ a <= b)
    BY Neighbours
  <2> QED  BY <2>2, <2>3, <1>1, <1>2
<1>11. t[j][1] <= a /\ a + SegSize <= t[j][2] /\ j \in 1 .. Len(t)
  BY <1>1, <1>2
<1> QED  BY <1>7, <1>8, <1>9, <1>10, <1>11, GiveBack

\* Given back below a free segment: that one grows.
LEMMA JoinAbove ==
    ASSUME NEW A, NEW ms, MemoryInv(A, ms), NEW a \in A, NEW j \in 1 .. Len(ms),
           ms[j][1] = a + SegSize,
           NEW t, IsReplaced(t, ms, j, <<a, ms[j][2]>>, Nat \X Nat)
    PROVE  MemoryInv(A \ {a}, t)
<1>1. /\ t \in Seq(Nat \X Nat) /\ Len(t) = Len(ms)
      /\ t[j] = <<a, ms[j][2]>> /\ t[j][1] = a /\ t[j][2] = ms[j][2]
      /\ \A k \in 1 .. Len(ms) : k # j => t[k] = ms[k]
  BY DEF IsReplaced
<1>2. /\ a \in Nat /\ SegSize \in Nat /\ SegSize > 0
      /\ ms[j][2] \in Nat /\ a + SegSize < ms[j][2] /\ ms[j][2] <= MemSize
  BY Neighbours
<1>3. FreeSegment(t[j])
  <2>1. a % SegSize = 0 /\ (ms[j][2] % SegSize = 0 \/ ms[j][2] = MemSize)
    BY DEF MemoryInv, SegmentAt, FreeList, FreeSegment
  <2>2. a < ms[j][2] /\ t[j] \in Nat \X Nat
    BY <1>1, <1>2
  <2> QED  BY <2>1, <2>2, <1>1, <1>2 DEF FreeSegment
<1>4. ASSUME NEW k \in 1 .. Len(t) PROVE FreeSegment(t[k])
  BY <1>1, <1>3 DEF MemoryInv, FreeList
<1>5. ASSUME NEW k \in 1 .. Len(ms), k < j PROVE ms[k][2] <= a
  <2>1. ms[k][2] <= a + SegSize
    BY <1>5 DEF MemoryInv, FreeList
  <2>2. /\ ms[k][1] \in Nat /\ ms[k][2] \in Nat /\ ms[k][1] < ms[k][2]
        /\ a + SegSize <= ms[k][1] \/ ms[k][2] <= a
    BY Neighbours
  <2> QED  BY <2>1, <2>2, <1>2
<1>6. ASSUME NEW k \in 1 .. Len(t), NEW l \in 1 .. Len(t), k < l
      PROVE  t[k][2] <= t[l][1]
  <2>1. ms[k][2] <= ms[l][1]
    BY <1>1, <1>6 DEF MemoryInv, FreeList
  <2>2. CASE k = j
    <3>1. t[l] = ms[l]
      BY <2>2, <1>1, <1>6
    <3> QED  BY <2>1, <2>2, <3>1, <1>1
  <2>3. CASE l = j
    <3>1. ms[k][2] <= a /\ t[k] = ms[k]
      BY <2>3, <1>1, <1>5, <1>6
    <3> QED  BY <2>3, <3>1, <1>1
  <2>4. CASE k # j /\ l # j
    BY <2>1, <2>4, <1>1
  <2> QED  BY <2>2, <2>3, <2>4
<1>7. FreeList(t)
  BY <1>1, <1>4, <1>6 DEF FreeList
<1>8. FromOld(t, ms, j)
  BY <1>1 DEF FromOld
<1>9. Covers(t, ms)
  <2>1. ASSUME NEW k \in 1 .. Len(ms)
        PROVE  \E l \in 1 .. Len(t) : t[l][1] <= ms[k][1] /\ ms[k][2] <= t[l][2]
    <3>0. ms[k][1] \in Nat /\ ms[k][2] \in Nat
      BY FreeFacts
    <3>1. CASE k = j
      <4>1. t[k][1] <= ms[k][1] /\ ms[k][2] <= t[k][2]
        BY <3>1, <1>1, <1>2
      <4> QED  BY <4>1, <1>1
    <3>2. CASE k # j
      <4>1. t[k][1] <= ms[k][1] /\ ms[k][2] <= t[k][2]
        BY <3>0, <3>2, <1>1
      <4> QED  BY <4>1, <1>1
    <3> QED  BY <3>1, <3>2
  <2> QED  BY <2>1 DEF Covers
<1>10. ASSUME NEW b \in A, b # a PROVE b + SegSize <= t[j][1] \/ t[j][2] <= b
  <2>1. SegmentAt(a) /\ SegmentAt(b)
    BY DEF MemoryInv
  <2>2. a + SegSize <= b \/ b + SegSize <= a
    BY <2>1, <1>10, SegmentsApart
  <2>3. b \in Nat /\ (b + SegSize <= a + SegSize \/ ms[j][2] <= b)
    BY Neighbours
  <2> QED  BY <2>2, <2>3, <1>1, <1>2
<1>11. t[j][1] <= a /\ a + SegSize <= t[j][2] /\ j \in 1 .. Len(t)
  BY <1>1, <1>2
<1> QED  BY <1>7, <1>8, <1>9, <1>10, <1>11, GiveBack

\* Given back between two free segments, neither of which it touches.
LEMMA PutBetween ==
    ASSUME NEW A, NEW ms, MemoryInv(A, ms), NEW a \in A, NEW j \in 1 .. Len(ms) + 1,
           \A k \in 1 .. j - 1 : ms[k][2] <= a,
           \A k \in j .. Len(ms) : a + SegSize <= ms[k][1],
           NEW t, IsInserted(t, ms, j, <<a, a + SegSize>>, Nat \X Nat)
    PROVE  MemoryInv(A \ {a}, t)
<1> DEFINE Old(k) == IF k < j THEN k ELSE k - 1
<1>1. /\ t \in Seq(Nat \X Nat) /\ Len(t) = Len(ms) + 1
      /\ t[j] = <<a, a + SegSize>> /\ t[j][1] = a /\ t[j][2] = a + SegSize
      /\ \A k \in 1 .. j - 1 : t[k] = ms[k]
      /\ \A k \in j + 1 .. Len(ms) + 1 : t[k] = ms[k - 1]
  BY DEF IsInserted
<1>0. /\ a \in Nat /\ SegSize \in Nat /\ SegSize > 0 /\ a + SegSize <= MemSize
      /\ Len(ms) \in Nat /\ j \in Nat /\ j \in 1 .. Len(t)
  BY <1>1, ControllerAssumption DEF MemoryInv, SegmentAt, FreeList
<1>2. ASSUME NEW k \in 1 .. Len(t), k # j
      PROVE  Old(k) \in 1 .. Len(ms) /\ t[k] = ms[Old(k)]
  <2>1. CASE k < j
    <3>1. k \in 1 .. j - 1 /\ k \in 1 .. Len(ms) /\ Old(k) = k
      BY <2>1, <1>0
    <3> QED  BY <3>1, <1>1
  <2>2. CASE k > j
    <3>0. k \in Nat /\ j \in Nat /\ Len(ms) \in Nat /\ k <= Len(ms) + 1 /\ j >= 1
      BY <1>0, <1>1
    <3>1. k \in j + 1 .. Len(ms) + 1 /\ k - 1 \in 1 .. Len(ms) /\ Old(k) = k - 1
      BY <2>2, <3>0
    <3> QED  BY <3>1, <1>1
  <2> QED  BY <2>1, <2>2, <1>0, <1>2
<1>3. FreeSegment(t[j])
  <2>1. a % SegSize = 0
    BY DEF MemoryInv, SegmentAt
  <2>2. (a + SegSize) % SegSize = 0
    BY <2>1, <1>0, NextAligned
  <2>3. a < a + SegSize /\ t[j] \in Nat \X Nat
    BY <1>0, <1>1
  <2> QED  BY <2>1, <2>2, <2>3, <1>0, <1>1 DEF FreeSegment
<1>4. ASSUME NEW k \in 1 .. Len(t) PROVE FreeSegment(t[k])
  <2>1. CASE k # j
    <3>1. Old(k) \in 1 .. Len(ms) /\ t[k] = ms[Old(k)]
      BY <2>1, <1>2
    <3> HIDE DEF Old
    <3> QED  BY <3>1 DEF MemoryInv, FreeList
  <2> QED  BY <2>1, <1>3
<1>6. ASSUME NEW k \in 1 .. Len(t), NEW l \in 1 .. Len(t), k < l
      PROVE  t[k][2] <= t[l][1]
  <2>2. CASE k = j
    <3>1. l \in j + 1 .. Len(ms) + 1 /\ l - 1 \in j .. Len(ms)
      BY <2>2, <1>0, <1>1, <1>6
    <3>2. t[l] = ms[l - 1] /\ a + SegSize <= ms[l - 1][1]
      BY <3>1, <1>1
    <3> QED  BY <2>2, <3>2, <1>1
  <2>3. CASE l = j
    <3>1. k \in 1 .. j - 1
      BY <2>3, <1>0, <1>6
    <3>2. t[k] = ms[k] /\ ms[k][2] <= a
      BY <3>1, <1>1
    <3> QED  BY <2>3, <3>2, <1>1
  <2>4. CASE k # j /\ l # j
    <3>1. /\ Old(k) \in 1 .. Len(ms) /\ t[k] = ms[Old(k)]
          /\ Old(l) \in 1 .. Len(ms) /\ t[l] = ms[Old(l)]
      BY <2>4, <1>2
    <3>2. Old(k) < Old(l)
      BY <2>4, <1>0, <1>6
    <3> HIDE DEF Old
    <3> QED  BY <3>1, <3>2 DEF MemoryInv, FreeList
  <2> QED  BY <2>2, <2>3, <2>4
<1>7. FreeList(t)
  BY <1>1, <1>4, <1>6 DEF FreeList
<1>8. FromOld(t, ms, j)
  BY <1>2, Zenon DEF FromOld
<1>9. Covers(t, ms)
  <2>1. ASSUME NEW k \in 1 .. Len(ms)
        PROVE  \E l \in 1 .. Len(t) : t[l][1] <= ms[k][1] /\ ms[k][2] <= t[l][2]
    <3>0. ms[k][1] \in Nat /\ ms[k][2] \in Nat
      BY FreeFacts
    <3>1. PICK l \in 1 .. Len(t) : t[l] = ms[k]
      <4>1. CASE k < j
        <5>1. k \in 1 .. j - 1 /\ k \in 1 .. Len(t)
          BY <4>1, <1>0, <1>1
        <5> QED  BY <5>1, <1>1
      <4>2. CASE k >= j
        <5>1. k + 1 \in j + 1 .. Len(ms) + 1 /\ k + 1 \in 1 .. Len(t) /\ (k + 1) - 1 = k
          BY <4>2, <1>0, <1>1
        <5>2. t[k + 1] = ms[k]
          BY <5>1, <1>1
        <5> QED  BY <5>1, <5>2
      <4>3. k < j \/ k >= j
        BY <1>0
      <4> QED  BY <4>1, <4>2, <4>3
    <3>2. t[l][1] <= ms[k][1] /\ ms[k][2] <= t[l][2]
      BY <3>0, <3>1
    <3> QED  BY <3>2
  <2> QED  BY <2>1 DEF Covers
<1>10. ASSUME NEW b \in A, b # a PROVE b + SegSize <= t[j][1] \/ t[j][2] <= b
  <2>1. SegmentAt(a) /\ SegmentAt(b)
    BY DEF MemoryInv
  <2>2. a + SegSize <= b \/ b + SegSize <= a
    BY <2>1, <1>10, SegmentsApart
  <2> QED  BY <2>2, <1>1
<1>11. t[j][1] <= a /\ a + SegSize <= t[j][2] /\ j \in 1 .. Len(t)
  BY <1>0, <1>1
<1> QED  BY <1>7, <1>8, <1>9, <1>10, <1>11, GiveBack

\* Where free_seg looks: the free segments below the one given back come
\* first in the list, the ones above it follow.  "Invalid free" cannot happen.
LEMMA Place ==
    ASSUME NEW A, MemoryInv(A, memseg), NEW a \in A
    PROVE  /\ r_index(a) \in 1 .. Len(memseg) + 1
           /\ \A k \in 1 .. r_index(a) - 1 : memseg[k][2] <= a
           /\ \A k \in r_index(a) .. Len(memseg) : a + SegSize <= memseg[k][1]
<1> DEFINE S == {i \in DOMAIN memseg : memseg[i][2] > a} \cup {Len(memseg) + 1}
           ri == r_index(a)
<1>1. memseg \in Seq(Nat \X Nat) /\ Len(memseg) \in Nat /\ DOMAIN memseg = 1 .. Len(memseg)
  BY DEF MemoryInv, FreeList
<1>2. S \in SUBSET Nat /\ S # {}
  BY <1>1
<1>3. Min(S) \in S /\ \A y \in S : Min(S) <= y
  <2> HIDE DEF S
  <2> QED  BY <1>2, MinIsLeast
<1>4. ri \in S /\ \A y \in S : ri <= y
  BY <1>3 DEF r_index
<1> HIDE DEF ri
<1>5. ri \in 1 .. Len(memseg) + 1
  BY <1>1, <1>4
<1>6. ASSUME NEW k \in 1 .. ri - 1 PROVE memseg[k][2] <= a
  <2>1. k \in DOMAIN memseg /\ k < ri /\ ri \in Int
    BY <1>1, <1>5
  <2>2. ~(memseg[k][2] > a)
    BY <2>1, <1>4
  <2>3. memseg[k][2] \in Nat /\ a \in Nat
    BY <2>1, <1>1, Neighbours
  <2> QED  BY <2>2, <2>3
<1>7. ASSUME NEW k \in ri .. Len(memseg) PROVE a + SegSize <= memseg[k][1]
  <2>1. k \in 1 .. Len(memseg) /\ ri \in 1 .. Len(memseg)
    BY <1>1, <1>5
  <2>2. memseg[ri][2] > a
    BY <2>1, <1>1, <1>4
  <2>3. memseg[k][2] > a
    <3>1. CASE k = ri
      BY <3>1, <2>2
    <3>2. CASE k # ri
      <4>1. ri < k
        BY <3>2, <2>1
      <4>2. memseg[ri][2] <= memseg[k][1]
        BY <4>1, <2>1 DEF MemoryInv, FreeList
      <4>3. /\ memseg[ri][2] \in Nat /\ memseg[k][1] \in Nat /\ memseg[k][2] \in Nat
            /\ memseg[k][1] < memseg[k][2] /\ a \in Nat
        BY <2>1, Neighbours
      <4> QED  BY <4>2, <4>3, <2>2
    <3> QED  BY <3>1, <3>2
  <2>4. memseg[k][2] \in Nat /\ a \in Nat /\ (a + SegSize <= memseg[k][1] \/ memseg[k][2] <= a)
    BY <2>1, Neighbours
  <2> QED  BY <2>3, <2>4
<1> QED  BY <1>5, <1>6, <1>7 DEF ri

\* free_seg gives back a segment handed out, and nothing else.  The segment it
\* compares when it has removed the one below is never adjacent.
LEMMA FreeSeg ==
    ASSUME NEW A, MemoryInv(A, memseg), NEW a \in A
    PROVE  MemoryInv(A \ {a}, free_seg(a, a + SegSize))
<1> DEFINE ri == r_index(a)
           n == Len(memseg)
           joinl == ri > 1 /\ memseg[ri - 1][2] = a
           k == IF joinl THEN ri + 1 ELSE ri
           joinr == k <= n /\ memseg[k][1] = a + SegSize
           t == free_seg(a, a + SegSize)
<1>1. /\ ri \in 1 .. n + 1
      /\ \A i \in 1 .. ri - 1 : memseg[i][2] <= a
      /\ \A i \in ri .. n : a + SegSize <= memseg[i][1]
  BY Place
<1>2. memseg \in Seq(Nat \X Nat) /\ n \in Nat
  BY DEF MemoryInv, FreeList
<1>3. a \in Nat /\ SegSize \in Nat /\ SegSize > 0
  BY ControllerAssumption DEF MemoryInv, SegmentAt
<1>4. t = SubSeq(memseg, 1, IF joinl THEN ri - 2 ELSE ri - 1)
            \o << <<IF joinl THEN memseg[ri - 1][1] ELSE a,
                    IF joinr THEN memseg[k][2] ELSE a + SegSize>> >>
            \o (IF joinr THEN SubSeq(memseg, ri, k - 1) \o SubSeq(memseg, k + 1, n)
                ELSE SubSeq(memseg, ri, n))
  BY DEF free_seg
<1> HIDE DEF ri, t
<1>5. CASE joinl
  <2> DEFINE j == ri - 1
             x == <<memseg[j][1], a + SegSize>>
  <2>1. j \in 1 .. n /\ memseg[j][2] = a /\ j - 1 = ri - 2 /\ j + 1 = ri /\ k = ri + 1
    BY <1>1, <1>2, <1>5
  <2>2. ~joinr
    <3>1. ASSUME joinr PROVE FALSE
      <4>1. ri \in 1 .. n /\ ri + 1 \in 1 .. n /\ memseg[ri + 1][1] = a + SegSize
        BY <1>1, <1>2, <2>1, <3>1
      <4>2. a + SegSize <= memseg[ri][1]
        BY <4>1, <1>1
      <4>3. memseg[ri][2] <= memseg[ri + 1][1]
        BY <4>1 DEF MemoryInv, FreeList
      <4>4. memseg[ri][1] \in Nat /\ memseg[ri][2] \in Nat /\ memseg[ri][1] < memseg[ri][2]
        BY <4>1, FreeFacts
      <4> QED  BY <4>1, <4>2, <4>3, <4>4, <1>3
    <3> QED  BY <3>1
  <2>3. t = SubSeq(memseg, 1, j - 1) \o <<x>> \o SubSeq(memseg, j + 1, n)
    BY <1>4, <1>5, <2>1, <2>2
  <2>4. x \in Nat \X Nat
    BY <2>1, <1>3, FreeFacts
  <2> HIDE DEF j, x
  <2>5. IsReplaced(t, memseg, j, x, Nat \X Nat)
    BY <2>1, <2>3, <2>4, <1>2, Replaced
  <2> QED  BY <2>1, <2>5, JoinBelow DEF x, t
<1>6. CASE ~joinl /\ joinr
  <2> DEFINE x == <<a, memseg[ri][2]>>
             v == SubSeq(memseg, ri + 1, n)
  <2>1. ri \in 1 .. n /\ memseg[ri][1] = a + SegSize /\ k = ri
    BY <1>1, <1>2, <1>6
  <2>2. SubSeq(memseg, ri, ri - 1) = << >> /\ v \in Seq(Nat \X Nat)
    BY <2>1, <1>2, SMTT(30)
  <2>3. t = SubSeq(memseg, 1, ri - 1) \o <<x>> \o (SubSeq(memseg, ri, ri - 1) \o v)
    BY <1>4, <1>6, <2>1
  <2>4. x \in Nat \X Nat
    BY <2>1, <1>3, FreeFacts
  <2> HIDE DEF x
  <2>5. << >> \o v = v
    <3> HIDE DEF v
    <3> QED  BY <2>2
  <2>6. IsReplaced(t, memseg, ri, x, Nat \X Nat)
    BY <2>1, <2>2, <2>3, <2>4, <2>5, <1>2, Replaced
  <2> QED  BY <2>1, <2>6, JoinAbove DEF x, t
<1>7. CASE ~joinl /\ ~joinr
  <2> DEFINE x == <<a, a + SegSize>>
  <2>1. t = SubSeq(memseg, 1, ri - 1) \o <<x>> \o SubSeq(memseg, ri, n)
    BY <1>4, <1>7
  <2>2. x \in Nat \X Nat
    BY <1>3
  <2> HIDE DEF x
  <2>3. IsInserted(t, memseg, ri, x, Nat \X Nat)
    BY <2>1, <2>2, <1>1, <1>2, Inserted
  <2> QED  BY <2>3, <1>1, PutBetween DEF x, t
<1> QED  BY <1>5, <1>6, <1>7

\* alloc_seg hands out what was free, and leaves the rest free.
LEMMA AllocSeg ==
    ASSUME NEW A, MemoryInv(A, memseg), NEW i \in fit_seg, NEW addr \in addr_in_seg(memseg[i])
    PROVE  /\ addr \notin A /\ SegmentAt(addr)
           /\ MemoryInv(A \cup {addr}, alloc_seg(i, addr, addr + SegSize))
<1> DEFINE n == Len(memseg)
           r == memseg[i][2]
           u == SubSeq(memseg, 1, i - 1)
           v == SubSeq(memseg, i + 1, n)
           t == alloc_seg(i, addr, addr + SegSize)
<1>1. memseg \in Seq(Nat \X Nat) /\ n \in Nat /\ i \in 1 .. n
  BY DEF MemoryInv, FreeList, fit_seg
<1>2. FreeSegment(memseg[i])
  BY <1>1 DEF MemoryInv, FreeList
<1>3. addr = memseg[i][1] /\ addr + SegSize <= r
  <2>1. addr_in_seg(memseg[i]) = IF memseg[i][1] + SegSize <= r THEN {memseg[i][1]} ELSE {}
    BY <1>2, FitsAtStart
  <2> QED  BY <2>1
<1>4. /\ addr \in Nat /\ r \in Nat /\ r <= MemSize /\ MemSize \in Nat
      /\ SegSize \in Nat /\ SegSize > 0
  BY <1>2, <1>3, ControllerAssumption DEF FreeSegment
<1>5. addr \notin A
  BY <1>1, <1>3, StartNotUsed
<1>6. SegmentAt(addr)
  <2>1. addr + SegSize <= MemSize
    BY <1>3, <1>4
  <2> QED  BY <2>1, <1>2, <1>3, <1>4 DEF SegmentAt, FreeSegment
<1>7. u \in Seq(Nat \X Nat) /\ v \in Seq(Nat \X Nat)
  BY <1>1, SMTT(30)
<1>8. t = u \o NonEmpty(addr, addr) \o NonEmpty(addr + SegSize, r) \o v
  BY <1>3 DEF alloc_seg
<1>9. u \o NonEmpty(addr, addr) = u
  <2> HIDE DEF u
  <2> QED  BY <1>7 DEF NonEmpty
<1>10. t = u \o NonEmpty(addr + SegSize, r) \o v
  <2> HIDE DEF u, v, t
  <2> QED  BY <1>8, <1>9
<1>11. CASE addr + SegSize = r
  <2>1. u \o NonEmpty(addr + SegSize, r) = u
    <3> HIDE DEF u
    <3> QED  BY <1>7, <1>11 DEF NonEmpty
  <2>2. t = u \o v
    <3> HIDE DEF u, v, t
    <3> QED  BY <1>10, <2>1
  <2>3. IsRemoved(u \o v, memseg, i, Nat \X Nat)
    BY <1>1, Removed
  <2>4. IsRemoved(t, memseg, i, Nat \X Nat)
    BY <2>2, <2>3
  <2> HIDE DEF t, u, v
  <2>5. MemoryInv(A \cup {addr}, t)
    BY <2>4, <1>1, <1>3, <1>11, TakeAll
  <2> QED  BY <2>5, <1>5, <1>6 DEF t
<1>12. CASE addr + SegSize # r
  <2> DEFINE x == <<addr + SegSize, r>>
  <2>1. t = u \o <<x>> \o v
    <3> HIDE DEF u, v, t
    <3> QED  BY <1>10, <1>12 DEF NonEmpty
  <2>2. x \in Nat \X Nat
    BY <1>4
  <2> HIDE DEF x
  <2>3. IsReplaced(u \o <<x>> \o v, memseg, i, x, Nat \X Nat)
    BY <2>2, <1>1, Replaced
  <2>4. IsReplaced(t, memseg, i, x, Nat \X Nat)
    BY <2>1, <2>3
  <2> HIDE DEF t, u, v
  <2>5. addr + SegSize < r
    BY <1>3, <1>4, <1>12
  <2>6. MemoryInv(A \cup {addr}, t)
    BY <2>4, <2>5, <1>1, <1>3, TakeFirst DEF x
  <2> QED  BY <2>6, <1>5, <1>6 DEF t
<1> QED  BY <1>11, <1>12

-----------------------------------------------------------------------------
(***************************************************************************)
(* The inductive invariant.  G is what existing groups and failed          *)
(* creations hold (Given), L the set of the existing groups (Live).        *)
(***************************************************************************)
\* What CreateGroup takes for a group.
Gift == [addr : Nat, node : Seq(Nat), port : Ports, creation : Nat]
Addresses(G) == {G[g].addr : g \in DOMAIN G}

MemInv(G, ms) ==
    /\ MemoryInv(Addresses(G), ms)
    /\ \A g, h \in DOMAIN G : g # h => G[g].addr # G[h].addr

GroupsInv(G, fg) ==
    /\ fg \in Seq(Nat) /\ IsInjective(fg)
    /\ Range(fg) \cap DOMAIN G = {}
    /\ Range(fg) \cup DOMAIN G = 1 .. MaxGroupNum - 1

NodesOf(G) == UNION {Range(G[g].node) : g \in DOMAIN G}
NodesInv(G, fn) ==
    /\ fn \in Seq(Nat) /\ IsInjective(fn)
    /\ \A g \in DOMAIN G : IsInjective(G[g].node) /\ Range(fn) \cap Range(G[g].node) = {}
    /\ \A g, h \in DOMAIN G : g # h => Range(G[g].node) \cap Range(G[h].node) = {}
    /\ Range(fn) \cup NodesOf(G) = 1 .. MaxNodeNum - 1

PortsInv(G, cnt) ==
    /\ cnt \in [Ports -> Nat]
    /\ \A i \in Ports : cnt[i] = Cardinality({g \in DOMAIN G : G[g].port = i})

\* The entries of the members of a group, and its multicast nodes.
MemberEntries(G, g) == {<<g, k>> : k \in 0 .. Len(G[g].node) - 1}
NodeEntries(G, g) == {<<G[g].node[k], k - 1>> : k \in 1 .. Len(G[g].node)}

EntriesInv(G, L, members, nodes) ==
    /\ \A x \in members : \E g \in DOMAIN G : x \in MemberEntries(G, g)
    /\ \A x \in nodes : \E g \in DOMAIN G : x \in NodeEntries(G, g)
    /\ \A g \in L : MemberEntries(G, g) \subseteq members /\ NodeEntries(G, g) \subseteq nodes

TableInv(G, L, recirculate, metadata, mgid) ==
    /\ L \subseteq DOMAIN recirculate /\ DOMAIN recirculate \subseteq DOMAIN G
    /\ L \subseteq DOMAIN metadata /\ DOMAIN metadata \subseteq DOMAIN G
    /\ L \subseteq DOMAIN mgid /\ DOMAIN mgid \subseteq DOMAIN G
    /\ \A g \in DOMAIN mgid : mgid[g] = G[g].node
    /\ \A g \in DOMAIN metadata : metadata[g] = Len(G[g].node)

\* A job knows the creation of its group: no two jobs have the same group.
JobsInv(G, L, J, regs) ==
    /\ regs \in [Aggregators -> Nat]
    /\ \A job \in J :
         /\ job \in [group : Nat, creation : Nat]
         /\ job.group \in L /\ G[job.group].creation = job.creation
         /\ \A a \in G[job.group].addr .. G[job.group].addr + SegSize - 1 :
              regs[a] \in {0, job.creation}

CInv ==
    /\ creates \in Nat
    /\ Live \cap DOMAIN leaked = {}
    /\ Given \in [Held -> Gift]
    /\ MemInv(Given, memseg)
    /\ GroupsInv(Given, free_group)
    /\ NodesInv(Given, free_node)
    /\ PortsInv(Given, recir_port_cnt)
    /\ EntriesInv(Given, Live, restore_table, pre_node)
    /\ TableInv(Given, Live, recirculate_table, metadata_table, pre_mgid)
    /\ JobsInv(Given, Live, jobs, reg_bitmap)

-----------------------------------------------------------------------------
\* Functions with one more argument, and one less.
LEMMA WithFacts ==
    ASSUME NEW f, NEW x, NEW y
    PROVE  /\ DOMAIN With(f, x, y) = DOMAIN f \cup {x}
           /\ With(f, x, y)[x] = y
           /\ \A z \in DOMAIN f : z # x => With(f, x, y)[z] = f[z]
BY DEF With

LEMMA WithoutFacts ==
    ASSUME NEW f, NEW x
    PROVE  /\ DOMAIN Without(f, x) = DOMAIN f \ {x}
           /\ \A z \in DOMAIN f \ {x} : Without(f, x)[z] = f[z]
BY DEF Without, Restrict

\* The memory of a new group, and of one destroyed.
LEMMA GiveMem ==
    ASSUME NEW G, MemInv(G, memseg), NEW g, g \notin DOMAIN G,
           NEW i \in fit_seg, NEW addr \in addr_in_seg(memseg[i]), NEW u, u.addr = addr
    PROVE  MemInv(With(G, g, u), alloc_seg(i, addr, addr + SegSize))
<1> DEFINE H == With(G, g, u)
           ms == alloc_seg(i, addr, addr + SegSize)
<1>1. MemoryInv(Addresses(G), memseg)
  BY DEF MemInv
<1>2. addr \notin Addresses(G) /\ MemoryInv(Addresses(G) \cup {addr}, ms)
  BY <1>1, AllocSeg
<1>3. /\ DOMAIN H = DOMAIN G \cup {g} /\ H[g] = u
      /\ \A z \in DOMAIN G : z # g => H[z] = G[z]
  BY DEF With
<1> HIDE DEF H, ms
<1>4. Addresses(H) = Addresses(G) \cup {addr}
  BY <1>3 DEF Addresses
<1>5. ASSUME NEW a \in DOMAIN H, NEW b \in DOMAIN H, a # b PROVE H[a].addr # H[b].addr
  BY <1>2, <1>3, <1>5 DEF Addresses, MemInv
<1>6. MemInv(H, ms)
  BY <1>2, <1>4, <1>5 DEF MemInv
<1> QED  BY <1>6 DEF H, ms

LEMMA ReturnMem ==
    ASSUME NEW G, MemInv(G, memseg), NEW g \in DOMAIN G
    PROVE  MemInv(Without(G, g), free_seg(G[g].addr, G[g].addr + SegSize))
<1> DEFINE H == Without(G, g)
           a == G[g].addr
           ms == free_seg(a, a + SegSize)
<1>1. MemoryInv(Addresses(G), memseg) /\ a \in Addresses(G)
  BY DEF MemInv, Addresses
<1>2. MemoryInv(Addresses(G) \ {a}, ms)
  <2> HIDE DEF a
  <2> QED  BY <1>1, FreeSeg
<1>3. DOMAIN H = DOMAIN G \ {g} /\ \A z \in DOMAIN G \ {g} : H[z] = G[z]
  BY WithoutFacts
<1> HIDE DEF H, ms
<1>4. Addresses(H) = Addresses(G) \ {a}
  BY <1>3 DEF Addresses, MemInv
<1>5. ASSUME NEW x \in DOMAIN H, NEW y \in DOMAIN H, x # y PROVE H[x].addr # H[y].addr
  BY <1>3, <1>5 DEF MemInv
<1>6. MemInv(H, ms)
  BY <1>2, <1>4, <1>5 DEF MemInv
<1> QED  BY <1>6 DEF H, ms

\* Group ids go round.
LEMMA GiveGroup ==
    ASSUME NEW G, NEW fg, GroupsInv(G, fg), fg # <<>>, NEW u
    PROVE  Head(fg) \notin DOMAIN G /\ Head(fg) \in Nat /\ GroupsInv(With(G, Head(fg), u), Tail(fg))
<1> DEFINE g == Head(fg)
           t == Tail(fg)
           H == With(G, g, u)
<1>1. fg \in Seq(Nat) /\ IsInjective(fg) /\ DOMAIN fg = 1 .. Len(fg) /\ Len(fg) \in Nat /\ Len(fg) > 0
  BY DEF GroupsInv
<1>2. /\ g = fg[1] /\ g \in Nat /\ 1 \in DOMAIN fg
      /\ t \in Seq(Nat) /\ Len(t) = Len(fg) - 1 /\ DOMAIN t = 1 .. Len(fg) - 1
      /\ \A k \in 1 .. Len(fg) - 1 : t[k] = fg[k + 1]
  BY <1>1
<1>3. DOMAIN H = DOMAIN G \cup {g}
  BY WithFacts
<1> HIDE DEF g, t, H
<1>4. g \in Range(fg)
  BY <1>2 DEF Range
<1>5. ASSUME NEW k \in 1 .. Len(fg) - 1 PROVE k + 1 \in DOMAIN fg /\ k + 1 # 1 /\ t[k] = fg[k + 1]
  BY <1>1, <1>2
<1>6. IsInjective(t)
  <2>1. ASSUME NEW j \in DOMAIN t, NEW k \in DOMAIN t, t[j] = t[k] PROVE j = k
    <3>1. j + 1 = k + 1
      BY <1>1, <1>2, <1>5, <2>1 DEF IsInjective
    <3> QED  BY <3>1, <1>2
  <2> QED  BY <2>1 DEF IsInjective
<1>7. Range(t) = Range(fg) \ {g}
  <2>1. ASSUME NEW x \in Range(t) PROVE x \in Range(fg) \ {g}
    <3>1. PICK k \in DOMAIN t : x = t[k]
      BY DEF Range
    <3>2. k + 1 \in DOMAIN fg /\ k + 1 # 1 /\ x = fg[k + 1]
      BY <3>1, <1>2, <1>5
    <3> QED  BY <3>2, <1>1, <1>2 DEF Range, IsInjective
  <2>2. ASSUME NEW x \in Range(fg) \ {g} PROVE x \in Range(t)
    <3>1. PICK k \in DOMAIN fg : x = fg[k]
      BY DEF Range
    <3>2. k # 1
      BY <3>1, <1>2
    <3>3. k - 1 \in 1 .. Len(fg) - 1 /\ k = (k - 1) + 1
      BY <3>2, <1>1
    <3>4. t[k - 1] = x
      BY <3>1, <3>3, <1>2
    <3> QED  BY <3>3, <3>4, <1>2 DEF Range
  <2> QED  BY <2>1, <2>2
<1>8. g \notin DOMAIN G
  BY <1>4 DEF GroupsInv
<1>9. GroupsInv(H, t)
  <2>1. Range(fg) \cap DOMAIN G = {} /\ Range(fg) \cup DOMAIN G = 1 .. MaxGroupNum - 1
    BY DEF GroupsInv
  <2>2. Range(t) \cap DOMAIN H = {} /\ Range(t) \cup DOMAIN H = 1 .. MaxGroupNum - 1
    BY <2>1, <1>3, <1>4, <1>7
  <2> QED  BY <2>2, <1>2, <1>6 DEF GroupsInv
<1> QED  BY <1>2, <1>8, <1>9 DEF g, t, H

LEMMA ReturnGroup ==
    ASSUME NEW G, NEW fg, GroupsInv(G, fg), NEW g \in DOMAIN G
    PROVE  g \in Nat /\ GroupsInv(Without(G, g), Append(fg, g))
<1> DEFINE t == Append(fg, g)
           H == Without(G, g)
<1>0. g \in Nat
  <2>1. g \in 1 .. MaxGroupNum - 1
    BY DEF GroupsInv
  <2> QED  BY <2>1, ControllerAssumption
<1>1. fg \in Seq(Nat) /\ IsInjective(fg) /\ DOMAIN fg = 1 .. Len(fg) /\ Len(fg) \in Nat
  BY DEF GroupsInv
<1>2. /\ t \in Seq(Nat) /\ Len(t) = Len(fg) + 1 /\ DOMAIN t = 1 .. Len(fg) + 1
      /\ t[Len(fg) + 1] = g /\ \A k \in 1 .. Len(fg) : t[k] = fg[k]
  BY <1>0, <1>1
<1>3. DOMAIN H = DOMAIN G \ {g}
  BY WithoutFacts
<1> HIDE DEF t, H
<1>4. g \notin Range(fg)
  BY DEF GroupsInv
<1>5. ASSUME NEW k \in DOMAIN t PROVE (k \in DOMAIN fg /\ t[k] = fg[k]) \/ (k = Len(fg) + 1 /\ t[k] = g)
  BY <1>1, <1>2
<1>6. IsInjective(t)
  <2>1. ASSUME NEW j \in DOMAIN t, NEW k \in DOMAIN t, t[j] = t[k] PROVE j = k
    BY <1>1, <1>4, <1>5, <2>1 DEF IsInjective, Range
  <2> QED  BY <2>1 DEF IsInjective
<1>7. Range(t) = Range(fg) \cup {g}
  <2>1. ASSUME NEW x \in Range(t) PROVE x \in Range(fg) \cup {g}
    BY <1>5 DEF Range
  <2>2. ASSUME NEW x \in Range(fg) PROVE x \in Range(t)
    <3>1. PICK k \in DOMAIN fg : x = fg[k]
      BY DEF Range
    <3>2. k \in DOMAIN t /\ t[k] = x
      BY <3>1, <1>1, <1>2
    <3> QED  BY <3>2 DEF Range
  <2>3. g \in Range(t)
    <3>1. Len(fg) + 1 \in DOMAIN t
      BY <1>1, <1>2
    <3> QED  BY <3>1, <1>2 DEF Range
  <2> QED  BY <2>1, <2>2, <2>3
<1>8. GroupsInv(H, t)
  <2>1. Range(fg) \cap DOMAIN G = {} /\ Range(fg) \cup DOMAIN G = 1 .. MaxGroupNum - 1
    BY DEF GroupsInv
  <2>2. Range(t) \cap DOMAIN H = {} /\ Range(t) \cup DOMAIN H = 1 .. MaxGroupNum - 1
    BY <2>1, <1>3, <1>4, <1>7
  <2> QED  BY <2>2, <1>2, <1>6 DEF GroupsInv
<1> QED  BY <1>0, <1>8 DEF t, H

\* A list without repetitions, cut in two.
Split(s, u, v) ==
    /\ IsInjective(u) /\ IsInjective(v)
    /\ Range(u) \cap Range(v) = {}
    /\ Range(u) \cup Range(v) = Range(s)

LEMMA CutInTwo ==
    ASSUME NEW s \in Seq(Nat), IsInjective(s), NEW n \in 0 .. Len(s)
    PROVE  Split(s, SubSeq(s, 1, n), SubSeq(s, n + 1, Len(s)))
<1> DEFINE u == SubSeq(s, 1, n)
           v == SubSeq(s, n + 1, Len(s))
<1>1. u \in Seq(Nat) /\ Len(u) = n /\ \A k \in 1 .. n : u[k] = s[k]
  BY PartOf
<1>2. v \in Seq(Nat) /\ Len(v) = Len(s) - n /\ \A k \in 1 .. Len(s) - n : v[k] = s[n + k]
  BY PartOf
<1>3. DOMAIN u = 1 .. n /\ DOMAIN v = 1 .. Len(s) - n /\ DOMAIN s = 1 .. Len(s) /\ Len(s) \in Nat
  <2> HIDE DEF u, v
  <2> QED  BY <1>1, <1>2
<1> HIDE DEF u, v
<1>4. ASSUME NEW k \in DOMAIN u PROVE k \in DOMAIN s /\ k <= n /\ u[k] = s[k]
  BY <1>1, <1>3
<1>5. ASSUME NEW k \in DOMAIN v PROVE n + k \in DOMAIN s /\ n + k > n /\ v[k] = s[n + k]
  <2>1. k \in 1 .. Len(s) - n
    BY <1>3
  <2>2. n + k \in 1 .. Len(s) /\ n + k > n
    BY <2>1, <1>3
  <2> QED  BY <2>1, <2>2, <1>2, <1>3
<1>6. IsInjective(u)
  BY <1>4 DEF IsInjective
<1>7. IsInjective(v)
  <2>1. ASSUME NEW j \in DOMAIN v, NEW k \in DOMAIN v, v[j] = v[k] PROVE j = k
    <3>1. n + j = n + k
      BY <1>5, <2>1 DEF IsInjective
    <3> QED  BY <3>1, <1>3
  <2> QED  BY <2>1 DEF IsInjective
<1>8. Range(u) \cap Range(v) = {}
  <2>1. ASSUME NEW j \in DOMAIN u, NEW k \in DOMAIN v PROVE u[j] # v[k]
    <3>1. j # n + k
      BY <1>3
    <3> QED  BY <3>1, <1>4, <1>5 DEF IsInjective
  <2> QED  BY <2>1 DEF Range
<1>9. Range(u) \cup Range(v) = Range(s)
  <2>1. ASSUME NEW k \in DOMAIN s PROVE s[k] \in Range(u) \cup Range(v)
    <3>1. CASE k <= n
      <4>1. k \in DOMAIN u /\ u[k] = s[k]
        BY <3>1, <1>1, <1>3
      <4> QED  BY <4>1 DEF Range
    <3>2. CASE k > n
      <4>1. k - n \in DOMAIN v /\ n + (k - n) = k
        BY <3>2, <1>3
      <4>2. v[k - n] = s[k]
        BY <4>1, <1>5
      <4> QED  BY <4>1, <4>2 DEF Range
    <3> QED  BY <3>1, <3>2, <1>3
  <2> QED  BY <2>1, <1>4, <1>5 DEF Range
<1>10. Split(s, u, v)
  BY <1>6, <1>7, <1>8, <1>9 DEF Split
<1> QED  BY <1>10 DEF u, v

LEMMA PutTogether ==
    ASSUME NEW u \in Seq(Nat), NEW v \in Seq(Nat), IsInjective(u), IsInjective(v),
           Range(u) \cap Range(v) = {}
    PROVE  /\ u \o v \in Seq(Nat) /\ IsInjective(u \o v)
           /\ Range(u \o v) = Range(u) \cup Range(v)
<1> DEFINE t == u \o v
<1>1. Concatenation(t, u, v, Nat)
  BY Joined
<1>2. /\ t \in Seq(Nat) /\ DOMAIN t = 1 .. Len(u) + Len(v) /\ Len(u) \in Nat /\ Len(v) \in Nat
      /\ DOMAIN u = 1 .. Len(u) /\ DOMAIN v = 1 .. Len(v)
  <2> HIDE DEF t
  <2> QED  BY <1>1 DEF Concatenation
<1> HIDE DEF t
<1>3. ASSUME NEW k \in DOMAIN u PROVE k \in DOMAIN t /\ t[k] = u[k]
  BY <1>1, <1>2 DEF Concatenation
<1>4. ASSUME NEW k \in DOMAIN v PROVE Len(u) + k \in DOMAIN t /\ t[Len(u) + k] = v[k]
  BY <1>1, <1>2 DEF Concatenation
<1>5. ASSUME NEW k \in DOMAIN t
      PROVE  \/ k \in DOMAIN u /\ t[k] = u[k]
             \/ k - Len(u) \in DOMAIN v /\ k > Len(u) /\ t[k] = v[k - Len(u)]
  <2>1. CASE k <= Len(u)
    <3>1. k \in DOMAIN u
      BY <2>1, <1>2
    <3> QED  BY <3>1, <1>3
  <2>2. CASE k > Len(u)
    <3>1. k - Len(u) \in DOMAIN v /\ Len(u) + (k - Len(u)) = k
      BY <2>2, <1>2
    <3>2. t[Len(u) + (k - Len(u))] = v[k - Len(u)]
      BY <3>1, <1>4
    <3> QED  BY <3>1, <3>2, <2>2
  <2>3. k <= Len(u) \/ k > Len(u)
    BY <1>2
  <2> QED  BY <2>1, <2>2, <2>3
<1>6. ASSUME NEW j \in DOMAIN t, NEW k \in DOMAIN t, t[j] = t[k] PROVE j = k
  <2>1. CASE j \in DOMAIN u /\ t[j] = u[j] /\ k \in DOMAIN u /\ t[k] = u[k]
    BY <2>1, <1>6 DEF IsInjective
  <2>2. CASE /\ j - Len(u) \in DOMAIN v /\ t[j] = v[j - Len(u)]
             /\ k - Len(u) \in DOMAIN v /\ t[k] = v[k - Len(u)]
    <3>1. j - Len(u) = k - Len(u)
      BY <2>2, <1>6 DEF IsInjective
    <3> QED  BY <3>1, <1>2
  <2>3. ASSUME NEW x \in DOMAIN u, NEW y \in DOMAIN v PROVE u[x] # v[y]
    BY DEF Range
  <2> QED  BY <2>1, <2>2, <2>3, <1>5, <1>6
<1>7. Range(t) = Range(u) \cup Range(v)
  <2>1. ASSUME NEW x \in Range(t) PROVE x \in Range(u) \cup Range(v)
    BY <1>5 DEF Range
  <2>2. ASSUME NEW x \in Range(u) PROVE x \in Range(t)
    BY <1>3 DEF Range
  <2>3. ASSUME NEW x \in Range(v) PROVE x \in Range(t)
    BY <1>4 DEF Range
  <2> QED  BY <2>1, <2>2, <2>3
<1> QED  BY <1>2, <1>6, <1>7 DEF t, IsInjective

\* A node of some group.
LEMMA NodeOwner ==
    ASSUME NEW G, NEW x
    PROVE  x \in NodesOf(G) <=> \E h \in DOMAIN G : x \in Range(G[h].node)
BY DEF NodesOf

\* Multicast nodes go round.
LEMMA GiveNodes ==
    ASSUME NEW G, NEW fn, NodesInv(G, fn), NEW g, g \notin DOMAIN G, NEW n \in 0 .. Len(fn),
           NEW u, u.node = SubSeq(fn, 1, n)
    PROVE  NodesInv(With(G, g, u), SubSeq(fn, n + 1, Len(fn)))
<1> DEFINE H == With(G, g, u)
           w == SubSeq(fn, 1, n)
           v == SubSeq(fn, n + 1, Len(fn))
<1>1. fn \in Seq(Nat) /\ IsInjective(fn)
  BY DEF NodesInv
<1>2. Split(fn, w, v) /\ v \in Seq(Nat)
  BY <1>1, CutInTwo
<1>3. /\ DOMAIN H = DOMAIN G \cup {g} /\ H[g] = u
      /\ \A z \in DOMAIN G : z # g => H[z] = G[z]
  BY DEF With
<1>4. H[g].node = w
  BY <1>3
<1> HIDE DEF H, w, v
<1>5. /\ Range(w) \cap Range(v) = {} /\ Range(w) \cup Range(v) = Range(fn)
      /\ IsInjective(w) /\ IsInjective(v)
  BY <1>2 DEF Split
<1>6. ASSUME NEW h \in DOMAIN G
      PROVE  /\ H[h] = G[h] /\ h # g
             /\ IsInjective(G[h].node) /\ Range(fn) \cap Range(G[h].node) = {}
  BY <1>3 DEF NodesInv
<1>7. ASSUME NEW h \in DOMAIN H
      PROVE  IsInjective(H[h].node) /\ Range(v) \cap Range(H[h].node) = {}
  <2>1. CASE h = g
    BY <2>1, <1>4, <1>5
  <2>2. CASE h \in DOMAIN G
    BY <2>2, <1>5, <1>6
  <2> QED  BY <2>1, <2>2, <1>3
<1>8. ASSUME NEW h \in DOMAIN H, NEW k \in DOMAIN H, h # k
      PROVE  Range(H[h].node) \cap Range(H[k].node) = {}
  <2>1. CASE h = g
    <3>1. k \in DOMAIN G
      BY <2>1, <1>3, <1>8
    <3> QED  BY <2>1, <3>1, <1>4, <1>5, <1>6
  <2>2. CASE k = g
    <3>1. h \in DOMAIN G
      BY <2>2, <1>3, <1>8
    <3> QED  BY <2>2, <3>1, <1>4, <1>5, <1>6
  <2>3. CASE h \in DOMAIN G /\ k \in DOMAIN G
    BY <2>3, <1>6, <1>8 DEF NodesInv
  <2> QED  BY <2>1, <2>2, <2>3, <1>3
<1>9. NodesOf(H) = NodesOf(G) \cup Range(w)
  <2>1. ASSUME NEW h \in DOMAIN H PROVE h = g \/ (h \in DOMAIN G /\ H[h] = G[h])
    BY <1>3, <1>6
  <2>2. g \in DOMAIN H
    BY <1>3
  <2>3. ASSUME NEW h \in DOMAIN G PROVE h \in DOMAIN H /\ H[h] = G[h]
    BY <1>3, <1>6
  <2>4. ASSUME NEW x \in NodesOf(H) PROVE x \in NodesOf(G) \cup Range(w)
    BY <2>1, <1>4, NodeOwner
  <2>5. ASSUME NEW x \in NodesOf(G) \cup Range(w) PROVE x \in NodesOf(H)
    BY <2>2, <2>3, <1>4, NodeOwner
  <2> QED  BY <2>4, <2>5
<1>10. Range(v) \cup NodesOf(H) = 1 .. MaxNodeNum - 1
  <2>1. Range(fn) \cup NodesOf(G) = 1 .. MaxNodeNum - 1
    BY DEF NodesInv
  <2> QED  BY <2>1, <1>5, <1>9
<1>11. NodesInv(H, v)
  BY <1>2, <1>5, <1>7, <1>8, <1>10 DEF NodesInv
<1> QED  BY <1>11 DEF H, v

LEMMA ReturnNodesKeeps ==
    ASSUME NEW G, NEW fn, NodesInv(G, fn), NEW g \in DOMAIN G, G[g].node \in Seq(Nat)
    PROVE  NodesInv(Without(G, g), fn \o G[g].node)
<1> DEFINE H == Without(G, g)
           w == G[g].node
           v == fn \o w
<1>1. /\ fn \in Seq(Nat) /\ IsInjective(fn) /\ w \in Seq(Nat) /\ IsInjective(w)
      /\ Range(fn) \cap Range(w) = {}
  BY DEF NodesInv
<1>2. v \in Seq(Nat) /\ IsInjective(v) /\ Range(v) = Range(fn) \cup Range(w)
  <2> HIDE DEF w
  <2> QED  BY <1>1, PutTogether
<1>3. DOMAIN H = DOMAIN G \ {g} /\ \A z \in DOMAIN G \ {g} : H[z] = G[z]
  BY WithoutFacts, Zenon
<1> HIDE DEF H, v
<1>4. ASSUME NEW h \in DOMAIN H
      PROVE  /\ h \in DOMAIN G /\ h # g /\ H[h] = G[h]
             /\ IsInjective(G[h].node) /\ Range(fn) \cap Range(G[h].node) = {}
             /\ Range(w) \cap Range(G[h].node) = {}
  <2>1. h \in DOMAIN G /\ h # g /\ H[h] = G[h]
    BY <1>3
  <2> QED  BY <2>1 DEF NodesInv
<1>5. ASSUME NEW h \in DOMAIN H
      PROVE  IsInjective(H[h].node) /\ Range(v) \cap Range(H[h].node) = {}
  BY <1>2, <1>4
<1>6. ASSUME NEW h \in DOMAIN H, NEW k \in DOMAIN H, h # k
      PROVE  Range(H[h].node) \cap Range(H[k].node) = {}
  BY <1>4, <1>6 DEF NodesInv
<1>7. NodesOf(G) = NodesOf(H) \cup Range(w)
  <2>1. ASSUME NEW h \in DOMAIN G PROVE h = g \/ (h \in DOMAIN H /\ H[h] = G[h])
    BY <1>3
  <2>2. ASSUME NEW x \in NodesOf(G) PROVE x \in NodesOf(H) \cup Range(w)
    BY <2>1, NodeOwner
  <2>3. ASSUME NEW x \in NodesOf(H) \cup Range(w) PROVE x \in NodesOf(G)
    BY <1>4, NodeOwner
  <2> QED  BY <2>2, <2>3
<1>8. Range(v) \cup NodesOf(H) = 1 .. MaxNodeNum - 1
  <2>1. Range(fn) \cup NodesOf(G) = 1 .. MaxNodeNum - 1
    BY DEF NodesInv
  <2> HIDE DEF w
  <2> QED  BY <2>1, <1>2, <1>7
<1>9. NodesInv(H, v)
  BY <1>2, <1>5, <1>6, <1>8 DEF NodesInv
<1> QED  BY <1>9 DEF H, v

\* There is a least used recirculation port.
LEMMA PortSelected ==
    ASSUME recir_port_cnt \in [Ports -> Nat]
    PROVE  select_recir_port_idx \in Ports
<1> DEFINE V == {recir_port_cnt[i] : i \in Ports}
           S == {i \in Ports : \A j \in Ports : recir_port_cnt[i] <= recir_port_cnt[j]}
<1>1. 1 \in Ports /\ Ports \in SUBSET Nat
  BY ControllerAssumption DEF Ports
<1>2. V \in SUBSET Nat /\ V # {}
  BY <1>1
<1>3. PICK x \in V : \A y \in V : x <= y
  <2> HIDE DEF V
  <2> QED  BY <1>2, LeastExists
<1>4. S # {}
  <2>1. PICK i \in Ports : x = recir_port_cnt[i]
    OBVIOUS
  <2>2. i \in S
    BY <1>3, <2>1
  <2> QED  BY <2>2
<1>5. Min(S) \in S
  <2>1. S \in SUBSET Nat
    BY <1>1
  <2> HIDE DEF S
  <2> QED  BY <2>1, <1>4, MinIsLeast
<1> QED  BY <1>5 DEF select_recir_port_idx

\* The counters count the groups on each port.
Users(G, i) == {g \in DOMAIN G : G[g].port = i}

LEMMA GivePort ==
    ASSUME NEW G, NEW cnt, PortsInv(G, cnt), IsFiniteSet(DOMAIN G), NEW g, g \notin DOMAIN G,
           NEW u, u.port \in Ports
    PROVE  PortsInv(With(G, g, u), [cnt EXCEPT ![u.port] = @ + 1])
<1> DEFINE H == With(G, g, u)
           p == u.port
           d == [cnt EXCEPT ![p] = @ + 1]
<1>1. /\ DOMAIN H = DOMAIN G \cup {g} /\ H[g] = u
      /\ \A z \in DOMAIN G : z # g => H[z] = G[z]
  BY DEF With
<1>2. cnt \in [Ports -> Nat] /\ \A i \in Ports : cnt[i] = Cardinality(Users(G, i))
  BY DEF PortsInv, Users
<1>3. d \in [Ports -> Nat] /\ d[p] = cnt[p] + 1 /\ \A i \in Ports : i # p => d[i] = cnt[i]
  BY <1>2
<1> HIDE DEF H, d
<1>4. Users(H, p) = Users(G, p) \cup {g} /\ g \notin Users(G, p)
  BY <1>1 DEF Users
<1>5. ASSUME NEW i \in Ports, i # p PROVE Users(H, i) = Users(G, i)
  BY <1>1, <1>5 DEF Users
<1>6. IsFiniteSet(Users(G, p))
  BY FS_Subset DEF Users
<1>7. Cardinality(Users(H, p)) = Cardinality(Users(G, p)) + 1
  BY <1>4, <1>6, FS_AddElement
<1>8. ASSUME NEW i \in Ports PROVE d[i] = Cardinality(Users(H, i))
  <2>1. CASE i = p
    BY <2>1, <1>2, <1>3, <1>7
  <2>2. CASE i # p
    BY <2>2, <1>2, <1>3, <1>5
  <2> QED  BY <2>1, <2>2
<1>9. PortsInv(H, d)
  BY <1>3, <1>8 DEF PortsInv, Users
<1> QED  BY <1>9 DEF H, d

LEMMA ReturnPort ==
    ASSUME NEW G, NEW cnt, PortsInv(G, cnt), IsFiniteSet(DOMAIN G), NEW g \in DOMAIN G,
           G[g].port \in Ports
    PROVE  PortsInv(Without(G, g), [cnt EXCEPT ![G[g].port] = @ - 1])
<1> DEFINE H == Without(G, g)
           p == G[g].port
           d == [cnt EXCEPT ![p] = @ - 1]
<1>1. DOMAIN H = DOMAIN G \ {g} /\ \A z \in DOMAIN G \ {g} : H[z] = G[z]
  BY WithoutFacts, Zenon
<1>2. cnt \in [Ports -> Nat] /\ \A i \in Ports : cnt[i] = Cardinality(Users(G, i))
  BY DEF PortsInv, Users
<1>3. d \in [Ports -> Int] /\ d[p] = cnt[p] - 1 /\ \A i \in Ports : i # p => d[i] = cnt[i]
  BY <1>2
<1> HIDE DEF d
<1>4. Users(H, p) = Users(G, p) \ {g} /\ g \in Users(G, p)
  <2> HIDE DEF H
  <2> QED  BY <1>1 DEF Users
<1> HIDE DEF H
<1>5. ASSUME NEW i \in Ports, i # p PROVE Users(H, i) = Users(G, i)
  BY <1>1, <1>5 DEF Users
<1>6. \A i : IsFiniteSet(Users(G, i))
  BY FS_Subset DEF Users
<1>7. Cardinality(Users(H, p)) = Cardinality(Users(G, p)) - 1 /\ IsFiniteSet(Users(H, p))
  BY <1>4, <1>6, FS_RemoveElement
<1>8. ASSUME NEW i \in Ports PROVE d[i] = Cardinality(Users(H, i)) /\ d[i] \in Nat
  <2>1. CASE i = p
    <3>1. Cardinality(Users(H, p)) \in Nat
      BY <1>7, FS_CardinalityType
    <3> QED  BY <2>1, <3>1, <1>2, <1>3, <1>7
  <2>2. CASE i # p
    BY <2>2, <1>2, <1>3, <1>5
  <2> QED  BY <2>1, <2>2
<1>9. d \in [Ports -> Nat]
  BY <1>3, <1>8
<1>10. PortsInv(H, d)
  BY <1>8, <1>9 DEF PortsInv, Users
<1> QED  BY <1>10 DEF H, d

-----------------------------------------------------------------------------
\* A creation adds entries of the new group only; a group exists when it has
\* all of them.
LEMMA GiveEntries ==
    ASSUME NEW G, NEW L, L \subseteq DOMAIN G, NEW members, NEW nodes,
           EntriesInv(G, L, members, nodes), NEW g, g \notin DOMAIN G, NEW u,
           NEW X \in SUBSET MemberEntries(With(G, g, u), g),
           NEW Y \in SUBSET NodeEntries(With(G, g, u), g),
           NEW M, M = L \/ (/\ M = L \cup {g}
                          /\ X = MemberEntries(With(G, g, u), g)
                          /\ Y = NodeEntries(With(G, g, u), g))
    PROVE  EntriesInv(With(G, g, u), M, members \cup X, nodes \cup Y)
<1> DEFINE H == With(G, g, u)
<1>1. /\ DOMAIN H = DOMAIN G \cup {g}
      /\ \A z \in DOMAIN G : z # g => H[z] = G[z]
  BY DEF With
<1> HIDE DEF H
<1>2. ASSUME NEW h \in DOMAIN G
      PROVE  /\ h \in DOMAIN H /\ MemberEntries(H, h) = MemberEntries(G, h)
             /\ NodeEntries(H, h) = NodeEntries(G, h)
  <2>1. h \in DOMAIN H /\ H[h] = G[h]
    BY <1>1
  <2> QED  BY <2>1 DEF MemberEntries, NodeEntries
<1>3. g \in DOMAIN H /\ X \subseteq MemberEntries(H, g) /\ Y \subseteq NodeEntries(H, g)
  BY <1>1 DEF H
<1>4. ASSUME NEW x \in members \cup X PROVE \E h \in DOMAIN H : x \in MemberEntries(H, h)
  <2>1. CASE x \in members
    <3>1. PICK h \in DOMAIN G : x \in MemberEntries(G, h)
      BY <2>1 DEF EntriesInv
    <3> QED  BY <3>1, <1>2
  <2>2. CASE x \in X
    BY <2>2, <1>3
  <2> QED  BY <2>1, <2>2
<1>5. ASSUME NEW x \in nodes \cup Y PROVE \E h \in DOMAIN H : x \in NodeEntries(H, h)
  <2>1. CASE x \in nodes
    <3>1. PICK h \in DOMAIN G : x \in NodeEntries(G, h)
      BY <2>1 DEF EntriesInv
    <3> QED  BY <3>1, <1>2
  <2>2. CASE x \in Y
    BY <2>2, <1>3
  <2> QED  BY <2>1, <2>2
<1>6. ASSUME NEW h \in M
      PROVE  MemberEntries(H, h) \subseteq members \cup X /\ NodeEntries(H, h) \subseteq nodes \cup Y
  <2>1. CASE h \in L
    <3>1. h \in DOMAIN G /\ MemberEntries(G, h) \subseteq members /\ NodeEntries(G, h) \subseteq nodes
      BY <2>1 DEF EntriesInv
    <3>2. MemberEntries(H, h) = MemberEntries(G, h) /\ NodeEntries(H, h) = NodeEntries(G, h)
      BY <3>1, <1>2
    <3> QED  BY <3>1, <3>2
  <2>2. CASE h \notin L
    <3>1. h = g /\ X = MemberEntries(H, g) /\ Y = NodeEntries(H, g)
      BY <2>2 DEF H
    <3> QED  BY <3>1
  <2> QED  BY <2>1, <2>2
<1>7. EntriesInv(H, M, members \cup X, nodes \cup Y)
  BY <1>4, <1>5, <1>6 DEF EntriesInv
<1> QED  BY <1>7 DEF H

\* A destruction removes the entries of that group, and those only, as no node
\* belongs to two groups.
OtherMembers(members, G, g) == members \ ({g} \X (0 .. Len(G[g].node) - 1))
OtherNodes(nodes, G, g) == {x \in nodes : x[1] \notin Range(G[g].node)}

LEMMA ReturnEntries ==
    ASSUME NEW G, NEW L, L \subseteq DOMAIN G, NEW members, NEW nodes,
           EntriesInv(G, L, members, nodes), NEW fn, NodesInv(G, fn), NEW g \in DOMAIN G,
           \A h \in DOMAIN G : G[h].node \in Seq(Nat)
    PROVE  EntriesInv(Without(G, g), L \ {g}, OtherMembers(members, G, g), OtherNodes(nodes, G, g))
<1> DEFINE H == Without(G, g)
           P == OtherMembers(members, G, g)
           Q == OtherNodes(nodes, G, g)
<1> USE DEF OtherMembers, OtherNodes
<1>1. DOMAIN H = DOMAIN G \ {g} /\ \A z \in DOMAIN G \ {g} : H[z] = G[z]
  BY WithoutFacts, Zenon
<1> HIDE DEF H
<1>2. ASSUME NEW h \in DOMAIN G, h # g
      PROVE  /\ h \in DOMAIN H /\ MemberEntries(H, h) = MemberEntries(G, h)
             /\ NodeEntries(H, h) = NodeEntries(G, h)
  <2>1. h \in DOMAIN H /\ H[h] = G[h]
    BY <1>1, <1>2
  <2> QED  BY <2>1 DEF MemberEntries, NodeEntries
<1>3. ASSUME NEW h \in DOMAIN G, NEW x \in NodeEntries(G, h) PROVE x[1] \in Range(G[h].node)
  <2>1. PICK k \in 1 .. Len(G[h].node) : x = <<G[h].node[k], k - 1>>
    BY DEF NodeEntries
  <2>2. k \in DOMAIN G[h].node /\ x[1] = G[h].node[k]
    BY <2>1
  <2> QED  BY <2>2 DEF Range
<1>4. ASSUME NEW x \in P PROVE \E h \in DOMAIN H : x \in MemberEntries(H, h)
  <2>1. PICK h \in DOMAIN G : x \in MemberEntries(G, h)
    BY DEF EntriesInv
  <2>2. h # g
    BY <2>1 DEF MemberEntries
  <2> QED  BY <2>1, <2>2, <1>2
<1>5. ASSUME NEW x \in Q PROVE \E h \in DOMAIN H : x \in NodeEntries(H, h)
  <2>1. PICK h \in DOMAIN G : x \in NodeEntries(G, h)
    BY DEF EntriesInv
  <2>2. h # g
    BY <2>1, <1>3
  <2> QED  BY <2>1, <2>2, <1>2
<1>6. ASSUME NEW h \in L \ {g} PROVE MemberEntries(H, h) \subseteq P /\ NodeEntries(H, h) \subseteq Q
  <2>1. /\ h \in DOMAIN G /\ h # g
        /\ MemberEntries(G, h) \subseteq members /\ NodeEntries(G, h) \subseteq nodes
    BY DEF EntriesInv
  <2>2. MemberEntries(H, h) = MemberEntries(G, h) /\ NodeEntries(H, h) = NodeEntries(G, h)
    BY <2>1, <1>2
  <2>3. MemberEntries(G, h) \subseteq P
    BY <2>1 DEF MemberEntries
  <2>4. ASSUME NEW x \in NodeEntries(G, h) PROVE x \in Q
    <3>1. x[1] \in Range(G[h].node)
      BY <2>1, <1>3
    <3>2. Range(G[h].node) \cap Range(G[g].node) = {}
      BY <2>1 DEF NodesInv
    <3> QED  BY <3>1, <3>2, <2>1
  <2> QED  BY <2>2, <2>3, <2>4
<1> HIDE DEF P, Q, OtherMembers, OtherNodes
<1>7. EntriesInv(H, L \ {g}, P, Q)
  BY <1>4, <1>5, <1>6 DEF EntriesInv
<1> QED  BY <1>7 DEF H, P, Q

LEMMA GiveTables ==
    ASSUME NEW G, NEW L, L \subseteq DOMAIN G, NEW rt, NEW mt, NEW mg,
           TableInv(G, L, rt, mt, mg), NEW g, g \notin DOMAIN G, NEW u, NEW port,
           NEW rt2, rt2 = rt \/ rt2 = With(rt, g, port),
           NEW mt2, mt2 = mt \/ mt2 = With(mt, g, Len(u.node)),
           NEW mg2, mg2 = mg \/ mg2 = With(mg, g, u.node),
           NEW M, M = L \/ (/\ M = L \cup {g}
                          /\ rt2 = With(rt, g, port)
                          /\ mt2 = With(mt, g, Len(u.node))
                          /\ mg2 = With(mg, g, u.node))
    PROVE  TableInv(With(G, g, u), M, rt2, mt2, mg2)
<1> DEFINE H == With(G, g, u)
<1>1. /\ DOMAIN H = DOMAIN G \cup {g} /\ H[g] = u
      /\ \A z \in DOMAIN G : z # g => H[z] = G[z]
  BY DEF With
<1>2. /\ DOMAIN With(rt, g, port) = DOMAIN rt \cup {g}
      /\ DOMAIN With(mt, g, Len(u.node)) = DOMAIN mt \cup {g}
      /\ DOMAIN With(mg, g, u.node) = DOMAIN mg \cup {g}
  BY DEF With
<1>3. /\ \A z \in DOMAIN mt2 : mt2[z] = IF z = g THEN Len(u.node) ELSE mt[z]
      /\ \A z \in DOMAIN mg2 : mg2[z] = IF z = g THEN u.node ELSE mg[z]
  <2>1. g \notin DOMAIN mt /\ g \notin DOMAIN mg
    BY Zenon DEF TableInv
  <2> QED  BY <2>1 DEF With
<1> HIDE DEF H
<1>4. /\ M \subseteq DOMAIN rt2 /\ DOMAIN rt2 \subseteq DOMAIN H
      /\ M \subseteq DOMAIN mt2 /\ DOMAIN mt2 \subseteq DOMAIN H
      /\ M \subseteq DOMAIN mg2 /\ DOMAIN mg2 \subseteq DOMAIN H
  BY <1>1, <1>2 DEF TableInv
<1>5. ASSUME NEW h \in DOMAIN mg2 PROVE mg2[h] = H[h].node
  BY <1>1, <1>2, <1>3 DEF TableInv
<1>6. ASSUME NEW h \in DOMAIN mt2 PROVE mt2[h] = Len(H[h].node)
  BY <1>1, <1>2, <1>3 DEF TableInv
<1>7. TableInv(H, M, rt2, mt2, mg2)
  BY <1>4, <1>5, <1>6 DEF TableInv
<1> QED  BY <1>7 DEF H

LEMMA ReturnTables ==
    ASSUME NEW G, NEW L, NEW rt, NEW mt, NEW mg, TableInv(G, L, rt, mt, mg), NEW g \in DOMAIN G
    PROVE  TableInv(Without(G, g), L \ {g}, Without(rt, g), Without(mt, g), Without(mg, g))
<1>1. \A f : /\ DOMAIN Without(f, g) = DOMAIN f \ {g}
            /\ \A z \in DOMAIN f \ {g} : Without(f, g)[z] = f[z]
  BY WithoutFacts
<1> QED  BY <1>1, ZenonT(30) DEF TableInv

-----------------------------------------------------------------------------
\* What JobsInv says of one job.
JobOK(G, L, regs, job) ==
    /\ job \in [group : Nat, creation : Nat]
    /\ job.group \in L /\ G[job.group].creation = job.creation
    /\ \A a \in G[job.group].addr .. G[job.group].addr + SegSize - 1 :
         regs[a] \in {0, job.creation}

LEMMA JobsInvSplit ==
    ASSUME NEW G, NEW L, NEW J, NEW regs
    PROVE  JobsInv(G, L, J, regs) <=>
             regs \in [Aggregators -> Nat] /\ \A job \in J : JobOK(G, L, regs, job)
BY DEF JobsInv, JobOK

\* The job of a group is known by the group.
LEMMA SameJob ==
    ASSUME NEW G, NEW L, NEW regs, NEW j, NEW k, JobOK(G, L, regs, j), JobOK(G, L, regs, k),
           j.group = k.group
    PROVE  j = k
<1>1. j.creation = k.creation
  BY DEF JobOK
<1> QED  BY <1>1 DEF JobOK

\* A creation that fails concerns no job.
LEMMA FailedJobs ==
    ASSUME NEW G, NEW L, L \subseteq DOMAIN G, NEW J, NEW regs, JobsInv(G, L, J, regs),
           NEW g, g \notin DOMAIN G, NEW u
    PROVE  JobsInv(With(G, g, u), L, J, regs)
<1> DEFINE H == With(G, g, u)
<1>1. \A z \in DOMAIN G : H[z] = G[z]
  BY DEF With
<1> HIDE DEF H
<1>2. ASSUME NEW job \in J PROVE JobOK(H, L, regs, job)
  <2>1. JobOK(G, L, regs, job)
    BY JobsInvSplit
  <2>2. H[job.group] = G[job.group]
    BY <2>1, <1>1 DEF JobOK
  <2> QED  BY <2>1, <2>2 DEF JobOK
<1>3. JobsInv(H, L, J, regs)
  BY <1>2, JobsInvSplit
<1> QED  BY <1>3 DEF H

\* The aggregators of a segment handed out exist.
LEMMA InMemory ==
    ASSUME NEW x, SegmentAt(x), NEW a \in x .. x + SegSize - 1
    PROVE  a \in Aggregators
BY ControllerAssumption DEF SegmentAt, Aggregators

\* A new job starts with aggregators without version.
LEMMA NewJob ==
    ASSUME NEW G, NEW L, L \subseteq DOMAIN G, NEW J, JobsInv(G, L, J, reg_bitmap),
           \A h \in DOMAIN G : SegmentAt(G[h].addr),
           NEW g \in Nat, g \notin DOMAIN G, NEW u, u.creation \in Nat, SegmentAt(u.addr)
    PROVE  JobsInv(With(G, g, u), L \cup {g}, J \cup {[group |-> g, creation |-> u.creation]},
                   ResetBitmap(u.addr))
<1> DEFINE H == With(G, g, u)
           M == L \cup {g}
           new == [group |-> g, creation |-> u.creation]
           regs == ResetBitmap(u.addr)
<1>1. H[g] = u /\ \A z \in DOMAIN G : H[z] = G[z]
  BY DEF With
<1>2. reg_bitmap \in [Aggregators -> Nat] /\ \A job \in J : JobOK(G, L, reg_bitmap, job)
  BY JobsInvSplit
<1>3. /\ regs \in [Aggregators -> Nat]
      /\ \A a \in Aggregators : regs[a] \in {0, reg_bitmap[a]}
      /\ \A a \in Aggregators : a \in u.addr .. u.addr + SegSize - 1 => regs[a] = 0
  BY <1>2 DEF ResetBitmap
<1> HIDE DEF H, regs
<1>4. ASSUME NEW job \in J PROVE JobOK(H, M, regs, job)
  <2>1. JobOK(G, L, reg_bitmap, job)
    BY <1>2
  <2>2. H[job.group] = G[job.group] /\ job.group \in M
    BY <2>1, <1>1 DEF JobOK
  <2>3. ASSUME NEW a \in G[job.group].addr .. G[job.group].addr + SegSize - 1
        PROVE  regs[a] \in {0, job.creation}
    <3>1. reg_bitmap[a] \in {0, job.creation}
      BY <2>1 DEF JobOK
    <3>2. job.group \in DOMAIN G
      BY <2>1 DEF JobOK
    <3>3. a \in Aggregators
      BY <3>2, InMemory
    <3> QED  BY <3>1, <3>3, <1>3
  <2> QED  BY <2>1, <2>2, <2>3 DEF JobOK
<1>5. JobOK(H, M, regs, new)
  <2>1. ASSUME NEW a \in u.addr .. u.addr + SegSize - 1 PROVE regs[a] = 0
    <3>1. a \in Aggregators
      BY InMemory
    <3> QED  BY <3>1, <1>3
  <2>2. new \in [group : Nat, creation : Nat] /\ new.group = g /\ new.creation = u.creation
    OBVIOUS
  <2> QED  BY <2>1, <2>2, <1>1 DEF JobOK
<1> HIDE DEF M, new
<1>6. JobsInv(H, M, J \cup {new}, regs)
  BY <1>3, <1>4, <1>5, JobsInvSplit
<1> QED  BY <1>6 DEF H, M, new, regs

\* A job that ends takes its group with it, and no other job has that group.
LEMMA EndedJob ==
    ASSUME NEW G, NEW L, L \subseteq DOMAIN G, NEW J, NEW regs, JobsInv(G, L, J, regs), NEW job \in J
    PROVE  JobsInv(Without(G, job.group), L \ {job.group}, J \ {job}, regs)
<1> DEFINE g == job.group
           H == Without(G, g)
<1>1. \A z \in DOMAIN G \ {g} : H[z] = G[z]
  BY WithoutFacts, Zenon
<1>2. regs \in [Aggregators -> Nat] /\ \A j \in J : JobOK(G, L, regs, j)
  BY JobsInvSplit
<1> HIDE DEF H
<1>3. ASSUME NEW j \in J \ {job} PROVE JobOK(H, L \ {g}, regs, j)
  <2>1. JobOK(G, L, regs, j) /\ JobOK(G, L, regs, job)
    BY <1>2
  <2>2. j.group # g
    BY <2>1, SameJob
  <2>3. H[j.group] = G[j.group] /\ j.group \in L \ {g}
    BY <2>1, <2>2, <1>1 DEF JobOK
  <2> QED  BY <2>1, <2>3 DEF JobOK
<1> HIDE DEF g
<1>4. JobsInv(H, L \ {g}, J \ {job}, regs)
  BY <1>2, <1>3, JobsInvSplit
<1> QED  BY <1>4 DEF H, g

\* A packet leaves the version of its own group in an aggregator no other group has.
LEMMA PacketJobs ==
    ASSUME NEW G, NEW L, L \subseteq DOMAIN G, NEW J, NEW regs, JobsInv(G, L, J, regs),
           NEW ms, MemInv(G, ms), NEW job \in J,
           NEW a \in G[job.group].addr .. G[job.group].addr + SegSize - 1
    PROVE  JobsInv(G, L, J, [regs EXCEPT ![a] = job.creation])
<1> DEFINE new == [regs EXCEPT ![a] = job.creation]
<1>1. regs \in [Aggregators -> Nat] /\ \A j \in J : JobOK(G, L, regs, j)
  BY JobsInvSplit
<1>2. job.group \in DOMAIN G /\ job.creation \in Nat
  BY <1>1 DEF JobOK
<1>3. \A h \in DOMAIN G : SegmentAt(G[h].addr)
  BY DEF MemInv, MemoryInv, Addresses
<1>4. a \in Aggregators
  BY <1>2, <1>3, InMemory
<1>5. /\ new \in [Aggregators -> Nat] /\ new[a] = job.creation
      /\ \A b \in Aggregators : b # a => new[b] = regs[b]
  BY <1>1, <1>2, <1>4
<1> HIDE DEF new
<1>6. ASSUME NEW j \in J PROVE JobOK(G, L, new, j)
  <2>1. JobOK(G, L, regs, j) /\ JobOK(G, L, regs, job)
    BY <1>1
  <2>2. ASSUME NEW b \in G[j.group].addr .. G[j.group].addr + SegSize - 1
        PROVE  new[b] \in {0, j.creation}
    <3>1. j.group \in DOMAIN G
      BY <2>1 DEF JobOK
    <3>2. b \in Aggregators /\ regs[b] \in {0, j.creation}
      BY <2>1, <3>1, <1>3, InMemory DEF JobOK
    <3>3. CASE b # a
      BY <3>2, <3>3, <1>5
    <3>4. CASE b = a
      <4>1. j.group = job.group
        <5>1. SUFFICES ASSUME j.group # job.group PROVE FALSE
          OBVIOUS
        <5> DEFINE x == G[j.group].addr
                   y == G[job.group].addr
        <5>2. x # y /\ SegmentAt(x) /\ SegmentAt(y)
          BY <5>1, <3>1, <1>2, <1>3 DEF MemInv
        <5>3. a \in x .. x + SegSize - 1 /\ a \in y .. y + SegSize - 1
          BY <3>4
        <5> HIDE DEF x, y
        <5>4. x + SegSize <= y \/ y + SegSize <= x
          BY <5>2, SegmentsApart
        <5> QED  BY <5>2, <5>3, <5>4, ControllerAssumption DEF SegmentAt
      <4>2. j = job
        BY <4>1, <2>1, SameJob
      <4> QED  BY <4>2, <3>4, <1>5
    <3> QED  BY <3>3, <3>4
  <2> QED  BY <2>1, <2>2 DEF JobOK
<1>7. JobsInv(G, L, J, new)
  BY <1>5, <1>6, JobsInvSplit
<1> QED  BY <1>7 DEF new

-----------------------------------------------------------------------------
\* Everything is free after reinit.
LEMMA FreshMemory ==
    ASSUME NEW G, DOMAIN G = {}
    PROVE  MemInv(G, AllMemory)
<1>1. SegSize \in Nat /\ SegSize > 0 /\ MemSize \in Nat /\ MemSize > 0
  BY ControllerAssumption
<1>2. 0 % SegSize = 0
  <2>1. (0 * SegSize + 0) % SegSize = 0
    BY <1>1, UniqueRemainder
  <2>2. 0 * SegSize + 0 = 0
    BY <1>1
  <2> QED  BY <2>1, <2>2
<1>3. /\ AllMemory \in Seq(Nat \X Nat) /\ Len(AllMemory) = 1
      /\ AllMemory[1] = <<0, MemSize>> /\ AllMemory[1][1] = 0 /\ AllMemory[1][2] = MemSize
  BY <1>1 DEF AllMemory
<1>4. FreeSegment(AllMemory[1])
  BY <1>1, <1>2, <1>3 DEF FreeSegment
<1>5. FreeList(AllMemory)
  BY <1>3, <1>4 DEF FreeList
<1>6. ASSUME NEW x \in Aggregators PROVE FreeAt(AllMemory, x)
  <2>1. 0 <= x /\ x < MemSize
    BY <1>1 DEF Aggregators
  <2> QED  BY <2>1, <1>3 DEF FreeAt
<1>7. Addresses(G) = {}
  BY DEF Addresses
<1> QED  BY <1>5, <1>6, <1>7 DEF MemInv, MemoryInv, Apart, Complete

LEMMA FreshRest ==
    ASSUME NEW G, DOMAIN G = {}
    PROVE  /\ GroupsInv(G, AllGroups) /\ NodesInv(G, AllNodes) /\ PortsInv(G, NoUse)
           /\ EntriesInv(G, {}, {}, {}) /\ TableInv(G, {}, <<>>, <<>>, <<>>)
<1>1. /\ AllGroups \in Seq(Nat) /\ IsInjective(AllGroups)
      /\ Range(AllGroups) = 1 .. MaxGroupNum - 1
  BY ControllerAssumption DEF AllGroups, IsInjective, Range
<1>2. /\ AllNodes \in Seq(Nat) /\ IsInjective(AllNodes)
      /\ Range(AllNodes) = 1 .. MaxNodeNum - 1
  BY ControllerAssumption DEF AllNodes, IsInjective, Range
<1>3. GroupsInv(G, AllGroups)
  BY <1>1 DEF GroupsInv
<1>4. NodesInv(G, AllNodes)
  <2>1. NodesOf(G) = {}
    BY DEF NodesOf
  <2> QED  BY <1>2, <2>1 DEF NodesInv
<1>5. PortsInv(G, NoUse)
  <2>1. ASSUME NEW i \in Ports PROVE {g \in DOMAIN G : G[g].port = i} = {}
    OBVIOUS
  <2> QED  BY <2>1, FS_EmptySet DEF PortsInv, NoUse
<1>6. EntriesInv(G, {}, {}, {}) /\ TableInv(G, {}, <<>>, <<>>, <<>>)
  BY DEF EntriesInv, TableInv
<1> QED  BY <1>3, <1>4, <1>5, <1>6

LEMMA InitCInv == CtlInit => CInv
<1> SUFFICES ASSUME CtlInit PROVE CInv
  OBVIOUS
<1>1. Live = {} /\ DOMAIN leaked = {}
  BY DEF CtlInit, Live
<1>2. DOMAIN Given = {} /\ Held = {} /\ Given \in [Held -> Gift]
  BY <1>1 DEF Given, Held
<1>3. MemInv(Given, memseg)
  BY <1>2, FreshMemory DEF CtlInit
<1>4. /\ GroupsInv(Given, free_group) /\ NodesInv(Given, free_node) /\ PortsInv(Given, recir_port_cnt)
      /\ EntriesInv(Given, Live, restore_table, pre_node)
      /\ TableInv(Given, Live, recirculate_table, metadata_table, pre_mgid)
  BY <1>1, <1>2, FreshRest DEF CtlInit
<1>5. JobsInv(Given, Live, jobs, reg_bitmap)
  BY DEF CtlInit, JobsInv
<1> QED  BY <1>1, <1>2, <1>3, <1>4, <1>5 DEF CInv, CtlInit

LEMMA ReinitCInv == CInv /\ Reinit => CInv'
<1> SUFFICES ASSUME CInv, Reinit PROVE CInv'
  OBVIOUS
<1>1. Live' = {} /\ DOMAIN leaked' = {}
  BY DEF Reinit, Live
<1>2. DOMAIN Given' = {} /\ Held' = {} /\ Given' \in [Held' -> Gift]
  BY <1>1 DEF Given, Held
<1>3. MemInv(Given', memseg')
  BY <1>2, FreshMemory DEF Reinit
<1>4. /\ GroupsInv(Given', free_group') /\ NodesInv(Given', free_node') /\ PortsInv(Given', recir_port_cnt')
      /\ EntriesInv(Given', Live', restore_table', pre_node')
      /\ TableInv(Given', Live', recirculate_table', metadata_table', pre_mgid')
  BY <1>1, <1>2, FreshRest DEF Reinit
<1>5. JobsInv(Given', Live', jobs', reg_bitmap')
  BY DEF CInv, Reinit, JobsInv
<1> QED  BY <1>1, <1>2, <1>3, <1>4, <1>5 DEF CInv, Reinit

\* What Given says of existing groups, and which sets are finite.
LEMMA GivenFacts ==
    ASSUME CInv
    PROVE  /\ Held = DOMAIN Given /\ Held = Live \cup DOMAIN leaked
           /\ Live \subseteq Held
           /\ \A g \in Live : Given[g] = undo[g]
           /\ \A g \in Held : Given[g] \in Gift
           /\ IsFiniteSet(Held)
           /\ \A g \in Held : SegmentAt(Given[g].addr)
<1>1. Held = DOMAIN Given /\ Held = Live \cup DOMAIN leaked /\ \A g \in Live : Given[g] = undo[g]
  BY DEF Held, Given
<1>2. \A g \in Held : Given[g] \in Gift
  BY DEF CInv
<1>3. IsFiniteSet(Held)
  <2>1. Held \subseteq 1 .. MaxGroupNum - 1
    BY <1>1 DEF CInv, GroupsInv
  <2>2. IsFiniteSet(1 .. MaxGroupNum - 1)
    BY FS_Interval, ControllerAssumption
  <2> QED  BY <2>1, <2>2, FS_Subset
<1>4. \A g \in Held : SegmentAt(Given[g].addr)
  BY <1>1 DEF CInv, MemInv, MemoryInv, Addresses
<1> QED  BY <1>1, <1>2, <1>3, <1>4

LEMMA KillCInv == \A job \in jobs : CInv /\ Kill(job) => CInv'
<1> SUFFICES ASSUME NEW job \in jobs, CInv, Kill(job) PROVE CInv'
  OBVIOUS
<1>1. UNCHANGED <<resources, tables, reg_bitmap, creates>> /\ jobs' = jobs \ {job}
  BY DEF Kill
<1>2. Live' = Live /\ Given' = Given /\ Held' = Held
  BY <1>1 DEF resources, Live, Given, Held
<1>3. JobsInv(Given', Live', jobs', reg_bitmap')
  BY <1>1, <1>2 DEF CInv, JobsInv
<1> QED  BY <1>1, <1>2, <1>3 DEF CInv, resources, tables

LEMMA TrafficCInv == \A job \in jobs, a \in Aggregators : CInv /\ Traffic(job, a) => CInv'
<1> SUFFICES ASSUME NEW job \in jobs, NEW a \in Aggregators, CInv, Traffic(job, a) PROVE CInv'
  OBVIOUS
<1>1. /\ UNCHANGED <<resources, tables, creates, jobs>>
      /\ reg_bitmap' = [reg_bitmap EXCEPT ![a] = job.creation]
      /\ a \in undo[job.group].addr .. undo[job.group].addr + SegSize - 1
  BY DEF Traffic
<1>2. Live' = Live /\ Given' = Given /\ Held' = Held
  BY <1>1 DEF resources, Live, Given, Held
<1>3. job.group \in Live
  BY DEF CInv, JobsInv
<1>4. Given[job.group] = undo[job.group] /\ Live \subseteq DOMAIN Given
  BY <1>3, GivenFacts
<1>5. JobsInv(Given, Live, jobs, reg_bitmap) /\ MemInv(Given, memseg)
  BY DEF CInv
<1>6. JobsInv(Given, Live, jobs, [reg_bitmap EXCEPT ![a] = job.creation])
  BY <1>1, <1>4, <1>5, PacketJobs
<1>7. JobsInv(Given', Live', jobs', reg_bitmap')
  BY <1>1, <1>2, <1>6
<1> QED  BY <1>1, <1>2, <1>7 DEF CInv, resources, tables

LEMMA DestroyCInv == \A job \in jobs : CInv /\ DestroyGroup(job) => CInv'
<1> SUFFICES ASSUME NEW job \in jobs, CInv, DestroyGroup(job) PROVE CInv'
  OBVIOUS
<1> DEFINE g == job.group
           u == Given[g]
           H == Without(Given, g)
<1>1. /\ g \in Live /\ u = undo[g] /\ g \in Held /\ g \in DOMAIN Given /\ u \in Gift
      /\ Live \subseteq DOMAIN Given /\ IsFiniteSet(DOMAIN Given)
      /\ Held = DOMAIN Given /\ Held = Live \cup DOMAIN leaked
      /\ \A h \in Live : Given[h] = undo[h]
  BY GivenFacts DEF DestroyGroup
<1>2. /\ pre_mgid' = Without(pre_mgid, g)
      /\ pre_node' = {x \in pre_node : x[1] \notin Range(u.node)}
      /\ restore_table' = restore_table \ ({g} \X (0 .. Len(u.node) - 1))
      /\ metadata_table' = Without(metadata_table, g)
      /\ recirculate_table' = Without(recirculate_table, g)
      /\ recir_port_cnt' = [recir_port_cnt EXCEPT ![u.port] = @ - 1]
      /\ free_node' = free_node \o u.node
      /\ free_group' = Append(free_group, g)
      /\ memseg' = free_seg(u.addr, u.addr + SegSize)
      /\ undo' = Without(undo, g)
      /\ jobs' = jobs \ {job}
      /\ UNCHANGED <<leaked, reg_bitmap, creates>>
  <2> HIDE DEF u
  <2> QED  BY <1>1 DEF DestroyGroup, LeavePort, ReturnNodes, restored
<1>3. Live \cap DOMAIN leaked = {}
  BY DEF CInv
<1>4. DOMAIN undo' = DOMAIN undo \ {g} /\ \A z \in DOMAIN undo \ {g} : undo'[z] = undo[z]
  BY <1>2, WithoutFacts, Zenon
<1>5. Live' = Live \ {g} /\ leaked' = leaked
  BY <1>2, <1>4 DEF Live
<1>6. Given' = H
  <2>1. Given' = [h \in Live' \cup DOMAIN leaked' |-> IF h \in Live' THEN undo'[h] ELSE leaked'[h]]
    BY DEF Given
  <2>2. H = [h \in DOMAIN Given \ {g} |-> Given[h]]
    BY DEF Without, Restrict
  <2>3. Live' \cup DOMAIN leaked' = DOMAIN Given \ {g}
    BY <1>1, <1>3, <1>5
  <2>4. ASSUME NEW h \in DOMAIN Given \ {g}
        PROVE  Given[h] = IF h \in Live' THEN undo'[h] ELSE leaked'[h]
    <3>1. Given[h] = IF h \in Live THEN undo[h] ELSE leaked[h]
      BY <1>1 DEF Given
    <3>2. CASE h \in Live
      BY <3>1, <3>2, <1>4, <1>5 DEF Live
    <3>3. CASE h \notin Live
      BY <3>1, <3>3, <1>5
    <3> QED  BY <3>2, <3>3
  <2> QED  BY <2>1, <2>2, <2>3, <2>4
<1>7. Held' = DOMAIN Given' /\ Held' = DOMAIN Given \ {g}
  <2>1. DOMAIN H = DOMAIN Given \ {g}
    BY DEF Without, Restrict
  <2> QED  BY <2>1, <1>6 DEF Held
<1> HIDE DEF g
<1>8. MemInv(H, memseg')
  <2>1. MemInv(Given, memseg)
    BY DEF CInv
  <2>2. MemInv(Without(Given, g), free_seg(Given[g].addr, Given[g].addr + SegSize))
    BY <2>1, <1>1, ReturnMem
  <2> QED  BY <2>2, <1>2
<1>9. GroupsInv(H, free_group')
  <2>1. GroupsInv(Given, free_group)
    BY DEF CInv
  <2> QED  BY <2>1, <1>1, <1>2, ReturnGroup
<1>10. NodesInv(H, free_node')
  <2>1. NodesInv(Given, free_node) /\ Given[g].node \in Seq(Nat)
    BY <1>1 DEF CInv, Gift
  <2> QED  BY <2>1, <1>1, <1>2, ReturnNodesKeeps
<1>11. PortsInv(H, recir_port_cnt')
  <2>1. PortsInv(Given, recir_port_cnt) /\ Given[g].port \in Ports
    BY <1>1 DEF CInv, Gift
  <2> QED  BY <2>1, <1>1, <1>2, ReturnPort
<1>12. EntriesInv(H, Live', restore_table', pre_node')
  <2>1. EntriesInv(Given, Live, restore_table, pre_node) /\ NodesInv(Given, free_node)
    BY DEF CInv
  <2>2. \A h \in DOMAIN Given : Given[h].node \in Seq(Nat)
    BY GivenFacts DEF Gift
  <2>3. EntriesInv(Without(Given, g), Live \ {g}, OtherMembers(restore_table, Given, g),
                   OtherNodes(pre_node, Given, g))
    BY <2>1, <2>2, <1>1, ReturnEntries
  <2>4. restore_table' = OtherMembers(restore_table, Given, g) /\ pre_node' = OtherNodes(pre_node, Given, g)
    BY <1>2 DEF OtherMembers, OtherNodes
  <2> QED  BY <2>3, <2>4, <1>5
<1>13. TableInv(H, Live', recirculate_table', metadata_table', pre_mgid')
  <2>1. TableInv(Given, Live, recirculate_table, metadata_table, pre_mgid)
    BY DEF CInv
  <2> QED  BY <2>1, <1>1, <1>2, <1>5, ReturnTables
<1>14. JobsInv(H, Live', jobs', reg_bitmap')
  <2>1. JobsInv(Given, Live, jobs, reg_bitmap)
    BY DEF CInv
  <2>2. JobsInv(Without(Given, job.group), Live \ {job.group}, jobs \ {job}, reg_bitmap)
    BY <2>1, <1>1, EndedJob
  <2> QED  BY <2>2, <1>2, <1>5 DEF g
<1>15. Given' \in [Held' -> Gift]
  <2>1. H = [h \in DOMAIN Given \ {g} |-> Given[h]]
    BY DEF Without, Restrict
  <2>2. \A h \in DOMAIN Given : Given[h] \in Gift
    BY GivenFacts
  <2> QED  BY <2>1, <2>2, <1>6, <1>7
<1>16. creates' \in Nat /\ Live' \cap DOMAIN leaked' = {}
  BY <1>2, <1>3, <1>5 DEF CInv
<1> HIDE DEF H
<1>17. /\ MemInv(Given', memseg') /\ GroupsInv(Given', free_group')
       /\ NodesInv(Given', free_node') /\ PortsInv(Given', recir_port_cnt')
       /\ EntriesInv(Given', Live', restore_table', pre_node')
       /\ TableInv(Given', Live', recirculate_table', metadata_table', pre_mgid')
       /\ JobsInv(Given', Live', jobs', reg_bitmap')
  BY <1>6, <1>8, <1>9, <1>10, <1>11, <1>12, <1>13, <1>14
<1> QED  BY <1>15, <1>16, <1>17, Zenon DEF CInv

\* CreateGroup with segment i and address addr chosen.
CreatedAt(i, addr, n, k) ==
    LET g == Head(free_group)
        node == SubSeq(free_node, 1, n)
        port == select_recir_port_idx
        given == [addr |-> addr, node |-> node, port |-> port, creation |-> creates + 1]
    IN  /\ Taken(i, addr, n)
        /\ recirculate_table' = IF k > 0 THEN With(recirculate_table, g, port) ELSE recirculate_table
        /\ metadata_table' = IF k > 1 THEN With(metadata_table, g, n) ELSE metadata_table
        /\ restore_table' = restore_table \cup IF k > 2 THEN {g} \X (0 .. n - 1) ELSE {}
        /\ pre_node' = pre_node \cup IF k > 2 THEN {<<node[x], x - 1>> : x \in 1 .. n} ELSE {}
        /\ pre_mgid' = IF k > 3 THEN With(pre_mgid, g, node) ELSE pre_mgid
        /\ IF k = AllSteps
           THEN /\ reg_bitmap' = ResetBitmap(addr)
                /\ undo' = With(undo, g, given)
                /\ jobs' = jobs \cup {[group |-> g, creation |-> creates + 1]}
                /\ UNCHANGED leaked
           ELSE /\ leaked' = With(leaked, g, given)
                /\ UNCHANGED <<reg_bitmap, undo, jobs>>

LEMMA CreateCInv ==
    ASSUME CInv, NEW n \in GroupSizes, NEW k \in 0 .. AllSteps, Create(n, k)
    PROVE  CInv'
<1>0. PICK i \in fit_seg : \E addr \in addr_in_seg(memseg[i]) : CreatedAt(i, addr, n, k)
  BY Zenon DEF Create, CreatedAt
<1>1. PICK addr \in addr_in_seg(memseg[i]) : CreatedAt(i, addr, n, k)
  BY <1>0
<1> DEFINE g == Head(free_group)
           node == SubSeq(free_node, 1, n)
           port == select_recir_port_idx
           u == [addr |-> addr, node |-> node, port |-> port, creation |-> creates + 1]
           H == With(Given, g, u)
           M == IF k = AllSteps THEN Live \cup {g} ELSE Live
           X == IF k > 2 THEN {g} \X (0 .. n - 1) ELSE {}
           Y == IF k > 2 THEN {<<node[x], x - 1>> : x \in 1 .. n} ELSE {}
<1>2. /\ free_group # <<>> /\ Len(free_node) >= n /\ creates' = creates + 1
      /\ n \in Nat /\ n > 0 /\ creates \in Nat
  BY ControllerAssumption DEF Create, CInv
<1>3. /\ MemInv(Given, memseg) /\ GroupsInv(Given, free_group) /\ NodesInv(Given, free_node)
      /\ PortsInv(Given, recir_port_cnt) /\ EntriesInv(Given, Live, restore_table, pre_node)
      /\ TableInv(Given, Live, recirculate_table, metadata_table, pre_mgid)
      /\ JobsInv(Given, Live, jobs, reg_bitmap) /\ Live \cap DOMAIN leaked = {}
  BY DEF CInv
<1>4. /\ Held = DOMAIN Given /\ Held = Live \cup DOMAIN leaked /\ Live \subseteq DOMAIN Given
      /\ \A h \in DOMAIN Given : Given[h] \in Gift
      /\ IsFiniteSet(DOMAIN Given) /\ \A h \in DOMAIN Given : SegmentAt(Given[h].addr)
  BY GivenFacts
<1>5. port \in Ports
  BY <1>3, PortSelected DEF PortsInv
<1>6. free_node \in Seq(Nat) /\ n \in 0 .. Len(free_node)
  BY <1>2, <1>3 DEF NodesInv
<1>7. node \in Seq(Nat) /\ Len(node) = n
  BY <1>2, <1>6, PartOf
<1>8. addr \in Nat /\ SegmentAt(addr)
  <2>1. MemoryInv(Addresses(Given), memseg)
    BY <1>3 DEF MemInv
  <2>2. SegmentAt(addr)
    BY <2>1, AllocSeg
  <2> QED  BY <2>2 DEF SegmentAt
<1> HIDE DEF node, port
<1>9. /\ u \in Gift /\ u.addr = addr /\ u.node = node /\ u.port = port /\ u.creation = creates + 1
  BY <1>2, <1>5, <1>7, <1>8 DEF Gift
<1>10. /\ Taken(i, addr, n)
       /\ recirculate_table' = IF k > 0 THEN With(recirculate_table, g, port) ELSE recirculate_table
       /\ metadata_table' = IF k > 1 THEN With(metadata_table, g, n) ELSE metadata_table
       /\ restore_table' = restore_table \cup X
       /\ pre_node' = pre_node \cup Y
       /\ pre_mgid' = IF k > 3 THEN With(pre_mgid, g, node) ELSE pre_mgid
       /\ IF k = AllSteps
          THEN /\ reg_bitmap' = ResetBitmap(addr)
               /\ undo' = With(undo, g, u)
               /\ jobs' = jobs \cup {[group |-> g, creation |-> creates + 1]}
               /\ UNCHANGED leaked
          ELSE /\ leaked' = With(leaked, g, u)
               /\ UNCHANGED <<reg_bitmap, undo, jobs>>
  BY <1>1, Zenon DEF CreatedAt, node, port
<1>11. g \notin DOMAIN Given /\ g \in Nat /\ GroupsInv(H, free_group')
  <2>1. free_group' = Tail(free_group)
    BY <1>10 DEF Taken
  <2> QED  BY <2>1, <1>2, <1>3, GiveGroup
<1> HIDE DEF g, u
<1>12. MemInv(H, memseg')
  <2>1. memseg' = alloc_seg(i, addr, addr + SegSize)
    BY <1>10 DEF Taken
  <2> QED  BY <2>1, <1>3, <1>9, <1>11, GiveMem
<1>13. NodesInv(H, free_node')
  <2>1. free_node' = SubSeq(free_node, n + 1, Len(free_node))
    BY <1>10 DEF Taken
  <2>2. u.node = SubSeq(free_node, 1, n)
    BY <1>9 DEF node
  <2> QED  BY <2>1, <2>2, <1>3, <1>6, <1>11, GiveNodes
<1>14. PortsInv(H, recir_port_cnt')
  <2>1. recir_port_cnt' = [recir_port_cnt EXCEPT ![u.port] = @ + 1]
    BY <1>9, <1>10 DEF Taken, port
  <2> QED  BY <2>1, <1>3, <1>4, <1>5, <1>9, <1>11, GivePort
<1>15. k \in Nat /\ AllSteps = 5
  BY DEF AllSteps
<1>16. /\ DOMAIN H = DOMAIN Given \cup {g} /\ H[g] = u
       /\ \A z \in DOMAIN Given : z # g => H[z] = Given[z]
  BY DEF With
<1>17. MemberEntries(H, g) = {g} \X (0 .. n - 1)
  <2>1. MemberEntries(H, g) = {<<g, x>> : x \in 0 .. n - 1}
    BY <1>7, <1>9, <1>16 DEF MemberEntries
  <2> QED  BY <2>1
<1>18. NodeEntries(H, g) = {<<node[x], x - 1>> : x \in 1 .. n}
  BY <1>7, <1>9, <1>16 DEF NodeEntries
<1>19. EntriesInv(H, M, restore_table', pre_node')
  <2>1. X \in SUBSET MemberEntries(H, g) /\ Y \in SUBSET NodeEntries(H, g)
    BY <1>17, <1>18
  <2>2. M = Live \/ (M = Live \cup {g} /\ X = MemberEntries(H, g) /\ Y = NodeEntries(H, g))
    BY <1>15, <1>17, <1>18
  <2> HIDE DEF X, Y, M
  <2>3. EntriesInv(H, M, restore_table \cup X, pre_node \cup Y)
    BY <2>1, <2>2, <1>3, <1>4, <1>11, GiveEntries
  <2> QED  BY <2>3, <1>10 DEF X, Y
<1>20. TableInv(H, M, recirculate_table', metadata_table', pre_mgid')
  <2>1. Len(u.node) = n
    BY <1>7, <1>9
  <2>2. /\ recirculate_table' = recirculate_table \/ recirculate_table' = With(recirculate_table, g, port)
        /\ metadata_table' = metadata_table \/ metadata_table' = With(metadata_table, g, Len(u.node))
        /\ pre_mgid' = pre_mgid \/ pre_mgid' = With(pre_mgid, g, u.node)
    BY <2>1, <1>9, <1>10
  <2>3. M = Live \/ (/\ M = Live \cup {g}
                    /\ recirculate_table' = With(recirculate_table, g, port)
                    /\ metadata_table' = With(metadata_table, g, Len(u.node))
                    /\ pre_mgid' = With(pre_mgid, g, u.node))
    BY <2>1, <1>9, <1>10, <1>15
  <2>4. /\ TableInv(Given, Live, recirculate_table, metadata_table, pre_mgid)
        /\ Live \subseteq DOMAIN Given /\ g \notin DOMAIN Given
    BY <1>3, <1>4, <1>11
  <2> HIDE DEF M
  <2>5. TableInv(With(Given, g, u), M, recirculate_table', metadata_table', pre_mgid')
    BY <2>2, <2>3, <2>4, GiveTables, Zenon
  <2> QED  BY <2>5
<1>21. JobsInv(H, M, jobs', reg_bitmap')
  <2>1. CASE k = AllSteps
    <3>1. /\ jobs' = jobs \cup {[group |-> g, creation |-> u.creation]}
          /\ reg_bitmap' = ResetBitmap(u.addr) /\ M = Live \cup {g}
      BY <2>1, <1>9, <1>10
    <3>2. u.creation \in Nat /\ SegmentAt(u.addr)
      BY <1>2, <1>8, <1>9
    <3>3. JobsInv(H, Live \cup {g}, jobs \cup {[group |-> g, creation |-> u.creation]}, ResetBitmap(u.addr))
      BY <3>2, <1>3, <1>4, <1>11, NewJob
    <3> QED  BY <3>1, <3>3
  <2>2. CASE k # AllSteps
    <3>1. jobs' = jobs /\ reg_bitmap' = reg_bitmap /\ M = Live
      BY <2>2, <1>10
    <3>2. JobsInv(H, Live, jobs, reg_bitmap)
      BY <1>3, <1>4, <1>11, FailedJobs
    <3> QED  BY <3>1, <3>2
  <2> QED  BY <2>1, <2>2
<1>22. Live' = M /\ Live' \cup DOMAIN leaked' = DOMAIN Given \cup {g} /\ Live' \cap DOMAIN leaked' = {}
  <2>0. g \notin Live /\ g \notin DOMAIN leaked
    BY <1>4, <1>11
  <2>1. CASE k = AllSteps
    <3>1. DOMAIN undo' = DOMAIN undo \cup {g} /\ leaked' = leaked
      BY <2>1, <1>10 DEF With
    <3> QED  BY <2>0, <2>1, <3>1, <1>3, <1>4 DEF Live
  <2>2. CASE k # AllSteps
    <3>1. DOMAIN leaked' = DOMAIN leaked \cup {g} /\ undo' = undo
      BY <2>2, <1>10 DEF With
    <3> QED  BY <2>0, <2>2, <3>1, <1>3, <1>4 DEF Live
  <2> QED  BY <2>1, <2>2
<1>23. Given' = H
  <2>1. Given' = [h \in Live' \cup DOMAIN leaked' |-> IF h \in Live' THEN undo'[h] ELSE leaked'[h]]
    BY DEF Given
  <2>2. H = [h \in DOMAIN Given \cup {g} |-> IF h = g THEN u ELSE Given[h]]
    BY DEF With
  <2>3. ASSUME NEW h \in DOMAIN Given \cup {g}
        PROVE  (IF h \in Live' THEN undo'[h] ELSE leaked'[h]) = IF h = g THEN u ELSE Given[h]
    <3>0. g \notin Live /\ g \notin DOMAIN leaked
      BY <1>4, <1>11
    <3>1. h \in DOMAIN Given => Given[h] = IF h \in Live THEN undo[h] ELSE leaked[h]
      BY <1>4 DEF Given, Held
    <3>2. CASE k = AllSteps
      <4>1. undo' = With(undo, g, u) /\ leaked' = leaked /\ Live' = Live \cup {g} /\ Live = DOMAIN undo
        BY <3>2, <1>10, <1>22 DEF Live
      <4>2. undo'[g] = u /\ \A z \in DOMAIN undo : z # g => undo'[z] = undo[z]
        BY <4>1 DEF With
      <4> QED  BY <3>0, <3>1, <4>1, <4>2, <1>4, <1>11
    <3>3. CASE k # AllSteps
      <4>1. leaked' = With(leaked, g, u) /\ undo' = undo /\ Live' = Live
        BY <3>3, <1>10, <1>22
      <4>2. leaked'[g] = u /\ \A z \in DOMAIN leaked : z # g => leaked'[z] = leaked[z]
        BY <4>1 DEF With
      <4> QED  BY <3>0, <3>1, <4>1, <4>2, <1>4, <1>11
    <3> QED  BY <3>2, <3>3
  <2> HIDE DEF H, M
  <2> QED  BY <2>1, <2>2, <2>3, <1>22
<1>24. Given' \in [Held' -> Gift]
  <2>1. H \in [DOMAIN Given \cup {g} -> Gift]
    BY <1>4, <1>9 DEF With
  <2>2. Held' = DOMAIN Given \cup {g}
    BY <1>16, <1>23 DEF Held
  <2> QED  BY <2>1, <2>2, <1>23
<1>25. creates' \in Nat
  BY <1>2
<1> HIDE DEF H, M
<1>26. /\ MemInv(Given', memseg') /\ GroupsInv(Given', free_group')
       /\ NodesInv(Given', free_node') /\ PortsInv(Given', recir_port_cnt')
       /\ EntriesInv(Given', Live', restore_table', pre_node')
       /\ TableInv(Given', Live', recirculate_table', metadata_table', pre_mgid')
       /\ JobsInv(Given', Live', jobs', reg_bitmap')
  BY <1>11, <1>12, <1>13, <1>14, <1>19, <1>20, <1>21, <1>22, <1>23
<1>27. Live' \cap DOMAIN leaked' = {}
  BY <1>22
<1> QED  BY <1>24, <1>25, <1>26, <1>27, Zenon DEF CInv

LEMMA NextCInv == CInv /\ [CtlNext]_ctl_vars => CInv'
<1> SUFFICES ASSUME CInv, [CtlNext]_ctl_vars PROVE CInv'
  OBVIOUS
<1>1. ASSUME NEW n \in GroupSizes, CreateGroup(n) PROVE CInv'
  <2>1. AllSteps \in 0 .. AllSteps
    BY DEF AllSteps
  <2> QED  BY <1>1, <2>1, CreateCInv DEF CreateGroup
<1>2. ASSUME NEW n \in GroupSizes, CreateGroupFails(n) PROVE CInv'
  <2>1. PICK k \in 0 .. AllSteps - 1 : Create(n, k)
    BY <1>2 DEF CreateGroupFails
  <2>2. k \in 0 .. AllSteps
    BY DEF AllSteps
  <2> QED  BY <2>1, <2>2, CreateCInv
<1>3. ASSUME NEW job \in jobs, DestroyGroup(job) PROVE CInv'
  BY <1>3, DestroyCInv
<1>4. ASSUME NEW job \in jobs, Kill(job) PROVE CInv'
  BY <1>4, KillCInv
<1>5. ASSUME NEW job \in jobs, NEW a \in Aggregators, Traffic(job, a) PROVE CInv'
  BY <1>5, TrafficCInv
<1>6. CASE Reinit
  BY <1>6, ReinitCInv
<1>7. CASE UNCHANGED ctl_vars
  <2>1. Live' = Live /\ Given' = Given /\ Held' = Held
    BY <1>7 DEF ctl_vars, resources, Live, Given, Held
  <2> QED  BY <2>1, <1>7 DEF CInv, ctl_vars, resources, tables
<1> QED  BY <1>1, <1>2, <1>3, <1>4, <1>5, <1>6, <1>7 DEF CtlNext

\* The invariant of the controller: what groups and failed creations hold, the
\* free lists, the tables of the switch and the versions in its aggregators
\* agree, for any sequence of requests.
THEOREM ControllerInvariant == CtlSpec => []CInv
<1>1. CtlInit => CInv
  BY InitCInv
<1>2. CInv /\ [CtlNext]_ctl_vars => CInv'
  BY NextCInv
<1> QED  BY <1>1, <1>2, PTL DEF CtlSpec

\* free_seg never finds a free segment that overlaps the one given back: the
\* controller does not exit with "Invalid free".
FreeIsValid ==
    \A g \in Live, i \in 1 .. Len(memseg) :
        undo[g].addr + SegSize <= memseg[i][1] \/ memseg[i][2] <= undo[g].addr

\* The check of free_seg (bfrt_grpc.py, "Invalid free") never fails.
THEOREM FreesAreValid == CtlSpec => []FreeIsValid
<1>1. CInv => FreeIsValid
  <2> SUFFICES ASSUME CInv, NEW g \in Live, NEW i \in 1 .. Len(memseg)
               PROVE  undo[g].addr + SegSize <= memseg[i][1] \/ memseg[i][2] <= undo[g].addr
    BY DEF FreeIsValid
  <2>1. g \in DOMAIN Given /\ Given[g] = undo[g]
    BY GivenFacts
  <2>2. undo[g].addr \in Addresses(Given)
    BY <2>1 DEF Addresses
  <2> QED  BY <2>2 DEF CInv, MemInv, MemoryInv, Apart
<1> QED  BY <1>1, ControllerInvariant, PTL

-----------------------------------------------------------------------------
\* The addresses of one segment.
LEMMA CoveredOne ==
    ASSUME NEW s
    PROVE  Covered({s}) = s[1] .. s[2] - 1
BY DEF Covered

LEMMA SegmentFacts ==
    ASSUME CInv, NEW g \in Held
    PROVE  /\ Given[g].addr \in Nat /\ SegSize \in Nat /\ SegSize > 0
           /\ MemSize \in Nat /\ Given[g].addr + SegSize <= MemSize
           /\ Given[g].addr \in Addresses(Given)
BY GivenFacts, ControllerAssumption DEF SegmentAt, Addresses

LEMMA CountSegments ==
    ASSUME CInv
    PROVE  Cardinality(Segments) = Cardinality(Held)
<1> DEFINE f == [g \in Held |-> <<Given[g].addr, Given[g].addr + SegSize>>]
<1>1. f \in Injection(Held, Segments)
  <2>1. f \in [Held -> Segments]
    BY DEF Segments
  <2>2. ASSUME NEW a \in Held, NEW b \in Held, f[a] = f[b] PROVE a = b
    <3>1. Given[a].addr = Given[b].addr
      BY <2>2
    <3> QED  BY <3>1, GivenFacts DEF CInv, MemInv
  <2> QED  BY <2>1, <2>2 DEF Injection, IsInjective
<1>2. f \in Surjection(Held, Segments)
  BY <1>1 DEF Surjection, Segments, Injection
<1>3. ExistsBijection(Held, Segments)
  BY <1>1, <1>2 DEF ExistsBijection, Bijection
<1>4. IsFiniteSet(Held)
  BY GivenFacts
<1> QED  BY <1>3, <1>4, FS_Bijection

LEMMA PartitionHolds == CInv => MemoryPartition
<1> SUFFICES ASSUME CInv PROVE MemoryPartition
  OBVIOUS
<1>1. /\ memseg \in Seq(Nat \X Nat) /\ DOMAIN memseg = 1 .. Len(memseg) /\ Len(memseg) \in Nat
      /\ MemoryInv(Addresses(Given), memseg)
  BY DEF CInv, MemInv, MemoryInv, FreeList
<1>2. ASSUME NEW s \in Segments PROVE \E g \in Held : s[1] = Given[g].addr /\ s[2] = Given[g].addr + SegSize
                                                  /\ s = <<Given[g].addr, Given[g].addr + SegSize>>
  BY DEF Segments
<1>3. ASSUME NEW s \in Range(memseg) PROVE \E i \in 1 .. Len(memseg) : s = memseg[i]
  BY <1>1 DEF Range
<1>4. \A i \in 1 .. Len(memseg) : memseg[i][1] \in Nat /\ memseg[i][2] \in Nat /\ memseg[i][2] <= MemSize
  BY <1>1, FreeFacts
<1>5. ASSUME NEW s \in Segments, NEW t \in Segments, s # t PROVE Covered({s}) \cap Covered({t}) = {}
  <2>1. PICK g \in Held : s[1] = Given[g].addr /\ s[2] = Given[g].addr + SegSize
                        /\ s = <<Given[g].addr, Given[g].addr + SegSize>>
    BY <1>2
  <2>2. PICK h \in Held : t[1] = Given[h].addr /\ t[2] = Given[h].addr + SegSize
                        /\ t = <<Given[h].addr, Given[h].addr + SegSize>>
    BY <1>2
  <2> DEFINE x == Given[g].addr
             y == Given[h].addr
  <2>3. x # y /\ SegmentAt(x) /\ SegmentAt(y) /\ x \in Nat /\ y \in Nat /\ SegSize \in Nat
    <3>1. Given[g].addr # Given[h].addr
      BY <2>1, <2>2, <1>5
    <3> QED  BY <3>1, GivenFacts, SegmentFacts
  <2>4. Covered({s}) = x .. (x + SegSize) - 1 /\ Covered({t}) = y .. (y + SegSize) - 1
    <3>1. Covered({s}) = s[1] .. s[2] - 1 /\ Covered({t}) = t[1] .. t[2] - 1
      BY CoveredOne
    <3> QED  BY <2>1, <2>2, <3>1, Zenon
  <2> HIDE DEF x, y
  <2>5. x + SegSize <= y \/ y + SegSize <= x
    BY <2>3, SegmentsApart
  <2> QED  BY <2>3, <2>4, <2>5
<1>6. ASSUME NEW s \in Segments, NEW t \in Range(memseg) PROVE Covered({s}) \cap Covered({t}) = {}
  <2>1. PICK g \in Held : s[1] = Given[g].addr /\ s[2] = Given[g].addr + SegSize
    BY <1>2
  <2>2. PICK i \in 1 .. Len(memseg) : t = memseg[i]
    BY <1>3
  <2> DEFINE x == Given[g].addr
  <2>3. /\ x \in Nat /\ SegSize \in Nat /\ memseg[i][1] \in Nat /\ memseg[i][2] \in Nat
        /\ x + SegSize <= memseg[i][1] \/ memseg[i][2] <= x
    <3>1. x \in Addresses(Given)
      BY SegmentFacts
    <3> HIDE DEF x
    <3> QED  BY <3>1, <1>1, Neighbours
  <2>4. Covered({s}) = x .. (x + SegSize) - 1 /\ Covered({t}) = memseg[i][1] .. memseg[i][2] - 1
    <3>1. Covered({s}) = s[1] .. s[2] - 1 /\ Covered({t}) = t[1] .. t[2] - 1
      BY CoveredOne
    <3> QED  BY <2>1, <2>2, <3>1, Zenon
  <2> HIDE DEF x
  <2> QED  BY <2>3, <2>4
<1>7. ASSUME NEW s \in Range(memseg), NEW t \in Range(memseg), s # t
      PROVE  Covered({s}) \cap Covered({t}) = {}
  <2>1. PICK i \in 1 .. Len(memseg) : s = memseg[i]
    BY <1>3
  <2>2. PICK j \in 1 .. Len(memseg) : t = memseg[j]
    BY <1>3
  <2>3. i < j \/ j < i
    BY <2>1, <2>2, <1>7
  <2>4. memseg[i][2] <= memseg[j][1] \/ memseg[j][2] <= memseg[i][1]
    BY <2>3, <1>1 DEF MemoryInv, FreeList
  <2>5. Covered({s}) = memseg[i][1] .. memseg[i][2] - 1 /\ Covered({t}) = memseg[j][1] .. memseg[j][2] - 1
    BY <2>1, <2>2, CoveredOne
  <2> QED  BY <2>4, <2>5, <1>4, SMTT(30)
<1>8. Covered(Segments \cup Range(memseg)) = Aggregators
  <2>1. ASSUME NEW x \in Covered(Segments \cup Range(memseg)) PROVE x \in Aggregators
    <3>1. PICK s \in Segments \cup Range(memseg) : x \in s[1] .. s[2] - 1
      BY DEF Covered
    <3>2. s[1] \in Nat /\ s[2] \in Nat /\ s[2] <= MemSize
      <4>1. CASE s \in Segments
        <5>1. PICK g \in Held : s[1] = Given[g].addr /\ s[2] = Given[g].addr + SegSize
          BY <1>2, <4>1
        <5> QED  BY <5>1, SegmentFacts
      <4>2. CASE s \in Range(memseg)
        BY <1>3, <1>4, <4>2
      <4> QED  BY <4>1, <4>2
    <3> QED  BY <3>1, <3>2, ControllerAssumption DEF Aggregators
  <2>2. ASSUME NEW x \in Aggregators PROVE x \in Covered(Segments \cup Range(memseg))
    <3>0. x \in Int
      BY DEF Aggregators
    <3>1. CASE FreeAt(memseg, x)
      <4>1. PICK i \in 1 .. Len(memseg) : memseg[i][1] <= x /\ x < memseg[i][2]
        BY <3>1 DEF FreeAt
      <4>2. memseg[i] \in Range(memseg) /\ x \in memseg[i][1] .. memseg[i][2] - 1
        BY <3>0, <4>1, <1>1, <1>4 DEF Range
      <4> QED  BY <4>2 DEF Covered
    <3>2. CASE UsedAt(Addresses(Given), x)
      <4>1. PICK g \in Held : Given[g].addr <= x /\ x < Given[g].addr + SegSize
        BY <3>2, GivenFacts DEF UsedAt, Addresses
      <4> DEFINE s == <<Given[g].addr, Given[g].addr + SegSize>>
      <4>2. s \in Segments
        BY DEF Segments
      <4>3. x \in s[1] .. s[2] - 1
        BY <3>0, <4>1, SegmentFacts
      <4> HIDE DEF s
      <4> QED  BY <4>2, <4>3 DEF Covered
    <3> QED  BY <3>1, <3>2, <1>1 DEF MemoryInv, Complete
  <2> QED  BY <2>1, <2>2
<1>9. ASSUME NEW i \in 1 .. Len(memseg) - 1 PROVE memseg[i][2] <= memseg[i + 1][1]
  <2>1. i \in 1 .. Len(memseg) /\ i + 1 \in 1 .. Len(memseg) /\ i < i + 1
    BY <1>1
  <2> QED  BY <2>1, <1>1 DEF MemoryInv, FreeList
<1>10. ASSUME NEW s \in Segments \cup Range(memseg), NEW t \in Segments \cup Range(memseg), s # t
       PROVE  Covered({s}) \cap Covered({t}) = {}
  BY <1>5, <1>6, <1>7, <1>10
<1> QED  BY <1>8, <1>9, <1>10, CountSegments DEF MemoryPartition

LEMMA IdsHold == CInv => IdsConserved /\ PortsCounted
<1> SUFFICES ASSUME CInv PROVE IdsConserved /\ PortsCounted
  OBVIOUS
<1>1. Held = DOMAIN Given
  BY DEF Held
<1>2. GroupsInv(Given, free_group) /\ NodesInv(Given, free_node) /\ PortsInv(Given, recir_port_cnt)
  BY DEF CInv
<1>3. Range(free_node) \cup UNION {Range(Given[g].node) : g \in Held} = 1 .. MaxNodeNum - 1
  BY <1>1, <1>2 DEF NodesInv, NodesOf
<1>4. IdsConserved
  BY <1>1, <1>2, <1>3 DEF IdsConserved, GroupsInv, NodesInv, CInv
<1>5. PortsCounted
  BY <1>1, <1>2 DEF PortsCounted, PortsInv
<1> QED  BY <1>4, <1>5

\* Memory, group ids, multicast nodes and recirculation ports are never lost or
\* handed out twice by CreateGroup and DestroyGroup, whatever fails in between.
THEOREM ResourcesAreConserved == CtlSpec => []ResourcesConserved
<1>1. CInv => ResourcesConserved
  BY PartitionHolds, IdsHold DEF ResourcesConserved
<1> QED  BY <1>1, ControllerInvariant, PTL

-----------------------------------------------------------------------------
LEMMA TablesHold == CInv => TablesMatch
<1> SUFFICES ASSUME CInv PROVE TablesMatch
  OBVIOUS
<1> DEFINE Members(S) == UNION {{g} \X (0 .. Len(Given[g].node) - 1) : g \in S}
           Nodes(S) == UNION {{<<Given[g].node[k], k - 1>> : k \in DOMAIN Given[g].node} : g \in S}
<1>1. /\ Held = DOMAIN Given /\ Live \subseteq Held
      /\ \A g \in Held : DOMAIN Given[g].node = 1 .. Len(Given[g].node)
  BY GivenFacts DEF Gift
<1>2. /\ EntriesInv(Given, Live, restore_table, pre_node)
      /\ TableInv(Given, Live, recirculate_table, metadata_table, pre_mgid)
  BY DEF CInv
<1>3. ASSUME NEW g \in Held
      PROVE  /\ {g} \X (0 .. Len(Given[g].node) - 1) = MemberEntries(Given, g)
             /\ {<<Given[g].node[k], k - 1>> : k \in DOMAIN Given[g].node} = NodeEntries(Given, g)
  <2>1. {g} \X (0 .. Len(Given[g].node) - 1) = {<<g, k>> : k \in 0 .. Len(Given[g].node) - 1}
    OBVIOUS
  <2> QED  BY <2>1, <1>1 DEF MemberEntries, NodeEntries
<1>4. Members(Live) \subseteq restore_table
  BY <1>1, <1>2, <1>3 DEF EntriesInv
<1>5. restore_table \subseteq Members(Held)
  BY <1>1, <1>2, <1>3 DEF EntriesInv
<1>6. Nodes(Live) \subseteq pre_node
  BY <1>1, <1>2, <1>3 DEF EntriesInv
<1>7. pre_node \subseteq Nodes(Held)
  BY <1>1, <1>2, <1>3 DEF EntriesInv
<1>8. /\ \A t \in {DOMAIN recirculate_table, DOMAIN metadata_table, DOMAIN pre_mgid} :
           Live \subseteq t /\ t \subseteq Held
      /\ \A g \in DOMAIN pre_mgid : pre_mgid[g] = Given[g].node
      /\ \A g \in DOMAIN metadata_table : metadata_table[g] = Len(Given[g].node)
  BY <1>1, <1>2 DEF TableInv
<1> QED  BY <1>4, <1>5, <1>6, <1>7, <1>8, Zenon DEF TablesMatch

\* The tables of the switch hold the entries of the existing groups and nothing
\* of a destroyed one, and the aggregators of a running job no version of an
\* earlier group.
THEOREM SwitchAlwaysMatches == CtlSpec => []SwitchMatches
<1>1. CInv => VersionsOwn
  <2> SUFFICES ASSUME CInv, NEW job \in jobs,
                      NEW a \in undo[job.group].addr .. undo[job.group].addr + SegSize - 1
               PROVE  reg_bitmap[a] \in {0, job.creation}
    BY DEF VersionsOwn
  <2>1. job.group \in Live
    BY DEF CInv, JobsInv
  <2>2. Given[job.group] = undo[job.group]
    BY <2>1, GivenFacts
  <2> QED  BY <2>2 DEF CInv, JobsInv
<1>2. CInv => SwitchMatches
  BY <1>1, TablesHold DEF SwitchMatches
<1> QED  BY <1>2, ControllerInvariant, PTL

-----------------------------------------------------------------------------
\* When no free segment is large enough, every block of SegSize addresses is
\* handed out.
LEMMA AllBlocksUsed ==
    ASSUME CInv, fit_seg = {}, NEW b \in 0 .. (MemSize \div SegSize) - 1
    PROVE  b * SegSize \in Addresses(Given)
<1> DEFINE x == b * SegSize
           q == MemSize \div SegSize
<1>0. MemoryInv(Addresses(Given), memseg) /\ memseg \in Seq(Nat \X Nat) /\ DOMAIN memseg = 1 .. Len(memseg)
  BY DEF CInv, MemInv, MemoryInv, FreeList
<1>1. /\ SegSize \in Nat /\ SegSize > 0 /\ MemSize \in Nat /\ q \in Nat
      /\ q * SegSize <= MemSize
  BY ControllerAssumption, DivMod
<1>2. b \in Nat /\ b + 1 <= q
  <2> HIDE DEF q
  <2> QED  BY <1>1 DEF q
<1> HIDE DEF q
<1>3. x \in Nat /\ x + SegSize <= MemSize
  <2>1. (b + 1) * SegSize <= q * SegSize
    BY <1>1, <1>2
  <2>2. (b + 1) * SegSize = b * SegSize + SegSize /\ b * SegSize \in Nat
    BY <1>1, <1>2
  <2>3. q * SegSize \in Nat
    BY <1>1
  <2> QED  BY <2>1, <2>2, <2>3, <1>1
<1>4. x % SegSize = 0
  <2>1. (b * SegSize + 0) % SegSize = 0
    BY <1>1, <1>2, UniqueRemainder
  <2>2. b * SegSize + 0 = x
    BY <1>3
  <2> QED  BY <2>1, <2>2
<1> HIDE DEF x
<1>5. x \in Aggregators
  BY <1>1, <1>3 DEF Aggregators
<1>6. ~FreeAt(memseg, x)
  <2> SUFFICES ASSUME FreeAt(memseg, x) PROVE FALSE
    OBVIOUS
  <2>1. PICK i \in 1 .. Len(memseg) : memseg[i][1] <= x /\ x < memseg[i][2]
    BY DEF FreeAt
  <2>2. FreeSegment(memseg[i])
    BY <1>0 DEF MemoryInv, FreeList
  <2>3. memseg[i][1] \in Nat /\ memseg[i][2] \in Nat /\ memseg[i][2] <= MemSize
    BY <2>2 DEF FreeSegment
  <2>4. x + SegSize <= memseg[i][2]
    <3>1. CASE memseg[i][2] = MemSize
      BY <3>1, <1>3
    <3>2. CASE memseg[i][2] % SegSize = 0
      BY <3>2, <2>1, <2>3, <1>1, <1>3, <1>4, SameRemainder
    <3> QED  BY <3>1, <3>2, <2>2 DEF FreeSegment
  <2>5. memseg[i][1] + SegSize <= memseg[i][2]
    BY <2>1, <2>3, <2>4, <1>1, <1>3
  <2> DEFINE S == {j \in DOMAIN memseg : addr_in_seg(memseg[j]) # {}}
  <2>6. i \in S
    BY <2>2, <2>5, <1>0, FitsAtStart
  <2>7. S \in SUBSET Nat
    BY <1>0
  <2> HIDE DEF S
  <2>8. PICK m \in S : \A j \in S : m <= j
    BY <2>6, <2>7, LeastExists
  <2>9. m \in DOMAIN memseg /\ addr_in_seg(memseg[m]) # {} /\ m \in 1 .. Len(memseg)
    BY <1>0 DEF S
  <2>10. ASSUME NEW j \in 1 .. m - 1 PROVE addr_in_seg(memseg[j]) = {}
    <3>0. Len(memseg) \in Nat /\ m \in Nat /\ m <= Len(memseg)
      <4>1. memseg \in Seq(Nat \X Nat)
        BY <1>0
      <4>2. Len(memseg) \in Nat
        BY <4>1
      <4>3. m \in 1 .. Len(memseg)
        BY <2>9
      <4> QED  BY <4>2, <4>3
    <3>1. j \in DOMAIN memseg /\ ~(m <= j)
      <4>1. j \in 1 .. Len(memseg) /\ ~(m <= j)
        BY <3>0
      <4> QED  BY <4>1, <1>0
    <3>2. j \notin S
      BY <3>1, <2>8
    <3> QED  BY <3>1, <3>2 DEF S
  <2>11. m \in fit_seg
    BY <2>9, <2>10 DEF fit_seg
  <2> QED  BY <2>11
<1>7. PICK a \in Addresses(Given) : a <= x /\ x < a + SegSize
  BY <1>0, <1>5, <1>6 DEF MemoryInv, Complete, UsedAt
<1>8. a \in Nat /\ a % SegSize = 0
  BY <1>0 DEF MemoryInv, SegmentAt
<1>9. a = x
  <2>1. CASE a < x
    <3>1. a + SegSize <= x
      BY <2>1, <1>1, <1>3, <1>4, <1>8, SameRemainder
    <3>2. x < a + SegSize
      BY <1>7
    <3>3. FALSE
      BY <3>1, <3>2, <1>1, <1>3, <1>8
    <3> QED  BY <3>3
  <2>2. ~(a < x) => a = x
    <3>1. a <= x /\ a \in Nat /\ x \in Nat
      BY <1>3, <1>7, <1>8
    <3> QED  BY <3>1
  <2> QED  BY <2>1, <2>2
<1> QED  BY <1>9 DEF x

LEMMA NoFragmentationHolds == CInv => NoFragmentation
<1> SUFFICES ASSUME CInv, MemSize - SegSize * Cardinality(Held) >= SegSize, fit_seg = {} PROVE FALSE
  BY DEF NoFragmentation
<1> DEFINE q == MemSize \div SegSize
           B == 0 .. q - 1
           c == Cardinality(Held)
           f == [b \in B |-> CHOOSE g \in Held : Given[g].addr = b * SegSize]
<1>1. /\ SegSize \in Nat /\ SegSize > 0 /\ MemSize \in Nat /\ q \in Nat
      /\ MemSize % SegSize \in 0 .. SegSize - 1 /\ MemSize = q * SegSize + (MemSize % SegSize)
  BY ControllerAssumption, DivMod
<1>2. IsFiniteSet(Held) /\ c \in Nat /\ Held = DOMAIN Given
  BY GivenFacts, FS_CardinalityType
<1>3. IsFiniteSet(B) /\ Cardinality(B) = q
  <2> HIDE DEF q
  <2> QED  BY <1>1, FS_Interval
<1>4. ASSUME NEW b \in B PROVE f[b] \in Held /\ Given[f[b]].addr = b * SegSize
  <2>1. b * SegSize \in Addresses(Given)
    BY AllBlocksUsed
  <2>2. \E g \in Held : Given[g].addr = b * SegSize
    BY <2>1, <1>2 DEF Addresses
  <2> HIDE DEF B
  <2> QED  BY <2>2
<1>5. f \in Injection(B, Held)
  <2>1. f \in [B -> Held]
    <3> HIDE DEF B
    <3> QED  BY <1>4
  <2>2. ASSUME NEW a \in B, NEW b \in B, f[a] = f[b] PROVE a = b
    <3>1. a * SegSize = b * SegSize
      BY <1>4, <2>2
    <3>2. a \in Int /\ b \in Int
      OBVIOUS
    <3>3. (a - b) * SegSize = 0 /\ (b - a) * SegSize = 0
      BY <3>1, <3>2, <1>1
    <3> QED  BY <3>2, <3>3, <1>1
  <2> HIDE DEF f
  <2> QED  BY <2>1, <2>2 DEF Injection, IsInjective
<1>6. q <= c
  <2> HIDE DEF f, B, q, c
  <2>1. Cardinality(B) <= Cardinality(Held)
    BY <1>2, <1>5, FS_Injection
  <2> QED  BY <2>1, <1>3 DEF c
<1>7. SegSize * c >= SegSize * q
  <2> HIDE DEF q, c
  <2> QED  BY <1>1, <1>2, <1>6
<1> HIDE DEF q, c
<1>8. SegSize * q = q * SegSize /\ SegSize * c \in Nat /\ q * SegSize \in Nat
  BY <1>1, <1>2
<1>9. MemSize - SegSize * c >= SegSize
  BY DEF c
<1> QED  BY <1>1, <1>7, <1>8, <1>9

\* CreateGroup denies a group for lack of memory only when there is less left
\* than one segment, although free_seg leaves adjacent segments unmerged.
THEOREM MemoryNotFragmented == CtlSpec => []NoFragmentation
BY NoFragmentationHolds, ControllerInvariant, PTL
=============================================================================
