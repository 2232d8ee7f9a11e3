-------------------------- MODULE NetReduceProofs ---------------------------
(***************************************************************************)
(* Proofs about the reduction protocol, for any group, any stream, any     *)
(* number of aggregators and any bound on the queues.                      *)
(***************************************************************************)
EXTENDS EvenSplit, Arithmetic, FiniteSetTheorems, SequenceTheorems, TLAPS

-----------------------------------------------------------------------------
(* Arithmetic of aggregator addresses and versions. *)

\* With an even split the wrap of the PSN does not show in the aggregators.
LEMMA AggAddrMod ==
    ASSUME NEW p \in Nat
    PROVE  agg_addr(p) = p % AggLen
<1>1. /\ PsnSpace \in Nat /\ PsnSpace > 0 /\ AggLen \in Nat /\ AggLen > 0
      /\ PsnSpace % AggLen = 0
  BY PsnSpaceAssumption, AggLenAssumption, EvenSplitAssumption
<1>2. (p % PsnSpace) % AggLen = p % AggLen
  BY <1>1, ModMod, Zenon
<1> QED  BY <1>2 DEF agg_addr, psn

LEMMA VersionMod ==
    ASSUME NEW p \in Nat
    PROVE  set_version(p) = p % VersionSpace
<1>1. /\ PsnSpace \in Nat /\ PsnSpace > 0 /\ VersionSpace \in Nat /\ VersionSpace > 0
      /\ PsnSpace % VersionSpace = 0
  BY PsnSpaceAssumption, AggLenAssumption, VersionAssumption
<1>2. (p % PsnSpace) % VersionSpace = p % VersionSpace
  BY <1>1, ModMod, Zenon
<1> QED  BY <1>2 DEF set_version, psn

\* Two packets of one aggregator are at least AggLen apart (agg_addr).
LEMMA SameAggregator ==
    ASSUME NEW p \in Nat, NEW q \in Nat, q < p, agg_addr(p) = agg_addr(q)
    PROVE  q + AggLen <= p
<1>1. AggLen \in Nat /\ AggLen > 0 /\ p % AggLen = q % AggLen
  BY AggLenAssumption, AggAddrMod
<1> QED  BY <1>1, SameRemainder, Zenon

\* Packets AggLen apart share an aggregator.
LEMMA PreviousHolder ==
    ASSUME NEW p \in Nat, AggLen <= p
    PROVE  agg_addr(p - AggLen) = agg_addr(p)
<1> DEFINE y == p - AggLen
           k == p \div AggLen
           l == y \div AggLen
           d == p % AggLen
           e == y % AggLen
<1>1. k \in Nat /\ l \in Nat /\ d \in 0 .. AggLen - 1 /\ e \in 0 .. AggLen - 1
  BY DivMod, AggLenAssumption
<1>2. p = k * AggLen + d /\ y = l * AggLen + e
  BY DivMod, AggLenAssumption
<1>3. d - e = (l - k + 1) * AggLen /\ e - d = (k - l - 1) * AggLen
  <2> HIDE DEF k, l, d, e
  <2> QED  BY <1>1, <1>2, AggLenAssumption
<1>4. d = e
  <2> HIDE DEF k, l, d, e
  <2>1. CASE d > e
    BY <1>1, <1>3, <2>1, MultipleAtLeast, AggLenAssumption
  <2>2. CASE e > d
    BY <1>1, <1>3, <2>2, MultipleAtLeast, AggLenAssumption
  <2> QED  BY <1>1, <2>1, <2>2
<1>5. y \in Nat
  BY AggLenAssumption
<1> QED  BY <1>4, <1>5, AggAddrMod

\* They differ in version, however few bits of the PSN the version keeps.
LEMMA VersionsDiffer ==
    ASSUME NEW q \in Nat
    PROVE  set_version(q + AggLen) # set_version(q)
<1> SUFFICES ASSUME set_version(q + AggLen) = set_version(q) PROVE FALSE
  OBVIOUS
<1>1. /\ VersionSpace \in Nat /\ VersionSpace > 0 /\ q + AggLen \in Nat
      /\ q < q + AggLen
      /\ (q + AggLen) % VersionSpace = q % VersionSpace
  BY AggLenAssumption, VersionAssumption, VersionMod
<1>2. q + VersionSpace <= q + AggLen
  BY <1>1, SameRemainder, Zenon
<1> QED  BY <1>2, AggLenAssumption, VersionAssumption

LEMMA AggAddrType ==
    ASSUME NEW p \in Nat
    PROVE  agg_addr(p) \in Aggregators
BY AggLenAssumption, AggAddrMod DEF Aggregators

LEMMA VersionType ==
    ASSUME NEW p \in Nat
    PROVE  set_version(p) \in 0 .. VersionSpace - 1
BY VersionAssumption, AggLenAssumption, VersionMod

\* The window is at most half of the aggregators, and not empty.
LEMMA WindowLimitHalf ==
    /\ WindowLimit \in Nat
    /\ WindowLimit >= 1
    /\ 2 * WindowLimit <= AggLen
BY AggLenAssumption DEF WindowLimit

\* Adding the word of a rank that is not yet in the sum.
LEMMA AddWord ==
    ASSUME NEW S \in SUBSET Ranks, NEW r \in Ranks, r \notin S, NEW p \in Psns
    PROVE  SumOver(S, p) (+) Word(r, p) = SumOver(S \cup {r}, p)
BY DEF SumOver, Word, Terms, SetToBag, (+)

-----------------------------------------------------------------------------
(* Sending. *)

LEMMA PsnsNat == Psns \subseteq Nat
BY NPktsAssumption DEF Psns

\* The packets of a finite set, in order, form a sequence.
LEMMA InOrderSeq ==
    ASSUME NEW S, IsFiniteSet(S), NEW s \in InOrder(S)
    PROVE  s \in Seq(S)
<1>1. Cardinality(S) \in Nat
  BY FS_CardinalityType
<1>2. s \in [1 .. Cardinality(S) -> S]
  BY DEF InOrder
<1> QED  BY <1>1, <1>2

\* What one shift_send after the retransmission of packets in the window does
\* to the window and the link of the rank.
Sends(r, lo, n, s) ==
    /\ n \in next[r] .. NPkts
    /\ n <= lo + WindowLimit
    /\ next' = [next EXCEPT ![r] = n]
    /\ s \in Seq(Psns)
    /\ up' = [up EXCEPT ![r] = up[r] \o s]
    /\ \A i \in DOMAIN s :
         /\ s[i] < n
         /\ next[r] <= s[i] + WindowLimit
         /\ \A k \in 1 .. i - 1 : s[k] < s[i] + WindowLimit

LEMMA SendFacts ==
    ASSUME TypeOK, WindowOK, NEW r \in Ranks, NEW lo \in left[r] .. next[r],
           NEW resent \in SUBSET (left[r] .. next[r] - 1),
           shift_send(r, lo, resent)
    PROVE  \E n, s : Sends(r, lo, n, s)
<1> USE NPktsAssumption, WindowLimitHalf
<1>1. left[r] \in 0 .. NPkts /\ next[r] \in 0 .. NPkts
  BY DEF TypeOK
<1>2. PICK n \in next[r] .. NPkts :
        /\ n <= lo + WindowLimit
        /\ next' = [next EXCEPT ![r] = n]
        /\ \E old \in InOrder(resent), new \in InOrder(next[r] .. n - 1) :
             up' = [up EXCEPT ![r] = @ \o (old \o new)]
  BY DEF shift_send
<1>3. PICK old \in InOrder(resent), new \in InOrder(next[r] .. n - 1) :
             up' = [up EXCEPT ![r] = @ \o (old \o new)]
  BY <1>2
<1> DEFINE fresh == next[r] .. n - 1
           window == left[r] .. next[r] - 1
<1>4. IsFiniteSet(window) /\ IsFiniteSet(fresh)
  <2>1. left[r] \in Int /\ next[r] \in Int /\ next[r] - 1 \in Int /\ n - 1 \in Int
    BY <1>1, <1>2
  <2> QED  BY <2>1, FS_Interval, Zenon
<1>5. IsFiniteSet(resent)
  BY <1>4, FS_Subset
<1>6. window \subseteq Psns /\ fresh \subseteq Psns
  BY <1>1, <1>2 DEF Psns
<1> HIDE DEF fresh, window
<1>7. old \in Seq(resent) /\ new \in Seq(fresh)
  BY <1>3, <1>4, <1>5, InOrderSeq DEF fresh
<1>8. old \in Seq(window) /\ old \in Seq(Psns) /\ new \in Seq(Psns)
  BY <1>6, <1>7, SeqMonotonic DEF window
<1>9. /\ \A i \in 1 .. Len(old) : old[i] \in window
      /\ \A i \in 1 .. Len(new) : new[i] \in fresh
  BY <1>7, <1>8, ElementOfSeq
<1> DEFINE s == old \o new
<1>10. /\ s \in Seq(Psns)
       /\ Len(s) = Len(old) + Len(new) /\ Len(old) \in Nat /\ Len(new) \in Nat
       /\ DOMAIN s = 1 .. Len(s)
       /\ \A i \in 1 .. Len(s) : s[i] = IF i <= Len(old) THEN old[i] ELSE new[i - Len(old)]
  BY <1>8, ConcatProperties, LenProperties
<1>11. up' = [up EXCEPT ![r] = up[r] \o s]
  BY <1>3
<1> HIDE DEF s
<1>12. \A i \in DOMAIN s : i <= Len(old) => s[i] \in window
  BY <1>9, <1>10
<1>13. \A i \in DOMAIN s : ~ i <= Len(old) => s[i] \in fresh
  <2>1. \A i \in DOMAIN s : ~ i <= Len(old) => i - Len(old) \in 1 .. Len(new)
    BY <1>10
  <2> QED  BY <1>9, <1>10, <2>1
<1>14. \A x \in window : x \in left[r] .. next[r] - 1
  BY DEF window
<1>15. \A x \in fresh : x \in next[r] .. n - 1
  BY DEF fresh
<1>16. next[r] <= left[r] + WindowLimit /\ left[r] <= next[r]
  BY DEF WindowOK
<1>17. \A i \in DOMAIN s :
         /\ s[i] < n
         /\ next[r] <= s[i] + WindowLimit
         /\ \A k \in 1 .. i - 1 : s[k] < s[i] + WindowLimit
  <2> SUFFICES ASSUME NEW i \in DOMAIN s
               PROVE  /\ s[i] < n
                      /\ next[r] <= s[i] + WindowLimit
                      /\ \A k \in 1 .. i - 1 : s[k] < s[i] + WindowLimit
    OBVIOUS
  <2>1. s[i] \in left[r] .. n - 1
    BY <1>1, <1>2, <1>12, <1>13, <1>14, <1>15, <1>16
  <2>2. ASSUME NEW k \in 1 .. i - 1
        PROVE  s[k] < s[i] + WindowLimit
    <3>1. k \in DOMAIN s /\ k < i /\ i \in Nat /\ k \in Nat
      BY <1>10
    <3>2. CASE k <= Len(old)
      <4>1. s[k] \in left[r] .. next[r] - 1
        BY <1>12, <1>14, <3>1, <3>2
      <4> QED  BY <1>1, <1>2, <1>16, <2>1, <4>1, SMTT(30)
    <3>3. CASE ~ k <= Len(old)
      <4>1. ~ i <= Len(old)
        BY <1>10, <3>1, <3>3
      <4>2. s[k] \in next[r] .. n - 1 /\ s[i] \in next[r] .. n - 1
        BY <1>13, <1>15, <3>1, <3>3, <4>1
      <4> QED  BY <1>1, <1>2, <4>2
    <3> QED  BY <3>2, <3>3
  <2> QED  BY <1>1, <1>2, <1>16, <2>1, <2>2
<1> QED  BY <1>2, <1>10, <1>11, <1>17 DEF Sends

-----------------------------------------------------------------------------
(* Queue elements are packets. *)

LEMMA RecircType ==
    ASSUME TypeOK, NEW j \in DOMAIN recirc
    PROVE  /\ recirc[j] \in [psn : Psns, rank : Ranks, data0 : Words, multicast : BOOLEAN]
           /\ recirc[j].psn \in Psns
<1> DEFINE P == [psn : Psns, rank : Ranks, data0 : Words, multicast : BOOLEAN]
<1>1. recirc \in Seq(P)
  BY DEF TypeOK
<1>2. recirc[j] \in P
  <2> HIDE DEF P
  <2> QED  BY <1>1, ElementOfSeq, LenProperties
<1> QED  BY <1>2

LEMMA DownType ==
    ASSUME TypeOK, NEW r \in Ranks, NEW j \in DOMAIN down[r]
    PROVE  /\ down[r][j] \in [psn : Psns, payload : Payloads]
           /\ down[r][j].psn \in Psns
<1> DEFINE P == [psn : Psns, payload : Payloads]
<1>1. down[r] \in Seq(P)
  BY DEF TypeOK
<1>2. down[r][j] \in P
  <2> HIDE DEF P
  <2> QED  BY <1>1, ElementOfSeq, LenProperties
<1> QED  BY <1>2

\* What holds of the switch and of answered packets survives every step that
\* leaves the switch alone and forgets no acknowledgement.
LEMMA SwitchKept ==
    ASSUME IInv, UNCHANGED <<switchVars, holder>>,
           \A x \in Ranks, q \in Psns : Passed(x, q) => Passed(x, q)',
           \A x \in Ranks, q \in Psns : Acked(x, q) => Acked(x, q)'
    PROVE  /\ \A a \in Aggregators : CellOK(a)'
           /\ RecircOK'
           /\ \A q \in Psns : Answered(q) => Answered(q)'
<1> USE NPktsAssumption
<1>1. TypeOK
  BY DEF IInv
<1>2. \A x \in Ranks, q \in Psns : Passed(x, q) => Passed(x, q)'
  OBVIOUS
<1>3. /\ reg_bitmap' = reg_bitmap /\ aggregator_array' = aggregator_array
      /\ recirc' = recirc /\ holder' = holder
  BY DEF switchVars
<1>4. \A q, S : Holds(q, S)' <=> Holds(q, S)
  BY <1>3 DEF Holds
<1>5. ASSUME NEW a \in Aggregators PROVE CellOK(a)'
  <2>1. CellOK(a) /\ holder[a] \in -1 .. NPkts - 1 /\ reg_bitmap[a].bitmap \subseteq Ranks
    BY <1>1 DEF IInv, TypeOK
  <2>2. CASE holder[a] = -1
    BY <1>3, <2>1, <2>2 DEF CellOK
  <2>3. CASE holder[a] # -1
    <3>1. PICK q \in Psns : q = holder[a]
      BY <2>1, <2>3 DEF Psns
    <3>2. \A x \in reg_bitmap[a].bitmap : Passed(x, q)'
      BY <1>2, <2>1, <2>3, <3>1 DEF CellOK
    <3> QED  BY <1>3, <2>1, <2>3, <3>1, <3>2 DEF CellOK, Passed, Holds
  <2> QED  BY <2>2, <2>3
<1>6. RecircOK'
  <2> SUFFICES ASSUME NEW j \in DOMAIN recirc, NEW q \in Psns, q = recirc[j].psn
               PROVE  /\ Holds(q, Ranks)
                      /\ recirc[j].data0 = Result(q)
                      /\ \A x \in Ranks : Passed(x, q)'
                      /\ \A i \in 1 .. j - 1 : recirc[i].psn < q + WindowLimit
    BY <1>1, <1>3, RecircType DEF RecircOK, Passed, Holds, WindowLimit
  <2>1. /\ Holds(q, Ranks)
        /\ recirc[j].data0 = Result(q)
        /\ \A x \in Ranks : Passed(x, q)
        /\ \A i \in 1 .. j - 1 : recirc[i].psn < q + WindowLimit
    BY DEF IInv, RecircOK
  <2> QED  BY <1>2, <2>1
<1>7. ASSUME NEW q \in Psns, Answered(q) PROVE Answered(q)'
  <2>1. \A x \in Ranks : Passed(x, q)'
    BY <1>2, <1>7 DEF Answered
  <2>2. (\A x \in Ranks : Acked(x, q)) => (\A x \in Ranks : Acked(x, q)')
    OBVIOUS
  <2> QED  BY <1>3, <1>4, <1>7, <2>1, <2>2 DEF Answered, WindowLimit
<1> QED  BY <1>5, <1>6, <1>7

-----------------------------------------------------------------------------
(* Steps of a worker. *)

\* The link of r after sending s, element by element.
LinkAfter(r, n, s) ==
    /\ up' \in [Ranks -> Seq(Psns)]
    /\ next' \in [Ranks -> 0 .. NPkts]
    /\ next'[r] = n
    /\ \A x \in Ranks : x # r => up'[x] = up[x] /\ next'[x] = next[x]
    /\ Len(up[r]) \in Nat /\ Len(s) \in Nat
    /\ DOMAIN up[r] = 1 .. Len(up[r]) /\ DOMAIN s = 1 .. Len(s)
    /\ DOMAIN up'[r] = 1 .. Len(up[r]) + Len(s)
    /\ \A i \in 1 .. Len(up[r]) : up'[r][i] = up[r][i]
    /\ \A i \in 1 .. Len(up[r]) + Len(s) :
         ~ i <= Len(up[r]) => /\ up'[r][i] = s[i - Len(up[r])]
                              /\ i - Len(up[r]) \in DOMAIN s

LEMMA SentLink ==
    ASSUME TypeOK, NEW r \in Ranks, NEW lo, NEW n, NEW s, Sends(r, lo, n, s)
    PROVE  LinkAfter(r, n, s)
<1>1. up[r] \in Seq(Psns) /\ s \in Seq(Psns) /\ up \in [Ranks -> Seq(Psns)]
      /\ next \in [Ranks -> 0 .. NPkts]
  BY DEF TypeOK, Sends
<1>2. up'[r] = up[r] \o s /\ next'[r] = n
  BY <1>1 DEF Sends
<1>3. /\ up[r] \o s \in Seq(Psns)
      /\ Len(up[r] \o s) = Len(up[r]) + Len(s)
      /\ DOMAIN (up[r] \o s) = 1 .. Len(up[r] \o s)
      /\ DOMAIN up[r] = 1 .. Len(up[r]) /\ DOMAIN s = 1 .. Len(s)
      /\ Len(up[r]) \in Nat /\ Len(s) \in Nat
      /\ \A i \in 1 .. Len(up[r]) + Len(s) :
            (up[r] \o s)[i] = IF i <= Len(up[r]) THEN up[r][i] ELSE s[i - Len(up[r])]
  BY <1>1, ConcatProperties, LenProperties
<1>4. up' \in [Ranks -> Seq(Psns)]
  BY <1>1, <1>3 DEF Sends
<1>5. next' \in [Ranks -> 0 .. NPkts]
  BY <1>1, NPktsAssumption DEF Sends
<1>6. \A x \in Ranks : x # r => up'[x] = up[x] /\ next'[x] = next[x]
  BY <1>1 DEF Sends
<1> QED  BY <1>2, <1>3, <1>4, <1>5, <1>6 DEF LinkAfter

\* Sending keeps it true that nothing older than q - WindowLimit is on its way.
LEMMA SendKeepsPassed ==
    ASSUME TypeOK, NEW r \in Ranks, NEW lo, NEW n, NEW s, Sends(r, lo, n, s),
           NEW x \in Ranks, NEW q \in Psns, Passed(x, q)
    PROVE  Passed(x, q)'
<1> USE PsnsNat, NPktsAssumption, WindowLimitHalf
<1>0. LinkAfter(r, n, s)
  BY SentLink
<1>1. next[r] \in 0 .. NPkts /\ n \in next[r] .. NPkts /\ q \in Nat
      /\ s \in Seq(Psns)
  BY DEF TypeOK, Sends
<1>2. CASE x # r
  BY <1>2, <1>0 DEF Passed, WindowLimit, LinkAfter
<1>3. CASE x = r
  <2>1. q < next[r] /\ \A i \in DOMAIN up[r] : q < up[r][i] + WindowLimit
    BY <1>3 DEF Passed
  <2>2. q < next'[r]
    BY <1>1, <2>1, <1>0 DEF LinkAfter
  <2>3. ASSUME NEW i \in DOMAIN up'[r]
        PROVE  q < up'[r][i] + WindowLimit
    <3>1. CASE i <= Len(up[r])
      <4>1. i \in DOMAIN up[r] /\ up'[r][i] = up[r][i]
        BY <3>1, <1>0 DEF LinkAfter
      <4> QED  BY <2>1, <4>1
    <3>2. CASE ~ i <= Len(up[r])
      <4>1. i - Len(up[r]) \in DOMAIN s /\ up'[r][i] = s[i - Len(up[r])]
        BY <3>2, <1>0 DEF LinkAfter
      <4>2. next[r] <= s[i - Len(up[r])] + WindowLimit
        BY <4>1 DEF Sends
      <4>3. s[i - Len(up[r])] \in Nat
        BY <1>1, <4>1, ElementOfSeq, LenProperties
      <4> QED  BY <1>1, <2>1, <4>1, <4>2, <4>3
    <3> QED  BY <3>1, <3>2
  <2> QED  BY <1>3, <2>2, <2>3 DEF Passed, WindowLimit
<1> QED  BY <1>2, <1>3

LEMMA SendKeepsUpOK ==
    ASSUME TypeOK, UpOK, NEW r \in Ranks, NEW lo, NEW n, NEW s, Sends(r, lo, n, s)
    PROVE  UpOK'
<1> USE PsnsNat, NPktsAssumption, WindowLimitHalf
<1>0. LinkAfter(r, n, s)
  BY SentLink
<1>1. next[r] \in 0 .. NPkts /\ n \in next[r] .. NPkts /\ s \in Seq(Psns)
      /\ up[r] \in Seq(Psns)
  BY DEF TypeOK, Sends
<1> SUFFICES ASSUME NEW x \in Ranks, NEW j \in DOMAIN up'[x]
             PROVE  /\ up'[x][j] < next'[x]
                    /\ \A i \in 1 .. j - 1 : up'[x][i] < up'[x][j] + WindowLimit
  BY DEF UpOK, WindowLimit
<1>2. CASE x # r
  BY <1>2, <1>0 DEF UpOK, LinkAfter
<1>3. CASE x = r
  <2>1. CASE j <= Len(up[r])
    <3>1. j \in DOMAIN up[r] /\ up'[r][j] = up[r][j]
          /\ \A i \in 1 .. j - 1 : up'[r][i] = up[r][i] /\ i \in DOMAIN up[r]
      BY <1>3, <2>1, <1>0 DEF LinkAfter
    <3>2. up[r][j] < next[r] /\ \A i \in 1 .. j - 1 : up[r][i] < up[r][j] + WindowLimit
      BY <3>1 DEF UpOK
    <3>3. up[r][j] \in Nat
      BY <1>1, <3>1, ElementOfSeq, LenProperties
    <3> QED  BY <1>1, <1>3, <3>1, <3>2, <3>3, <1>0 DEF LinkAfter
  <2>2. CASE ~ j <= Len(up[r])
    <3> DEFINE k == j - Len(up[r])
    <3>1. k \in DOMAIN s /\ up'[r][j] = s[k] /\ DOMAIN s = 1 .. Len(s) /\ j \in Nat
          /\ Len(up[r]) \in Nat
      BY <1>3, <2>2, <1>0, SMTT(30) DEF LinkAfter
    <3>2. s[k] < n /\ next[r] <= s[k] + WindowLimit
          /\ \A i \in 1 .. k - 1 : s[i] < s[k] + WindowLimit
      BY <3>1 DEF Sends
    <3>3. s[k] \in Nat
      BY <1>1, <3>1, ElementOfSeq, LenProperties
    <3>4. ASSUME NEW i \in 1 .. j - 1
          PROVE  up'[r][i] < s[k] + WindowLimit
      <4>1. CASE i <= Len(up[r])
        <5>1. i \in DOMAIN up[r] /\ up'[r][i] = up[r][i]
          BY <3>1, <4>1, <1>0 DEF LinkAfter
        <5>2. up[r][i] < next[r] /\ up[r][i] \in Nat
          BY <1>1, <5>1, ElementOfSeq, LenProperties DEF UpOK
        <5> QED  BY <1>1, <3>2, <3>3, <5>1, <5>2, SMTT(30)
      <4>2. CASE ~ i <= Len(up[r])
        <5>1. i \in 1 .. Len(up[r]) + Len(s)
          BY <1>3, <3>1, <1>0 DEF LinkAfter
        <5>2. up'[r][i] = s[i - Len(up[r])] /\ i - Len(up[r]) \in 1 .. k - 1
          BY <3>1, <4>2, <5>1, <1>0 DEF LinkAfter
        <5> QED  BY <3>2, <5>2
      <4> QED  BY <4>1, <4>2
    <3> HIDE DEF k
    <3>5. up'[r][j] < next'[r]
      BY <3>1, <3>2, <1>0 DEF LinkAfter
    <3> QED  BY <1>3, <3>1, <3>4, <3>5
  <2> QED  BY <2>1, <2>2
<1> QED  BY <1>2, <1>3

\* What all worker iterations have in common: the window of r now starts at lo,
\* A are the acknowledged packets in it, and s has been sent.
Iteration(r, lo, A, n, s) ==
    /\ lo \in left[r] .. next[r]
    /\ Sends(r, lo, n, s)
    /\ left' = [left EXCEPT ![r] = lo]
    /\ A \subseteq lo .. next[r] - 1
    /\ acked' = [acked EXCEPT ![r] = A]
    /\ \A q \in Psns : Acked(r, q) => q < lo \/ q \in A
    /\ UNCHANGED <<switchVars, holder>>

LEMMA IterationKeepsAcked ==
    ASSUME IInv, NEW r \in Ranks, NEW lo, NEW A, NEW n, NEW s, Iteration(r, lo, A, n, s),
           NEW x \in Ranks, NEW q \in Psns
    PROVE  /\ Acked(x, q) => Acked(x, q)'
           /\ x # r => (Acked(x, q)' <=> Acked(x, q))
           /\ x = r => (Acked(x, q)' <=> q < lo \/ q \in A)
BY DEF IInv, TypeOK, Iteration, Acked

LEMMA IterationKeepsWindow ==
    ASSUME IInv, NEW r \in Ranks, NEW lo, NEW A, NEW n, NEW s, Iteration(r, lo, A, n, s)
    PROVE  /\ left' \in [Ranks -> 0 .. NPkts]
           /\ acked' \in [Ranks -> SUBSET Psns]
           /\ WindowOK'
<1> USE NPktsAssumption, WindowLimitHalf
<1>1. /\ left \in [Ranks -> 0 .. NPkts] /\ next \in [Ranks -> 0 .. NPkts]
      /\ acked \in [Ranks -> SUBSET Psns]
  BY DEF IInv, TypeOK
<1>2. /\ lo \in left[r] .. next[r] /\ A \subseteq lo .. next[r] - 1
      /\ left' = [left EXCEPT ![r] = lo] /\ acked' = [acked EXCEPT ![r] = A]
      /\ n \in next[r] .. NPkts /\ n <= lo + WindowLimit
      /\ next' = [next EXCEPT ![r] = n]
  BY DEF Iteration, Sends
<1>3. left[r] \in 0 .. NPkts /\ next[r] \in 0 .. NPkts
  BY <1>1
<1>4. lo \in 0 .. NPkts /\ A \subseteq Psns
  BY <1>2, <1>3 DEF Psns
<1>5. A \subseteq lo .. n - 1 /\ lo <= n
  BY <1>2, <1>3
<1>6. ASSUME NEW x \in Ranks
      PROVE  /\ left'[x] <= next'[x]
             /\ next'[x] <= left'[x] + WindowLimit
             /\ acked'[x] \subseteq left'[x] .. next'[x] - 1
  <2>1. CASE x = r
    BY <1>1, <1>2, <1>5, <2>1
  <2>2. CASE x # r
    BY <1>1, <1>2, <2>2 DEF IInv, WindowOK
  <2> QED  BY <2>1, <2>2
<1>7. WindowOK'
  BY <1>6 DEF WindowOK, WindowLimit
<1> QED  BY <1>1, <1>2, <1>4, <1>7

LEMMA IterationKeepsSwitch ==
    ASSUME IInv, NEW r \in Ranks, NEW lo, NEW A, NEW n, NEW s, Iteration(r, lo, A, n, s)
    PROVE  /\ UpOK'
           /\ \A a \in Aggregators : CellOK(a)'
           /\ RecircOK'
           /\ \A q \in Psns : Answered(q) => Answered(q)'
<1>1. TypeOK /\ UpOK /\ Sends(r, lo, n, s) /\ UNCHANGED <<switchVars, holder>>
  BY DEF IInv, Iteration
<1>2. UpOK'
  BY <1>1, SendKeepsUpOK
<1>3. \A x \in Ranks, q \in Psns : Passed(x, q) => Passed(x, q)'
  BY <1>1, SendKeepsPassed
<1>4. \A x \in Ranks, q \in Psns : Acked(x, q) => Acked(x, q)'
  BY IterationKeepsAcked
<1> QED  BY <1>1, <1>2, <1>3, <1>4, SwitchKept

\* Responses in flight afterwards were in flight before.
DownFrom ==
    /\ down' \in [Ranks -> Seq([psn : Psns, payload : Payloads])]
    /\ \A x \in Ranks : \A i \in DOMAIN down'[x] :
         \E k \in DOMAIN down[x] : down'[x][i] = down[x][k]

LEMMA DownUnchanged ==
    ASSUME TypeOK, UNCHANGED down
    PROVE  DownFrom
BY DEF TypeOK, DownFrom

LEMMA DownTail ==
    ASSUME TypeOK, NEW r \in Ranks, down[r] # <<>>, down' = [down EXCEPT ![r] = Tail(@)]
    PROVE  DownFrom
<1> DEFINE P == [psn : Psns, payload : Payloads]
<1>1. down \in [Ranks -> Seq(P)]
  BY DEF TypeOK
<1> HIDE DEF P
<1>2. /\ Tail(down[r]) \in Seq(P)
      /\ Len(Tail(down[r])) = Len(down[r]) - 1
      /\ \A i \in 1 .. Len(Tail(down[r])) : Tail(down[r])[i] = down[r][i + 1]
  BY <1>1, HeadTailProperties
<1>3. down' \in [Ranks -> Seq(P)]
  BY <1>1, <1>2
<1>4. ASSUME NEW x \in Ranks, NEW i \in DOMAIN down'[x]
      PROVE  \E k \in DOMAIN down[x] : down'[x][i] = down[x][k]
  <2>1. CASE x # r
    BY <1>1, <2>1
  <2>2. CASE x = r
    <3>1. down'[x] = Tail(down[r])
      BY <1>1, <2>2
    <3>2. /\ DOMAIN Tail(down[r]) = 1 .. Len(Tail(down[r]))
          /\ DOMAIN down[r] = 1 .. Len(down[r]) /\ Len(down[r]) \in Nat
      BY <1>1, <1>2, LenProperties
    <3>3. i \in 1 .. Len(down[r]) - 1 /\ down'[x][i] = Tail(down[r])[i]
      BY <1>2, <3>1, <3>2
    <3>4. Tail(down[r])[i] = down[r][i + 1]
      BY <1>2, <3>3, Zenon
    <3> QED  BY <2>2, <3>2, <3>3, <3>4
  <2> QED  BY <2>1, <2>2
<1> QED  BY <1>3, <1>4 DEF DownFrom, P

LEMMA DownKept ==
    ASSUME IInv, DownFrom, \A q \in Psns : Answered(q) => Answered(q)'
    PROVE  DownOK'
<1> SUFFICES ASSUME NEW x \in Ranks, NEW i \in DOMAIN down'[x],
                    NEW q \in Psns, q = down'[x][i].psn
             PROVE  /\ Answered(q)'
                    /\ down'[x][i].payload = IF keeps_payload(x, q)
                                             THEN <<Result(q), Result(q)>>
                                             ELSE <<>>
  <2>1. ASSUME NEW x \in Ranks, NEW i \in DOMAIN down'[x]
        PROVE  down'[x][i].psn \in Psns
    <3>1. PICK k \in DOMAIN down[x] : down'[x][i] = down[x][k]
      BY DEF DownFrom
    <3> QED  BY <3>1, DownType DEF IInv
  <2> QED  BY <2>1 DEF DownOK, Answered, Passed, Holds, Acked, WindowLimit
<1>1. PICK k \in DOMAIN down[x] : down'[x][i] = down[x][k]
  BY DEF DownFrom
<1>2. /\ Answered(q)
      /\ down[x][k].payload = IF keeps_payload(x, q)
                              THEN <<Result(q), Result(q)>>
                              ELSE <<>>
  BY <1>1 DEF IInv, DownOK
<1> QED  BY <1>1, <1>2

\* An iteration that accepts no response.
LEMMA SilentIteration ==
    ASSUME IInv, NEW r \in Ranks, NEW resent \in SUBSET (left[r] .. next[r] - 1),
           shift_send(r, left[r], resent),
           UNCHANGED <<left, acked, mem>>, UNCHANGED <<switchVars, holder>>, DownFrom
    PROVE  IInv'
<1>1. TypeOK /\ WindowOK /\ left[r] \in 0 .. NPkts /\ next[r] \in 0 .. NPkts
      /\ left \in [Ranks -> 0 .. NPkts] /\ acked \in [Ranks -> SUBSET Psns]
  BY DEF IInv, TypeOK
<1>2. left[r] \in left[r] .. next[r] /\ acked[r] \subseteq left[r] .. next[r] - 1
  BY <1>1, NPktsAssumption DEF WindowOK
<1>3. PICK n, s : Sends(r, left[r], n, s)
  BY <1>1, <1>2, SendFacts
<1>4. Iteration(r, left[r], acked[r], n, s)
  BY <1>1, <1>2, <1>3 DEF Iteration, Acked
<1>5. /\ UpOK' /\ RecircOK' /\ WindowOK' /\ \A a \in Aggregators : CellOK(a)'
      /\ \A q \in Psns : Answered(q) => Answered(q)'
  BY <1>4, IterationKeepsSwitch, IterationKeepsWindow
<1>6. DownOK'
  BY <1>5, DownKept
<1>7. AckedOK'
  BY <1>5 DEF IInv, AckedOK, Acked
<1>8. ResultCorrect'
  BY DEF IInv, ResultCorrect, Acked
<1>9. TypeOK'
  <2>1. LinkAfter(r, n, s)
    BY <1>1, <1>3, SentLink
  <2> QED  BY <1>1, <2>1 DEF TypeOK, LinkAfter, DownFrom, switchVars
<1> QED  BY <1>5, <1>6, <1>7, <1>8, <1>9 DEF IInv

\* The switch keeps the payload exactly for the ranks that store it.
LEMMA PayloadWhereNeeded ==
    ASSUME NEW r \in Ranks, NEW p \in Psns
    PROVE  need_rx(r, p) <=> keeps_payload(r, p)
BY OpAssumption DEF need_rx, keeps_payload, OpCodes

\* What an iteration that accepts the response of p means to its rank.
Delivers(r, p) ==
    /\ ~ Acked(r, p)
    /\ Answered(p)
    /\ \A x \in Ranks, q \in Psns : Acked(x, q)' <=> Acked(x, q) \/ (x = r /\ q = p)
    /\ mem' = IF need_rx(r, p)
              THEN [mem EXCEPT ![r][p] = <<Result(p), Result(p)>>]
              ELSE mem
    /\ \E n \in next[r] .. NPkts : next' = [next EXCEPT ![r] = n]

LEMMA AcceptStep ==
    ASSUME IInv, NEW r \in Ranks, RxAccept(r), UNCHANGED <<switchVars, holder>>
    PROVE  IInv' /\ \E p \in Psns : Delivers(r, p)
<1> USE NPktsAssumption
<1>1. /\ TypeOK /\ WindowOK
      /\ left \in [Ranks -> 0 .. NPkts] /\ next \in [Ranks -> 0 .. NPkts]
      /\ acked \in [Ranks -> SUBSET Psns] /\ mem \in [Ranks -> [Psns -> Payloads]]
  BY DEF IInv, TypeOK
<1>2. left[r] \in 0 .. NPkts /\ next[r] \in 0 .. NPkts
      /\ acked[r] \subseteq left[r] .. next[r] - 1
  BY <1>1 DEF WindowOK
<1>3. 1 \in DOMAIN down[r] /\ Head(down[r]) = down[r][1]
  <2> DEFINE P == [psn : Psns, payload : Payloads]
  <2>1. down[r] \in Seq(P) /\ down[r] # <<>>
    BY <1>1 DEF TypeOK, RxAccept
  <2> HIDE DEF P
  <2> QED  BY <2>1, EmptySeq, LenProperties
<1>4. PICK p \in Psns : p = Head(down[r]).psn
  BY <1>1, <1>3, DownType
<1> DEFINE marked == acked[r] \cup {p}
<1>5. /\ Accepts(r, p)
      /\ mem' = IF need_rx(r, p) THEN [mem EXCEPT ![r][p] = Head(down[r]).payload] ELSE mem
      /\ \E lo \in left[r] .. next[r] :
           /\ left[r] .. lo - 1 \subseteq marked
           /\ lo \notin marked
           /\ left' = [left EXCEPT ![r] = lo]
           /\ acked' = [acked EXCEPT ![r] = {x \in marked : x >= lo}]
           /\ shift_send(r, lo, collect_retrans(r, p))
      /\ down' = [down EXCEPT ![r] = Tail(@)]
  BY <1>4 DEF RxAccept
<1>6. p \in left[r] .. next[r] - 1 /\ p \notin acked[r] /\ ~ Acked(r, p)
  BY <1>1, <1>2, <1>5 DEF Accepts, Acked
<1>7. PICK lo \in left[r] .. next[r] :
           /\ left[r] .. lo - 1 \subseteq marked
           /\ left' = [left EXCEPT ![r] = lo]
           /\ acked' = [acked EXCEPT ![r] = {x \in marked : x >= lo}]
           /\ shift_send(r, lo, collect_retrans(r, p))
  BY <1>5
<1> DEFINE A == {x \in marked : x >= lo}
<1>8. collect_retrans(r, p) \in SUBSET (left[r] .. next[r] - 1)
  BY <1>2, <1>6 DEF collect_retrans
<1>9. PICK n, s : Sends(r, lo, n, s)
  BY <1>1, <1>7, <1>8, SendFacts
<1>10. A \subseteq lo .. next[r] - 1
  BY <1>2, <1>6, <1>7
<1>11. \A q \in Psns : (Acked(r, q) \/ q = p) <=> (q < lo \/ q \in A)
  BY <1>2, <1>6, <1>7, PsnsNat DEF Acked
<1>12. Iteration(r, lo, A, n, s)
  BY <1>7, <1>9, <1>10, <1>11 DEF Iteration
<1> HIDE DEF A, marked
<1>13. /\ UpOK' /\ RecircOK' /\ WindowOK' /\ \A a \in Aggregators : CellOK(a)'
       /\ \A q \in Psns : Answered(q) => Answered(q)'
       /\ left' \in [Ranks -> 0 .. NPkts] /\ acked' \in [Ranks -> SUBSET Psns]
  BY <1>12, IterationKeepsSwitch, IterationKeepsWindow
<1>14. DownFrom
  BY <1>1, <1>5, DownTail DEF RxAccept
<1>15. DownOK'
  BY <1>13, <1>14, DownKept
<1>16. /\ Answered(p)
       /\ Head(down[r]).payload = IF need_rx(r, p) THEN <<Result(p), Result(p)>> ELSE <<>>
  <2>1. /\ Answered(p)
        /\ down[r][1].payload = IF keeps_payload(r, p)
                                THEN <<Result(p), Result(p)>> ELSE <<>>
    BY <1>3, <1>4 DEF IInv, DownOK
  <2>2. need_rx(r, p) <=> keeps_payload(r, p)
    BY PayloadWhereNeeded
  <2> QED  BY <1>3, <2>1, <2>2
<1>17. \A x \in Ranks, q \in Psns : Acked(x, q)' <=> Acked(x, q) \/ (x = r /\ q = p)
  BY <1>11, <1>12, IterationKeepsAcked
<1>18. AckedOK'
  BY <1>13, <1>16, <1>17 DEF IInv, AckedOK
<1>19. mem' \in [Ranks -> [Psns -> Payloads]]
  <2>1. Head(down[r]).payload \in Payloads
    BY <1>1, <1>3, DownType
  <2> QED  BY <1>1, <1>5, <2>1
<1>20. ResultCorrect'
  <2> SUFFICES ASSUME NEW x \in Ranks, NEW q \in Psns
               PROVE  mem'[x][q] = IF Acked(x, q)' /\ need_rx(x, q)
                                   THEN <<Result(q), Result(q)>>
                                   ELSE <<>>
    BY DEF ResultCorrect
  <2>1. mem[x][q] = IF Acked(x, q) /\ need_rx(x, q)
                    THEN <<Result(q), Result(q)>>
                    ELSE <<>>
    BY DEF IInv, ResultCorrect
  <2>2. CASE x = r /\ q = p
    <3>1. CASE need_rx(r, p)
      BY <1>1, <1>5, <1>16, <1>17, <2>2, <3>1
    <3>2. CASE ~ need_rx(r, p)
      BY <1>5, <2>1, <2>2, <3>2
    <3> QED  BY <3>1, <3>2
  <2>3. CASE ~ (x = r /\ q = p)
    <3>1. mem'[x][q] = mem[x][q]
      BY <1>1, <1>5, <2>3
    <3> QED  BY <1>17, <2>1, <2>3, <3>1
  <2> QED  BY <2>2, <2>3
<1>21. TypeOK'
  <2>1. LinkAfter(r, n, s)
    BY <1>1, <1>9, SentLink
  <2> QED  BY <1>1, <1>13, <1>14, <1>19, <2>1 DEF TypeOK, LinkAfter, DownFrom, switchVars
<1>22. Delivers(r, p)
  <2>1. \E m \in next[r] .. NPkts : next' = [next EXCEPT ![r] = m]
    BY <1>9 DEF Sends
  <2> QED  BY <1>5, <1>6, <1>16, <1>17, <2>1 DEF Delivers
<1> QED  BY <1>13, <1>15, <1>18, <1>20, <1>21, <1>22 DEF IInv

LEMMA WorkerStep ==
    ASSUME IInv, NEW r \in Ranks, Worker(r)
    PROVE  IInv'
<1>1. CASE RxAccept(r)
  BY <1>1, AcceptStep DEF Worker
<1>2. CASE RxRedundant(r)
  <2>1. DownFrom
    BY <1>2, DownTail DEF RxRedundant, IInv
  <2> QED  BY <1>2, <2>1, SilentIteration DEF RxRedundant, Worker
<1>3. CASE TxProcess(r)
  <2>1. DownFrom
    BY <1>3, DownUnchanged DEF TxProcess, IInv
  <2> QED  BY <1>3, <2>1, SilentIteration DEF TxProcess, Worker
<1>4. CASE Timeout(r)
  <2>1. DownFrom
    BY <1>4, DownUnchanged DEF Timeout, IInv
  <2>2. unacked(r) \in SUBSET (left[r] .. next[r] - 1)
    BY DEF unacked
  <2> QED  BY <1>4, <2>1, <2>2, SilentIteration DEF Timeout, Worker
<1> QED  BY <1>1, <1>2, <1>3, <1>4 DEF Worker

-----------------------------------------------------------------------------
(* Steps of the switch and of the links. *)

\* Removing the first packet of a link keeps the invariants about the link.
LEMMA UpTail ==
    ASSUME TypeOK, UpOK, NEW r \in Ranks, up[r] # <<>>,
           up' = [up EXCEPT ![r] = Tail(@)], UNCHANGED next
    PROVE  /\ up' \in [Ranks -> Seq(Psns)]
           /\ UpOK'
           /\ \A x \in Ranks, q \in Psns : Passed(x, q) => Passed(x, q)'
           /\ Head(up[r]) \in Psns
           /\ \A q \in Psns : q = Head(up[r]) => Passed(r, q)'
           /\ \A q \in Psns : (\A i \in DOMAIN up[r] : q < up[r][i] + WindowLimit)
                                 => q < Head(up[r]) + WindowLimit
<1> USE PsnsNat, WindowLimitHalf
<1>1. up \in [Ranks -> Seq(Psns)] /\ next \in [Ranks -> 0 .. NPkts]
  BY DEF TypeOK
<1> DEFINE t == Tail(up[r])
<1>2. /\ t \in Seq(Psns)
      /\ Len(t) = Len(up[r]) - 1
      /\ \A i \in 1 .. Len(t) : t[i] = up[r][i + 1]
      /\ Head(up[r]) \in Psns
  BY <1>1, HeadTailProperties
<1>3. /\ Head(up[r]) = up[r][1]
      /\ Len(up[r]) \in Nat \ {0}
  BY <1>1, EmptySeq
<1>4. /\ DOMAIN t = 1 .. Len(t) /\ DOMAIN up[r] = 1 .. Len(up[r])
  BY <1>1, <1>2, LenProperties
<1> HIDE DEF t
<1>5. up'[r] = t /\ \A x \in Ranks : x # r => up'[x] = up[x]
  BY <1>1 DEF t
<1>6. up' \in [Ranks -> Seq(Psns)]
  BY <1>1, <1>2 DEF t
<1>7. ASSUME NEW i \in DOMAIN t
      PROVE  i \in Nat \ {0} /\ i + 1 \in DOMAIN up[r] /\ t[i] = up[r][i + 1] /\ t[i] \in Nat
  <2>1. i \in 1 .. Len(t) /\ i + 1 \in 1 .. Len(up[r]) /\ i \in Nat \ {0}
    BY <1>2, <1>3, <1>4
  <2>2. t[i] \in Psns
    BY <1>2, <2>1, ElementOfSeq
  <2>3. t[i] = up[r][i + 1]
    BY <1>2, <2>1, Zenon
  <2> QED  BY <1>4, <2>1, <2>2, <2>3, PsnsNat, Zenon
<1>8. UpOK'
  <2> SUFFICES ASSUME NEW x \in Ranks, NEW j \in DOMAIN up'[x]
               PROVE  /\ up'[x][j] < next[x]
                      /\ \A i \in 1 .. j - 1 : up'[x][i] < up'[x][j] + WindowLimit
    BY DEF UpOK, WindowLimit
  <2>1. CASE x # r
    BY <1>5, <2>1 DEF UpOK
  <2>2. CASE x = r
    <3>1. j + 1 \in DOMAIN up[r] /\ up'[x][j] = up[r][j + 1] /\ j \in DOMAIN t /\ j \in Nat
      BY <1>5, <1>7, <2>2
    <3>2. up[r][j + 1] < next[r]
          /\ \A i \in 1 .. (j + 1) - 1 : up[r][i] < up[r][j + 1] + WindowLimit
      BY <3>1 DEF UpOK
    <3>3. ASSUME NEW i \in 1 .. j - 1
          PROVE  up'[x][i] < up'[x][j] + WindowLimit
      <4>1. i \in DOMAIN t /\ i + 1 \in 1 .. (j + 1) - 1
        BY <1>4, <3>1
      <4>2. up'[x][i] = up[r][i + 1]
        BY <1>5, <1>7, <2>2, <4>1
      <4> QED  BY <3>1, <3>2, <4>1, <4>2
    <3> QED  BY <2>2, <3>1, <3>2, <3>3
  <2> QED  BY <2>1, <2>2
<1>9. ASSUME NEW x \in Ranks, NEW q \in Psns, Passed(x, q)
      PROVE  Passed(x, q)'
  BY <1>5, <1>7, <1>9 DEF Passed, WindowLimit
<1>10. ASSUME NEW q \in Psns, q = Head(up[r])
       PROVE  Passed(r, q)'
  <2>1. q < next[r]
    BY <1>3, <1>4, <1>10 DEF UpOK
  <2>2. ASSUME NEW i \in DOMAIN t
        PROVE  q < t[i] + WindowLimit
    <3>1. 1 \in 1 .. (i + 1) - 1
      BY <1>7
    <3> QED  BY <1>3, <1>7, <1>10, <3>1 DEF UpOK
  <2> QED  BY <1>5, <2>1, <2>2 DEF Passed, WindowLimit
<1>11. ASSUME NEW q \in Psns, \A i \in DOMAIN up[r] : q < up[r][i] + WindowLimit
       PROVE  q < Head(up[r]) + WindowLimit
  <2>1. 1 \in DOMAIN up[r]
    BY <1>3, <1>4
  <2> QED  BY <1>3, <1>11, <2>1
<1> QED  BY <1>2, <1>6, <1>8, <1>9, <1>10, <1>11

\* Removing the first packet from the recirculation queue.
LEMMA RecircTail ==
    ASSUME IInv, recirc # <<>>, recirc' = Tail(recirc),
           UNCHANGED <<reg_bitmap, aggregator_array, up, windowVars, holder>>
    PROVE  /\ recirc' \in Seq([psn : Psns, rank : Ranks, data0 : Words, multicast : BOOLEAN])
           /\ UpOK' /\ WindowOK' /\ \A a \in Aggregators : CellOK(a)'
           /\ RecircOK' /\ ResultCorrect'
           /\ \A q \in Psns : Answered(q) => Answered(q)'
           /\ 1 \in DOMAIN recirc /\ Head(recirc) = recirc[1]
           /\ \A q \in Psns : q = recirc[1].psn => Answered(q)'
<1> DEFINE P == [psn : Psns, rank : Ranks, data0 : Words, multicast : BOOLEAN]
<1>1. recirc \in Seq(P)
  BY DEF IInv, TypeOK
<1> HIDE DEF P
<1> DEFINE t == Tail(recirc)
<1>2. /\ t \in Seq(P)
      /\ Len(t) = Len(recirc) - 1
      /\ \A i \in 1 .. Len(t) : t[i] = recirc[i + 1]
  BY <1>1, HeadTailProperties
<1>3. Head(recirc) = recirc[1] /\ Len(recirc) \in Nat \ {0}
  BY <1>1, EmptySeq
<1>4. DOMAIN t = 1 .. Len(t) /\ DOMAIN recirc = 1 .. Len(recirc)
  BY <1>1, <1>2, LenProperties
<1> HIDE DEF t
<1>5. ASSUME NEW i \in DOMAIN t
      PROVE  i \in Nat \ {0} /\ i + 1 \in DOMAIN recirc /\ t[i] = recirc[i + 1]
  <2>1. i \in 1 .. Len(t) /\ i + 1 \in 1 .. Len(recirc) /\ i \in Nat \ {0}
    BY <1>2, <1>3, <1>4
  <2> QED  BY <1>2, <1>4, <2>1, Zenon
<1>6. recirc' = t
  BY DEF t
<1>7. \A x, q : Passed(x, q)' <=> Passed(x, q)
  BY DEF Passed, windowVars, WindowLimit
<1>8. \A x, q : Acked(x, q)' <=> Acked(x, q)
  BY DEF Acked, windowVars
<1>9. UpOK' /\ WindowOK' /\ ResultCorrect'
  BY DEF IInv, UpOK, WindowOK, ResultCorrect, Acked, windowVars, WindowLimit
<1>10. \A a \in Aggregators : CellOK(a)'
  BY DEF IInv, CellOK, Holds, Passed, windowVars, WindowLimit
<1>11. RecircOK'
  <2> SUFFICES ASSUME NEW j \in DOMAIN t
               PROVE  /\ Holds(t[j].psn, Ranks)
                      /\ t[j].data0 = Result(t[j].psn)
                      /\ \A x \in Ranks : Passed(x, t[j].psn)
                      /\ \A i \in 1 .. j - 1 : t[i].psn < t[j].psn + WindowLimit
    BY <1>6 DEF RecircOK, Holds, Passed, windowVars, WindowLimit
  <2>1. /\ j \in Nat \ {0} /\ j + 1 \in DOMAIN recirc /\ t[j] = recirc[j + 1]
    BY <1>5
  <2>2. /\ Holds(t[j].psn, Ranks)
        /\ t[j].data0 = Result(t[j].psn)
        /\ \A x \in Ranks : Passed(x, t[j].psn)
        /\ \A i \in 1 .. (j + 1) - 1 : recirc[i].psn < t[j].psn + WindowLimit
    BY <2>1 DEF IInv, RecircOK
  <2>3. ASSUME NEW i \in 1 .. j - 1
        PROVE  t[i].psn < t[j].psn + WindowLimit
    <3>1. i \in DOMAIN t /\ i + 1 \in 1 .. (j + 1) - 1
      BY <1>4, <2>1
    <3> QED  BY <1>5, <2>2, <3>1
  <2> QED  BY <2>2, <2>3
<1>12. ASSUME NEW q \in Psns, Answered(q) PROVE Answered(q)'
  BY <1>5, <1>6, <1>7, <1>8, <1>12 DEF Answered, Holds, WindowLimit
<1>13. 1 \in DOMAIN recirc
  BY <1>3, <1>4
<1>14. ASSUME NEW q \in Psns, q = recirc[1].psn PROVE Answered(q)'
  <2>1. Holds(q, Ranks) /\ \A x \in Ranks : Passed(x, q)
    BY <1>13, <1>14 DEF IInv, RecircOK
  <2>2. ASSUME NEW i \in DOMAIN t PROVE q < t[i].psn + WindowLimit
    <3>1. 1 \in 1 .. (i + 1) - 1 /\ i + 1 \in DOMAIN recirc /\ t[i] = recirc[i + 1]
      BY <1>5
    <3> QED  BY <1>14, <3>1 DEF IInv, RecircOK
  <2>3. holder[agg_addr(q)] >= q
    BY <2>1, PsnsNat DEF Holds
  <2> QED  BY <1>6, <1>7, <2>1, <2>2, <2>3 DEF Answered, Holds, WindowLimit
<1> QED  BY <1>2, <1>3, <1>6, <1>9, <1>10, <1>11, <1>12, <1>13, <1>14 DEF P

LEMMA LossStep ==
    ASSUME IInv, Loss
    PROVE  IInv'
<1>1. ASSUME NEW r \in Ranks, LoseUp(r) PROVE IInv'
  <2>1. /\ TypeOK /\ UpOK
        /\ up[r] # <<>> /\ up' = [up EXCEPT ![r] = Tail(@)]
        /\ down' = down /\ UNCHANGED <<switchVars, holder>> /\ UNCHANGED windowVars
    BY <1>1 DEF IInv, Loss, LoseUp
  <2>2. /\ up' \in [Ranks -> Seq(Psns)] /\ UpOK'
        /\ \A x \in Ranks, q \in Psns : Passed(x, q) => Passed(x, q)'
    BY <2>1, UpTail DEF windowVars
  <2>3. \A x \in Ranks, q \in Psns : Acked(x, q) => Acked(x, q)'
    BY <2>1 DEF Acked, windowVars
  <2>4. /\ \A a \in Aggregators : CellOK(a)'
        /\ RecircOK'
        /\ \A q \in Psns : Answered(q) => Answered(q)'
    BY <2>1, <2>2, <2>3, SwitchKept
  <2>5. DownOK'
    BY <2>1, <2>4, DownUnchanged, DownKept
  <2>6. AckedOK' /\ ResultCorrect' /\ WindowOK'
    BY <2>1, <2>4 DEF IInv, AckedOK, ResultCorrect, WindowOK, Acked, windowVars, WindowLimit
  <2>7. TypeOK'
    BY <2>1, <2>2 DEF TypeOK, windowVars, switchVars
  <2> QED  BY <2>2, <2>4, <2>5, <2>6, <2>7 DEF IInv
<1>2. ASSUME NEW r \in Ranks, LoseDown(r) PROVE IInv'
  <2>1. /\ TypeOK /\ up' = up
        /\ down[r] # <<>> /\ down' = [down EXCEPT ![r] = Tail(@)]
        /\ UNCHANGED <<switchVars, holder>> /\ UNCHANGED windowVars
    BY <1>2 DEF IInv, Loss, LoseDown
  <2>2. DownFrom
    BY <2>1, DownTail
  <2>3. /\ \A x \in Ranks, q \in Psns : Acked(x, q) => Acked(x, q)'
        /\ \A x \in Ranks, q \in Psns : Passed(x, q) => Passed(x, q)'
    BY <2>1 DEF Acked, Passed, windowVars, WindowLimit
  <2>4. /\ \A a \in Aggregators : CellOK(a)'
        /\ RecircOK'
        /\ \A q \in Psns : Answered(q) => Answered(q)'
    BY <2>1, <2>3, SwitchKept
  <2>5. DownOK'
    BY <2>2, <2>4, DownKept
  <2>6. AckedOK' /\ ResultCorrect' /\ WindowOK' /\ UpOK'
    BY <2>1, <2>4
    DEF IInv, AckedOK, ResultCorrect, WindowOK, UpOK, Acked, windowVars, WindowLimit
  <2>7. TypeOK'
    BY <2>1, <2>2 DEF TypeOK, windowVars, switchVars, DownFrom
  <2> QED  BY <2>4, <2>5, <2>6, <2>7 DEF IInv
<1>3. ASSUME LoseRecirc PROVE IInv'
  <2>1. /\ TypeOK /\ up' = up /\ down' = down /\ recirc # <<>> /\ recirc' = Tail(recirc)
        /\ UNCHANGED <<reg_bitmap, aggregator_array, up, windowVars, holder>>
    BY <1>3 DEF IInv, Loss, LoseRecirc
  <2>2. /\ recirc' \in Seq([psn : Psns, rank : Ranks, data0 : Words, multicast : BOOLEAN])
        /\ UpOK' /\ WindowOK' /\ \A a \in Aggregators : CellOK(a)'
        /\ RecircOK' /\ ResultCorrect'
        /\ \A q \in Psns : Answered(q) => Answered(q)'
    BY <2>1, RecircTail
  <2>3. DownOK'
    BY <2>1, <2>2, DownUnchanged, DownKept
  <2>4. AckedOK'
    BY <2>1, <2>2 DEF IInv, AckedOK, Acked, windowVars
  <2>5. TypeOK'
    BY <2>1, <2>2 DEF TypeOK, windowVars
  <2> QED  BY <2>2, <2>3, <2>4, <2>5 DEF IInv
<1> QED  BY <1>1, <1>2, <1>3 DEF Loss

\* A recirculated packet becomes responses that carry the whole sum.
LEMMA Pass2Step ==
    ASSUME IInv, SwitchPass2
    PROVE  IInv'
<1> DEFINE e == Head(recirc)
           P == [psn : Psns, payload : Payloads]
<1>1. /\ TypeOK /\ recirc # <<>> /\ recirc' = Tail(recirc)
      /\ UNCHANGED <<reg_bitmap, aggregator_array, up, windowVars, holder>>
      /\ down' = [x \in Ranks |-> IF x \in destinations(e)
                                  THEN Append(down[x], egress(e, x))
                                  ELSE down[x]]
  BY DEF IInv, SwitchPass2, Recirculate
<1>2. /\ recirc' \in Seq([psn : Psns, rank : Ranks, data0 : Words, multicast : BOOLEAN])
      /\ UpOK' /\ WindowOK' /\ \A a \in Aggregators : CellOK(a)'
      /\ RecircOK' /\ ResultCorrect'
      /\ \A q \in Psns : Answered(q) => Answered(q)'
      /\ 1 \in DOMAIN recirc /\ e = recirc[1]
      /\ \A q \in Psns : q = recirc[1].psn => Answered(q)'
  BY <1>1, RecircTail
<1>3. PICK p \in Psns : p = e.psn
  BY <1>1, <1>2, RecircType
<1>4. Answered(p)'
  BY <1>2, <1>3
<1>5. /\ aggregator_array[agg_addr(p)].agg1 = Result(p)
      /\ e.data0 = Result(p)
  <2>1. Holds(p, Ranks) /\ e.data0 = Result(p)
    BY <1>2, <1>3 DEF IInv, RecircOK
  <2> QED  BY <2>1 DEF Holds, Result
<1> HIDE DEF e
<1>6. ASSUME NEW x \in Ranks
      PROVE  egress(e, x) = [psn |-> p, payload |-> IF keeps_payload(x, p)
                                                    THEN <<Result(p), Result(p)>>
                                                    ELSE <<>>]
  BY <1>3, <1>5 DEF egress
<1>7. Result(p) \in Words
  BY <1>3 DEF Words, Result
<1>8. ASSUME NEW x \in Ranks
      PROVE  egress(e, x) \in P
  BY <1>3, <1>6, <1>7 DEF Payloads
<1>9. down \in [Ranks -> Seq(P)]
  BY <1>1 DEF TypeOK
<1>10. ASSUME NEW x \in Ranks, NEW i \in DOMAIN down'[x]
       PROVE  \/ i \in DOMAIN down[x] /\ down'[x][i] = down[x][i]
              \/ down'[x][i] = egress(e, x)
  <2> HIDE DEF P
  <2>1. CASE x \notin destinations(e)
    BY <1>1, <2>1
  <2>2. CASE x \in destinations(e)
    <3>1. down'[x] = Append(down[x], egress(e, x)) /\ down[x] \in Seq(P) /\ egress(e, x) \in P
      BY <1>1, <1>8, <1>9, <2>2
    <3>2. /\ Append(down[x], egress(e, x)) \in Seq(P)
          /\ Len(Append(down[x], egress(e, x))) = Len(down[x]) + 1
          /\ \A k \in 1 .. Len(down[x]) : Append(down[x], egress(e, x))[k] = down[x][k]
          /\ Append(down[x], egress(e, x))[Len(down[x]) + 1] = egress(e, x)
      BY <3>1, AppendProperties
    <3>3. /\ DOMAIN down[x] = 1 .. Len(down[x]) /\ Len(down[x]) \in Nat
          /\ DOMAIN down'[x] = 1 .. Len(down[x]) + 1
      BY <3>1, <3>2, LenProperties
    <3>4. i \in 1 .. Len(down[x]) \/ i = Len(down[x]) + 1
      BY <3>3
    <3> QED  BY <3>1, <3>2, <3>3, <3>4
  <2> QED  BY <2>1, <2>2
<1>11. down' \in [Ranks -> Seq(P)]
  <2> HIDE DEF P
  <2>1. ASSUME NEW x \in Ranks PROVE down'[x] \in Seq(P)
    BY <1>1, <1>8, <1>9, AppendProperties
  <2>2. down' = [x \in Ranks |-> down'[x]]
    BY <1>1
  <2> QED  BY <2>1, <2>2
<1>12. DownOK'
  <2> SUFFICES ASSUME NEW x \in Ranks, NEW i \in DOMAIN down'[x],
                      NEW q \in Psns, q = down'[x][i].psn
               PROVE  /\ Answered(q)'
                      /\ down'[x][i].payload = IF keeps_payload(x, q)
                                               THEN <<Result(q), Result(q)>>
                                               ELSE <<>>
    <3>1. ASSUME NEW x \in Ranks, NEW i \in DOMAIN down'[x]
          PROVE  down'[x][i].psn \in Psns
      BY <1>1, <1>8, <1>10, DownType
    <3> QED  BY <3>1 DEF DownOK, Answered, Passed, Holds, Acked, WindowLimit
  <2>1. CASE i \in DOMAIN down[x] /\ down'[x][i] = down[x][i]
    BY <1>2, <2>1 DEF IInv, DownOK
  <2>2. CASE down'[x][i] = egress(e, x)
    BY <1>4, <1>6, <2>2
  <2> QED  BY <1>10, <2>1, <2>2
<1>13. AckedOK'
  BY <1>1, <1>2 DEF IInv, AckedOK, Acked, windowVars
<1>14. TypeOK'
  BY <1>1, <1>2, <1>11 DEF TypeOK, windowVars
<1> QED  BY <1>2, <1>12, <1>13, <1>14 DEF IInv

-----------------------------------------------------------------------------
(* Arrival of a packet in pass 1. *)

\* Who has sent packet y has the responses of all packets WindowLimit before it.
LEMMA BehindWindow ==
    ASSUME IInv, NEW x \in Ranks, NEW q \in Psns, NEW y \in Psns,
           y < next[x], q + WindowLimit <= y
    PROVE  Acked(x, q)
<1>1. left[x] \in 0 .. NPkts /\ next[x] \in 0 .. NPkts /\ next[x] <= left[x] + WindowLimit
  BY DEF IInv, TypeOK, WindowOK
<1> QED  BY <1>1, PsnsNat, NPktsAssumption, WindowLimitHalf DEF Acked

\* The aggregator belongs to the packet already.
Joins(p) ==
    /\ holder[agg_addr(p)] = p
    /\ bitmap_old(p) # {}

\* The aggregator is free, or the packet before is no longer needed by anyone.
Replaces(p) ==
    /\ bitmap_old(p) = {}
    /\ \/ p < AggLen /\ holder[agg_addr(p)] = -1
       \/ /\ AggLen <= p
          /\ holder[agg_addr(p)] = p - AggLen
          /\ \A x \in Ranks : Acked(x, p - AggLen)
          /\ \A i \in DOMAIN recirc : p - AggLen < recirc[i].psn

LEMMA Arrival ==
    ASSUME IInv, NEW r \in Ranks, NEW p \in Psns, NEW k \in DOMAIN up[r], p = up[r][k]
    PROVE  Joins(p) \/ Replaces(p)
<1> USE PsnsNat, NPktsAssumption, WindowLimitHalf, AggLenAssumption
<1> DEFINE a == agg_addr(p)
           h == holder[a]
<1>1. a \in Aggregators /\ p < next[r]
  BY AggAddrType DEF IInv, UpOK
<1>2. h \in -1 .. NPkts - 1 /\ CellOK(a) /\ reg_bitmap[a].bitmap \subseteq Ranks
  BY <1>1 DEF IInv, TypeOK
<1>3. \A q \in Psns : (\E x \in Ranks : Acked(x, q)) => Answered(q)
  BY DEF IInv, AckedOK
<1>4. CASE h = -1
  <2>1. bitmap_old(p) = {}
    BY <1>2, <1>4 DEF CellOK, bitmap_old
  <2>2. ASSUME AggLen <= p PROVE FALSE
    <3>1. p - AggLen \in Psns /\ (p - AggLen) + WindowLimit <= p
      BY <2>2 DEF Psns
    <3>2. Answered(p - AggLen)
      BY <1>1, <1>3, <3>1, BehindWindow
    <3>3. holder[agg_addr(p)] >= p - AggLen
      BY <2>2, <3>2, PreviousHolder DEF Answered
    <3> QED  BY <1>4, <2>2, <3>3
  <2> QED  BY <1>4, <2>1, <2>2 DEF Replaces
<1>5. CASE h # -1
  <2>1. /\ h \in Psns /\ agg_addr(h) = a
        /\ reg_bitmap[a].bitmap # {}
        /\ Holds(h, reg_bitmap[a].bitmap)
        /\ \A x \in reg_bitmap[a].bitmap : Passed(x, h)
    BY <1>2, <1>5 DEF CellOK, Psns
  <2>2. reg_bitmap[a].version = set_version(h)
    BY <2>1 DEF Holds
  <2>3. CASE h = p
    <3>1. bitmap_old(p) = reg_bitmap[a].bitmap
      BY <2>2, <2>3 DEF bitmap_old
    <3> QED  BY <2>1, <2>3, <3>1 DEF Joins
  <2>4. CASE h > p
    <3>1. p + AggLen <= h
      BY <2>1, <2>4, SameAggregator
    <3>2. PICK x \in Ranks : Passed(x, h)
      BY <1>2, <2>1
    <3>3. p + WindowLimit \in Psns /\ (p + WindowLimit) + WindowLimit <= h
      BY <2>1, <3>1 DEF Psns
    <3>4. Answered(p + WindowLimit)
      BY <1>3, <2>1, <3>2, <3>3, BehindWindow DEF Passed
    <3>5. p + WindowLimit < up[r][k] + WindowLimit
      BY <3>4 DEF Answered, Passed
    <3> QED  BY <3>5
  <2>5. CASE h < p
    <3>1. h + AggLen <= p
      BY <2>1, <2>5, SameAggregator
    <3>2. p - AggLen \in Psns /\ (p - AggLen) + WindowLimit <= p
      BY <2>1, <3>1 DEF Psns
    <3>3. Answered(p - AggLen)
      BY <1>1, <1>3, <3>2, BehindWindow
    <3>4. h >= p - AggLen
      BY <2>1, <3>1, <3>3, PreviousHolder DEF Answered
    <3>5. h = p - AggLen
      <4> HIDE DEF h
      <4>1. h \in Nat /\ p \in Nat /\ AggLen \in Nat
        BY <2>1
      <4> QED  BY <3>1, <3>4, <4>1
    <3>6. bitmap_old(p) = {}
      <4>1. set_version(h + AggLen) # set_version(h)
        BY <2>1, VersionsDiffer
      <4>2. h + AggLen = p
        BY <2>1, <3>5
      <4> QED  BY <2>2, <4>1, <4>2 DEF bitmap_old
    <3> DEFINE w == (p - AggLen) + WindowLimit
    <3>7. w \in Psns /\ w + WindowLimit <= p
      BY <3>1, <3>2 DEF Psns
    <3> HIDE DEF w
    <3>8. Answered(w)
      BY <1>1, <1>3, <3>7, BehindWindow
    <3>9. ASSUME NEW x \in Ranks PROVE Acked(x, p - AggLen)
      <4>1. w < next[x]
        BY <3>8 DEF Answered, Passed
      <4>2. (p - AggLen) + WindowLimit <= w
        BY <3>2 DEF w
      <4> QED  BY <3>2, <3>7, <4>1, <4>2, BehindWindow
    <3>10. ASSUME NEW i \in DOMAIN recirc PROVE p - AggLen < recirc[i].psn
      <4>1. w < recirc[i].psn + WindowLimit
        BY <3>8 DEF Answered
      <4>2. recirc[i].psn \in Nat
        BY RecircType DEF IInv
      <4> QED  BY <3>2, <4>1, <4>2 DEF w
    <3> QED  BY <3>1, <3>5, <3>6, <3>9, <3>10, <2>1 DEF Replaces
  <2> QED  BY <2>1, <2>3, <2>4, <2>5
<1> QED  BY <1>4, <1>5

\* The aggregator after pass 1 of packet p of rank r holds what it held for p
\* before and the data of r.
LEMMA Aggregates ==
    ASSUME IInv, NEW r \in Ranks, NEW p \in Psns, Joins(p) \/ Replaces(p)
    PROVE  LET B == bitmap_old(p) \cup {r} IN
           /\ bitmap_old(p) \subseteq Ranks
           /\ Joins(p) => /\ bitmap_old(p) = reg_bitmap[agg_addr(p)].bitmap
                          /\ Holds(p, bitmap_old(p))
                          /\ \A x \in bitmap_old(p) : Passed(x, p)
           /\ agg_action(r, p) = [agg0 |-> SumOver(B, p), agg1 |-> SumOver(B, p)]
<1> DEFINE a == agg_addr(p)
           B == bitmap_old(p) \cup {r}
<1>1. a \in Aggregators /\ p \in Nat
  BY AggAddrType, PsnsNat
<1>2. CellOK(a) /\ reg_bitmap[a].bitmap \subseteq Ranks
  BY <1>1 DEF IInv, TypeOK
<1>3. CASE Joins(p)
  <2>1. bitmap_old(p) = reg_bitmap[a].bitmap
    BY <1>3 DEF Joins, bitmap_old
  <2>2. Holds(p, bitmap_old(p)) /\ \A x \in bitmap_old(p) : Passed(x, p)
    BY <1>1, <1>2, <1>3, <2>1 DEF Joins, CellOK
  <2>3. aggregator_array[a] = [agg0 |-> SumOver(bitmap_old(p), p), agg1 |-> SumOver(bitmap_old(p), p)]
    BY <2>2 DEF Holds
  <2>4. bitmap_old(p) \in SUBSET Ranks /\ ~ first_packet(p)
    BY <1>2, <1>3, <2>1 DEF Joins, first_packet
  <2>5. CASE r \in bitmap_old(p)
    <3>1. B = bitmap_old(p)
      BY <2>5
    <3> QED  BY <2>1, <2>2, <2>3, <2>4, <2>5, <3>1 DEF agg_action, new_packet
  <2>6. CASE r \notin bitmap_old(p)
    <3>1. SumOver(bitmap_old(p), p) (+) Word(r, p) = SumOver(B, p)
      BY <2>4, <2>6, AddWord
    <3> QED  BY <2>1, <2>2, <2>3, <2>4, <2>6, <3>1 DEF agg_action, new_packet
  <2> QED  BY <2>5, <2>6
<1>4. CASE Replaces(p) /\ ~ Joins(p)
  <2>1. bitmap_old(p) = {} /\ first_packet(p) /\ B = {r}
    BY <1>4 DEF Replaces, first_packet
  <2>2. Word(r, p) = SumOver(B, p)
    BY <2>1 DEF Word, SumOver
  <2> QED  BY <1>4, <2>1, <2>2 DEF agg_action
<1> QED  BY <1>3, <1>4

LEMMA Pass1Step ==
    ASSUME IInv, NEW r \in Ranks, SwitchPass1(r)
    PROVE  IInv'
<1> USE NPktsAssumption
<1>1. TypeOK /\ UpOK /\ up[r] # <<>> /\ up' = [up EXCEPT ![r] = Tail(@)]
      /\ down' = down /\ UNCHANGED windowVars
  BY DEF IInv, SwitchPass1, Ingress
<1>2. /\ up' \in [Ranks -> Seq(Psns)]
      /\ UpOK'
      /\ \A x \in Ranks, q \in Psns : Passed(x, q) => Passed(x, q)'
      /\ Head(up[r]) \in Psns
      /\ \A q \in Psns : q = Head(up[r]) => Passed(r, q)'
      /\ \A q \in Psns : (\A i \in DOMAIN up[r] : q < up[r][i] + WindowLimit)
                            => q < Head(up[r]) + WindowLimit
  BY <1>1, UpTail DEF windowVars
<1>3. PICK p \in Psns : p = Head(up[r])
  BY <1>2
<1> DEFINE a == agg_addr(p)
<1>4. /\ reg_bitmap' = [reg_bitmap EXCEPT ![a] = reg_bitmap_update(r, p)]
      /\ aggregator_array' = [aggregator_array EXCEPT ![a] = agg_action(r, p)]
      /\ recirc' = IF full(r, p) THEN Append(recirc, recirculated(r, p)) ELSE recirc
      /\ holder' = [holder EXCEPT ![a] = p]
  BY <1>3 DEF SwitchPass1, Ingress
<1>5. Joins(p) \/ Replaces(p)
  <2>1. 1 \in DOMAIN up[r] /\ up[r][1] = p
    <3>1. up[r] \in Seq(Psns)
      BY <1>1 DEF TypeOK
    <3> QED  BY <1>1, <1>3, <3>1, EmptySeq, LenProperties
  <2> QED  BY <2>1, Arrival
<1>0. PICK B : B = bitmap_old(p) \cup {r}
  OBVIOUS
<1>6. /\ bitmap_old(p) \subseteq Ranks
      /\ Joins(p) => /\ bitmap_old(p) = reg_bitmap[a].bitmap
                     /\ Holds(p, bitmap_old(p))
                     /\ \A x \in bitmap_old(p) : Passed(x, p)
      /\ agg_action(r, p) = [agg0 |-> SumOver(B, p), agg1 |-> SumOver(B, p)]
  BY <1>0, <1>5, Aggregates
<1>7. /\ reg_bitmap \in [Aggregators ->
            [version : NoVersion .. VersionSpace - 1, bitmap : SUBSET Ranks]]
      /\ aggregator_array \in [Aggregators -> [agg0 : Words, agg1 : Words]]
      /\ holder \in [Aggregators -> -1 .. NPkts - 1]
      /\ a \in Aggregators /\ p \in Nat
  BY <1>1, AggAddrType, PsnsNat DEF TypeOK
<1>8. /\ reg_bitmap'[a] = [version |-> set_version(p), bitmap |-> B]
      /\ aggregator_array'[a] = [agg0 |-> SumOver(B, p), agg1 |-> SumOver(B, p)]
      /\ holder'[a] = p
  BY <1>0, <1>4, <1>6, <1>7 DEF reg_bitmap_update
<1>9. \A b \in Aggregators : b # a =>
         /\ reg_bitmap'[b] = reg_bitmap[b]
         /\ aggregator_array'[b] = aggregator_array[b]
         /\ holder'[b] = holder[b]
  BY <1>4, <1>7
<1>10. Holds(p, B)'
  BY <1>8 DEF Holds
<1>11. ASSUME NEW q \in Psns, NEW S, Holds(q, S), agg_addr(q) # a
       PROVE  Holds(q, S)'
  <2>1. agg_addr(q) \in Aggregators
    BY AggAddrType, PsnsNat
  <2> QED  BY <1>9, <1>11, <2>1 DEF Holds
<1>12. ASSUME NEW q \in Psns, Holds(q, Ranks), agg_addr(q) = a
       PROVE  \/ q = p /\ Holds(q, Ranks)'
              \/ /\ AggLen <= p /\ q = p - AggLen
                 /\ \A x \in Ranks : Acked(x, q)
                 /\ \A i \in DOMAIN recirc : q < recirc[i].psn
  <2>1. holder[a] = q /\ q # -1
    BY <1>12, PsnsNat DEF Holds
  <2>2. CASE Joins(p)
    <3>1. q = p /\ bitmap_old(p) = Ranks
      BY <1>6, <1>12, <2>1, <2>2 DEF Joins, Holds
    <3>2. B = Ranks
      BY <1>0, <3>1
    <3> QED  BY <1>10, <3>1, <3>2
  <2>3. CASE Replaces(p)
    BY <2>1, <2>3 DEF Replaces
  <2> QED  BY <1>5, <2>2, <2>3
<1>13. \A x \in B : Passed(x, p)'
  <2>1. Passed(r, p)'
    BY <1>2, <1>3
  <2>2. ASSUME NEW x \in bitmap_old(p) PROVE Passed(x, p)'
    <3>1. Joins(p)
      BY <1>5 DEF Replaces
    <3> QED  BY <1>2, <1>6, <3>1
  <2> QED  BY <1>0, <2>1, <2>2
<1>14. ASSUME NEW b \in Aggregators PROVE CellOK(b)'
  <2>1. CASE b = a
    <3>1. p # -1 /\ agg_addr(p) = a /\ B # {}
      BY <1>0, <1>7
    <3>2. holder'[b] = p /\ reg_bitmap'[b].bitmap = B
      BY <1>8, <2>1
    <3> HIDE DEF a
    <3> QED  BY <1>10, <1>13, <2>1, <3>1, <3>2 DEF CellOK, Holds, Passed
  <2>2. CASE b # a
    <3>1. CellOK(b) /\ holder[b] \in -1 .. NPkts - 1 /\ reg_bitmap[b].bitmap \subseteq Ranks
      BY <1>7 DEF IInv
    <3>2. /\ reg_bitmap'[b] = reg_bitmap[b] /\ holder'[b] = holder[b]
          /\ aggregator_array'[b] = aggregator_array[b]
      BY <1>9, <2>2
    <3>3. CASE holder[b] = -1
      BY <3>1, <3>2, <3>3 DEF CellOK
    <3>4. CASE holder[b] # -1
      <4>1. PICK q \in Psns : q = holder[b]
        BY <3>1, <3>4 DEF Psns
      <4>2. /\ agg_addr(q) = b /\ reg_bitmap[b].bitmap # {}
            /\ Holds(q, reg_bitmap[b].bitmap)
            /\ \A x \in reg_bitmap[b].bitmap : Passed(x, q)
        BY <3>1, <3>4, <4>1 DEF CellOK
      <4>3. \A x \in reg_bitmap[b].bitmap : Passed(x, q)'
        BY <1>2, <3>1, <4>2
      <4> HIDE DEF a
      <4> QED  BY <3>2, <3>4, <4>1, <4>2, <4>3 DEF CellOK, Holds, Passed
    <3> QED  BY <3>3, <3>4
  <2> QED  BY <2>1, <2>2
<1> DEFINE P == [psn : Psns, rank : Ranks, data0 : Words, multicast : BOOLEAN]
<1>15. PICK e : e = recirculated(r, p)
  OBVIOUS
<1>16. e \in P /\ e.psn = p /\ e.data0 = SumOver(B, p)
  <2>1. SumOver(B, p) \in Words
    BY <1>0, <1>6 DEF Words
  <2>2. new_packet(r, p) \in BOOLEAN
    BY DEF new_packet
  <2> QED  BY <1>6, <1>15, <2>1, <2>2 DEF recirculated
<1>17. /\ recirc' \in Seq(P)
       /\ DOMAIN recirc = 1 .. Len(recirc) /\ Len(recirc) \in Nat
       /\ \A j \in DOMAIN recirc' :
            \/ j \in DOMAIN recirc /\ recirc'[j] = recirc[j]
            \/ full(r, p) /\ j = Len(recirc) + 1 /\ recirc'[j] = e
       /\ \A j \in DOMAIN recirc : j \in DOMAIN recirc' /\ recirc'[j] = recirc[j]
  <2>1. recirc \in Seq(P)
    BY <1>1 DEF TypeOK
  <2> HIDE DEF P
  <2>2. DOMAIN recirc = 1 .. Len(recirc) /\ Len(recirc) \in Nat
    BY <2>1, LenProperties
  <2>3. CASE ~ full(r, p)
    BY <1>4, <2>1, <2>2, <2>3
  <2>4. CASE full(r, p)
    <3>1. recirc' = Append(recirc, e)
      BY <1>4, <1>15, <2>4
    <3>2. /\ Append(recirc, e) \in Seq(P)
          /\ Len(Append(recirc, e)) = Len(recirc) + 1
          /\ \A k \in 1 .. Len(recirc) : Append(recirc, e)[k] = recirc[k]
          /\ Append(recirc, e)[Len(recirc) + 1] = e
      BY <1>16, <2>1, AppendProperties
    <3>3. DOMAIN recirc' = 1 .. Len(recirc) + 1
      BY <3>1, <3>2, LenProperties
    <3> QED  BY <2>2, <2>4, <3>1, <3>2, <3>3
  <2> QED  BY <2>3, <2>4
<1>18. full(r, p) => B = Ranks
  BY <1>0, <1>6 DEF full
<1>19. ASSUME NEW q \in Psns, Passed(r, q)
       PROVE  q < p + WindowLimit
  BY <1>2, <1>3, <1>19 DEF Passed
<1>20. ASSUME NEW q \in Psns, Answered(q)
       PROVE  Answered(q)'
  <2>1. \A x \in Ranks : Passed(x, q)'
    BY <1>2, <1>20 DEF Answered
  <2>2. ASSUME NEW i \in DOMAIN recirc' PROVE q < recirc'[i].psn + WindowLimit
    <3>1. q < p + WindowLimit
      BY <1>19, <1>20 DEF Answered
    <3> QED  BY <1>16, <1>17, <1>20, <3>1 DEF Answered
  <2>3. holder'[agg_addr(q)] >= q
    <3>1. holder[agg_addr(q)] >= q /\ agg_addr(q) \in Aggregators /\ q \in Nat
      BY <1>20, AggAddrType, PsnsNat DEF Answered
    <3>2. CASE agg_addr(q) # a
      BY <1>9, <3>1, <3>2
    <3>3. CASE agg_addr(q) = a
      <4>1. p >= q
        BY <1>5, <1>7, <3>1, <3>3, AggLenAssumption DEF Joins, Replaces
      <4> QED  BY <1>8, <3>3, <4>1
    <3> QED  BY <3>2, <3>3
  <2>4. (\A x \in Ranks : Acked(x, q)') \/ Holds(q, Ranks)'
    <3>1. CASE \A x \in Ranks : Acked(x, q)
      BY <1>1, <3>1 DEF Acked, windowVars
    <3>2. CASE Holds(q, Ranks)
      <4>1. CASE agg_addr(q) # a
        BY <1>11, <3>2, <4>1
      <4>2. CASE agg_addr(q) = a
        BY <1>1, <1>12, <3>2, <4>2 DEF Acked, windowVars
      <4> QED  BY <4>1, <4>2
    <3> QED  BY <1>20, <3>1, <3>2 DEF Answered
  <2> QED  BY <2>1, <2>2, <2>3, <2>4 DEF Answered, WindowLimit
<1>21. RecircOK'
  <2>1. ASSUME NEW j \in DOMAIN recirc, NEW q \in Psns, q = recirc[j].psn
        PROVE  /\ Holds(q, Ranks)'
               /\ recirc[j].data0 = Result(q)
               /\ \A x \in Ranks : Passed(x, q)'
               /\ q < p + WindowLimit
               /\ \A i \in 1 .. j - 1 : recirc[i].psn < q + WindowLimit
    <3>1. /\ Holds(q, Ranks) /\ recirc[j].data0 = Result(q)
          /\ \A x \in Ranks : Passed(x, q)
          /\ \A i \in 1 .. j - 1 : recirc[i].psn < q + WindowLimit
      BY <2>1 DEF IInv, RecircOK
    <3>2. Holds(q, Ranks)'
      <4>1. CASE agg_addr(q) # a
        BY <1>11, <3>1, <4>1
      <4>2. CASE agg_addr(q) = a
        <5>1. ~ (q < recirc[j].psn)
          BY <2>1, PsnsNat
        <5> QED  BY <1>12, <2>1, <3>1, <4>2, <5>1
      <4> QED  BY <4>1, <4>2
    <3> QED  BY <1>2, <1>19, <3>1, <3>2
  <2>2. ASSUME full(r, p)
        PROVE  /\ Holds(p, Ranks)' /\ e.data0 = Result(p)
               /\ \A x \in Ranks : Passed(x, p)'
    <3>1. B = Ranks
      BY <1>18, <2>2
    <3> QED  BY <1>10, <1>13, <1>16, <3>1 DEF Result
  <2>3. \A j \in DOMAIN recirc : recirc[j].psn \in Psns
    BY <1>1, RecircType
  <2> SUFFICES ASSUME NEW j \in DOMAIN recirc', NEW q \in Psns, q = recirc'[j].psn
               PROVE  /\ Holds(q, Ranks)'
                      /\ recirc'[j].data0 = Result(q)
                      /\ \A x \in Ranks : Passed(x, q)'
                      /\ \A i \in 1 .. j - 1 : recirc'[i].psn < q + WindowLimit
    <3>1. \A j \in DOMAIN recirc' : recirc'[j].psn \in Psns
      BY <1>16, <1>17, <2>3
    <3> QED  BY <3>1 DEF RecircOK, Holds, Passed, WindowLimit
  <2>4. CASE j \in DOMAIN recirc /\ recirc'[j] = recirc[j]
    <3>1. \A i \in 1 .. j - 1 : i \in DOMAIN recirc /\ recirc'[i] = recirc[i]
      BY <1>17, <2>4
    <3> QED  BY <2>1, <2>4, <3>1
  <2>5. CASE full(r, p) /\ j = Len(recirc) + 1 /\ recirc'[j] = e
    <3>1. q = p
      BY <1>16, <2>5
    <3>2. \A i \in 1 .. j - 1 : i \in DOMAIN recirc /\ recirc'[i] = recirc[i]
      BY <1>17, <2>5
    <3>3. \A i \in DOMAIN recirc : recirc[i].psn < p + WindowLimit
      BY <2>1, <2>3
    <3> QED  BY <2>2, <2>5, <3>1, <3>2, <3>3
  <2> QED  BY <1>17, <2>4, <2>5
<1>22. DownFrom
  BY <1>1, DownUnchanged
<1>23. DownOK'
  BY <1>20, <1>22, DownKept
<1>24. AckedOK' /\ ResultCorrect' /\ WindowOK'
  <2>1. AckedOK'
    BY <1>1, <1>20 DEF IInv, AckedOK, Acked, windowVars
  <2> QED  BY <1>1, <2>1 DEF IInv, ResultCorrect, WindowOK, Acked, windowVars, WindowLimit
<1>25. TypeOK'
  <2>1. SumOver(B, p) \in Words /\ B \subseteq Ranks
    BY <1>0, <1>6 DEF Words
  <2>2. aggregator_array' \in [Aggregators -> [agg0 : Words, agg1 : Words]]
    BY <1>4, <1>6, <1>7, <2>1
  <2>3. set_version(p) \in NoVersion .. VersionSpace - 1
    BY <1>7, VersionType, VersionAssumption DEF NoVersion
  <2>4. reg_bitmap' \in [Aggregators ->
            [version : NoVersion .. VersionSpace - 1, bitmap : SUBSET Ranks]]
    BY <1>0, <1>4, <1>7, <2>1, <2>3 DEF reg_bitmap_update
  <2>5. holder' \in [Aggregators -> -1 .. NPkts - 1]
    BY <1>4, <1>7 DEF Psns
  <2> QED  BY <1>1, <1>2, <1>17, <2>2, <2>4, <2>5 DEF TypeOK, windowVars
<1> QED  BY <1>2, <1>14, <1>21, <1>23, <1>24, <1>25 DEF IInv

-----------------------------------------------------------------------------
(* The theorems. *)

LEMMA InitIInv ==
    ASSUME Init
    PROVE  IInv
<1> USE NPktsAssumption, AggLenAssumption DEF Init, LinksInit, SwitchInit, WindowInit
<1>1. TypeOK
  <2>1. EmptyBag \in Words
    BY DEF Words
  <2>2. <<>> \in Payloads
    BY DEF Payloads
  <2>3. NoVersion \in NoVersion .. VersionSpace - 1
    BY VersionAssumption DEF NoVersion
  <2>4. /\ up \in [Ranks -> Seq(Psns)]
        /\ down \in [Ranks -> Seq([psn : Psns, payload : Payloads])]
        /\ recirc \in Seq([psn : Psns, rank : Ranks, data0 : Words, multicast : BOOLEAN])
    BY EmptySeq
  <2>5. /\ left \in [Ranks -> 0 .. NPkts] /\ next \in [Ranks -> 0 .. NPkts]
        /\ acked \in [Ranks -> SUBSET Psns]
        /\ holder \in [Aggregators -> -1 .. NPkts - 1]
    OBVIOUS
  <2>6. mem \in [Ranks -> [Psns -> Payloads]]
    BY <2>2
  <2>7. aggregator_array \in [Aggregators -> [agg0 : Words, agg1 : Words]]
    BY <2>1
  <2>8. reg_bitmap \in [Aggregators ->
            [version : NoVersion .. VersionSpace - 1, bitmap : SUBSET Ranks]]
    BY <2>3
  <2> QED  BY <2>4, <2>5, <2>6, <2>7, <2>8 DEF TypeOK
<1>2. WindowOK
  BY WindowLimitHalf DEF WindowOK
<1>3. UpOK /\ RecircOK /\ DownOK
  BY DEF UpOK, RecircOK, DownOK
<1>4. \A a \in Aggregators : CellOK(a)
  BY DEF CellOK
<1>5. \A r \in Ranks, p \in Psns : ~ Acked(r, p)
  BY PsnsNat DEF Acked
<1>6. AckedOK /\ ResultCorrect
  BY <1>5 DEF AckedOK, ResultCorrect
<1> QED  BY <1>1, <1>2, <1>3, <1>4, <1>6 DEF IInv

LEMMA NextIInv ==
    ASSUME IInv, [Next]_vars
    PROVE  IInv'
<1>1. CASE UNCHANGED vars
  <2>1. UNCHANGED <<up, down, reg_bitmap, aggregator_array, recirc, left, next,
                    acked, mem, holder>>
    BY <1>1 DEF vars, links, switchVars, windowVars
  <2>2. TypeOK' /\ WindowOK' /\ UpOK' /\ ResultCorrect'
    BY <2>1 DEF IInv, TypeOK, WindowOK, UpOK, ResultCorrect, Acked, WindowLimit
  <2>3. /\ \A x \in Ranks, q \in Psns : Passed(x, q) => Passed(x, q)'
        /\ \A x \in Ranks, q \in Psns : Acked(x, q) <=> Acked(x, q)'
    BY <2>1 DEF Passed, Acked, WindowLimit
  <2>4. /\ \A a \in Aggregators : CellOK(a)'
        /\ RecircOK'
        /\ \A q \in Psns : Answered(q) => Answered(q)'
    BY <2>1, <2>3, SwitchKept DEF switchVars
  <2>5. DownOK'
    BY <2>1, <2>4, DownUnchanged, DownKept DEF IInv
  <2>6. AckedOK'
    BY <2>3, <2>4 DEF IInv, AckedOK
  <2> QED  BY <2>2, <2>4, <2>5, <2>6 DEF IInv
<1>2. CASE Next
  BY <1>2, WorkerStep, Pass1Step, Pass2Step, LossStep DEF Next
<1> QED  BY <1>1, <1>2

(***************************************************************************)
(* The invariant holds in every state of every run of the protocol.        *)
(***************************************************************************)
THEOREM Invariance == Spec => []IInv
<1> QED  BY InitIInv, NextIInv, PTL DEF Spec

(***************************************************************************)
(* All state keeps its type: in particular no word in the switch, on a     *)
(* link or in a buffer ever counts a rank twice or mixes two packets.      *)
(***************************************************************************)
THEOREM TypeCorrect == Spec => []TypeOK
<1>1. IInv => TypeOK
  BY DEF IInv
<1> QED  BY <1>1, Invariance, PTL

(***************************************************************************)
(* What rx_process_one writes to a rank's buffer is the sum over the whole *)
(* group, whatever is lost, delayed or retransmitted.                      *)
(***************************************************************************)
THEOREM Correctness == Spec => []ResultCorrect
<1>1. IInv => ResultCorrect
  BY DEF IInv
<1> QED  BY <1>1, Invariance, PTL

(***************************************************************************)
(* Between the two passes of a packet through the switch its aggregator is *)
(* never taken over.                                                       *)
(***************************************************************************)
THEOREM PassesConsistent == Spec => []NoTornRead
<1>1. IInv => NoTornRead
  BY DEF IInv, RecircOK, NoTornRead
<1> QED  BY <1>1, Invariance, PTL

(***************************************************************************)
(* A response that some rank lacks can still be produced by the switch.    *)
(***************************************************************************)
THEOREM Recoverable == Spec => []LostResponseRecoverable
<1>1. IInv => LostResponseRecoverable
  BY DEF IInv, AckedOK, Answered, LostResponseRecoverable
<1> QED  BY <1>1, Invariance, PTL

(***************************************************************************)
(* A packet takes over an aggregator only from a packet whose response     *)
(* every rank has.                                                         *)
(***************************************************************************)
THEOREM ReuseIsSafe == Spec => AggregatorReuse
<1>1. ASSUME IInv, [Next]_vars
      PROVE  [\A r \in Ranks : SwitchPass1(r) /\ first_packet(Head(up[r])) => TakesOver(r)]_vars
  <2> SUFFICES ASSUME NEW r \in Ranks, SwitchPass1(r), first_packet(Head(up[r]))
               PROVE  TakesOver(r)
    OBVIOUS
  <2>1. up[r] \in Seq(Psns) /\ up[r] # <<>>
    BY <1>1 DEF IInv, TypeOK, SwitchPass1, Ingress
  <2>2. /\ 1 \in DOMAIN up[r] /\ up[r][1] = Head(up[r])
        /\ Head(up[r]) \in Psns
    BY <2>1, EmptySeq, LenProperties, HeadTailProperties
  <2>3. PICK p \in Psns : p = Head(up[r]) /\ p = up[r][1]
    BY <2>2
  <2>4. Joins(p) \/ Replaces(p)
    BY <1>1, <2>2, <2>3, Arrival
  <2>5. bitmap_old(p) = {}
    BY <2>3 DEF first_packet
  <2> QED  BY <2>3, <2>4, <2>5 DEF Joins, Replaces, TakesOver
<1> QED  BY <1>1, Invariance, PTL DEF Spec, AggregatorReuse

-----------------------------------------------------------------------------
(***************************************************************************)
(* The protocol implements ReduceSpec: a rank that generates packets sends *)
(* them, a rank that accepts a response gets the sum over the group, and   *)
(* everything the switch and the links do is invisible.                    *)
(***************************************************************************)

\* The refinement mapping, as in NetReduce!Promise.
Sent == [r \in Ranks |-> 0 .. next[r] - 1]
Done == [r \in Ranks |-> {p \in Psns : Acked(r, p)}]

\* Generating packets is a Send step of the abstract specification.
LEMMA GenerateIsSend ==
    ASSUME TypeOK, NEW r \in Ranks, NEW n \in next[r] .. NPkts,
           next' = [next EXCEPT ![r] = n]
    PROVE  \E S \in SUBSET Psns : Sent' = [Sent EXCEPT ![r] = @ \cup S]
<1> USE NPktsAssumption
<1>1. next \in [Ranks -> 0 .. NPkts]
  BY DEF TypeOK
<1>2. next[r] \in 0 .. NPkts
  BY <1>1
<1> DEFINE S == next[r] .. n - 1
<1>3. S \in SUBSET Psns
  BY <1>2 DEF Psns
<1>4. (0 .. next[r] - 1) \cup S = 0 .. n - 1
  BY <1>2
<1>5. ASSUME NEW x \in Ranks
      PROVE  0 .. next'[x] - 1 = IF x = r THEN (0 .. next[r] - 1) \cup S ELSE 0 .. next[x] - 1
  BY <1>1, <1>4
<1> HIDE DEF S
<1>6. Sent' = [Sent EXCEPT ![r] = @ \cup S]
  BY <1>5 DEF Sent
<1> QED  BY <1>3, <1>6

LEMMA SendIsSend ==
    ASSUME TypeOK, NEW r \in Ranks, NEW lo, NEW resent, shift_send(r, lo, resent)
    PROVE  \E S \in SUBSET Psns : Sent' = [Sent EXCEPT ![r] = @ \cup S]
<1>1. PICK n \in next[r] .. NPkts : next' = [next EXCEPT ![r] = n]
  BY DEF shift_send
<1> QED  BY <1>1, GenerateIsSend

\* Accepting a response is a Deliver step of the abstract specification.
LEMMA AcceptIsDeliver ==
    ASSUME IInv, NEW r \in Ranks, NEW p \in Psns, Delivers(r, p)
    PROVE  /\ p \notin Done[r]
           /\ \A x \in Ranks : p \in Sent[x]
           /\ Done' = [Done EXCEPT ![r] = @ \cup {p}]
           /\ mem' = IF need_rx(r, p)
                     THEN [mem EXCEPT ![r][p] = <<Result(p), Result(p)>>]
                     ELSE mem
           /\ \E S \in SUBSET Psns : Sent' = [Sent EXCEPT ![r] = @ \cup S]
<1>1. p \notin Done[r]
  BY DEF Delivers, Done
<1>2. ASSUME NEW x \in Ranks PROVE p \in Sent[x]
  <2>1. p < next[x] /\ next[x] \in 0 .. NPkts
    BY DEF IInv, TypeOK, Delivers, Answered, Passed
  <2> QED  BY <2>1, PsnsNat, NPktsAssumption DEF Sent
<1>3. Done' = [Done EXCEPT ![r] = @ \cup {p}]
  <2>1. \A x \in Ranks, q \in Psns : Acked(x, q)' <=> Acked(x, q) \/ (x = r /\ q = p)
    BY DEF Delivers
  <2>2. ASSUME NEW x \in Ranks
        PROVE  {q \in Psns : Acked(x, q)'}
                 = IF x = r THEN {q \in Psns : Acked(r, q)} \cup {p} ELSE {q \in Psns : Acked(x, q)}
    BY <2>1
  <2> QED  BY <2>2 DEF Done
<1>4. PICK n \in next[r] .. NPkts : next' = [next EXCEPT ![r] = n]
  BY DEF Delivers
<1>5. \E S \in SUBSET Psns : Sent' = [Sent EXCEPT ![r] = @ \cup S]
  BY <1>4, GenerateIsSend DEF IInv
<1> QED  BY <1>1, <1>2, <1>3, <1>5 DEF Delivers

\* Both specifications speak of the same packets and the same sums.
LEMMA SameData ==
    /\ Promise!Psns = Psns
    /\ \A r, p : Promise!need_rx(r, p) = need_rx(r, p)
    /\ \A p : Promise!Result(p) = Result(p)
<1>1. Promise!Psns = Psns
  BY DEF Promise!Psns, Psns
<1>2. \A r, p : Promise!need_rx(r, p) = need_rx(r, p)
  BY DEF Promise!need_rx, need_rx
<1>3. \A p : Promise!Result(p) = Result(p)
  BY DEF Promise!Result, Result, Promise!SumOver, SumOver, Promise!Terms, Terms,
         Promise!need_tx, need_tx, Promise!SetToBag, SetToBag
<1> QED  BY <1>1, <1>2, <1>3

LEMMA InitRefines ==
    ASSUME Init
    PROVE  Promise!SpecInit
<1>1. next = [r \in Ranks |-> 0] /\ left = [r \in Ranks |-> 0] /\ acked = [r \in Ranks |-> {}]
      /\ mem = [r \in Ranks |-> [p \in Psns |-> <<>>]]
  BY DEF Init, WindowInit
<1>2. [r \in Ranks |-> 0 .. next[r] - 1] = [r \in Ranks |-> {}]
  BY <1>1
<1>3. [r \in Ranks |-> {p \in Psns : Acked(r, p)}] = [r \in Ranks |-> {}]
  <2>1. \A r \in Ranks, p \in Psns : ~ Acked(r, p)
    BY <1>1, PsnsNat DEF Acked
  <2> QED  BY <2>1
<1> QED  BY <1>1, <1>2, <1>3, SameData DEF Promise!SpecInit

LEMMA StepRefines ==
    ASSUME IInv, [Next]_vars
    PROVE  [Promise!SpecNext]_(Promise!specVars)
<1>1. ASSUME UNCHANGED windowVars
      PROVE  UNCHANGED Promise!specVars
  BY <1>1, SameData DEF windowVars, Promise!specVars, Acked
<1>2. ASSUME NEW r \in Ranks, RxAccept(r), UNCHANGED <<switchVars, holder>>
      PROVE  Promise!SpecNext
  <2>1. PICK p \in Psns : Delivers(r, p)
    BY <1>2, AcceptStep
  <2>2. Promise!Send(r)
    BY <2>1, AcceptIsDeliver, SameData DEF Promise!Send, Sent
  <2>3. Promise!Deliver(r, p)
    BY <2>1, AcceptIsDeliver, SameData DEF Promise!Deliver, Sent, Done
  <2> QED  BY <2>2, <2>3, SameData DEF Promise!SpecNext
<1>3. ASSUME NEW r \in Ranks, NEW lo, NEW resent, shift_send(r, lo, resent),
             UNCHANGED <<left, acked, mem>>
      PROVE  Promise!SpecNext
  <2>1. Done' = Done
    BY <1>3 DEF Done, Acked
  <2>2. \E S \in SUBSET Psns : Sent' = [Sent EXCEPT ![r] = @ \cup S]
    BY <1>3, SendIsSend DEF IInv
  <2>3. Promise!Send(r)
    BY <2>2, SameData DEF Promise!Send, Sent
  <2> QED  BY <1>3, <2>1, <2>3 DEF Promise!SpecNext, Done
<1>4. ASSUME NEW r \in Ranks, Worker(r)
      PROVE  Promise!SpecNext
  BY <1>2, <1>3, <1>4 DEF Worker, RxRedundant, TxProcess, Timeout
<1>5. CASE UNCHANGED vars
  BY <1>1, <1>5 DEF vars
<1>6. CASE Next
  BY <1>1, <1>4, <1>6 DEF Next, SwitchPass1, SwitchPass2, Loss
<1> QED  BY <1>5, <1>6

(***************************************************************************)
(* The protocol implements its promise, for every value of the constants.  *)
(***************************************************************************)
THEOREM Refinement == Spec => ImplementsPromise
<1> QED  BY InitRefines, StepRefines, Invariance, PTL DEF Spec, ImplementsPromise, Promise!ReduceSpec
=============================================================================
