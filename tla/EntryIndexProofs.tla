-------------------------- MODULE EntryIndexProofs --------------------------
(***************************************************************************)
(* What the binary search of the standard library returns, and what the    *)
(* index makes of it, for lists of any length; and what FlattenSeq does.   *)
(* The library's induction theorems are not used: an induction over the    *)
(* size of the search is an argument about the least size for which the    *)
(* claim would fail.                                                       *)
(***************************************************************************)
EXTENDS EntryIndex, SequencesExt, TLAPS, WellFoundedInduction, SequenceTheorems

\* A set of naturals that is not empty has a least element.
LEMMA LeastNat ==
    ASSUME NEW S, S \subseteq Nat, S # {}
    PROVE  \E m \in S : \A y \in S : m <= y
<1> DEFINE R == {pair \in Nat \X Nat : pair[1] < pair[2]}
<1>1. IsWellFoundedOn(R, Nat)
    BY NatLessThanWellFounded, Zenon DEF OpToRel
<1>2. PICK m \in S : \A y \in S : ~(<<y, m>> \in R)
    <2> HIDE DEF R
    <2> QED
        BY <1>1, WFMin
<1>3. \A y \in S : ~(y < m)
    BY <1>2
<1> QED
    BY <1>3

-----------------------------------------------------------------------------
\* One round of the search, and a function that is the whole search.
Round(holds, f, s, b) ==
    IF s <= 1 THEN IF b + 1 \in holds THEN b + 1 ELSE b
    ELSE IF b + s \div 2 + 1 \in holds THEN f[s - s \div 2][b + s \div 2]
                                       ELSE f[s - s \div 2][b]
IsSearch(holds, n, f) == f = [s \in 0..n |-> [b \in Nat |-> Round(holds, f, s, b)]]

\* Halving a size of at least two leaves two parts that are not empty.
LEMMA Halves ==
    ASSUME NEW s \in Nat, s > 1
    PROVE  /\ s \div 2 \in Nat /\ s - s \div 2 \in Nat
           /\ 1 <= s \div 2 /\ s \div 2 <= s - s \div 2 /\ s - s \div 2 < s
    OBVIOUS

\* The recursion is well founded: there is a function that satisfies it.
LEMMA SearchExists ==
    ASSUME NEW holds, NEW n \in Nat
    PROVE  \E f : IsSearch(holds, n, f)
<1> DEFINE Bad == {k \in Nat : ~ \E f : IsSearch(holds, k, f)}
<1>1. SUFFICES ASSUME Bad # {} PROVE FALSE
    OBVIOUS
<1>2. PICK k \in Bad : \A j \in Bad : k <= j
    <2> HIDE DEF Bad
    <2>1. Bad \subseteq Nat
        BY DEF Bad
    <2> QED
        BY <1>1, <2>1, LeastNat
<1>3. k \in Nat /\ ~ \E f : IsSearch(holds, k, f)
    OBVIOUS
<1>4. CASE k = 0
    <2> DEFINE f == [s \in 0..k |-> [b \in Nat |-> Round(holds, <<>>, s, b)]]
    <2>1. \A s \in 0..k : s <= 1
        BY <1>4
    <2>2. \A s \in 0..k, b \in Nat : Round(holds, <<>>, s, b) = Round(holds, f, s, b)
        BY <2>1 DEF Round
    <2>3. IsSearch(holds, k, f)
        BY <2>2, Zenon DEF IsSearch
    <2> QED
        BY <1>3, <2>3
<1>5. CASE k # 0
    <2>1. k - 1 \in Nat /\ k - 1 \notin Bad
        BY <1>2, <1>3, <1>5
    <2>2. PICK f : IsSearch(holds, k - 1, f)
        BY <2>1
    <2> DEFINE g == [s \in 0..k |-> [b \in Nat |-> Round(holds, f, s, b)]]
    <2>3. ASSUME NEW s \in 0..(k - 1) PROVE g[s] = f[s]
        <3>1. s \in 0..k
            BY <1>3
        <3>2. g[s] = [b \in Nat |-> Round(holds, f, s, b)]
            BY <3>1, Zenon
        <3>3. \A h : f = [t \in 0..(k - 1) |-> [b \in Nat |-> Round(holds, h, t, b)]]
                        => f[s] = [b \in Nat |-> Round(holds, h, s, b)]
            BY Zenon
        <3> QED
            BY <2>2, <3>2, <3>3, Zenon DEF IsSearch
    <2>4. ASSUME NEW s \in 0..k, NEW b \in Nat
         PROVE  Round(holds, f, s, b) = Round(holds, g, s, b)
        <3>1. CASE s <= 1
            BY <3>1 DEF Round
        <3>2. CASE s > 1
            <4>1. s - s \div 2 \in 0..(k - 1)
                BY <1>3, <3>2, Halves
            <4>2. g[s - s \div 2] = f[s - s \div 2]
                BY <2>3, <4>1
            <4> HIDE DEF g
            <4> QED
                BY <3>2, <4>2 DEF Round
        <3> QED
            BY <1>3, <3>1, <3>2
    <2>5. IsSearch(holds, k, g)
        BY <2>4, Zenon DEF IsSearch
    <2> QED
        BY <1>3, <2>5
<1> QED
    BY <1>3, <1>4, <1>5

\* partition_point is the value of such a function.
LEMMA SearchIs ==
    ASSUME NEW holds, NEW n \in Nat \ {0}
    PROVE  \E f : IsSearch(holds, n, f) /\ PartitionPoint(holds, n) = f[n][0]
<1> DEFINE g == CHOOSE f : IsSearch(holds, n, f)
<1>1. IsSearch(holds, n, g)
    BY SearchExists, Zenon
<1>2. PartitionPoint(holds, n) = g[n][0]
    BY Zenon DEF PartitionPoint, IsSearch, Round
<1> QED
    BY <1>1, <1>2

\* Its value at one size and base.
LEMMA SearchRound ==
    ASSUME NEW holds, NEW n \in Nat, NEW f, IsSearch(holds, n, f),
           NEW s \in 0..n, NEW b \in Nat
    PROVE  f[s][b] = Round(holds, f, s, b)
<1>1. \A g : f = [t \in 0..n |-> [c \in Nat |-> Round(holds, g, t, c)]]
                => f[s] = [c \in Nat |-> Round(holds, g, s, c)]
    BY Zenon
<1>2. f[s] = [c \in Nat |-> Round(holds, f, s, c)]
    BY <1>1, Zenon DEF IsSearch
<1>3. \A g : [c \in Nat |-> Round(holds, g, s, c)][b] = Round(holds, g, s, b)
    BY Zenon
<1> QED
    BY <1>2, <1>3, Zenon

\* A search of `s' positions after `b', the first of which satisfies the
\* predicate unless b = 0, ends in that range at 0 or at a position that
\* satisfies it.  This also holds of lists that are not partitioned.
LEMMA SearchRange ==
    ASSUME NEW holds, NEW n \in Nat, NEW f, IsSearch(holds, n, f)
    PROVE  \A s \in 1..n, b \in Nat :
            (b = 0 \/ b + 1 \in holds) =>
                /\ f[s][b] \in b..(b + s)
                /\ f[s][b] = 0 \/ f[s][b] \in holds
<1> DEFINE P(s, b) ==
        (b = 0 \/ b + 1 \in holds) =>
            /\ f[s][b] \in b..(b + s)
            /\ f[s][b] = 0 \/ f[s][b] \in holds
           Bad == {s \in 1..n : \E b \in Nat : ~P(s, b)}
<1>1. SUFFICES ASSUME Bad # {} PROVE FALSE
    OBVIOUS
<1>2. PICK s \in Bad : \A j \in Bad : s <= j
    <2> HIDE DEF Bad
    <2>1. Bad \subseteq Nat
        BY DEF Bad
    <2> QED
        BY <1>1, <2>1, LeastNat
<1>3. s \in 1..n /\ s \in Nat
    OBVIOUS
<1>4. PICK b \in Nat : ~P(s, b)
    OBVIOUS
<1>5. f[s][b] = Round(holds, f, s, b)
    <2> HIDE DEF Bad, P
    <2>1. s \in 0..n
        BY <1>3
    <2> QED
        BY <2>1, SearchRound
<1>6. CASE s <= 1
    BY <1>3, <1>4, <1>5, <1>6 DEF Round
<1>7. CASE s > 1
    <2> DEFINE half == s \div 2
               r == s - half
    <2>1. half \in Nat /\ r \in 1..n /\ r < s /\ 1 <= half /\ half <= r
        BY <1>3, <1>7, Halves
    <2>2. r \notin Bad
        BY <1>2, <1>3, <2>1
    <2>3. \A c \in Nat : P(r, c)
        BY <2>1, <2>2
    <2>4. r + half = s
        BY <1>3, <2>1
    <2>5. f[s][b] = IF b + half + 1 \in holds THEN f[r][b + half] ELSE f[r][b]
        BY <1>3, <1>5, <1>7 DEF Round
    <2> HIDE DEF half, r
    <2>6. CASE b + half + 1 \in holds
        <3>1. P(r, b + half) /\ b + half \in Nat
            BY <2>1, <2>3
        <3>2. /\ f[s][b] \in (b + half)..(b + half + r)
              /\ f[s][b] = 0 \/ f[s][b] \in holds
            BY <2>5, <2>6, <3>1
        <3> QED
            BY <1>3, <1>4, <2>1, <2>4, <3>2
    <2>7. CASE b + half + 1 \notin holds
        BY <1>3, <1>4, <2>1, <2>3, <2>4, <2>5, <2>7
    <2> QED
        BY <2>6, <2>7
<1> QED
    BY <1>3, <1>6, <1>7

\* partition_point returns 0 or a position that satisfies the predicate,
\* partitioned or not.
LEMMA PartitionPointRange ==
    ASSUME NEW holds, NEW n \in Nat
    PROVE  /\ PartitionPoint(holds, n) \in 0..n
           /\ PartitionPoint(holds, n) = 0 \/ PartitionPoint(holds, n) \in holds
<1>1. CASE n = 0
    BY <1>1 DEF PartitionPoint
<1>2. CASE n # 0
    <2>1. PICK f : IsSearch(holds, n, f) /\ PartitionPoint(holds, n) = f[n][0]
        BY <1>2, SearchIs
    <2>2. f[n][0] \in 0..(0 + n) /\ (f[n][0] = 0 \/ f[n][0] \in holds)
        BY <1>2, <2>1, SearchRange
    <2> QED
        BY <2>1, <2>2
<1> QED
    BY <1>1, <1>2

\* On a partitioned list partition_point is the number of positions that
\* satisfy the predicate.
THEOREM PartitionPointTheorem ==
    ASSUME NEW holds, NEW n \in Nat, NEW k \in 0..n,
           \A i \in 1..n : i \in holds <=> i <= k
    PROVE  PartitionPoint(holds, n) = k
<1>1. CASE n = 0
    BY <1>1 DEF PartitionPoint
<1>2. CASE n # 0
    <2>1. PICK f : IsSearch(holds, n, f) /\ PartitionPoint(holds, n) = f[n][0]
        BY <1>2, SearchIs
    <2> DEFINE P(s, b) == (b <= k /\ k <= b + s /\ b + s <= n) => f[s][b] = k
               Bad == {s \in 1..n : \E b \in Nat : ~P(s, b)}
    <2>2. Bad = {}
        <3>1. SUFFICES ASSUME Bad # {} PROVE FALSE
            OBVIOUS
        <3>2. PICK s \in Bad : \A j \in Bad : s <= j
            <4> HIDE DEF Bad
            <4>1. Bad \subseteq Nat
                BY DEF Bad
            <4> QED
                BY <3>1, <4>1, LeastNat
        <3>3. s \in 1..n /\ s \in Nat /\ k \in Nat
            OBVIOUS
        <3>4. PICK b \in Nat : b <= k /\ k <= b + s /\ b + s <= n /\ f[s][b] # k
            OBVIOUS
        <3>5. f[s][b] = Round(holds, f, s, b)
            <4> HIDE DEF Bad, P
            <4>1. s \in 0..n
                BY <3>3
            <4> QED
                BY <2>1, <4>1, SearchRound
        <3>6. CASE s <= 1
            <4>1. b + 1 \in holds <=> b + 1 <= k
                BY <3>3, <3>4
            <4> QED
                BY <3>3, <3>4, <3>5, <3>6, <4>1 DEF Round
        <3>7. CASE s > 1
            <4> DEFINE half == s \div 2
                       r == s - half
            <4>1. half \in Nat /\ r \in 1..n /\ r < s /\ 1 <= half /\ half <= r
                BY <3>3, <3>7, Halves
            <4>2. r \notin Bad
                BY <3>2, <3>3, <4>1
            <4>3. \A c \in Nat : P(r, c)
                BY <4>1, <4>2
            <4>4. r + half = s
                BY <3>3, <4>1
            <4>5. f[s][b] = IF b + half + 1 \in holds THEN f[r][b + half] ELSE f[r][b]
                BY <3>3, <3>5, <3>7 DEF Round
            <4> HIDE DEF half, r
            <4>6. b + half + 1 \in holds <=> b + half + 1 <= k
                BY <3>3, <3>4, <4>1, <4>4
            <4>7. CASE b + half + 1 <= k
                <5>1. b + half \in Nat /\ P(r, b + half)
                    BY <4>1, <4>3
                <5> QED
                    BY <3>3, <3>4, <4>1, <4>4, <4>5, <4>6, <4>7, <5>1
            <4>8. CASE ~(b + half + 1 <= k)
                <5>1. P(r, b)
                    BY <4>3
                <5> QED
                    BY <3>3, <3>4, <4>1, <4>4, <4>5, <4>6, <4>8, <5>1
            <4> QED
                BY <4>7, <4>8
        <3> QED
            BY <3>3, <3>6, <3>7
    <2>3. n \in 1..n /\ P(n, 0)
        BY <1>2, <2>2
    <2> QED
        BY <1>2, <2>1, <2>3
<1> QED
    BY <1>1, <1>2

-----------------------------------------------------------------------------
(***************************************************************************)
(* EntryIndex.  None of this section needs the index to be sorted:         *)
(* truncate_start leaves a first segment without checkpoints at times, for *)
(* which the list that find searches is not partitioned.                   *)
(***************************************************************************)
\* The two searches stay within their lists.
LEMMA SegmentCountRange ==
    ASSUME NEW index \in Seq(SegmentIndex), NEW target
    PROVE  /\ SegmentCount(index, target) \in 0..Len(index)
           /\ SegmentCount(index, target) # 0 =>
                /\ SegmentCount(index, target) \in 1..Len(index)
                /\ SegmentCount(index, target) \in DOMAIN index
                /\ index[SegmentCount(index, target)] \in SegmentIndex
<1>1. Len(index) \in Nat /\ DOMAIN index = 1..Len(index)
    OBVIOUS
<1>2. SegmentCount(index, target) \in 0..Len(index)
    BY <1>1, PartitionPointRange DEF SegmentCount
<1>3. SegmentCount(index, target) # 0 => SegmentCount(index, target) \in 1..Len(index)
    BY <1>1, <1>2
<1>4. \A i \in DOMAIN index : index[i] \in SegmentIndex
    BY <1>1
<1> QED
    BY <1>1, <1>2, <1>3, <1>4

LEMMA CheckpointCountRange ==
    ASSUME NEW cps \in Seq(Checkpoint), NEW target
    PROVE  PartitionPoint(CheckpointsUpTo(cps, target), Len(cps)) \in 0..Len(cps)
<1>1. Len(cps) \in Nat
    OBVIOUS
<1> QED
    BY <1>1, PartitionPointRange

\* EntryIndex::find returns nothing, or a checkpoint of the index that is not
\* after the target: a scan that starts there misses no entry from the target
\* on in that segment.
THEOREM FindTheorem ==
    ASSUME NEW index \in Seq(SegmentIndex), NEW target \in Nat
    PROVE  \/ Find(index, target) = NoPosition
           \/ \E p \in DOMAIN index : \E c \in DOMAIN index[p].checkpoints :
                /\ index[p].checkpoints[c].id <= target
                /\ Find(index, target) =
                    [segment |-> index[p].segment,
                     byte_offset |-> index[p].checkpoints[c].byte_offset]
<1> DEFINE pos == SegmentCount(index, target)
           cps == index[pos].checkpoints
           cp == PartitionPoint(CheckpointsUpTo(cps, target), Len(cps))
<1>1. CASE pos = 0
    BY <1>1 DEF Find
<1>2. CASE pos # 0
    <2>1. pos \in DOMAIN index /\ index[pos] \in SegmentIndex
        BY <1>2, SegmentCountRange
    <2>2. cps \in Seq(Checkpoint)
        BY <2>1 DEF SegmentIndex
    <2>3. Len(cps) \in Nat
        BY <2>2
    <2>4. cp = 0 \/ cp \in CheckpointsUpTo(cps, target)
        <3> HIDE DEF cps
        <3> QED
            BY <2>3, PartitionPointRange
    <2>5. CASE cp = 0
        BY <1>2, <2>5 DEF Find
    <2>6. CASE cp # 0
        <3>1. cp \in DOMAIN cps /\ cps[cp].id <= target
            BY <2>4, <2>6 DEF CheckpointsUpTo
        <3>2. Find(index, target) = [segment |-> index[pos].segment,
                                     byte_offset |-> cps[cp].byte_offset]
            BY <1>2, <2>6 DEF Find
        <3> HIDE DEF cp, pos
        <3> QED
            BY <2>1, <3>1, <3>2
    <2> QED
        BY <2>5, <2>6
<1> QED
    BY <1>1, <1>2

\* The offset that find returns is one of a file.
LEMMA FindType ==
    ASSUME NEW index \in Seq(SegmentIndex), NEW target \in Nat
    PROVE  Find(index, target).byte_offset \in Nat
<1>1. CASE Find(index, target) = NoPosition
    BY <1>1 DEF NoPosition
<1>2. CASE Find(index, target) # NoPosition
    <2>1. PICK p \in DOMAIN index : \E c \in DOMAIN index[p].checkpoints :
            Find(index, target) =
                [segment |-> index[p].segment,
                 byte_offset |-> index[p].checkpoints[c].byte_offset]
        BY <1>2, FindTheorem
    <2>2. index[p] \in SegmentIndex
        OBVIOUS
    <2> DEFINE cps == index[p].checkpoints
    <2>3. cps \in Seq(Checkpoint)
        BY <2>2 DEF SegmentIndex
    <2>4. \A c \in DOMAIN cps : cps[c].byte_offset \in Nat
        <3> HIDE DEF cps
        <3>1. \A c \in DOMAIN cps : cps[c] \in Checkpoint
            BY <2>3
        <3> QED
            BY <3>1 DEF Checkpoint
    <2> QED
        BY <2>1, <2>4
<1> QED
    BY <1>1, <1>2

\* Cutting the checkpoints of one segment leaves a segment index.
LEMMA CutType ==
    ASSUME NEW si \in SegmentIndex, NEW n \in Nat
    PROVE  /\ [si EXCEPT !.checkpoints = SubSeq(@, n + 1, Len(@))] \in SegmentIndex
           /\ n <= Len(si.checkpoints) =>
                [si EXCEPT !.checkpoints = SubSeq(@, 1, n)] \in SegmentIndex
<1>1. si.checkpoints \in Seq(Checkpoint)
    BY DEF SegmentIndex
<1>2. SubSeq(si.checkpoints, n + 1, Len(si.checkpoints)) \in Seq(Checkpoint)
    BY <1>1, SubSeqProperties
<1>3. n <= Len(si.checkpoints) => SubSeq(si.checkpoints, 1, n) \in Seq(Checkpoint)
    BY <1>1, SubSeqProperties
<1> QED
    BY <1>2, <1>3 DEF SegmentIndex

\* EntryIndex::truncate_start and truncate_end leave an index.
LEMMA IndexTruncateStartType ==
    ASSUME NEW index \in Seq(SegmentIndex), NEW first
    PROVE  IndexTruncateStart(index, first) \in Seq(SegmentIndex)
<1> DEFINE pos == SegmentCount(index, first)
           cps == index[pos].checkpoints
           n == PartitionPoint(CheckpointsUpTo(cps, first - 1), Len(cps))
           head == [index[pos] EXCEPT !.checkpoints = SubSeq(@, n + 1, Len(@))]
           tail == SubSeq(index, pos + 1, Len(index))
<1>1. CASE pos = 0
    BY <1>1 DEF IndexTruncateStart
<1>2. CASE pos # 0
    <2>1. pos \in 1..Len(index) /\ index[pos] \in SegmentIndex
        BY <1>2, SegmentCountRange
    <2>2. cps \in Seq(Checkpoint)
        BY <2>1 DEF SegmentIndex
    <2>3. n \in Nat
        BY <2>2, CheckpointCountRange
    <2>4. head \in SegmentIndex
        <3> HIDE DEF n, pos
        <3> QED
            BY <2>1, <2>3, CutType
    <2>5. tail \in Seq(SegmentIndex)
        BY <2>1, SubSeqProperties
    <2>6. IndexTruncateStart(index, first) = <<head>> \o tail
        BY <1>2 DEF IndexTruncateStart
    <2> HIDE DEF head, tail
    <2> QED
        BY <2>4, <2>5, <2>6, ConcatProperties
<1> QED
    BY <1>1, <1>2

LEMMA IndexTruncateEndType ==
    ASSUME NEW index \in Seq(SegmentIndex), NEW last
    PROVE  IndexTruncateEnd(index, last) \in Seq(SegmentIndex)
<1> DEFINE pos == SegmentCount(index, last)
           cps == index[pos].checkpoints
           keep == PartitionPoint(CheckpointsUpTo(cps, last), Len(cps))
           tail == [index[pos] EXCEPT !.checkpoints = SubSeq(@, 1, keep)]
           before == SubSeq(index, 1, pos - 1)
<1>1. CASE pos = 0
    BY <1>1 DEF IndexTruncateEnd
<1>2. CASE pos # 0
    <2>1. pos \in 1..Len(index) /\ index[pos] \in SegmentIndex
        BY <1>2, SegmentCountRange
    <2>2. cps \in Seq(Checkpoint)
        BY <2>1 DEF SegmentIndex
    <2>3. keep \in 0..Len(cps)
        BY <2>2, CheckpointCountRange
    <2>4. tail \in SegmentIndex
        <3>1. keep \in Nat /\ keep <= Len(cps)
            BY <2>2, <2>3
        <3> HIDE DEF keep, pos
        <3> QED
            BY <2>1, <3>1, CutType
    <2>5. before \in Seq(SegmentIndex)
        BY <2>1, SubSeqProperties
    <2>6. IndexTruncateEnd(index, last) = Append(before, tail)
        BY <1>2 DEF IndexTruncateEnd
    <2> HIDE DEF before, tail
    <2> QED
        BY <2>4, <2>5, <2>6
<1> QED
    BY <1>1, <1>2

-----------------------------------------------------------------------------
(***************************************************************************)
(* The searches of an index in order (IndexOrdered).                       *)
(***************************************************************************)
\* A set of positions has a last one.
LEMMA LastPosition ==
    ASSUME NEW n \in Nat, NEW S, S \subseteq 1..n, S # {}
    PROVE  \E k \in S : \A i \in S : i <= k
<1> DEFINE Bounds == {m \in Nat : \A i \in S : i <= m}
<1>1. n \in Bounds /\ Bounds \subseteq Nat
    OBVIOUS
<1>2. PICK m \in Bounds : \A y \in Bounds : m <= y
    <2> HIDE DEF Bounds
    <2> QED
        BY <1>1, LeastNat
<1>3. m \in Nat /\ \A i \in S : i <= m
    OBVIOUS
<1>4. m \in S
    <2> SUFFICES ASSUME m \notin S PROVE FALSE
        OBVIOUS
    <2>1. \A i \in S : i \in Nat /\ i >= 1 /\ i <= m /\ i # m
        BY <1>3
    <2>2. m - 1 \in Nat
        <3>1. PICK i \in S : TRUE
            OBVIOUS
        <3>2. m \in Nat /\ i \in Nat /\ i >= 1 /\ i <= m
            BY <1>3, <2>1
        <3> QED
            BY <3>2
    <2>3. \A i \in S : i <= m - 1
        <3> SUFFICES ASSUME NEW i \in S PROVE i <= m - 1
            OBVIOUS
        <3>1. m \in Nat /\ i \in Nat /\ i <= m /\ i # m
            BY <1>3, <2>1
        <3> QED
            BY <3>1
    <2>4. m - 1 \in Bounds
        BY <2>2, <2>3
    <2> HIDE DEF Bounds
    <2> QED
        BY <1>2, <1>3, <2>4
<1> QED
    BY <1>3, <1>4

\* On a list that is partitioned but for its first position, the search passes
\* over that one as soon as the predicate holds at the second.
LEMMA PartitionPointPast ==
    ASSUME NEW holds, NEW n \in Nat, NEW k \in 2..n,
           \A i \in 2..n : i \in holds <=> i <= k
    PROVE  PartitionPoint(holds, n) = k
<1>1. n \in Nat \ {0} /\ n >= 2 /\ k \in Nat /\ k >= 2
    OBVIOUS
<1>2. PICK f : IsSearch(holds, n, f) /\ PartitionPoint(holds, n) = f[n][0]
    BY <1>1, SearchIs
<1> DEFINE P(s, b) == (b <= k /\ k <= b + s /\ b + s <= n) => f[s][b] = k
           Bad == {s \in 2..n : \E b \in Nat : ~P(s, b)}
<1>3. Bad = {}
    <2> SUFFICES ASSUME Bad # {} PROVE FALSE
        OBVIOUS
    <2>1. PICK s \in Bad : \A j \in Bad : s <= j
        <3>1. Bad \subseteq Nat
            OBVIOUS
        <3> HIDE DEF Bad
        <3> QED
            BY <3>1, LeastNat
    <2>2. s \in 2..n /\ s \in Nat
        OBVIOUS
    <2>3. PICK b \in Nat : b <= k /\ k <= b + s /\ b + s <= n /\ f[s][b] # k
        OBVIOUS
    <2>4. \A t \in 1..n, c \in Nat : f[t][c] = Round(holds, f, t, c)
        <3> HIDE DEF Bad, P
        <3>1. \A t \in 1..n : t \in 0..n
            OBVIOUS
        <3> QED
            BY <1>2, <3>1, SearchRound
    <2>5. CASE s = 2
        <3>1. f[2][b] = IF b + 2 \in holds THEN f[1][b + 1] ELSE f[1][b]
            <4>1. 2 \div 2 = 1 /\ 2 - 2 \div 2 = 1 /\ ~(2 <= 1) /\ b + 2 \div 2 + 1 = b + 2
                  /\ b + 2 \div 2 = b + 1
                OBVIOUS
            <4>2. f[2][b] = Round(holds, f, 2, b)
                BY <1>1, <2>4
            <4> QED
                BY <4>1, <4>2 DEF Round
        <3>2. /\ f[1][b + 1] = IF b + 1 + 1 \in holds THEN b + 1 + 1 ELSE b + 1
              /\ f[1][b] = IF b + 1 \in holds THEN b + 1 ELSE b
            BY <1>1, <2>4 DEF Round
        <3>3. b + 1 + 1 = b + 2
            OBVIOUS
        <3>4. b + 2 \in holds <=> b + 2 <= k
            BY <2>3, <2>5
        <3>5. CASE b + 2 <= k
            BY <1>1, <2>3, <2>5, <3>1, <3>2, <3>3, <3>4, <3>5
        <3>6. CASE ~(b + 2 <= k)
            <4>1. b >= 1 /\ k \in {b, b + 1}
                BY <1>1, <2>3, <3>6
            <4>2. b + 1 \in holds <=> b + 1 <= k
                BY <2>3, <2>5, <4>1
            <4> QED
                BY <1>1, <2>3, <2>5, <3>1, <3>2, <3>4, <3>6, <4>1, <4>2
        <3> QED
            BY <3>5, <3>6
    <2>6. CASE s > 2
        <3> DEFINE half == s \div 2
                   r == s - half
        <3>1. half \in Nat /\ r \in 2..n /\ r < s /\ 1 <= half /\ half <= r
            BY <2>2, <2>6, Halves
        <3>2. \A c \in Nat : P(r, c)
            BY <2>1, <2>2, <3>1
        <3>3. r + half = s
            BY <2>2, <3>1
        <3>4. f[s][b] = IF b + half + 1 \in holds THEN f[r][b + half] ELSE f[r][b]
            <4>1. ~(s <= 1) /\ s \in 1..n
                BY <2>2, <2>6
            <4> QED
                BY <2>3, <2>4, <4>1 DEF Round
        <3> HIDE DEF half, r
        <3>5. b + half + 1 \in holds <=> b + half + 1 <= k
            BY <2>2, <2>3, <3>1, <3>3
        <3>6. CASE b + half + 1 <= k
            <4>1. b + half \in Nat /\ P(r, b + half)
                BY <3>1, <3>2
            <4> QED
                BY <1>1, <2>2, <2>3, <3>1, <3>3, <3>4, <3>5, <3>6, <4>1
        <3>7. CASE ~(b + half + 1 <= k)
            <4>1. P(r, b)
                BY <3>2
            <4> QED
                BY <1>1, <2>2, <2>3, <3>1, <3>3, <3>4, <3>5, <3>7, <4>1
        <3> QED
            BY <3>6, <3>7
    <2> QED
        BY <2>2, <2>5, <2>6
<1>4. n \in 2..n /\ P(n, 0)
    BY <1>1, <1>3
<1> QED
    BY <1>1, <1>2, <1>4

\* Where the predicate holds up to some position, but for the first perhaps,
\* the search returns the last position where it holds.
LEMMA PartitionPointLast ==
    ASSUME NEW n \in Nat, NEW holds, holds \subseteq 1..n,
           \A i, j \in 1..n : 1 < i /\ i <= j /\ j \in holds => i \in holds
    PROVE  \A j \in holds : j <= PartitionPoint(holds, n)
<1> SUFFICES ASSUME holds # {}
             PROVE  \A j \in holds : j <= PartitionPoint(holds, n)
    OBVIOUS
<1>1. PICK k \in holds : \A i \in holds : i <= k
    BY LastPosition
<1>2. k \in 1..n /\ k \in Nat
    OBVIOUS
<1>3. CASE k = 1
    <2>1. \A i \in 1..n : i \in holds <=> i <= 1
        BY <1>1, <1>3
    <2>2. PartitionPoint(holds, n) = 1
        BY <1>2, <1>3, <2>1, PartitionPointTheorem
    <2> QED
        BY <1>1, <1>3, <2>2
<1>4. CASE k # 1
    <2>1. k \in 2..n /\ \A i \in 2..n : i \in holds <=> i <= k
        BY <1>1, <1>2, <1>4
    <2>2. PartitionPoint(holds, n) = k
        BY <2>1, PartitionPointPast
    <2> QED
        BY <1>1, <2>2
<1> QED
    BY <1>3, <1>4

\* The segment that an index in order is searched for is the last one that has
\* a checkpoint at or before the target.
LEMMA SegmentCountLast ==
    ASSUME NEW index \in Seq(SegmentIndex), IndexOrdered(index), NEW target \in Int
    PROVE  \A i \in CoveringSegments(index, target) : i <= SegmentCount(index, target)
<1> DEFINE n == Len(index)
           holds == CoveringSegments(index, target)
<1>1. n \in Nat /\ n = Len(index) /\ DOMAIN index = 1..n /\ holds \subseteq 1..n
    BY DEF CoveringSegments
<1> HIDE DEF n
<1>2. ASSUME NEW i \in 1..n, NEW j \in 1..n, 1 < i, i <= j, j \in holds
      PROVE  i \in holds
    <2>1. CASE i = j
        BY <1>2, <2>1
    <2>2. CASE i # j
        <3> DEFINE ci == index[i].checkpoints
                   cj == index[j].checkpoints
        <3>1. i < j /\ i # n
            BY <1>1, <1>2, <2>2
        <3>2. ci # <<>>
            BY <1>1, <1>2, <3>1 DEF IndexOrdered
        <3>7. cj # <<>> /\ cj[1].id <= target
            BY <1>2 DEF CoveringSegments
        <3>3. ci \in Seq(Checkpoint) /\ cj \in Seq(Checkpoint)
            <4>1. index[i] \in SegmentIndex /\ index[j] \in SegmentIndex
                BY <1>1
            <4> QED
                BY <4>1 DEF SegmentIndex
        <3>4. 1 \in DOMAIN ci /\ 1 \in DOMAIN cj
            BY <3>2, <3>3, <3>7, EmptySeq
        <3>5. ci[1].id < cj[1].id
            BY <1>1, <3>1, <3>4 DEF IndexOrdered
        <3>6. ci[1].id \in Nat /\ cj[1].id \in Nat
            <4>1. ci[1] \in Checkpoint /\ cj[1] \in Checkpoint
                <5> HIDE DEF ci, cj
                <5> QED
                    BY <3>3, <3>4
            <4> QED
                BY <4>1 DEF Checkpoint
        <3> QED
            BY <1>1, <3>2, <3>7, <3>5, <3>6 DEF CoveringSegments
    <2> QED
        BY <2>1, <2>2
<1> HIDE DEF holds
<1> QED
    BY <1>1, <1>2, PartitionPointLast DEF SegmentCount, holds, n

\* The same within a segment: no checkpoint after the one found is at or before
\* the target.
LEMMA CheckpointCountLast ==
    ASSUME NEW cps \in Seq(Checkpoint), NEW target \in Int,
           \A c, d \in DOMAIN cps : c < d => cps[c].id < cps[d].id
    PROVE  \A c \in DOMAIN cps :
            cps[c].id <= target => c <= PartitionPoint(CheckpointsUpTo(cps, target), Len(cps))
<1> DEFINE n == Len(cps)
           holds == CheckpointsUpTo(cps, target)
<1>1. n \in Nat /\ n = Len(cps) /\ DOMAIN cps = 1..n /\ holds \subseteq 1..n
    BY DEF CheckpointsUpTo
<1>2. \A c \in 1..n : cps[c].id \in Nat
    <2> SUFFICES ASSUME NEW c \in 1..n PROVE cps[c].id \in Nat
        OBVIOUS
    <2>1. cps[c] \in Checkpoint
        BY <1>1
    <2> QED
        BY <2>1 DEF Checkpoint
<1> HIDE DEF n
<1>3. ASSUME NEW i \in 1..n, NEW j \in 1..n, 1 < i, i <= j, j \in holds
      PROVE  i \in holds
    <2>1. cps[j].id <= target
        BY <1>3 DEF CheckpointsUpTo
    <2>2. i = j \/ cps[i].id < cps[j].id
        BY <1>1, <1>3
    <2>3. cps[i].id <= target
        BY <1>2, <2>1, <2>2
    <2> QED
        BY <1>1, <2>3 DEF CheckpointsUpTo
<1>4. \A c \in DOMAIN cps : cps[c].id <= target => c \in holds
    BY DEF CheckpointsUpTo
<1> HIDE DEF holds
<1>5. \A c \in holds : c <= PartitionPoint(holds, n)
    BY <1>1, <1>3, PartitionPointLast
<1> QED
    BY <1>1, <1>4, <1>5 DEF holds

\* The types of an index, segment by segment.
LEMMA IndexTypes ==
    ASSUME NEW index \in Seq(SegmentIndex), NEW i \in DOMAIN index
    PROVE  /\ index[i].checkpoints \in Seq(Checkpoint)
           /\ Len(index[i].checkpoints) \in Nat
           /\ DOMAIN index[i].checkpoints = 1..Len(index[i].checkpoints)
           /\ \A c \in DOMAIN index[i].checkpoints : index[i].checkpoints[c].id \in Nat
<1> DEFINE cps == index[i].checkpoints
<1>1. cps \in Seq(Checkpoint)
    <2>1. index[i] \in SegmentIndex
        OBVIOUS
    <2> QED
        BY <2>1 DEF SegmentIndex
<1> HIDE DEF cps
<1>2. \A c \in DOMAIN cps : cps[c] \in Checkpoint
    BY <1>1
<1>3. \A c \in DOMAIN cps : cps[c].id \in Nat
    BY <1>2 DEF Checkpoint
<1>4. Len(cps) \in Nat /\ DOMAIN cps = 1..Len(cps)
    BY <1>1
<1> QED
    BY <1>1, <1>3, <1>4 DEF cps

\* truncate_start drops whole segments before the one found, and cuts that one.
LEMMA TruncatedShape ==
    ASSUME NEW index \in Seq(SegmentIndex), NEW first \in Nat, SegmentCount(index, first) # 0
    PROVE  LET pos == SegmentCount(index, first)
               cps == index[pos].checkpoints
               n == PartitionPoint(CheckpointsUpTo(cps, first - 1), Len(cps))
               new == IndexTruncateStart(index, first)
           IN  /\ pos \in 1..Len(index) /\ n \in 0..Len(cps)
               /\ DOMAIN new = 1..(Len(index) - pos + 1) /\ Len(new) = Len(index) - pos + 1
               /\ new[1].segment = index[pos].segment
               /\ DOMAIN new[1].checkpoints = 1..(Len(cps) - n)
               /\ \A c \in 1..(Len(cps) - n) : new[1].checkpoints[c] = cps[n + c]
               /\ \A i \in 2..(Len(index) - pos + 1) : new[i] = index[pos + i - 1]
<1> DEFINE pos == SegmentCount(index, first)
           cps == index[pos].checkpoints
           n == PartitionPoint(CheckpointsUpTo(cps, first - 1), Len(cps))
           new == IndexTruncateStart(index, first)
           L == Len(index)
           head == [index[pos] EXCEPT !.checkpoints = SubSeq(@, n + 1, Len(@))]
           tail == SubSeq(index, pos + 1, L)
<1>1. pos \in 1..L /\ pos \in DOMAIN index /\ L \in Nat /\ index[pos] \in SegmentIndex
    BY SegmentCountRange
<1>2. cps \in Seq(Checkpoint)
    BY <1>1 DEF SegmentIndex
<1>3. n \in 0..Len(cps) /\ Len(cps) \in Nat
    BY <1>2, CheckpointCountRange
<1>4. new = <<head>> \o tail
    BY DEF IndexTruncateStart
<1> HIDE DEF pos, n, new
<1>5. head.segment = index[pos].segment /\ head.checkpoints = SubSeq(cps, n + 1, Len(cps))
    BY <1>1 DEF SegmentIndex
<1>6. /\ DOMAIN head.checkpoints = 1..(Len(cps) - n)
      /\ \A c \in 1..(Len(cps) - n) : head.checkpoints[c] = cps[n + c]
    <2> HIDE DEF cps, head
    <2>1. Len(SubSeq(cps, n + 1, Len(cps))) = Len(cps) - n
        BY <1>2, <1>3
    <2>2. \A c \in 1..(Len(cps) - n) : SubSeq(cps, n + 1, Len(cps))[c] = cps[n + c]
        BY <1>2, <1>3
    <2>3. SubSeq(cps, n + 1, Len(cps)) \in Seq(Checkpoint)
        BY <1>2, <1>3
    <2> QED
        BY <1>5, <2>1, <2>2, <2>3
<1>7. head \in SegmentIndex
    <2>1. n \in Nat
        BY <1>3
    <2> DEFINE si == index[pos]
    <2>2. si \in SegmentIndex
        BY <1>1
    <2> HIDE DEF si
    <2>3. [si EXCEPT !.checkpoints = SubSeq(@, n + 1, Len(@))] \in SegmentIndex
        BY <2>1, <2>2, CutType
    <2> QED
        BY <2>3 DEF si
<1>8. /\ tail \in Seq(SegmentIndex) /\ Len(tail) = L - pos
      /\ \A i \in 1..(L - pos) : tail[i] = index[pos + i]
    <2> HIDE DEF head
    <2> QED
        BY <1>1
<1> HIDE DEF head, tail, cps
<1>9. /\ new \in Seq(SegmentIndex) /\ Len(new) = 1 + Len(tail)
      /\ new[1] = head /\ \A i \in 1..Len(tail) : new[1 + i] = tail[i]
    BY <1>4, <1>7, <1>8
<1>10. Len(new) = L - pos + 1 /\ DOMAIN new = 1..(L - pos + 1)
    BY <1>1, <1>8, <1>9
<1>11. ASSUME NEW i \in 2..(L - pos + 1)
       PROVE  new[i] = index[pos + i - 1]
    <2>1. i - 1 \in 1..(L - pos) /\ 1 + (i - 1) = i /\ pos + (i - 1) = pos + i - 1
        BY <1>1
    <2> QED
        BY <1>8, <1>9, <2>1
<1> QED
    BY <1>1, <1>3, <1>5, <1>6, <1>9, <1>10, <1>11 DEF pos, cps, n, new, head

\* After truncate_start the index is in order again, and what is left are the
\* checkpoints it had from the new head on.
THEOREM TruncateStartTheorem ==
    ASSUME NEW index \in Seq(SegmentIndex), IndexOrdered(index), NEW first \in Nat
    PROVE  LET new == IndexTruncateStart(index, first)
           IN  /\ IndexOrdered(new)
               /\ \A i \in DOMAIN new : \E j \in DOMAIN index :
                    /\ new[i].segment = index[j].segment
                    /\ \A c \in DOMAIN new[i].checkpoints :
                        /\ new[i].checkpoints[c].id >= first
                        /\ \E d \in DOMAIN index[j].checkpoints :
                            new[i].checkpoints[c] = index[j].checkpoints[d]
<1> DEFINE pos == SegmentCount(index, first)
           new == IndexTruncateStart(index, first)
           L == Len(index)
<1>1. L \in Nat /\ DOMAIN index = 1..L /\ pos \in 0..L
    BY SegmentCountRange
<1>2. ASSUME NEW i \in DOMAIN index, i > pos, NEW c \in DOMAIN index[i].checkpoints
      PROVE  index[i].checkpoints[c].id >= first
    <2> DEFINE cps == index[i].checkpoints
    <2>1. /\ cps \in Seq(Checkpoint) /\ DOMAIN cps = 1..Len(cps) /\ Len(cps) \in Nat
          /\ \A d \in DOMAIN cps : cps[d].id \in Nat
        BY IndexTypes
    <2>2. i \notin CoveringSegments(index, first)
        BY <1>1, <1>2, SegmentCountLast
    <2>3. cps # <<>> /\ 1 \in DOMAIN cps /\ c \in Nat /\ c >= 1
        BY <1>2, <2>1
    <2>4. ~(cps[1].id <= first)
        BY <2>2, <2>3 DEF CoveringSegments
    <2>5. c = 1 \/ cps[1].id < cps[c].id
        BY <1>2, <2>3 DEF IndexOrdered
    <2> HIDE DEF cps
    <2> QED
        BY <1>2, <2>1, <2>3, <2>4, <2>5 DEF cps
<1>3. CASE pos = 0
    <2>1. new = index
        BY <1>3 DEF IndexTruncateStart
    <2>2. \A i \in DOMAIN index : i > pos
        BY <1>1, <1>3
    <2> HIDE DEF new, pos
    <2> QED
        BY <1>2, <2>1, <2>2 DEF new
<1>4. CASE pos # 0
    <2> DEFINE cut == index[pos].checkpoints
               n == PartitionPoint(CheckpointsUpTo(cut, first - 1), Len(cut))
               from(i) == IF i = 1 THEN n ELSE 0
               old(i) == index[pos + i - 1].checkpoints
    <2>1. /\ pos \in 1..L /\ n \in 0..Len(cut)
          /\ DOMAIN new = 1..(L - pos + 1) /\ Len(new) = L - pos + 1
          /\ new[1].segment = index[pos].segment
          /\ DOMAIN new[1].checkpoints = 1..(Len(cut) - n)
          /\ \A c \in 1..(Len(cut) - n) : new[1].checkpoints[c] = cut[n + c]
          /\ \A i \in 2..(L - pos + 1) : new[i] = index[pos + i - 1]
        BY <1>4, TruncatedShape
    <2>2. ASSUME NEW c \in DOMAIN cut, cut[c].id < first
          PROVE  c <= n
        <3>1. /\ cut \in Seq(Checkpoint)
              /\ \A d \in DOMAIN cut : cut[d].id \in Nat
            BY <1>1, <2>1, IndexTypes
        <3>2. \A d, e \in DOMAIN cut : d < e => cut[d].id < cut[e].id
            BY <1>1, <2>1 DEF IndexOrdered
        <3>3. first - 1 \in Int /\ cut[c].id <= first - 1
            BY <2>2, <3>1
        <3> HIDE DEF cut
        <3> QED
            BY <3>1, <3>2, <3>3, CheckpointCountLast
    <2> HIDE DEF pos, new, n, L
    <2>3. ASSUME NEW i \in DOMAIN new
          PROVE  /\ pos + i - 1 \in DOMAIN index
                 /\ new[i].segment = index[pos + i - 1].segment
                 /\ \A c \in DOMAIN new[i].checkpoints :
                        /\ c \in Nat /\ from(i) + c \in DOMAIN old(i)
                        /\ new[i].checkpoints[c] = old(i)[from(i) + c]
        <3>1. i \in 1..(L - pos + 1) /\ pos + i - 1 \in DOMAIN index
            BY <1>1, <2>1, <2>3
        <3>2. CASE i = 1
            <4>1. pos + i - 1 = pos /\ old(i) = cut /\ from(i) = n
                BY <1>1, <2>1, <3>2
            <4>2. DOMAIN cut = 1..Len(cut) /\ Len(cut) \in Nat
                BY <1>1, <2>1, IndexTypes
            <4> HIDE DEF old, from, cut
            <4>3. \A c \in 1..(Len(cut) - n) : c \in Nat /\ n + c \in DOMAIN cut
                BY <2>1, <4>2
            <4> QED
                BY <2>1, <3>1, <3>2, <4>1, <4>3
        <3>3. CASE i # 1
            <4>1. new[i] = index[pos + i - 1] /\ from(i) = 0
                BY <1>1, <2>1, <3>1, <3>3
            <4>2. DOMAIN old(i) = 1..Len(old(i)) /\ Len(old(i)) \in Nat
                BY <3>1, IndexTypes
            <4>3. \A c \in DOMAIN old(i) : c \in Nat /\ 0 + c = c
                BY <4>2
            <4> QED
                BY <3>1, <4>1, <4>3
        <3> QED
            BY <3>2, <3>3
    <2> HIDE DEF old, from
    <2>4. \A i \in DOMAIN new : i \in Nat /\ i >= 1 /\ from(i) \in Nat
        <3>1. n \in Nat
            BY <1>1, <2>1, IndexTypes
        <3> QED
            BY <1>1, <2>1, <3>1 DEF from
    <2>5. IndexOrdered(new)
        <3>1. ASSUME NEW i \in DOMAIN new, NEW c \in DOMAIN new[i].checkpoints,
                     NEW d \in DOMAIN new[i].checkpoints, c < d
              PROVE  new[i].checkpoints[c].id < new[i].checkpoints[d].id
            <4>1. from(i) + c < from(i) + d
                BY <2>3, <2>4, <3>1
            <4> QED
                BY <2>3, <3>1, <4>1 DEF IndexOrdered, old
        <3>2. ASSUME NEW i \in DOMAIN new, NEW j \in DOMAIN new, i < j,
                     NEW c \in DOMAIN new[i].checkpoints, NEW d \in DOMAIN new[j].checkpoints
              PROVE  new[i].checkpoints[c].id < new[j].checkpoints[d].id
            <4>1. pos + i - 1 < pos + j - 1
                BY <1>1, <2>1, <2>4, <3>2
            <4> QED
                BY <2>3, <3>2, <4>1 DEF IndexOrdered, old
        <3>3. ASSUME NEW i \in DOMAIN new, new[i].checkpoints = <<>>, i # 1
              PROVE  i = Len(new)
            <4>1. new[i] = index[pos + i - 1] /\ pos + i - 1 > 1
                BY <1>1, <2>1, <2>4, <3>3
            <4>2. pos + i - 1 = L
                BY <1>1, <2>3, <3>3, <4>1 DEF IndexOrdered, L
            <4> QED
                BY <1>1, <2>1, <2>4, <4>2
        <3> QED
            BY <3>1, <3>2, <3>3 DEF IndexOrdered
    <2>6. ASSUME NEW i \in DOMAIN new, NEW c \in DOMAIN new[i].checkpoints
          PROVE  new[i].checkpoints[c].id >= first
        <3>1. /\ c \in Nat /\ from(i) + c \in DOMAIN old(i)
              /\ new[i].checkpoints[c] = old(i)[from(i) + c]
              /\ pos + i - 1 \in DOMAIN index
            BY <2>3, <2>6
        <3>2. old(i)[from(i) + c].id \in Nat
            BY <3>1, IndexTypes DEF old
        <3>3. CASE i = 1
            <4>1. from(i) = n /\ old(i) = cut
                BY <1>1, <2>1, <3>3 DEF from, old
            <4>2. DOMAIN new[1].checkpoints = 1..(Len(cut) - n) /\ n \in Nat
                BY <1>1, <2>1, IndexTypes
            <4>3. c >= 1
                BY <2>6, <3>3, <4>2
            <4>4. ~(n + c <= n)
                BY <3>1, <4>2, <4>3
            <4> QED
                BY <2>2, <3>1, <3>2, <4>1, <4>4
        <3>4. CASE i # 1
            <4>1. new[i] = index[pos + i - 1] /\ pos + i - 1 > pos
                BY <1>1, <2>1, <2>4, <3>4
            <4> QED
                BY <1>2, <2>6, <3>1, <4>1
        <3> QED
            BY <3>3, <3>4
    <2> QED
        BY <2>3, <2>5, <2>6 DEF new, old
<1> QED
    BY <1>3, <1>4

-----------------------------------------------------------------------------
(***************************************************************************)
(* Concatenation of a list of lists.                                       *)
(***************************************************************************)
\* FlattenSeq is the value of a recursive function; there is one.
IsFlatten(seqs, n, f) ==
    f = [i \in 1..n |-> IF i = 1 THEN seqs[i] ELSE f[i - 1] \o seqs[i]]

LEMMA FlattenExists ==
    ASSUME NEW seqs, NEW n \in Nat
    PROVE  \E f : IsFlatten(seqs, n, f)
<1> DEFINE Bad == {k \in Nat : ~ \E f : IsFlatten(seqs, k, f)}
<1>1. SUFFICES ASSUME Bad # {} PROVE FALSE
    OBVIOUS
<1>2. PICK k \in Bad : \A j \in Bad : k <= j
    <2> HIDE DEF Bad
    <2>1. Bad \subseteq Nat
        BY DEF Bad
    <2> QED
        BY <1>1, <2>1, LeastNat
<1>3. k \in Nat /\ ~ \E f : IsFlatten(seqs, k, f)
    OBVIOUS
<1>4. CASE k = 0
    <2> DEFINE f == [i \in 1..k |-> <<>>]
    <2>1. \A i \in 1..k : FALSE
        BY <1>4
    <2>2. IsFlatten(seqs, k, f)
        BY <2>1, Zenon DEF IsFlatten
    <2> QED
        BY <1>3, <2>2
<1>5. CASE k # 0
    <2>1. k - 1 \in Nat /\ k - 1 \notin Bad
        BY <1>2, <1>3, <1>5
    <2>2. PICK f : IsFlatten(seqs, k - 1, f)
        BY <2>1
    <2> DEFINE g == [i \in 1..k |-> IF i = 1 THEN seqs[i] ELSE f[i - 1] \o seqs[i]]
    <2>3. ASSUME NEW i \in 1..(k - 1) PROVE g[i] = f[i]
        <3>1. i \in 1..k
            BY <1>3
        <3>2. g[i] = IF i = 1 THEN seqs[i] ELSE f[i - 1] \o seqs[i]
            BY <3>1, Zenon
        <3>3. \A h : f = [j \in 1..(k - 1) |-> IF j = 1 THEN seqs[j] ELSE h[j - 1] \o seqs[j]]
                        => f[i] = IF i = 1 THEN seqs[i] ELSE h[i - 1] \o seqs[i]
            BY Zenon
        <3> QED
            BY <2>2, <3>2, <3>3, Zenon DEF IsFlatten
    <2>4. ASSUME NEW i \in 1..k, i # 1 PROVE f[i - 1] = g[i - 1]
        <3>1. i - 1 \in 1..(k - 1)
            BY <1>3, <2>4
        <3> HIDE DEF g
        <3> QED
            BY <2>3, <3>1
    <2>5. IsFlatten(seqs, k, g)
        BY <2>4, Zenon DEF IsFlatten
    <2> QED
        BY <1>3, <2>5
<1> QED
    BY <1>3, <1>4, <1>5

\* What FlattenSeq returns, part by part.
LEMMA FlattenRounds ==
    ASSUME NEW seqs, NEW n \in Nat \ {0}, Len(seqs) = n
    PROVE  \E f : /\ FlattenSeq(seqs) = f[n] /\ f[1] = seqs[1]
                  /\ \A i \in 2..n : f[i] = f[i - 1] \o seqs[i]
<1> DEFINE f == CHOOSE f : IsFlatten(seqs, n, f)
<1>1. IsFlatten(seqs, n, f)
    BY FlattenExists, Zenon
<1>2. FlattenSeq(seqs) = f[n]
    <2>1. Len(seqs) # 0
        OBVIOUS
    <2> QED
        BY <2>1, Zenon DEF FlattenSeq, IsFlatten
<1>3. ASSUME NEW i \in 1..n
      PROVE  f[i] = IF i = 1 THEN seqs[i] ELSE f[i - 1] \o seqs[i]
    <2>1. \A h : f = [j \in 1..n |-> IF j = 1 THEN seqs[j] ELSE h[j - 1] \o seqs[j]]
                    => f[i] = IF i = 1 THEN seqs[i] ELSE h[i - 1] \o seqs[i]
        BY Zenon
    <2> QED
        BY <1>1, <2>1, Zenon DEF IsFlatten
<1> HIDE DEF f
<1>4. 1 \in 1..n /\ \A i \in 2..n : i \in 1..n /\ i # 1
    OBVIOUS
<1> QED
    BY <1>2, <1>3, <1>4

=============================================================================
